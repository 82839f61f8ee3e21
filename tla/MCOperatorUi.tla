---------------------------- MODULE MCOperatorUi ----------------------------
(***************************************************************************)
(* OperatorUi with one memory and one context; the draft texts are         *)
(* interchangeable.                                                        *)
(***************************************************************************)
EXTENDS OperatorUi, TLC

Symmetry == Permutations(Texts)
=============================================================================
