----------------------------- MODULE MCPgMemories -----------------------------
(***************************************************************************)
(* PgMemories for TLC.                                                     *)
(***************************************************************************)
EXTENDS PgMemories, TLC

Symmetry == Permutations(Txs) \cup Permutations(Contents) \cup Permutations(Profiles)
=============================================================================
