--------------------------- MODULE MCGovernedWrites ---------------------------
(***************************************************************************)
(* GovernedWrites for TLC.                                                 *)
(***************************************************************************)
EXTENDS GovernedWrites, TLC

CONSTANTS k1, k2

\* The two keys are spelled alike.
MCSimilar == {<<k1, k2>>, <<k2, k1>>}

\* The owner and the key that Absent and NoMemory choose are never read, so the
\* permutations are symmetries although CHOOSE is not.
Symmetry == Permutations(Ctxs) \cup Permutations(Mems) \cup Permutations(Reqs) \cup Permutations(Principals)
                \cup Permutations(Keys)
=============================================================================
