----------------------------- MODULE MCPgContexts -----------------------------
(***************************************************************************)
(* PgContexts for TLC.  The CHOOSE of Absent and Idle picks values no step *)
(* reads, so permuting contexts, principals and keys maps behaviours to    *)
(* behaviours.                                                             *)
(***************************************************************************)
EXTENDS PgContexts, TLC

Symmetry ==
    Permutations(Txs) \cup Permutations(Ctxs) \cup Permutations(Principals) \cup Permutations(Keys)
=============================================================================
