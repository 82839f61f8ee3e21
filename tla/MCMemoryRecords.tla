--------------------------- MODULE MCMemoryRecords ---------------------------
(***************************************************************************)
(* MemoryRecords for TLC.                                                  *)
(***************************************************************************)
EXTENDS MemoryRecords, TLC

CONSTANTS p1, p2, b1, b2, a1, c1, c2

\* p1's memories: p2 reads them and may not write them.
Public == [type |-> "public", allowed |-> {}]
MCPolicies == {Public}
MCDrafts == {[owner |-> p1, policy |-> Public, body |-> b1, profile |-> c1, ttl |-> "pending"]}

\* One update of each kind of field, and the empty one.
NoChange == [body |-> Keep, attrs |-> Keep, policy |-> Keep, ttl |-> Keep, profile |-> Keep]
MCUpdates ==
    {NoChange,
     [NoChange EXCEPT !.body = b2],
     [NoChange EXCEPT !.attrs = a1],
     [NoChange EXCEPT !.profile = c2]}

Symmetry == Permutations(Ids) \cup Permutations(Editors) \cup Permutations(Consolidators)
=============================================================================
