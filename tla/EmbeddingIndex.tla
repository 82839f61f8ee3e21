--------------------------- MODULE EmbeddingIndex ---------------------------
(***************************************************************************)
(* What LocalHold promises about stored vectors, with no claims, tasks,    *)
(* processes or revisions: a memory is either unindexed or indexed by the  *)
(* vector of the content it has now, computed in the one vector space the  *)
(* store records.  EmbedPipeline (SQLite, a step for each transaction) and *)
(* PgMemories (PostgreSQL, a step for each statement) are shown to         *)
(* implement this specification.                                           *)
(***************************************************************************)
CONSTANTS Ids,        \* memory identifiers
          Contents,   \* memory texts
          Profiles,   \* vector spaces (provider, endpoint, model, dimensions)
          Absent,     \* the memory does not exist
          NoVector,   \* the memory has no vector
          NoProfile   \* the store records no vector space yet

VARIABLES content,    \* content[i]: the text of memory i, or Absent
          index,      \* index[i]: the vector of memory i, or NoVector
          space       \* the vector space the store records

vars == <<content, index, space>>

Init ==
    /\ content = [i \in Ids |-> Absent]
    /\ index = [i \in Ids |-> NoVector]
    /\ space = NoProfile

\* New or replaced texts lose their vectors in the step that writes them.
Write(S, f) ==
    /\ content' = [i \in Ids |-> IF i \in S THEN f[i] ELSE content[i]]
    /\ index' = [i \in Ids |-> IF i \in S THEN NoVector ELSE index[i]]
    /\ UNCHANGED space

Remove(S) ==
    /\ content' = [i \in Ids |-> IF i \in S THEN Absent ELSE content[i]]
    /\ index' = [i \in Ids |-> IF i \in S THEN NoVector ELSE index[i]]
    /\ UNCHANGED space

\* A memory is only ever indexed by its present text in the present space.
Index(i) ==
    /\ content[i] # Absent
    /\ space # NoProfile
    /\ index' = [index EXCEPT ![i] = [content |-> content[i], profile |-> space]]
    /\ UNCHANGED <<content, space>>

\* A text may be replaced together with its vector.
Replace(i, c) ==
    /\ content[i] # Absent
    /\ space # NoProfile
    /\ content' = [content EXCEPT ![i] = c]
    /\ index' = [index EXCEPT ![i] = [content |-> c, profile |-> space]]
    /\ UNCHANGED space

\* The first vector space is adopted only while nothing is indexed.
Adopt(pr) ==
    /\ space = NoProfile
    /\ \A i \in Ids : index[i] = NoVector
    /\ space' = pr
    /\ UNCHANGED <<content, index>>

\* A different space is recorded only by dropping every vector.
Rebuild(pr) ==
    /\ index' = [i \in Ids |-> NoVector]
    /\ space' = pr
    /\ UNCHANGED content

Next ==
    \/ \E S \in SUBSET Ids : \E f \in [S -> Contents] : Write(S, f)
    \/ \E S \in SUBSET Ids : Remove(S)
    \/ \E i \in Ids : Index(i) \/ \E c \in Contents : Replace(i, c)
    \/ \E pr \in Profiles : Adopt(pr) \/ Rebuild(pr)

Spec == Init /\ [][Next]_vars
=============================================================================
