--------------------------- MODULE MCHttpSessions ---------------------------
EXTENDS HttpSessions, TLC

\* Identifiers and handlers are interchangeable.
Symmetry == Permutations(Ids) \cup Permutations(Reqs)
=============================================================================
