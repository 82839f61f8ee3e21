--------------------------- MODULE MCEmbedPipeline ---------------------------
EXTENDS EmbedPipeline, TLC

\* Identifiers, texts, vector spaces, processes and slots are interchangeable.
Symmetry == Permutations(Contents) \cup Permutations(Slots) \cup Permutations(Procs)
                \cup Permutations(Ids) \cup Permutations(Profiles)
=============================================================================
