------------------------- MODULE MCProviderRecovery -------------------------
EXTENDS ProviderRecovery, TLC

\* Memories are interchangeable but for the provider's rejection of some.
Symmetry == Permutations(Mems \ Rejectable) \cup Permutations(Rejectable)
=============================================================================
