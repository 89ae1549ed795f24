---------------------------- MODULE MCEventSync ----------------------------
EXTENDS EventSync, TLC

Symmetry == Permutations(Pass) \cup Permutations(Trade)
=============================================================================
