--------------------------- MODULE MCPageInstances ---------------------------
EXTENDS PageInstances, TLC

Symmetry == Permutations(Requests) \cup Permutations(Ids) \cup Permutations(Owners)
=============================================================================
