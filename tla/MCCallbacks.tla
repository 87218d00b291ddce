----------------------------- MODULE MCCallbacks -----------------------------
EXTENDS Callbacks, TLC

\* The functions have names of their own.
Named == [h \in Handlers |-> h]

Symmetry == Permutations(Callers) \cup Permutations(Ids) \cup Permutations(Handlers)
=============================================================================
