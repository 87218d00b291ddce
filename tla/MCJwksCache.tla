----------------------------- MODULE MCJwksCache -----------------------------
EXTENDS JwksCache, TLC

Symmetry == Permutations(Verifiers) \cup Permutations(Kids)
=============================================================================
