------------------------ MODULE MCKeycloakAuthorizer -------------------------
EXTENDS KeycloakAuthorizer, TLC

CONSTANTS k1, j1, j2

\* A value of the cache is a decision, and a mistake is a denial.
ASSUME DecisionsAssumption == Values = BOOLEAN /\ Mistakes = {FALSE}

\* Two tokens of one user with one fingerprint.
Fingerprint == (j1 :> k1) @@ (j2 :> k1)

Symmetry == Permutations(Queries) \cup Permutations(Questions)
=============================================================================
