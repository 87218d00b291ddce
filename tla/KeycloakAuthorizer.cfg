SPECIFICATION UMASpec
CONSTANTS
  Queries = {q1, q2}
  Questions = {j1, j2}
  Keys = {k1}
  CacheKey <- Fingerprint
  k1 = k1
  j1 = j1
  j2 = j2
  Values = {TRUE, FALSE}
  Mistakes = {FALSE}
  TTL = 1
  MaxTime = 1
  None = None
SYMMETRY Symmetry
PROPERTIES BoundedStaleness
