SPECIFICATION FairSpec
CONSTANTS
  Verifiers = {v1, v2}
  Kids = {k1, k2}
  TTL = 1
  Timeout = 0
  MaxTime = 1
PROPERTIES KeyRecentlyPublished RotationHeals
