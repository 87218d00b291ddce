SPECIFICATION FairSpec
CONSTANTS
  Requests = {r1, r2, r3}
  Ids = {i1}
  Pages = {p1}
  Owners = {o1}
  TTL = 1
  MaxInstances = 1
  MaxTime = 0
  None = None
INVARIANTS Serialized
PROPERTIES AdmittedEventEnds
