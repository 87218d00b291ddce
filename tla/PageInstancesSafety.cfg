SPECIFICATION Spec
CONSTANTS
  Requests = {r1, r2}
  Ids = {i1, i2}
  Pages = {p1}
  Owners = {o1, o2}
  TTL = 1
  MaxInstances = 1
  MaxTime = 3
  None = None
SYMMETRY Symmetry
INVARIANTS TypeOK LimitRespected MutexHeldByHandlers OnlyOwnerAdmitted
PROPERTIES NoResurrection ClosedByOwnerOrIdle FullOnlyWhenBusy OwnLiveInstanceServed ImplementsLifecycle
