SPECIFICATION Spec
CONSTANTS
  Requests = {r1, r2}
  Ids = {i1}
  Pages = {p1}
  Owners = {o1, o2}
  TTL = 1
  MaxInstances = 1
  MaxTime = 2
  None = None
SYMMETRY Symmetry
PROPERTIES ForeignEventHidden
