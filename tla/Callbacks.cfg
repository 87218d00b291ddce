SPECIFICATION Spec
CONSTANTS
  Callers = {c1, c2}
  Ids = {i1, i2}
  Keys = {k1}
  Handlers = {h1}
  NameOf <- Named
  MaxShown = 2
  None = None
SYMMETRY Symmetry
INVARIANTS TypeOK RightHandler AnsweredOnce PageSerialized NoHandlerLost
