SPECIFICATION Spec
CONSTANTS
  Callers = {c1}
  Ids = {i1}
  Keys = {k1}
  Handlers = {h1}
  NameOf <- Named
  MaxShown = 2
  None = None
SYMMETRY Symmetry
PROPERTIES DialogEffectsReported
