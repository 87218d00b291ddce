SPECIFICATION Spec
CONSTANTS
  Controls = {"a", "b"}
  Types = {"button", "text"}
  KeyOrder <- SortedKeys
  Literals <- SampleForms
  OwnInputs <- GuardedInputs
  MaxFields = 2
  MaxActions = 2
  MaxHandles = 1
  None = None
  Groups = {"g"}
INVARIANTS TypeOK BoundActionsHandled BoundOnce ListenersReachable TriggerRunsItsListener AccessInForce
CHECK_DEADLOCK FALSE
