SPECIFICATION Spec
CONSTANTS
  Nodes = {"page", "control", "group", "inner"}
  Root = "page"
  Parent <- Tree
  Groups = {"g", "h"}
  Typed = {"control", "inner"}
  Behaviors = {"remove", "readonly", "hidden"}
  MaxChanges = 1
  Nil = Nil
INVARIANTS DeliveredForOneAnswer
CHECK_DEADLOCK FALSE
