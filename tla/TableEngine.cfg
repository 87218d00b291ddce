SPECIFICATION Spec
CONSTANTS
  Tables = {1, 2}
  Columns = {"c", "d"}
  Actions = {"a", "b"}
  Kinds = {"toolbar", "row", "selected"}
  Events = {"reload", "filter"}
  Nil = Nil
  MaxCalls = 4
INVARIANTS TypeOK OwnHandlerRuns RouteHasTheElementsGroup NothingLost EventsOffered
CHECK_DEADLOCK FALSE
