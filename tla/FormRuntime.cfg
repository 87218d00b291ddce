SPECIFICATION RuntimeSpec
CONSTANTS
  Ids = {"a", "b"}
  InputTypes = {"text", "select"}
  Labels = {"old", "new"}
  Forms <- SmallForms
  Addable <- NewInput
  MaxEvents = 2
  MaxCalls = 3
INVARIANTS ClientShowsTheDsl
CHECK_DEADLOCK FALSE
