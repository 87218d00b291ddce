SPECIFICATION MCSpec
CONSTANTS
  Keys = {"k", "l"}
  Codes = {"p", "g"}
  Elements = {"e", "f"}
  PermissionGroups <- SomePermissionGroups
  Torn = Torn
  Empty = Empty
  Releases <- SomeReleases
  FirstReleases <- SomeFirstReleases
  MaxReleases = 3
  MaxEdits = 2
  MaxFaults = 2
  Jobs = {j1, j2}
  Others = {"x"}
  Batches <- SomeBatches
  Publishers = {w1, w2}
  PageKeys = {"a", "b"}
  Attachments <- SomeAttachments
  Groups = {"p", "g"}
  RouteBatches <- SomeRouteBatches
  CleanPath <- SomeCleanPath
  Reserved = {"/page/a"}
  Conflicting <- SomeConflicting
  Unroutable = {"M-SEARCH /r"}
  PagePath <- SomePagePath
  MaxCalls = 6
  MaxBoots = 2
  Nil = Nil
  None = None
SYMMETRY Symmetry
INVARIANTS NothingForgotten GeneratedIsValid SyncedAsListed MenuIsWhole PublicationsAgree RoutesAsReported PanicExplained
PROPERTIES SyncSpares
CHECK_DEADLOCK FALSE
