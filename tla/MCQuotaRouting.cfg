CONSTANTS
  p = p
  a = a
  b = b
  Accounts = {p, a, b}
  Primary = p
  CreatedAt <- Ages
  Profiles <- SomeProfiles
  Counts = {0, 5}
  PreviewResets = {90}
  Tolerance = 2
  ShareTolerance = 5
  NoWindow = NoWindow
  NoTime = NoTime
  NoCount = NoCount
  NoAccount = NoAccount
SPECIFICATION Spec
CHECK_DEADLOCK FALSE
INVARIANTS
  Inv
  KnownCapacityFirst
  CloseTiesCostLittle
  ArrivalOrderIsIrrelevant
