CONSTANTS
  p = p
  a = a
  b = b
  Accounts = {p, a, b}
  Initial = {p}
  Fragile = {p, a, b}
SPECIFICATION FairSpec
CHECK_DEADLOCK FALSE
INVARIANTS
  Inv
  InitialChildInOrder
  NotifiedTwiceOnlyInOverlap
PROPERTY
  EveryChildIsNotified
