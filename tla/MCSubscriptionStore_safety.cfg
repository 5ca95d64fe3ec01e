CONSTANTS
  p = p
  a = a
  b = b
  t1 = t1
  t2 = t2
  Accounts = {p, a, b}
  Primary = p
  Threads = {t1}
  NoAccount = NoAccount
  NoState = NoState
  MaxFailures = 1
  MaxCrashes = 1
SPECIFICATION Spec
SYMMETRY Symmetry
INVARIANTS
  Inv
  RemovalIsFinal
PROPERTIES
  AccountLeavesWithItsChats
  ImplementsDurableStore
