CONSTANTS
  p = p
  a = a
  b = b
  t1 = t1
  t2 = t2
  Accounts = {p, a}
  Primary = p
  Threads = {t1}
  NoAccount = NoAccount
  NoState = NoState
  MaxFailures = 0
  MaxCrashes = 0
SPECIFICATION Spec
INVARIANT RemovedHomeIsGone
