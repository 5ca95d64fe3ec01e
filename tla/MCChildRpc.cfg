CONSTANTS
  c1 = c1
  c2 = c2
  c3 = c3
  Callers = {c1, c2, c3}
  Deadlined = {c1, c2}
SPECIFICATION FairSpec
CHECK_DEADLOCK FALSE
INVARIANTS
  Inv
  SendersNeverBlock
  WaitingCallHasWaker
PROPERTY
  CallReturns
