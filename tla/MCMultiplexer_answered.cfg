CONSTANTS
  p = p
  a = a
  r1 = r1
  r2 = r2
  t1 = t1
  t2 = t2
  Accounts = {p, a}
  Primary = p
  Connected = {p}
  Leaving = {a}
  Crashing = {a}
  Requests = {r1, r2}
  Methods = {"start", "turn", "list", "limits"}
  Threads = {t1, t2}
  Homes <- OneHome
  InboundCap = 1
  Mux = Mux
  NoAccount = NoAccount
  NoThread = NoThread
  NoRequest = NoRequest
SPECIFICATION FairSpec
CHECK_DEADLOCK FALSE
PROPERTY EveryRequestAnswered
