CONSTANTS
  p = p
  a = a
  r1 = r1
  r2 = r2
  t1 = t1
  t2 = t2
  Accounts = {p, a}
  Primary = p
  Connected = {p, a}
  Leaving = {a}
  Crashing = {}
  Requests = {r1}
  Methods = {"start"}
  Threads = {t1, t2}
  Homes <- OneHome
  InboundCap = 2
  Mux = Mux
  NoAccount = NoAccount
  NoThread = NoThread
  NoRequest = NoRequest
SPECIFICATION Spec
CHECK_DEADLOCK FALSE
INVARIANT NoOwnerIsRemoved
