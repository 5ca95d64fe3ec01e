CONSTANTS
  p = p
  a = a
  r1 = r1
  r2 = r2
  t1 = t1
  t2 = t2
  Accounts = {p, a}
  Primary = p
  Connected = {p, a}
  Leaving = {a}
  Crashing = {a}
  Requests = {r1, r2}
  Methods = {"start", "fork", "resume", "turn", "list", "plain", "scoped", "limits"}
  Threads = {t1, t2}
  Homes <- SharedChat
  InboundCap = 2
  Mux = Mux
  NoAccount = NoAccount
  NoThread = NoThread
  NoRequest = NoRequest
SPECIFICATION Spec
SYMMETRY RequestSymmetry
CHECK_DEADLOCK FALSE
INVARIANTS
  AnsweredAtMostOnce
  FollowUpReachesHome
  IndInv
PROPERTIES
  OwnerIsSticky
  ImplementsPooledSession
