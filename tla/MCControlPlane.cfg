CONSTANTS
  sub = sub
  get = get
  post = post
  again = again
  Accounts = {sub}
  Fetches = {get}
  Redemptions = {post, again}
  PreviewCounts = {2}
  NoCount = NoCount
  NoEntry = NoEntry
  NoAccount = NoAccount
  StreamCap = 1
  MaxVersion = 2
  MaxFaults = 1
  MaxNotices = 2
  MaxActivity = 2
SPECIFICATION Spec
CHECK_DEADLOCK FALSE
INVARIANTS
  TypeOK
  StaleOnlyFromOverlap
  PreviewLostOnlyInRace
PROPERTIES
  MenuConverges
  DialogCloses
