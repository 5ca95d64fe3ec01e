CONSTANTS
  known = known
  custom = custom
  Configs <- SomeConfigs
  Projects = {"projects.p", "projects.c"}
  Logins = {"me"}
  Requests <- SomeRequests
  OfficialProviders = {known}
  OfficialUrls = {known}
  NoValue = NoValue
  NoLogin = NoLogin
  MaxHomes = 2
  MaxEdits = 1
  MaxTrusted = 1
  MaxFaults = 1
SPECIFICATION Spec
CHECK_DEADLOCK FALSE
INVARIANTS
  TypeOK
  LaneIsPoolWide
  SecretsStayLocal
  TrustLostOnlyInOverlap
  ImportsAreDistinct
PROPERTIES
  EditsReachEveryHome
