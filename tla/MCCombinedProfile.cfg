CONSTANTS
  p = p
  a = a
  b = b
  Subscriptions = {p, a, b}
  Primary = p
  Profiles <- SomeProfiles
  Today = 8
  Everyone = Everyone
  NoProfile = NoProfile
SPECIFICATION PageSpec
CHECK_DEADLOCK FALSE
INVARIANTS
  ActivityAddsUp
  IdentityIsControllers
  StreaksMatchCalendar
