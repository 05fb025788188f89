\* Every route, two requests, time for tokens and sessions to expire.
SPECIFICATION FairSpec
CONSTANTS
  r1 = r1
  r2 = r2
  r3 = r3
  None = None
  Malformed = Malformed
  Deleted = Deleted
  Jtis = {r1, r2}
  Users = {1, 2, 3}
  Second = 1
  AccessTTL = 1
  RefreshTTL = 2
  SevenDays = 2
  MaxTime = 3
  Routes <- AllRoutes
  Spellings <- ThreeSpellings
  Lower <- LowerThree
  Unparsable = {"odd"}
  Passwords <- OnePassword
  First72 <- FirstOne
  InitUsers <- OneVerified
  SessionStore = "contract"
  Faults = TRUE
PROPERTY
  EveryRequestAnswered
  ImplementsDirectory
  SessionsOnlyEnd
  HandlersAdvance
