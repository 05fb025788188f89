\* A verification on the deployed schema.
SPECIFICATION Spec
CONSTANTS
  r1 = r1
  r2 = r2
  r3 = r3
  None = None
  Malformed = Malformed
  Deleted = Deleted
  Jtis = {r1, r2, r3}
  Users = {1, 2}
  Second = 1
  AccessTTL = 1
  RefreshTTL = 2
  SevenDays = 2
  MaxTime = 2
  Routes <- VerifyRoutes
  Spellings <- TwoPeople
  Lower <- LowerPeople
  Unparsable = {}
  Passwords <- OnePassword
  First72 <- FirstOne
  InitUsers <- NoUsers
  SessionStore = "postgres"
  Faults = FALSE
PROPERTY
  VerifyAcceptsMailedToken
