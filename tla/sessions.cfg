\* Sessions of two people, one of them not verified yet, over a store that keeps its contract.
SPECIFICATION Spec
CONSTANTS
  r1 = r1
  r2 = r2
  r3 = r3
  None = None
  Malformed = Malformed
  Deleted = Deleted
  Jtis = {r1, r2, r3}
  Users = {1, 2}
  Second = 2
  AccessTTL = 2
  RefreshTTL = 2
  SevenDays = 2
  MaxTime = 2
  Routes <- SessionRoutes
  Spellings <- TwoPeople
  Lower <- LowerPeople
  Unparsable = {}
  Passwords <- OnePassword
  First72 <- FirstOne
  InitUsers <- TwoAccounts
  SessionStore = "contract"
  Faults = TRUE
SYMMETRY RequestSymmetry
INVARIANTS
  VerifiedBeforeTokens
  SessionBacksToken
  NoOrphanSession
  SpentTokenIsRevoked
  RevocationHasCause
  SessionsRooted
  RefreshMeetsVerified
