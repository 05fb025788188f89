\* Accounts from an empty table: registration, verification, login, profile.
SPECIFICATION Spec
CONSTANTS
  r1 = r1
  r2 = r2
  r3 = r3
  Jtis = {r1, r2, r3}
  Users = {1, 2, 3}
  None = None
  Malformed = Malformed
  Deleted = Deleted
  Second = 1
  AccessTTL = 1
  RefreshTTL = 2
  SevenDays = 2
  MaxTime = 1
  Routes <- AccountRoutes
  Spellings <- TwoSpellings
  Lower <- LowerTwo
  Unparsable = {}
  Passwords <- MCPasswords
  First72 <- MCFirst72
  InitUsers <- NoUsers
  SessionStore = "postgres"
  Faults = TRUE
SYMMETRY RequestSymmetry
INVARIANTS
  TypeOK
  UniqueEmail
  RegisteredAccountStands
  VerdictNeedsPassword
  AccountsHaveCause
