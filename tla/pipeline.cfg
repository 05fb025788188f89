\* Two requests that share one connection.
SPECIFICATION FairSpec
CONSTANTS
  r1 = r1
  r2 = r2
  Requests = {r1, r2}
  MaxOpenConns = 1
  MaxStatements = 2
  Env = "development"
  Paths = {"healthz", "protected", "css", "swagger", "unmatched"}
INVARIANTS
  TypeOK
  AnswersOnce
  OneTrace
  CauseLogged
PROPERTIES
  RequestsAdvance
  ProbeEnds
  RequestsEnd
