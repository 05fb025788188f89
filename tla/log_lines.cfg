\* What main.go says of the log's lines; in production, where the documentation is not served.
SPECIFICATION Spec
CONSTANTS
  r1 = r1
  r2 = r2
  Requests = {r1, r2}
  MaxOpenConns = 1
  MaxStatements = 1
  Env = "Production"
  Paths = {"healthz", "api", "css", "swagger"}
SYMMETRY RequestSymmetry
INVARIANT EveryLineCarriesRequestID
