\* One goroutine that stores and signs, and the clients that use its URLs.
SPECIFICATION Spec
CONSTANTS
  c1 = c1
  k1 = k1
  k2 = k2
  BadKey = BadKey
  None = None
  Callers = {c1}
  Keys = {k1, k2}
  Batches <- MCBatches
  Overrides <- MCOverrides
  TTLs <- MCTTLs
  DefaultTTL = 2
  MaxTime = 2
INVARIANTS
  TypeOK
  BatchWhole
  UploadsTyped
  UploadsInTime
