\* Two instances that start together, serve two requests and are stopped.
SPECIFICATION FairSpec
CONSTANTS
  i1 = i1
  i2 = i2
  q1 = q1
  q2 = q2
  None = None
  Instances = {i1, i2}
  Requests = {q1, q2}
INVARIANTS
  TypeOK
  FailsOnlyFromOutside
  ServesWithBucket
  CutHasCause
PROPERTY
  SignalStops
