\* Two devices that share the one session hash and follow the hints of the errors they get.
SPECIFICATION FairSpec
CONSTANTS
  d1 = d1
  d2 = d2
  Devices = {d1, d2}
  MaxFaults = 2
  SessionStore = "contract"
INVARIANTS
  TypeOK
  LoginHasCause
PROPERTIES
  FlowAdvances
  FlowEnds
