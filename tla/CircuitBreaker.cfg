SPECIFICATION FairSpec
CONSTANTS
  r1 = r1
  r2 = r2
  Requests <- TwoRequests
  Retries = 1
  FailureThreshold = 2
  CircuitCooldown = 2
  CallersLeave = TRUE
INVARIANTS
  TypeOK
  ProbeInFlight
  ReplaysAreSafeAndBounded
  FailuresAreConsecutive
PROPERTIES
  OpensAtThreshold
  NeverCutOff
  Heals
