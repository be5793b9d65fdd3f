CONSTANTS
  Requests = {r1, r2, r3, r4}
  FailureThreshold = 5
  SuccessThreshold = 3
  HalfOpenMaxRequests = 3
  MaxPanics = 2
SPECIFICATION Spec
INVARIANTS TypeOK ProbesBounded CountersMatchState
PROPERTIES NoEarlyProbe Recovers HalfOpenResolves
