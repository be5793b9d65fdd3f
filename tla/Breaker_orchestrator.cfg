CONSTANTS
  Requests = {r1, r2}
  FailureThreshold = 2
  SuccessThreshold = 2
  HalfOpenMaxRequests = 0
  MaxPanics = 0
SPECIFICATION Spec
PROPERTY HalfOpenResolves
