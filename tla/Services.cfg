CONSTANTS
  None = None
  Names = {n1, n2}
  Checkers = {c1, c2}
  Upstreams = {u1, u2}
  Sources = {s1, s2}
  Versions = {1, 2}
  MaxRegistrations = 2
  Sessions = {x1, x2}
  Broadcasts = {b1, b2}
  QueueSize = 1
  Requests = {r1, r2}
  Ids = {i1, i2}
  Capacity = 1
SPECIFICATION Spec
INVARIANTS HealthIsTruthful StreamsAreFaithful
PROPERTIES KeepsSpec ServicesGoOn
