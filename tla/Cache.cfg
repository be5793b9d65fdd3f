CONSTANTS
  Requests = {r1, r2}
  Keys = {k1, k2, k3, k4}
  Elems = {e1, e2, e3, e4, e5}
  None = None
  MaxSize = 5
  MaxCount = 3
  TTL = 0
  StaleDuration = 2
  MaxTime = 2
  Statuses = {"ok", "nostore", "large", "other", "error"}
  KeysAtOnce = 1
SPECIFICATION MCSpec
CONSTRAINT Bounded
SYMMETRY Symmetry
INVARIANTS ShardConsistent HitsMayBeServed
PROPERTIES ShardImplementsContract ShardEvictsLeastRecent
