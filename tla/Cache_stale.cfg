CONSTANTS
  Requests = {r1}
  Keys = {k1}
  Elems = {e1, e2}
  None = None
  MaxSize = 4
  MaxCount = 1
  TTL = 0
  StaleDuration = 2
  MaxTime = 1
  Statuses = {"ok"}
SPECIFICATION Spec
PROPERTY StaleIsRefreshed
