CONSTANTS
  Contents = {v1, v2}
  Valid = {v1, v2}
  Callers = {}
  MayFail = FALSE
  MaxStarts = 2
  None = None
SPECIFICATION Spec
PROPERTY StartWatches
