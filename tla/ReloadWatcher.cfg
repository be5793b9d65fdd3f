CONSTANTS
  Contents = {v1, v2, v3}
  Valid = {v1, v2}
  Callers = {c1}
  MayFail = TRUE
  MaxStarts = 2
  None = None
SPECIFICATION Spec
INVARIANTS CurrentIsApplied OnlyValid
PROPERTY FileIsApplied
