CONSTANTS
  Threads = {t1, t2}
  Buckets = {b1}
  Burst = 2
  Rate = 1
  Cost = 1
  MaxAge = 3
  MaxTime = 2
  None = None
SPECIFICATION MCSpec
INVARIANT NoOverAdmission
