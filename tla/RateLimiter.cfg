CONSTANTS
  Threads = {t1, t2}
  Buckets = {b1, b2, b3}
  Burst = 3
  Rate = 2
  Cost = 2
  MaxAge = 2
  MaxTime = 3
  None = None
SPECIFICATION Spec
INVARIANTS TypeOK RetriesAreProgress
PROPERTIES ExactWhenAlone
