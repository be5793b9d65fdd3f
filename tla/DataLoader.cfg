CONSTANTS
  Loads = {l1, l2, l3}
  MayCancel = {l1}
  MaxBatch = 2
  None = None
SPECIFICATION Spec
INVARIANTS TypeOK PendingWillBeTaken FullBatchIsLeaving SendsNeverBlock OwnValue
PROPERTIES ImplementsContract EveryLoadReturns
