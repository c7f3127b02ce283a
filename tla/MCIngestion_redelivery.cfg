SPECIFICATION Spec
CONSTANTS
  Workers = {w1, w2}
  MaxBatches = 1
  MaxRetries = 2
  MaxLosses = 1
  MaxKills = 1
  MaxFaults = 1
INVARIANTS TypeOK NoBatchLost CopiesBounded DoneMeansIndexed
PROPERTY EveryBatchSettles
CHECK_DEADLOCK FALSE
