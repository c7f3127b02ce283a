SPECIFICATION Spec
CONSTANTS
  Workers = {w1, w2}
  MaxBatches = 2
  MaxRetries = 0
  MaxLosses = 0
  MaxKills = 0
  MaxFaults = 0
INVARIANT LastBatchConcludes
CHECK_DEADLOCK FALSE
