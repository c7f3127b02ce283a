SPECIFICATION Spec
CONSTANTS
  Workers = {w1, w2}
  MaxBatches = 2
  MaxRetries = 1
  MaxLosses = 0
  MaxKills = 1
  MaxFaults = 1
INVARIANTS CompletedMeansAllIndexed CountersMatchRows
PROPERTIES ImplementsReindexJob AllDoneCompletes
CHECK_DEADLOCK FALSE
