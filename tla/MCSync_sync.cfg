SPECIFICATION Spec
CONSTANTS
  Products = {p1}
  Workers = {w1, w2}
  Indexers = {i1}
  Bodies = {"full", "bare", "empty"}
  MaxRetries = 1
  MaxChanges = 2
  MaxBatches = 1
  MaxLosses = 1
  MaxFaults = 1
INVARIANTS TypeOK ChangesAccountedFor SettledMeansCurrent
PROPERTY EveryChangeSettles
CHECK_DEADLOCK FALSE
