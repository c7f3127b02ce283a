SPECIFICATION Spec
CONSTANTS
  Runs = {r1, r2}
  Deletes = {d1}
  Cleaners = {c1, c2}
  MaxSweeps = 0
  MaxLosses = 1
  MaxCrashes = 1
  MaxFaults = 1
PROPERTIES DeleteCompletes BusyEnds
CHECK_DEADLOCK FALSE
