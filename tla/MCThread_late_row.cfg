SPECIFICATION Spec
CONSTANTS
  Runs = {r1}
  Deletes = {d1}
  Cleaners = {c1}
  MaxSweeps = 0
  MaxLosses = 0
  MaxCrashes = 0
  MaxFaults = 0
PROPERTY NoRowBeforeItsObject
CHECK_DEADLOCK FALSE
