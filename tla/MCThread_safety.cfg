SPECIFICATION Spec
CONSTANTS
  Runs = {r1, r2}
  Deletes = {d1}
  Cleaners = {c1, c2}
  MaxSweeps = 1
  MaxLosses = 1
  MaxCrashes = 1
  MaxFaults = 1
INVARIANTS TypeOK RunsExclude
PROPERTY OnlyLateRowsLeaveObjects
SYMMETRY ActorSymmetry
CHECK_DEADLOCK FALSE
