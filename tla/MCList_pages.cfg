SPECIFICATION Spec
CONSTANTS
  Threads = {1, 2, 3}
  PageSize = 2
  Clients = {c1}
  MaxChanges = 2
INVARIANTS TypeOK WalkShowsAllOnce
PROPERTY ListsCatchUp
CHECK_DEADLOCK FALSE
