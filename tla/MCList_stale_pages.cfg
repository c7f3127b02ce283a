SPECIFICATION Spec
CONSTANTS
  Threads = {1, 2, 3}
  PageSize = 2
  Clients = {c1}
  MaxChanges = 2
PROPERTY MutationClearsPages
CHECK_DEADLOCK FALSE
