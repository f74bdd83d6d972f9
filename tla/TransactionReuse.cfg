SPECIFICATION Spec
CONSTANTS
  MaxRequests = 8
  MaxHandles = 3
  MaxWrites = 2
  UserNames = {11}
  ReuseNames = TRUE
INVARIANTS
  RollbackDiscards
CHECK_DEADLOCK FALSE
