SPECIFICATION Spec
CONSTANTS
  MaxRequests = 7
  MaxHandles = 3
  MaxWrites = 3
  UserNames = {11}
  ReuseNames = FALSE
INVARIANTS
  RollbackDiscards
  QuietIsIdle
  CommitKeeps
PROPERTIES
  AllOrNothing
  InItsPlace
CHECK_DEADLOCK FALSE
