SPECIFICATION Spec
CONSTANTS
  Configs <- MCHostLists
  MaxAddrs = 1
  MaxNotices = 1
INVARIANTS
  NoticesReturned
