SPECIFICATION Spec
CONSTANTS
  MaxRequests = 2
  MaxChunks = 4
  MaxAsync = 2
  ChanCap = 2
  WriteCap = 2
  SocketCap = 1
  CopyRejects = FALSE
INVARIANTS
  IndInv
  GapFree
PROPERTIES
  AsyncInOrder
