SPECIFICATION Spec
CONSTANTS
  MaxRequests = 2
  MaxChunks = 1
  MaxAsync = 0
  ChanCap = 1
  WriteCap = 1
  SocketCap = 1
  CopyRejects = TRUE
INVARIANTS
  ResolvesWhenDone
