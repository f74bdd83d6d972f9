SPECIFICATION Spec
CONSTANTS
  MaxRequests = 3
  MaxChunks = 2
  MaxAsync = 0
  ChanCap = 1
  WriteCap = 1
  SocketCap = 1
  CopyRejects = FALSE
INVARIANTS
  TypeOK
  Routing
  CopyExclusive
  ClosedMeansResolved
  ResolvesWhenDone
PROPERTIES
  ImplementsPipeline
