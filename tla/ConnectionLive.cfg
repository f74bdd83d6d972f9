SPECIFICATION FairSpec
CONSTANTS
  MaxRequests = 2
  MaxChunks = 2
  MaxAsync = 0
  ChanCap = 1
  WriteCap = 2
  SocketCap = 1
  CopyRejects = TRUE
PROPERTIES
  Settles
  CloseCompletes
