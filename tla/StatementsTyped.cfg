SPECIFICATION FairSpec
CONSTANTS
  Callers = {c1}
  Oids <- MCOids
  Kind <- MCKind
  Parts <- MCParts
  Columns <- MCColumns
  TypedColumns <- MCColumns
  MaxCalls = 1
  MaxFaults = 0
  MaxRest = 3
  ChanCap = 2
PROPERTY
  Settles
CHECK_DEADLOCK FALSE
