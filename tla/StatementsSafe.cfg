SPECIFICATION Spec
CONSTANTS
  Callers = {c1, c2}
  Oids <- MCOids
  Kind <- MCKind
  Parts <- MCParts
  Columns <- MCColumns
  TypedColumns <- NoColumns
  MaxCalls = 2
  MaxFaults = 2
  MaxRest = 3
  ChanCap = 2
SYMMETRY MCSymmetry
INVARIANTS
  RunFindsStatement
  NamesAccounted
  FullIsBeingRead
CHECK_DEADLOCK FALSE
