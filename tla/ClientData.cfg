SPECIFICATION Spec
CONSTANTS
  MaxRows = 2
  MaxTexts = 2
  Limit = 4
  Columns = 2
  MaxWrites = 3
  MaxCopyRows = 3
  MaxChunk = 2
  MaxAgain = 2
  MaxItems = 2
  MaxStream = 3
  MaxCount = 1
  MaxLen = 12
  MaxCalls = 3
  Iterations = {0, 1, 2}
  MaxFaults = 2
INVARIANTS
  
  
  NoFalseAlarm
  WrittenArrives
  OnlyWholeRows
  ReadAsSent
  MessagesArrive
  BatchesOfOneRequest
  Agreement
  ReadAsWritten
  
  NothingMadeUp
CHECK_DEADLOCK FALSE
