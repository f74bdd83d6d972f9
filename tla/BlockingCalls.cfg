SPECIFICATION FairSpec
CONSTANTS
  MaxRequests = 2
  MaxParts = 2
  MaxNotes = 2
  ChanCap = 1
INVARIANTS
  NotificationsKept
  OwnAnswer
PROPERTIES
  CallsReturn
  NotificationWakes
CHECK_DEADLOCK FALSE
