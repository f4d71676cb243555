SPECIFICATION MCSpec
CONSTANTS
  Message <- OneFrame
  NoSeq = NoSeq
  None = None
  MaxSeen = 10
  MaxAlerts = 2
  MaxRows = 9
  MaxDeliveries = 2
  MaxWaiting = 2
  MaxWriteFailures = 0
INVARIANTS
  EveryAlarmHasItsPoint
CHECK_DEADLOCK FALSE
