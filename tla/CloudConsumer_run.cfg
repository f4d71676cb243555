SPECIFICATION MCSpec
CONSTANTS
  Message <- AllSent
  NoSeq = NoSeq
  None = None
  MaxSeen = 2
  MaxAlerts = 2
  MaxRows = 9
  MaxDeliveries = 4
  MaxWaiting = 2
  MaxWriteFailures = 1
INVARIANTS
  DuplicatesRecognisedInWindow
  LatestAlertsAreAnswered
  WritersAgree
  DeviceRowIsTheNewest
  SummaryMatchesHistory
PROPERTIES
  EveryMessageIsAnswered
CHECK_DEADLOCK FALSE
