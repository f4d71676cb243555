SPECIFICATION LifecycleFairSpec
CONSTANTS
  Thread = {t1, t2}
  NoThread = NoThread
  AutoReconnect = TRUE
  MinDelay = 1
  MaxDelay = 3
  MaxAttempts = NoLimit
  NoLimit = NoLimit
  MaxCounted = 4
  MaxPending = 1
INVARIANTS
  OneReconnectThread
  HandledInOneThread
  DisconnectIsAttended
PROPERTIES
  ThreadsEndAfterStop
  ConnectionGetsSubscribed
