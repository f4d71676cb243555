SPECIFICATION FairSpec
CONSTANTS
  Socket = {s1, s2, s3}
  Message = {m1, m2}
  Nobody = Nobody
  MaxConnections = 2
INVARIANTS
  CapIsEnforced
  RegisteredAreOpen
  MissedOnlyIfSomeoneLeft
PROPERTIES
  ConnectIsAnswered
CHECK_DEADLOCK FALSE
