SPECIFICATION FairSpec
CONSTANTS
  NoMessage = NoMessage
  None = None
  good = good
  bad = bad
  Message <- MCMessage
  Traffic <- MCTraffic
  MaxMounts = 2
  MaxSockets = 2
  Token = {good, bad}
  GoodToken = good
  DemoDevice = "d1"
  Opened = 12
  Ticks <- MCTicks
  Span = 3
  Stored = 2
  MaxRows = 2
  MaxShown = 3
  MaxPolls = 2
  MaxFailures = 0
INVARIANTS
  OneConnection
  ScreenIsHonest
PROPERTIES
  OnlyALatePollForgets
  SilenceIsNoticed
  ConnectionComesBack
  ScreenCatchesUp
CHECK_DEADLOCK FALSE
