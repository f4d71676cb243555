SPECIFICATION FairSpec
CONSTANTS
  p1 = p1
  p2 = p2
  p3 = p3
  k1 = k1
  k2 = k2
  Proc = {p1, p2}
  Pid = {p1, p2}
  PidOf <- OwnPid
  NoPid = NoPid
  NoProc = NoProc
  Key = {k1, k2}
  MaxEnds = 2
INVARIANTS
  MutualExclusionWhileAllLive
PROPERTIES
  ImplementsAtomicCache
  ReadableStaleLockIsRemoved
CHECK_DEADLOCK FALSE
