SPECIFICATION Spec
CONSTANTS
  p1 = p1
  p2 = p2
  p3 = p3
  k1 = k1
  k2 = k2
  Proc = {p1, p2, p3}
  Pid = {p1, p2, p3}
  PidOf <- OwnPid
  NoPid = NoPid
  NoProc = NoProc
  Key = {k1}
  MaxEnds = 1
INVARIANTS
  MutualExclusion
