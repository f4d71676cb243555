SPECIFICATION Spec
CONSTANTS
  Time = {1, 2}
  MaxEvents = 3
  MaxCrashes = 2
  MaxDoubts = 1
  MaxTimeouts = 1
  BackoffInitial = 1
  BackoffMax = 2
INVARIANTS
  NothingLostUnlessKeyReused
  TwiceOnlyIfDoubtedOrInterrupted
  InOrderUnlessLeftOver
