SPECIFICATION Spec
CONSTANTS
  Time = {1, 2}
  MaxEvents = 3
  MaxCrashes = 1
  MaxDoubts = 0
  MaxTimeouts = 0
  BackoffInitial = 1
  BackoffMax = 2
INVARIANTS
  NothingLost
