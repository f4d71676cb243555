SPECIFICATION MCSpec
CONSTANTS
  Architectures <- MCArchitectures
  NeckWindow = 5
  MinChannels = 32
  MaxChannels = 512
  MaxSteps = 6
  Tracks = {"a", "b", "c"}
  Batches <- MCBatches
  MaxLength = 4
  HistoryLen = 2
  FutureLen = 1
  Stride = 1
  Ratios = {1, 4}
  MaxBatches = 5
INVARIANTS
  WrappedTogether
  HistoriesStayUsable
PROPERTIES
  SavedCleanUnlessNested
  SplitIsSound
CHECK_DEADLOCK FALSE
