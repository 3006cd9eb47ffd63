SPECIFICATION Spec
CHECK_DEADLOCK FALSE
CONSTANTS
  WindowSize = 16
  MaxMatch = 5
  CacheLength = 2
  MaxChainHits = 15
  FarDistance = 3
  MinSplit = 5
  MaxBlocks = 3
  MasterBlock = 20
  StoredBlock = 4
  SmallStore = 7
  NumIterations = 2
  Jobs <- MCJobs
  CostModels <- MCCostModels
INVARIANTS
  AssertionsHold
  RoundTrip
  ShortestPath
  StoreAsPlanned
  SplitsInside
