SPECIFICATION Spec
CONSTANTS
  NumWarps = 3
  NumThreads = 3
  NumBarriers = 2
  GridDim <- MCGrid
  BlockDim <- MCBlock
  ClusterDim <- MCCluster
  LmemSize = 3
  MemBlock = 2
  LmemCapacity = 13
  Taken <- MCTaken
  Program <- MCProgram
INVARIANTS NoAbort SyncHolds EveryLaneOnce SlotOwned ClusterPlaced IdleMeansDone
PROPERTY KernelDrains
