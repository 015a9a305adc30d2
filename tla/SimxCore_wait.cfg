SPECIFICATION Spec
CONSTANTS
  NumWarps = 3
  NumThreads = 3
  NumBarriers = 1
  GridDim <- MCOne
  BlockDim <- MCBlock
  ClusterDim <- MCOne
  LmemSize = 0
  MemBlock = 2
  LmemCapacity = 13
  Taken <- MCNone
  Program <- MCLoop
INVARIANT WaitHolds
