CONSTANTS
  Depth = 3
  BusDepth = 3
  MaxBlocks = 3
  MaxSets = 2
SPECIFICATION FairSpec
INVARIANTS TypeOK TakenDownInOrder GpuInHeldSlot ParamsInTime
PROPERTY DispatchReturns
CHECK_DEADLOCK FALSE
