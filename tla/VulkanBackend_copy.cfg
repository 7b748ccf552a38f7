CONSTANTS
  Depth = 3
  BusDepth = 3
  MaxBlocks = 3
  MaxSets = 2
SPECIFICATION Spec
INVARIANT GpuGetsTheBlock
CHECK_DEADLOCK FALSE
