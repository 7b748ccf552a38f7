CONSTANTS
  Depth = 4
  StallLimit = 2
  CounterMod = 8
  HasOutputs = TRUE
  SignalMayFail = FALSE
  MaxBlocks = 4
SPECIFICATION Spec
PROPERTY LatencyWithinOneBlock
CHECK_DEADLOCK FALSE
