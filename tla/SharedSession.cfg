CONSTANTS
  Plugins = {p1, p2}
  Depth = 4
  MaxCalls = 2
SPECIFICATION FairSpec
PROPERTY EveryCallbackReturns
CHECK_DEADLOCK FALSE
