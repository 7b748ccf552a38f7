CONSTANTS
  Depth = 7
  StallLimit = 1
  CounterMod = 4
  HasOutputs = TRUE
  SignalMayFail = TRUE
  MaxBlocks = 7
SPECIFICATION PluginFairSpec
INVARIANTS TypeOK InOrder NothingLost OneBlockAfterError FullIsSignalled WakeUpFindsBlock
  DeadWorkerBound
PROPERTY CallbackReturns
CHECK_DEADLOCK FALSE
