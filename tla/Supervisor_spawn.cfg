CONSTANTS
  N = 2
  Backends = {0}
  Plugins = {p1, p2}
  MaxSpawns = 4
SPECIFICATION Spec
INVARIANTS TypeOK ActiveIsWhole PluginsHaveWorker
CHECK_DEADLOCK FALSE
