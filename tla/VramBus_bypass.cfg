CONSTANTS
  PoolSize = 4
  BusDepth = 3
  MaxPolls = 3
  Data = {d1, d2}
  NoData = nodata
  MaxRequests = 4
SPECIFICATION Spec
INVARIANT OneImport
