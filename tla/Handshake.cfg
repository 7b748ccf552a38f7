CONSTANTS
  Clients = {c1, c2}
  NoClient = none
  MaxFds = 5
  Backlog = 0
  MaxAttempts = 2
  MaxStarts = 2
SPECIFICATION FairSpec
INVARIANTS TypeOK ConnectedIsWhole SessionIsOwn NoneLost RoomToAccept
PROPERTY ConnectReturns
CHECK_DEADLOCK FALSE
