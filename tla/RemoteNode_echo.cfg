CONSTANTS
  SeqRange = 8
  Window = 2
  Depth = 3
  Lossy = FALSE
  MaxAge = 6
  MaxPackets = 6
SPECIFICATION FairSpec
PROPERTY EchoIsDelivered
CHECK_DEADLOCK FALSE
