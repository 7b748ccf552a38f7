CONSTANTS
  SeqRange = 12
  Window = 3
  Depth = 3
  Lossy = TRUE
  MaxAge = 2
  MaxPackets = 25
SPECIFICATION Spec
INVARIANTS TypeOK BufferInWindow GapFree
PROPERTY HeldUntilDue
CHECK_DEADLOCK FALSE
