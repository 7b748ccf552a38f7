CONSTANTS
  Capacity = 4
  Values = {v1, v2}
  Garbage = garbage
SPECIFICATION FairSpec
INVARIANTS TypeOK SlotExclusion OccupiedIntact RingInv
PROPERTIES ImplementsFifo EveryItemIsTaken FullIsNotForever
