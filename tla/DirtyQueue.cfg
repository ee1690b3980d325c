CONSTANTS
  MaxSlots = 2
  MaxGen = 2
  FreeChunk = 1
  QueueChunk = 1
  Faults = TRUE
SPECIFICATION DirtySpec
INVARIANT QueueMatchesColumn
PROPERTIES OnlyPassesDequeue
CHECK_DEADLOCK FALSE
