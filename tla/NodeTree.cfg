CONSTANTS
  MaxSlots = 4
  MaxGen = 2
  FreeChunk = 1
  Faults = FALSE
SPECIFICATION TreeSpec
INVARIANTS NoSlotLost WellLinked
PROPERTY DestroyExact
CHECK_DEADLOCK FALSE
