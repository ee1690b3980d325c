CONSTANTS
  MaxSlots = 4
  MaxGen = 1
  FreeChunk = 1
  Faults = FALSE
SPECIFICATION FairTreeSpec
PROPERTIES ImplementsForest PlacementsAreExact DestroyReturns
CHECK_DEADLOCK FALSE
