CONSTANTS
  MaxSlots = 4
  MaxGen = 2
  FreeChunk = 1
  QueueChunk = 8
  Faults = TRUE
  ParentOf <- Bush
  Sizes = {small, unbounded}
  Unbounded = unbounded
  Kinds = {"absolute", "fixed", "percent", "auto", "fit", "snug"}
  OnlySteady = TRUE
  MaxOps = 3
SPECIFICATION DriverSpec
INVARIANT LayoutIsComplete
CHECK_DEADLOCK FALSE
