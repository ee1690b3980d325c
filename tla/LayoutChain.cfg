CONSTANTS
  MaxSlots = 5
  MaxGen = 1
  FreeChunk = 1
  QueueChunk = 8
  Faults = FALSE
  ParentOf <- Chain
  Sizes = {small}
  Unbounded = unbounded
  Kinds = {"absolute", "auto", "fixedLining"}
  OnlySteady = TRUE
  MaxOps = 3
SPECIFICATION DriverSpec
INVARIANTS LayoutIsComplete PassesApart AncestorsKnow DirtyIsQueued
CHECK_DEADLOCK FALSE
