CONSTANTS
  MaxSlots = 3
  MaxGen = 3
  FreeChunk = 1
  Faults = TRUE
  Callbacks = {wide, tall}
  Nobody = nobody
  MeasureChunk = 1
  MaxId = 4
  MaxEvents = 3
SPECIFICATION StoresSpec
INVARIANTS FreeListSound MeasuresAreOwn ObserversSound
PROPERTIES NoRevival KeepsPromise DispatchReturns
CHECK_DEADLOCK FALSE
