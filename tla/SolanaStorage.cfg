SPECIFICATION Spec
CONSTANTS
  DataLen = 176
  HeapOffset = 32
  U32 = 65536
  MaxChunks = 11
  Strings = {16}
  IntsSlot = 24
  StrsSlot = 28
  Lens = {0, 5, 30}
  MaxInts = 4
  MaxStrs = 3
  Reassign = FALSE
VIEW LiveView
INVARIANTS ListWellFormed ChunksOwnedOnce StorageReadsBack
PROPERTY ShrinkStays
