SPECIFICATION Spec
CONSTANTS
  HdrSize = 24
  HeapStart = 64
  HeapLen = 240
  U32 = 1073741824
  Slots = {v1, v2}
  Sizes = {8, 20, 48, 100}
  NULL = NULL
  NullTraps = TRUE
INVARIANT NoNullStore
CHECK_DEADLOCK FALSE
