SPECIFICATION Spec
CONSTANTS
  b1 = b1
  w1 = w1
  PageSize = 32
  StartPages = 1
  MaxPages = 4
  U32 = 256
  Slots = {b1, w1}
  Counts <- EmptyWords
  ElemSize <- WordSize
  NoBlock = NoBlock
VIEW LiveView
INVARIANTS DataIntact
PROPERTY AllocatorSpec
CHECK_DEADLOCK FALSE
