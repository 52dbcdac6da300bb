SPECIFICATION Spec
CONSTANTS
  MaxFrame = 7
  MemoryMaps <- AllMaps
  MAX_ALLOCATED_FRAMES = 5
  BITMAP_ENTRY_SIZE = 3
  NoFrame = NoFrame
  NoResult = NoResult
CHECK_DEADLOCK FALSE
INVARIANTS TypeOK Exclusive OnlyUsable NoSpin NoFalseDoubleFree LeakAccounting
