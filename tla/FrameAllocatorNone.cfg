SPECIFICATION Spec
CONSTANTS
  MaxFrame = 7
  MemoryMaps <- OneRegion
  MAX_ALLOCATED_FRAMES = 5
  BITMAP_ENTRY_SIZE = 3
  NoFrame = NoFrame
  NoResult = NoResult
CHECK_DEADLOCK FALSE
INVARIANT NoneOnlyWhenExhausted
