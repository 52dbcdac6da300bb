SPECIFICATION FairSpec
CONSTANTS
  Device <- MCDevice
  CONFIG_ENABLE = 16777216
  Data = {x, y}
  c_size = 1
  MAX_ITERATIONS = 2
  Word = 2048
INVARIANTS TypeOK FreshCompletion
PROPERTIES CallsReturn ImplementsBlockDevice
CHECK_DEADLOCK FALSE
