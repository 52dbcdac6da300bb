SPECIFICATION FairSpec
CONSTANTS
  Core = {c0, c1}
  Frame = {1, 2, 3, 4}
  BootPml4 = 0
  MaxPid = 2
  MaxWork = 2
  PAGE_SIZE = 2
  STACK_START = 12
  STACK_SIZE = 4
INVARIANTS TypeOK LookUpsSucceed  Isolated ContextKept FramesAccounted
 
CHECK_DEADLOCK FALSE
