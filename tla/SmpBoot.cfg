SPECIFICATION FairSpec
CONSTANTS
  Core = {c0, c1, c2}
  BSP = c0
  NoCore = NoCore
  MaxCalls = 2
INVARIANTS TypeOK NoPanic TimersTick
PROPERTIES RegistrationClosed EveryCoreLoops TimerReturns
CHECK_DEADLOCK FALSE
