SPECIFICATION FairSpec
CONSTANTS
  MAX_CORES = 2
  Page = {p1, p2}
  NoPage = NoPage
  Frame = {f1, f2}
  NoFrame = NoFrame
  NoCore = NoCore
CHECK_DEADLOCK FALSE
INVARIANTS TypeOK LastFlushed SlotServed
PROPERTIES ShootdownReturns Settles
