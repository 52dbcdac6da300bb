SPECIFICATION FairSpec
CONSTANTS
  Event = {e1, e2, e3}
  NoEvent = NoEvent
  NUM_EVENT_PRIORITIES = 2
  PRIORITY_INC_DELAY = 2
  RemoteCores = TRUE
  MaxWakes = 1
CHECK_DEADLOCK FALSE
INVARIANTS TypeOK PanicOnlyAfterRace NoLostEvent EntriesPerWake
PROPERTIES StarvationFree ImplementsExecutor
