SPECIFICATION Spec
CONSTANTS
  Event = {e1, e2}
  NoEvent = NoEvent
  NUM_EVENT_PRIORITIES = 2
  PRIORITY_INC_DELAY = 2
  RemoteCores = TRUE
  MaxWakes = 0
CHECK_DEADLOCK FALSE
INVARIANT ExpectHolds
