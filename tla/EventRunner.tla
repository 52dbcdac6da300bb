----------------------------- MODULE EventRunner -----------------------------
(***************************************************************************)
(* One core's event runner: the priority queues, the rewake queue and the  *)
(* pending set of EventRunner, its run_loop, schedule called on the core   *)
(* itself or by another core, and wakers.  A step of the model is one      *)
(* acquisition of one of the runner's inner locks: run_loop holds no lock  *)
(* over the whole iteration, so other cores run between any two steps.     *)
(*                                                                         *)
(* The clock is used only in event_scheduled_at + PRIORITY_INC_DELAY <=    *)
(* clock, so the model keeps, per event, the difference between clock and  *)
(* scheduled_clock, saturated at PRIORITY_INC_DELAY.                       *)
(***************************************************************************)
EXTENDS Integers, Sequences, FiniteSets, Functions

CONSTANTS Event,                 \* the events ever scheduled on this core
          NoEvent,               \* None
          NUM_EVENT_PRIORITIES,
          PRIORITY_INC_DELAY,
          RemoteCores,           \* TRUE: other cores schedule on this runner
          MaxWakes               \* bound: wake-ups per event

ASSUME EventAssumption == NoEvent \notin Event
ASSUME PriorityAssumption ==
  /\ NUM_EVENT_PRIORITIES \in Nat \ {0}
  /\ PRIORITY_INC_DELAY \in Nat \ {0}
ASSUME BoundAssumption == RemoteCores \in BOOLEAN /\ MaxWakes \in Nat

VARIABLES event_queues,    \* one FIFO of events per priority
          rewake_queue,    \* FIFO of woken events, served first
          pending_events,  \* events that have not completed
          current_event,
          priority,        \* Event.priority
          age,             \* clock - Event.scheduled_clock, saturated
          future,          \* life of the future inside the event
          inserting,       \* the event another core's schedule() has enqueued
                           \* and not yet inserted in pending_events
          wakes,           \* wake-ups so far (bounds the model)
          raced,           \* ghost: events whose entry run_loop dropped while
                           \* another core was inserting them
          pc,              \* where run_loop is
          level            \* loop variable of reprioritize and next_event

vars == <<event_queues, rewake_queue, pending_events, current_event, priority,
          age, future, inserting, wakes, raced, pc, level>>
queues == <<event_queues, rewake_queue>>
events == <<priority, age, future>>
ghosts == <<wakes, raced>>

Level == 0..NUM_EVENT_PRIORITIES - 1
Age == 0..PRIORITY_INC_DELAY

\* "new": not yet scheduled.  "fresh": scheduled, never polled, so no waker for
\* it exists.  "polled": polled at least once.  "ready": its poll returned Ready.
FutureState == {"new", "fresh", "polled", "ready"}

TypeOK ==
  /\ event_queues \in [Level -> Seq(Event)]
  /\ rewake_queue \in Seq(Event)
  /\ pending_events \subseteq Event
  /\ current_event \in Event \cup {NoEvent}
  /\ priority \in [Event -> Level]
  /\ age \in [Event -> Age]
  /\ future \in [Event -> FutureState]
  /\ inserting \in Event \cup {NoEvent}
  /\ wakes \in [Event -> Nat]
  /\ raced \subseteq Event
  /\ pc \in {"boot", "check", "rewake", "reprioritize", "scan", "contains",
             "poll", "hlt", "panic"}
  /\ level \in 0..NUM_EVENT_PRIORITIES
  /\ pc = "reprioritize" => level >= 1
  /\ pc \in {"contains", "poll"} <=> current_event # NoEvent

Init ==
  /\ event_queues = [l \in Level |-> <<>>]
  /\ rewake_queue = <<>>
  /\ pending_events = {}
  /\ current_event = NoEvent
  /\ priority = [e \in Event |-> 0]
  /\ age = [e \in Event |-> 0]
  /\ future = [e \in Event |-> "new"]
  /\ inserting = NoEvent
  /\ wakes = [e \in Event |-> 0]
  /\ raced = {}
  /\ pc = "boot"
  /\ level = 0

-----------------------------------------------------------------------------
(* schedule                                                                *)

\* Event::init followed by the enqueue of schedule: the event enters its queue
\* before it enters pending_events.
Enqueue(e, p, a) ==
  /\ future[e] = "new"
  /\ future' = [future EXCEPT ![e] = "fresh"]
  /\ priority' = [priority EXCEPT ![e] = p]
  /\ age' = [age EXCEPT ![e] = a]
  /\ event_queues' = [event_queues EXCEPT ![p] = Append(@, e)]

\* schedule called on this core: by init before run_loop, or by the code that
\* runs inside a poll (a future, or the timer handler that preempts one).
\* run_loop is not between two of its own steps then, so both halves of
\* schedule happen at once; the runner's write lock excludes other schedulers.
ScheduleLocal(e, p) ==
  /\ pc \in {"boot", "poll"}
  /\ inserting = NoEvent
  /\ Enqueue(e, p, 0)
  /\ pending_events' = pending_events \cup {e}
  /\ UNCHANGED <<rewake_queue, current_event, inserting, ghosts, pc, level>>

\* First half of a schedule by another core, which holds the runner's write
\* lock; run_loop does not take that lock.  The core read the clock before it
\* enqueues, so any number of ticks may have passed since.
RemoteEnqueue(e, p, a) ==
  /\ RemoteCores
  /\ inserting = NoEvent
  /\ Enqueue(e, p, a)
  /\ inserting' = e
  /\ UNCHANGED <<rewake_queue, pending_events, current_event, ghosts, pc, level>>

\* Second half: pending_events.insert, and the write lock is released.
RemoteInsert ==
  /\ inserting # NoEvent
  /\ pending_events' = pending_events \cup {inserting}
  /\ inserting' = NoEvent
  /\ UNCHANGED <<queues, events, current_event, ghosts, pc, level>>

\* wake_by_ref.  A waker comes from a poll and may outlive its future.
Wake(e) ==
  /\ future[e] \in {"polled", "ready"}
  /\ wakes[e] < MaxWakes
  /\ wakes' = [wakes EXCEPT ![e] = @ + 1]
  /\ rewake_queue' = Append(rewake_queue, e)
  /\ UNCHANGED <<event_queues, events, pending_events, current_event, inserting,
                 raced, pc, level>>

-----------------------------------------------------------------------------
(* run_loop                                                                *)

\* The core leaves initialisation and enters run_loop.
EnterLoop ==
  /\ pc = "boot"
  /\ pc' = "check"
  /\ UNCHANGED <<queues, events, pending_events, current_event, inserting,
                 ghosts, level>>

\* have_pending_events (true when the set is empty) and the break to hlt.
CheckPending ==
  /\ pc = "check"
  /\ pc' = IF pending_events = {} THEN "hlt" ELSE "rewake"
  /\ UNCHANGED <<queues, events, pending_events, current_event, inserting,
                 ghosts, level>>

\* enable_and_hlt returns at the next interrupt.
Interrupt ==
  /\ pc = "hlt"
  /\ pc' = "check"
  /\ UNCHANGED <<queues, events, pending_events, current_event, inserting,
                 ghosts, level>>

\* next_event: the rewake queue is served before any priority queue.
PopRewake ==
  /\ pc = "rewake"
  /\ rewake_queue # <<>>
  /\ current_event' = Head(rewake_queue)
  /\ rewake_queue' = Tail(rewake_queue)
  /\ pc' = "contains"
  /\ UNCHANGED <<event_queues, events, pending_events, inserting, ghosts, level>>

\* Mutant of RewakeEmpty: reprioritize's loop starts at queue 0.
RewakeEmptyFromZero ==
  /\ pc = "rewake"
  /\ rewake_queue = <<>>
  /\ pc' = "reprioritize"
  /\ level' = 0
  /\ UNCHANGED <<queues, events, pending_events, current_event, inserting, ghosts>>

\* The rewake queue is empty: reprioritize begins, at queue 1.
RewakeEmpty ==
  /\ pc = "rewake"
  /\ rewake_queue = <<>>
  /\ pc' = "reprioritize"
  /\ level' = 1
  /\ UNCHANGED <<queues, events, pending_events, current_event, inserting, ghosts>>

\* The front of queue i is old enough to move up.
Aged(i) ==
  /\ event_queues[i] # <<>>
  /\ age[Head(event_queues[i])] >= PRIORITY_INC_DELAY

\* Mutant of Promote: the event is cloned into queue i-1 and not popped.
PromoteWithoutPop(i) ==
  LET e == Head(event_queues[i])
  IN  /\ event_queues' = [event_queues EXCEPT ![i - 1] = Append(@, e)]
      /\ priority' = [priority EXCEPT ![e] = i - 1]
      /\ age' = [age EXCEPT ![e] = 0]

\* Body of reprioritize's loop when the front moves from queue i to queue i-1.
\* Only run_loop pops, so the front seen by front_clock is the one popped.
Promote(i) ==
  LET e == Head(event_queues[i])
  IN  /\ event_queues' = [event_queues EXCEPT ![i] = Tail(@),
                                              ![i - 1] = Append(@, e)]
      /\ priority' = [priority EXCEPT ![e] = i - 1]
      /\ age' = [age EXCEPT ![e] = 0]

\* One iteration of reprioritize's loop, or its end.
Reprioritize ==
  /\ pc = "reprioritize"
  /\ level < NUM_EVENT_PRIORITIES
  /\ \/ Aged(level) /\ Promote(level)
     \/ ~Aged(level) /\ UNCHANGED <<event_queues, priority, age>>
  /\ level' = level + 1
  /\ UNCHANGED <<rewake_queue, future, pending_events, current_event, inserting,
                 ghosts, pc>>

ReprioritizeDone ==
  /\ pc = "reprioritize"
  /\ level >= NUM_EVENT_PRIORITIES
  /\ pc' = "scan"
  /\ level' = 0
  /\ UNCHANGED <<queues, events, pending_events, current_event, inserting, ghosts>>

\* One iteration of next_event's scan of the queues, in priority order.
Scan ==
  /\ pc = "scan"
  /\ level < NUM_EVENT_PRIORITIES
  /\ \/ /\ event_queues[level] # <<>>
        /\ current_event' = Head(event_queues[level])
        /\ event_queues' = [event_queues EXCEPT ![level] = Tail(@)]
        /\ pc' = "contains"
        /\ UNCHANGED level
     \/ /\ event_queues[level] = <<>>
        /\ level' = level + 1
        /\ UNCHANGED <<current_event, event_queues, pc>>
  /\ UNCHANGED <<rewake_queue, events, pending_events, inserting, ghosts>>

\* next_event returned None: expect("Have pending events, but empty waiting
\* queues.") panics and the core stops.
ScanEmpty ==
  /\ pc = "scan"
  /\ level >= NUM_EVENT_PRIORITIES
  /\ pc' = "panic"
  /\ UNCHANGED <<queues, events, pending_events, current_event, inserting,
                 ghosts, level>>

\* Mutant of Tick: the clock is not advanced.
TickStopped == age' = age

\* clock += 1
Tick == age' = [e \in Event |->
                  IF age[e] < PRIORITY_INC_DELAY THEN age[e] + 1 ELSE age[e]]

\* Mutant of ContainsEvent: every entry is polled.
ContainsEventUnfiltered ==
  /\ pc = "contains"
  /\ Tick
  /\ future' = [future EXCEPT ![current_event] = "polled"]
  /\ pc' = "poll"
  /\ UNCHANGED <<queues, priority, pending_events, inserting, ghosts, level,
                 current_event>>

\* contains_event: a completed event's leftover entry is dropped, a pending
\* one is polled.
ContainsEvent ==
  /\ pc = "contains"
  /\ \/ /\ current_event \in pending_events
        /\ Tick
        /\ future' = [future EXCEPT ![current_event] = "polled"]
        /\ pc' = "poll"
        /\ UNCHANGED <<current_event, raced>>
     \/ /\ current_event \notin pending_events
        /\ current_event' = NoEvent
        /\ pc' = "check"
        /\ raced' = raced \cup ({current_event} \cap {inserting})
        /\ UNCHANGED <<age, future>>
  /\ UNCHANGED <<queues, priority, pending_events, inserting, wakes, level>>

\* Mutant of PollPending: a pending event is left to its waker.
PollPendingNotRequeued ==
  /\ pc = "poll"
  /\ current_event' = NoEvent
  /\ pc' = "check"
  /\ UNCHANGED <<queues, events, pending_events, inserting, ghosts, level>>

\* The poll returned Pending: back to the queue of the event's priority.
PollPending ==
  /\ pc = "poll"
  /\ LET p == priority[current_event]
     IN  event_queues' = [event_queues EXCEPT ![p] = Append(@, current_event)]
  /\ current_event' = NoEvent
  /\ pc' = "check"
  /\ UNCHANGED <<rewake_queue, events, pending_events, inserting, ghosts, level>>

\* Mutant of PollReady: the event stays in pending_events.
PollReadyKept ==
  /\ pc = "poll"
  /\ future' = [future EXCEPT ![current_event] = "ready"]
  /\ current_event' = NoEvent
  /\ pc' = "check"
  /\ UNCHANGED <<queues, priority, age, pending_events, inserting, ghosts, level>>

\* The poll returned Ready: the event leaves pending_events.
PollReady ==
  /\ pc = "poll"
  /\ future' = [future EXCEPT ![current_event] = "ready"]
  /\ pending_events' = pending_events \ {current_event}
  /\ current_event' = NoEvent
  /\ pc' = "check"
  /\ UNCHANGED <<queues, priority, age, inserting, ghosts, level>>

RunLoop ==
  \/ CheckPending \/ Interrupt \/ PopRewake \/ RewakeEmpty \/ Reprioritize
  \/ ReprioritizeDone \/ Scan \/ ScanEmpty \/ ContainsEvent \/ PollPending
  \/ PollReady

Schedule ==
  \/ \E e \in Event, p \in Level : ScheduleLocal(e, p)
  \/ \E e \in Event, p \in Level, a \in Age : RemoteEnqueue(e, p, a)
  \/ RemoteInsert

Next ==
  \/ Schedule
  \/ \E e \in Event : Wake(e)
  \/ EnterLoop
  \/ RunLoop

Spec == Init /\ [][Next]_vars

\* The core executes: run_loop is never left, polls return (a process's poll is
\* ended by the timer), a schedule that holds the lock finishes, and the
\* periodic timer interrupts hlt.
Fairness == WF_vars(EnterLoop) /\ WF_vars(RunLoop) /\ WF_vars(RemoteInsert)

FairSpec == Spec /\ Fairness

-----------------------------------------------------------------------------
(* Properties                                                              *)

\* The events with an entry in a waiting queue.
Waiting == UNION {Range(event_queues[l]) : l \in Level}

\* The entries event e has in the queues: <<queue, position>>, where -1 stands for the
\* rewake queue.
Entries(e) ==
  LET In(l, q) == {<<l, i>> : i \in {j \in DOMAIN q : q[j] = e}}
  IN  In(-1, rewake_queue) \cup UNION {In(l, event_queues[l]) : l \in Level}

\* The expect in run_loop never fails: when the pending set is not empty,
\* next_event finds an event.
ExpectHolds == pc # "panic"

\* The expect in run_loop fails only after run_loop has dropped an event that
\* another core's schedule had enqueued and not yet inserted in pending_events.
PanicOnlyAfterRace == pc = "panic" => raced # {}

\* An event that has not completed can be found by run_loop: it is in a waiting
\* queue (a wake-up never replaces that entry), or run_loop has it in hand; the
\* only ones lost are those that run_loop dropped while they were inserted.
NoLostEvent == pending_events \subseteq Waiting \cup {current_event} \cup raced

\* A future that returned Ready is never polled again, whatever entries its
\* wake-ups have left in the queues (contains_event filters them).
NeverPolledAfterReady ==
  [][\A e \in Event : future[e] = "ready" => future'[e] = "ready"]_vars

\* The queues grow only by wake-ups: an event has one entry, or one for itself
\* and one more for each time it was woken, however it was requeued or promoted.
EntriesPerWake ==
  \A e \in Event : Cardinality(Entries(e)) <= (IF future[e] = "new" THEN 0 ELSE 1 + wakes[e])

\* Aging works: every event that has not completed is polled again, whatever the
\* priorities of the others, as long as wake-ups do not go on for ever and no
\* event was dropped while another core inserted it (the core may panic then).
StarvationFree ==
  \A e \in Event :
    e \in pending_events ~> (pc = "poll" /\ current_event = e) \/ raced # {}

\* What the event means to an executor, whatever queues it is in.
Status == [e \in Event |-> IF future[e] = "new" THEN "new"
                           ELSE IF future[e] = "ready" THEN "done"
                           ELSE IF pc = "poll" /\ current_event = e THEN "polling"
                           ELSE "pending"]

Abstract == INSTANCE Executor WITH status <- Status

\* The runner is an executor: it polls one event at a time, only events that
\* were scheduled, and none that has completed.  The queues, the rewake queue,
\* aging and the schedules of other cores do not show.
ImplementsExecutor == Abstract!Spec
=============================================================================
