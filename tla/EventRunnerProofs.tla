-------------------------- MODULE EventRunnerProofs --------------------------
(***************************************************************************)
(* Theorems about EventRunner, for any set of events, number of            *)
(* priorities, aging delay and number of wake-ups.                         *)
(***************************************************************************)
EXTENDS EventRunner, FunctionTheorems, FiniteSetTheorems, TLAPS

\* push_back adds exactly the pushed event to a queue.
LEMMA RangeAppend ==
  ASSUME NEW S, NEW s \in Seq(S), NEW x \in S
  PROVE  /\ Append(s, x) \in Seq(S)
         /\ Append(s, x) # <<>>
         /\ Range(Append(s, x)) = Range(s) \cup {x}
<1> DEFINE t == Append(s, x)
<1>1. t \in Seq(S) /\ DOMAIN t = 1..Len(s) + 1 /\ t[Len(s) + 1] = x
  OBVIOUS
<1>2. \A i \in DOMAIN s : i \in DOMAIN t /\ t[i] = s[i]
  OBVIOUS
<1>3. \A i \in DOMAIN t : i \in DOMAIN s \/ i = Len(s) + 1
  OBVIOUS
<1>4. Len(t) = Len(s) + 1 /\ Len(t) # 0
  OBVIOUS
<1>5. t # <<>>
  <2> HIDE DEF t
  <2> QED
    BY <1>4
<1> QED
  BY <1>1, <1>2, <1>3, <1>5 DEF Range

\* pop_front removes at most the front event from a queue.
LEMMA RangeHeadTail ==
  ASSUME NEW S, NEW s \in Seq(S), s # <<>>
  PROVE  /\ Head(s) \in S
         /\ Tail(s) \in Seq(S)
         /\ Range(s) = Range(Tail(s)) \cup {Head(s)}
<1> DEFINE t == Tail(s)
<1>1. t \in Seq(S) /\ Len(t) = Len(s) - 1 /\ Head(s) = s[1] /\ Head(s) \in S
  OBVIOUS
<1>2. \A i \in DOMAIN t : i + 1 \in DOMAIN s /\ t[i] = s[i + 1]
  OBVIOUS
<1>3. \A i \in DOMAIN s : i = 1 \/ (i - 1 \in DOMAIN t /\ t[i - 1] = s[i])
  OBVIOUS
<1>4. 1 \in DOMAIN s
  OBVIOUS
<1>5. Range(s) \subseteq Range(t) \cup {Head(s)}
  BY <1>1, <1>3 DEF Range
<1>6. Range(t) \cup {Head(s)} \subseteq Range(s)
  BY <1>1, <1>2, <1>4 DEF Range
<1> QED
  BY <1>1, <1>5, <1>6

-----------------------------------------------------------------------------
(* Type correctness                                                        *)

\* Every step of run_loop, schedule and the wakers keeps the state well typed:
\* in particular no priority and no queue index leaves 0..NUM_EVENT_PRIORITIES-1.
THEOREM TypeCorrect == Spec => []TypeOK
<1> USE EventAssumption, PriorityAssumption, BoundAssumption DEF Level, Age, FutureState
<1>1. Init => TypeOK
  BY DEF Init, TypeOK
<1>2. TypeOK /\ [Next]_vars => TypeOK'
  <2> SUFFICES ASSUME TypeOK, [Next]_vars
               PROVE  TypeOK'
    OBVIOUS
  <2> USE DEF TypeOK, queues, events, ghosts
  <2>1. ASSUME NEW e \in Event, NEW p \in Level, ScheduleLocal(e, p)
        PROVE  TypeOK'
    <3>1. Append(event_queues[p], e) \in Seq(Event)
      BY RangeAppend
    <3>2. event_queues' \in [Level -> Seq(Event)]
      BY <2>1, <3>1 DEF ScheduleLocal, Enqueue
    <3>3. 0 \in Age
      OBVIOUS
    <3>4. priority' \in [Event -> Level] /\ age' \in [Event -> Age]
          /\ future' \in [Event -> FutureState]
      BY <2>1, <3>3 DEF ScheduleLocal, Enqueue
    <3> QED
      BY Zenon, <2>1, <3>2, <3>4 DEF ScheduleLocal
  <2>2. ASSUME NEW e \in Event, NEW p \in Level, NEW a \in Age,
               RemoteEnqueue(e, p, a)
        PROVE  TypeOK'
    BY <2>2, RangeAppend DEF RemoteEnqueue, Enqueue
  <2>3. CASE RemoteInsert
    BY <2>3 DEF RemoteInsert
  <2>4. ASSUME NEW e \in Event, Wake(e)
        PROVE  TypeOK'
    <3>1. rewake_queue' \in Seq(Event)
      BY <2>4, RangeAppend DEF Wake
    <3>2. wakes' \in [Event -> Nat]
      <4>1. wakes' = [wakes EXCEPT ![e] = @ + 1] /\ wakes \in [Event -> Nat]
        BY <2>4 DEF Wake
      <4>2. wakes[e] + 1 \in Nat
        BY <4>1
      <4> HIDE DEF TypeOK
      <4> QED
        BY <4>1, <4>2
    <3> HIDE DEF Level, Age
    <3> QED
      BY <2>4, <3>1, <3>2 DEF Wake
  <2>5. CASE EnterLoop
    BY <2>5 DEF EnterLoop
  <2>6. CASE CheckPending
    BY <2>6 DEF CheckPending
  <2>7. CASE Interrupt
    BY <2>7 DEF Interrupt
  <2>8. CASE PopRewake
    BY Zenon, <2>8, RangeHeadTail DEF PopRewake
  <2>9. CASE RewakeEmpty
    BY <2>9 DEF RewakeEmpty
  <2>10. CASE Reprioritize
    <3>1. CASE UNCHANGED <<event_queues, priority, age>>
      BY <2>10, <3>1 DEF Reprioritize
    <3>2. CASE Aged(level) /\ Promote(level)
      <4> DEFINE e == Head(event_queues[level])
      <4>1. level \in Level
        BY <2>10 DEF Reprioritize
      <4>2. level - 1 \in Level
        BY <2>10, <4>1 DEF Reprioritize
      <4>3. e \in Event /\ Tail(event_queues[level]) \in Seq(Event)
        BY <3>2, <4>1, RangeHeadTail DEF Aged
      <4>4. Append(event_queues[level - 1], e) \in Seq(Event)
        BY <4>2, <4>3, RangeAppend
      <4>5. event_queues' \in [Level -> Seq(Event)]
        BY Zenon, <3>2, <4>1, <4>2, <4>3, <4>4 DEF Promote
      <4>6. priority' \in [Event -> Level] /\ age' \in [Event -> Age]
        <5>1. 0 \in Age
          OBVIOUS
        <5>2. /\ priority' = [priority EXCEPT ![e] = level - 1]
              /\ age' = [age EXCEPT ![e] = 0]
          BY <3>2 DEF Promote
        <5> HIDE DEF e, Level, Age
        <5> QED
          BY <4>2, <4>3, <5>1, <5>2
      <4>7. level' \in 0..NUM_EVENT_PRIORITIES /\ level' >= 1
        BY <2>10 DEF Reprioritize
      <4> HIDE DEF Level, Age
      <4> QED
        BY Zenon, <2>10, <4>5, <4>6, <4>7 DEF Reprioritize
    <3> QED
      BY Zenon, <2>10, <3>1, <3>2 DEF Reprioritize
  <2>11. CASE ReprioritizeDone
    BY <2>11 DEF ReprioritizeDone
  <2>12. CASE Scan
    <3>1. CASE event_queues[level] = <<>>
      <4>1. /\ pc = "scan" /\ level' = level + 1 /\ level' \in 0..NUM_EVENT_PRIORITIES
            /\ UNCHANGED <<event_queues, rewake_queue, events, pending_events,
                           current_event, inserting, ghosts, pc>>
        BY <2>12, <3>1 DEF Scan
      <4> HIDE DEF Level, Age
      <4> QED
        BY <4>1
    <3>2. CASE event_queues[level] # <<>>
      <4>1. level \in Level
        BY <2>12 DEF Scan
      <4>2. /\ Head(event_queues[level]) \in Event
            /\ Tail(event_queues[level]) \in Seq(Event)
        BY <3>2, <4>1, RangeHeadTail
      <4>3. /\ event_queues' = [event_queues EXCEPT ![level] = Tail(@)]
            /\ current_event' = Head(event_queues[level])
            /\ pc' = "contains"
            /\ UNCHANGED <<rewake_queue, events, pending_events, inserting, ghosts, level>>
        BY Zenon, <2>12, <3>2 DEF Scan
      <4>4. event_queues' \in [Level -> Seq(Event)]
        BY Zenon, <4>2, <4>3
      <4> HIDE DEF Level, Age
      <4> QED
        BY <4>2, <4>3, <4>4
    <3> QED
      BY Zenon, <3>1, <3>2
  <2>13. CASE ScanEmpty
    BY Zenon, <2>13 DEF ScanEmpty
  <2>14. CASE ContainsEvent
    <3>1. CASE current_event \notin pending_events
      BY <2>14, <3>1 DEF ContainsEvent
    <3>2. CASE current_event \in pending_events
      <4>1. age' \in [Event -> Age]
        <5>1. \A x \in Age : (IF x < PRIORITY_INC_DELAY THEN x + 1 ELSE x) \in Age
          OBVIOUS
        <5>2. age' = [e \in Event |->
                        IF age[e] < PRIORITY_INC_DELAY THEN age[e] + 1 ELSE age[e]]
          BY <2>14, <3>2 DEF ContainsEvent, Tick
        <5> HIDE DEF Age
        <5> QED
          BY <5>1, <5>2
      <4>2. future' \in [Event -> FutureState]
        BY Zenon, <2>14, <3>2 DEF ContainsEvent
      <4> QED
        BY <2>14, <3>2, <4>1, <4>2 DEF ContainsEvent
    <3> QED
      BY Zenon, <3>1, <3>2
  <2>15. CASE PollPending
    <3>1. current_event \in Event /\ priority[current_event] \in Level
      BY <2>15 DEF PollPending
    <3>2. Append(event_queues[priority[current_event]], current_event) \in Seq(Event)
      BY <3>1, RangeAppend
    <3> QED
      BY <2>15, <3>1, <3>2 DEF PollPending
  <2>16. CASE PollReady
    BY <2>16 DEF PollReady
  <2>17. CASE UNCHANGED vars
    BY <2>17 DEF vars
  <2> QED
    BY Zenon, <2>1, <2>2, <2>3, <2>4, <2>5, <2>6, <2>7, <2>8, <2>9, <2>10, <2>11,
       <2>12, <2>13, <2>14, <2>15, <2>16, <2>17 DEF Next, Schedule, RunLoop
<1> QED
  BY <1>1, <1>2, PTL DEF Spec

-----------------------------------------------------------------------------
(* A completed future is never polled again                                *)

\* What makes contains_event a sound filter: the pending set holds only futures
\* that are not Ready, the event a remote schedule is still inserting has never
\* been polled, and the event being polled is pending.
LiveInv ==
  /\ \A e \in pending_events : future[e] \in {"fresh", "polled"}
  /\ inserting # NoEvent => /\ future[inserting] = "fresh"
                            /\ inserting \notin pending_events
  /\ pc = "poll" => current_event \in pending_events

\* LiveInv is an invariant, also when other cores schedule on this runner.
THEOREM LiveInvariant == Spec => []LiveInv
<1> USE EventAssumption DEF LiveInv, TypeOK, FutureState
<1>1. Init => LiveInv
  BY DEF Init
<1>2. TypeOK /\ LiveInv /\ [Next]_vars => LiveInv'
  <2> SUFFICES ASSUME TypeOK, LiveInv, [Next]_vars
               PROVE  LiveInv'
    OBVIOUS
  <2> USE DEF queues, events, ghosts
  <2>1. ASSUME NEW e \in Event, NEW p \in Level, ScheduleLocal(e, p)
        PROVE  LiveInv'
    BY <2>1 DEF ScheduleLocal, Enqueue
  <2>2. ASSUME NEW e \in Event, NEW p \in Level, NEW a \in Age,
               RemoteEnqueue(e, p, a)
        PROVE  LiveInv'
    BY Zenon, <2>2 DEF RemoteEnqueue, Enqueue
  <2>3. CASE RemoteInsert
    BY <2>3 DEF RemoteInsert
  <2>4. ASSUME NEW e \in Event, Wake(e)
        PROVE  LiveInv'
    BY <2>4 DEF Wake
  <2>5. CASE EnterLoop \/ CheckPending \/ Interrupt \/ PopRewake \/ RewakeEmpty
    BY <2>5 DEF EnterLoop, CheckPending, Interrupt, PopRewake, RewakeEmpty
  <2>6. CASE Reprioritize \/ ReprioritizeDone \/ Scan \/ ScanEmpty
    BY <2>6 DEF Reprioritize, ReprioritizeDone, Scan, ScanEmpty
  <2>7. CASE ContainsEvent
    BY Zenon, <2>7 DEF ContainsEvent
  <2>8. CASE PollPending
    BY <2>8 DEF PollPending
  <2>9. CASE PollReady
    BY <2>9 DEF PollReady
  <2>10. CASE UNCHANGED vars
    BY <2>10 DEF vars
  <2> QED
    BY <2>1, <2>2, <2>3, <2>4, <2>5, <2>6, <2>7, <2>8, <2>9, <2>10
       DEF Next, Schedule, RunLoop
<1> QED
  BY <1>1, <1>2, TypeCorrect, PTL DEF Spec

\* A future that returned Ready is never polled again, with any number of
\* wake-ups and with other cores scheduling.
THEOREM CompletedNeverPolled == Spec => NeverPolledAfterReady
<1>1. TypeOK /\ LiveInv /\ [Next]_vars =>
        [\A e \in Event : future[e] = "ready" => future'[e] = "ready"]_vars
  <2> SUFFICES ASSUME TypeOK, LiveInv, Next,
                      NEW e \in Event, future[e] = "ready"
               PROVE  future'[e] = "ready"
    OBVIOUS
  <2> USE DEF TypeOK, FutureState, queues, events, ghosts
  <2>1. CASE Schedule
    BY <2>1 DEF Schedule, ScheduleLocal, RemoteEnqueue, RemoteInsert, Enqueue
  <2>2. CASE ContainsEvent
    BY <2>2 DEF ContainsEvent, LiveInv
  <2>3. CASE PollReady
    BY <2>3 DEF PollReady
  <2>4. CASE UNCHANGED future
    BY <2>4
  <2> QED
    BY <2>1, <2>2, <2>3, <2>4
       DEF Next, RunLoop, Wake, EnterLoop, CheckPending, Interrupt, PopRewake,
           RewakeEmpty, Reprioritize, ReprioritizeDone, Scan, ScanEmpty, PollPending
<1> QED
  BY <1>1, TypeCorrect, LiveInvariant, PTL DEF Spec, NeverPolledAfterReady

-----------------------------------------------------------------------------
(* What a schedule by another core can do to run_loop, and what it cannot  *)

\* Strengthens NoLostEvent and PanicOnlyAfterRace: the event that another core is
\* inserting has not slipped away either, and while run_loop looks for an event
\* some queue it has not scanned yet holds one, unless an event was dropped.
RaceInv ==
  /\ NoLostEvent
  /\ PanicOnlyAfterRace
  /\ inserting # NoEvent => inserting \in Waiting \cup {current_event} \cup raced
  /\ pc \in {"rewake", "reprioritize", "scan"} => pending_events # {}
  /\ pc = "scan" =>
       raced # {} \/ \E l \in Level : l >= level /\ event_queues[l] # <<>>

\* Pushing an event on one waiting queue adds it to the waiting events.
LEMMA WaitingPush ==
  ASSUME TypeOK, NEW p \in Level, NEW e \in Event,
         event_queues' = [event_queues EXCEPT ![p] = Append(@, e)]
  PROVE  Waiting' = Waiting \cup {e}
<1>1. \A l \in Level : event_queues'[l] =
        IF l = p THEN Append(event_queues[p], e) ELSE event_queues[l]
  BY DEF TypeOK
<1>2. Range(Append(event_queues[p], e)) = Range(event_queues[p]) \cup {e}
  BY RangeAppend DEF TypeOK
<1>3. Waiting' = UNION {Range(event_queues'[l]) : l \in Level}
  BY DEF Waiting
<1> QED
  BY <1>1, <1>2, <1>3 DEF Waiting

\* Popping the front of one waiting queue takes at most that event away.
LEMMA WaitingPop ==
  ASSUME TypeOK, NEW p \in Level, event_queues[p] # <<>>,
         event_queues' = [event_queues EXCEPT ![p] = Tail(@)]
  PROVE  Waiting \subseteq Waiting' \cup {Head(event_queues[p])}
<1>1. \A l \in Level : event_queues'[l] =
        IF l = p THEN Tail(event_queues[p]) ELSE event_queues[l]
  BY DEF TypeOK
<1>2. Range(event_queues[p]) = Range(Tail(event_queues[p])) \cup {Head(event_queues[p])}
  BY RangeHeadTail DEF TypeOK
<1>3. Waiting' = UNION {Range(event_queues'[l]) : l \in Level}
  BY DEF Waiting
<1> QED
  BY <1>1, <1>2, <1>3 DEF Waiting

\* reprioritize moves an event between two queues and loses none.
LEMMA WaitingPromote ==
  ASSUME TypeOK, NEW i \in Level, i - 1 \in Level, Aged(i), Promote(i)
  PROVE  Waiting \subseteq Waiting'
<1> DEFINE e == Head(event_queues[i])
<1>1. e \in Event
  BY RangeHeadTail DEF TypeOK, Aged
<1>2. /\ event_queues'[i] = Tail(event_queues[i])
      /\ event_queues'[i - 1] = Append(event_queues[i - 1], e)
      /\ \A l \in Level \ {i, i - 1} : event_queues'[l] = event_queues[l]
  BY DEF TypeOK, Promote, Level
<1>3. Range(event_queues[i]) = Range(event_queues'[i]) \cup {e}
  BY <1>2, RangeHeadTail DEF TypeOK, Aged
<1>4. Range(event_queues'[i - 1]) = Range(event_queues[i - 1]) \cup {e}
  BY <1>1, <1>2, RangeAppend DEF TypeOK
<1>5. Waiting' = UNION {Range(event_queues'[l]) : l \in Level}
  BY DEF Waiting
<1>6. ASSUME NEW x \in Waiting PROVE x \in Waiting'
  <2>1. PICK l \in Level : x \in Range(event_queues[l])
    BY <1>6 DEF Waiting
  <2>2. CASE l = i
    <3>1. x \in Range(event_queues'[i]) \/ x \in Range(event_queues'[i - 1])
      BY <1>3, <1>4, <2>1, <2>2
    <3> QED
      BY <1>5, <3>1
  <2>3. CASE l = i - 1
    <3>1. x \in Range(event_queues'[i - 1])
      BY <1>4, <2>1, <2>3
    <3> QED
      BY <1>5, <3>1
  <2>4. CASE l \in Level \ {i, i - 1}
    <3>1. x \in Range(event_queues'[l])
      BY <1>2, <2>1, <2>4
    <3> QED
      BY <1>5, <3>1
  <2> QED
    BY <2>2, <2>3, <2>4
<1> QED
  BY <1>6

\* RaceInv is inductive, given TypeOK and LiveInv.
LEMMA RaceInvStep ==
  ASSUME TypeOK, LiveInv, RaceInv, [Next]_vars
  PROVE  RaceInv'
<1> USE EventAssumption DEF RaceInv, NoLostEvent, PanicOnlyAfterRace, queues, events,
                            ghosts
<1>1. ASSUME NEW e \in Event, NEW p \in Level, ScheduleLocal(e, p)
      PROVE  RaceInv'
  <2>1. Waiting' = Waiting \cup {e}
    BY Zenon, <1>1, WaitingPush DEF ScheduleLocal, Enqueue
  <2> QED
    BY <1>1, <2>1 DEF ScheduleLocal
<1>2. ASSUME NEW e \in Event, NEW p \in Level, NEW a \in Age,
             RemoteEnqueue(e, p, a)
      PROVE  RaceInv'
  <2>1. Waiting' = Waiting \cup {e}
    BY Zenon, <1>2, WaitingPush DEF RemoteEnqueue, Enqueue
  <2>2. \A l \in Level : event_queues[l] # <<>> => event_queues'[l] # <<>>
    <3>1. Append(event_queues[p], e) # <<>>
      BY Zenon, RangeAppend DEF TypeOK
    <3> QED
      BY <1>2, <3>1 DEF RemoteEnqueue, Enqueue, TypeOK
  <2>3. /\ inserting' = e
        /\ UNCHANGED <<pending_events, current_event, raced, pc, level>>
    BY <1>2 DEF RemoteEnqueue
  <2> QED
    BY <2>1, <2>2, <2>3
<1>3. CASE RemoteInsert
  BY <1>3 DEF RemoteInsert, Waiting
<1>4. ASSUME NEW e \in Event, Wake(e)
      PROVE  RaceInv'
  BY <1>4 DEF Wake, Waiting
<1>5. CASE EnterLoop \/ CheckPending \/ Interrupt
  BY <1>5 DEF EnterLoop, CheckPending, Interrupt, Waiting
<1>6. CASE PopRewake
  <2>1. current_event = NoEvent
    BY <1>6 DEF PopRewake, TypeOK
  <2>2. NoEvent \notin pending_events
    BY DEF TypeOK
  <2>3. /\ pc' = "contains"
        /\ UNCHANGED <<event_queues, pending_events, inserting, raced>>
    BY <1>6 DEF PopRewake
  <2> QED
    BY <2>1, <2>2, <2>3 DEF Waiting
<1>7. CASE RewakeEmpty
  BY <1>7 DEF RewakeEmpty, Waiting
<1>8. CASE Reprioritize
  <2>1. Waiting \subseteq Waiting'
    <3>1. CASE Aged(level) /\ Promote(level)
      <4>1. level \in Level /\ level - 1 \in Level
        BY <1>8, PriorityAssumption DEF Reprioritize, TypeOK, Level
      <4> QED
        BY <3>1, <4>1, WaitingPromote
    <3>2. CASE UNCHANGED <<event_queues, priority, age>>
      BY <3>2 DEF Waiting
    <3> QED
      BY <1>8, <3>1, <3>2 DEF Reprioritize
  <2> QED
    BY <1>8, <2>1 DEF Reprioritize
<1>9. CASE ReprioritizeDone
  <2>1. /\ pc = "reprioritize" /\ pc' = "scan" /\ level' = 0
        /\ UNCHANGED <<event_queues, pending_events, current_event, inserting, raced>>
    BY <1>9 DEF ReprioritizeDone
  <2>2. Waiting' = Waiting
    BY <2>1 DEF Waiting
  <2>3. raced # {} \/ Waiting # {}
    BY Zenon, <2>1 DEF TypeOK
  <2>4. raced # {} \/ \E l \in Level : event_queues[l] # <<>>
    BY <2>3 DEF Waiting, Range
  <2>5. \A l \in Level : l >= 0
    BY DEF Level
  <2> QED
    BY <2>1, <2>2, <2>4, <2>5
<1>10. CASE Scan
  <2>1. level \in Level
    BY <1>10, PriorityAssumption DEF Scan, TypeOK, Level
  <2>2. CASE event_queues[level] # <<>>
    <3>1. Waiting \subseteq Waiting' \cup {current_event'}
      BY <1>10, <2>1, <2>2, WaitingPop DEF Scan
    <3>2. current_event = NoEvent
      BY <1>10 DEF Scan, TypeOK
    <3> QED
      BY <1>10, <2>2, <3>1, <3>2 DEF Scan, TypeOK
  <2>3. CASE event_queues[level] = <<>>
    <3>1. /\ pc = "scan" /\ level' = level + 1
          /\ UNCHANGED <<current_event, event_queues, pc, pending_events, inserting, raced>>
      BY <1>10, <2>3 DEF Scan
    <3>2. \A l \in Level : l >= level /\ event_queues[l] # <<>> => l >= level + 1
      BY <2>1, <2>3 DEF Level
    <3>3. raced # {} \/ \E l \in Level : l >= level' /\ event_queues'[l] # <<>>
      BY <3>1, <3>2
    <3> QED
      BY <3>1, <3>3 DEF Waiting
  <2> QED
    BY <2>2, <2>3
<1>11. CASE ScanEmpty
  <2>1. \A l \in Level : ~(l >= level)
    BY <1>11, PriorityAssumption DEF ScanEmpty, TypeOK, Level
  <2>2. raced # {}
    BY <1>11, <2>1 DEF ScanEmpty
  <2> QED
    BY <1>11, <2>2 DEF ScanEmpty, Waiting
<1>12. CASE ContainsEvent
  BY Zenon, <1>12 DEF ContainsEvent, Waiting
<1>13. CASE PollPending
  <2>1. current_event \in Event /\ priority[current_event] \in Level
    BY <1>13 DEF PollPending, TypeOK
  <2>2. Waiting' = Waiting \cup {current_event}
    BY Zenon, <1>13, <2>1, WaitingPush DEF PollPending
  <2> QED
    BY <1>13, <2>2 DEF PollPending
<1>14. CASE PollReady
  <2>1. inserting # current_event \/ inserting = NoEvent
    BY <1>14 DEF PollReady, LiveInv
  <2> QED
    BY <1>14, <2>1 DEF PollReady, Waiting
<1>15. CASE UNCHANGED vars
  BY <1>15 DEF vars, Waiting
<1> QED
  BY <1>1, <1>2, <1>3, <1>4, <1>5, <1>6, <1>7, <1>8, <1>9, <1>10, <1>11,
     <1>12, <1>13, <1>14, <1>15 DEF Next, Schedule, RunLoop

\* RaceInv always holds, with or without other cores.
THEOREM RaceInvariant == Spec => []RaceInv
<1>1. Init => RaceInv
  BY DEF Init, RaceInv, NoLostEvent, PanicOnlyAfterRace
<1>2. TypeOK /\ LiveInv /\ RaceInv /\ [Next]_vars => RaceInv'
  BY RaceInvStep
<1> QED
  BY <1>1, <1>2, TypeCorrect, LiveInvariant, PTL DEF Spec

\* Every event that has not completed stays within run_loop's reach, except one
\* that run_loop dropped while another core was inserting it.
THEOREM NoEventLost == Spec => []NoLostEvent
<1>1. RaceInv => NoLostEvent
  BY DEF RaceInv
<1> QED
  BY <1>1, RaceInvariant, PTL

\* The expect in run_loop fails for no other reason than that race.
THEOREM PanicNeedsRace == Spec => []PanicOnlyAfterRace
<1>1. RaceInv => PanicOnlyAfterRace
  BY DEF RaceInv
<1> QED
  BY <1>1, RaceInvariant, PTL

\* When only the core itself schedules there is no race, so the expect in
\* run_loop never fails.
THEOREM LocalExpectHolds ==
  ASSUME ~RemoteCores
  PROVE  Spec => []ExpectHolds
<1> DEFINE Alone == inserting = NoEvent /\ raced = {}
<1>1. Init => Alone
  BY DEF Init
<1>2. TypeOK /\ Alone /\ [Next]_vars => Alone'
  <2> SUFFICES ASSUME TypeOK, Alone, [Next]_vars
               PROVE  Alone'
    OBVIOUS
  <2> USE DEF queues, events, ghosts
  <2>1. CASE Schedule
    BY <2>1 DEF Schedule, ScheduleLocal, RemoteEnqueue, RemoteInsert
  <2>2. CASE ContainsEvent
    BY <2>2, EventAssumption DEF ContainsEvent, TypeOK
  <2>3. CASE UNCHANGED <<inserting, raced>>
    BY <2>3
  <2> QED
    BY <2>1, <2>2, <2>3
       DEF Next, RunLoop, Wake, EnterLoop, CheckPending, Interrupt, PopRewake,
           RewakeEmpty, Reprioritize, ReprioritizeDone, Scan, ScanEmpty, PollPending,
           PollReady, vars
<1>3. Alone /\ PanicOnlyAfterRace => ExpectHolds
  BY DEF PanicOnlyAfterRace, ExpectHolds
<1> QED
  BY <1>1, <1>2, <1>3, TypeCorrect, PanicNeedsRace, PTL DEF Spec

-----------------------------------------------------------------------------
(* The runner implements the executor                                      *)

\* An event never changes its status but by an executor's step: the queues, the
\* promotions, the wake-ups and the races of schedule are invisible.
THEOREM RunnerImplementsExecutor == Spec => ImplementsExecutor
<1> USE DEF Abstract!Change
<1>1. Init => Abstract!Init
  BY DEF Init, Abstract!Init, Status
<1>2. TypeOK /\ LiveInv /\ [Next]_vars => [Abstract!Next]_Status
  <2> SUFFICES ASSUME TypeOK, LiveInv, [Next]_vars
               PROVE  Abstract!Next \/ UNCHANGED Status
    BY DEF Abstract!Next
  <2> USE EventAssumption DEF TypeOK, FutureState, queues, events, ghosts
  <2>1. ASSUME NEW e \in Event, NEW p \in Level, NEW a \in Age, Enqueue(e, p, a),
               UNCHANGED <<pc, current_event>>
        PROVE  Abstract!Next
    <3>1. ~(pc = "poll" /\ current_event = e)
      BY Zenon, <2>1 DEF Enqueue, LiveInv
    <3>2. Abstract!Schedule(e)
      BY Zenon, <2>1, <3>1 DEF Enqueue, Abstract!Schedule, Status
    <3> QED
      BY <3>2 DEF Abstract!Next
  <2>2. CASE Schedule
    <3>1. 0 \in Age
      BY PriorityAssumption DEF Age
    <3>2. CASE RemoteInsert
      BY <3>2 DEF RemoteInsert, Status
    <3> QED
      BY <2>1, <2>2, <3>1, <3>2 DEF Schedule, ScheduleLocal, RemoteEnqueue
  <2>3. CASE ContainsEvent /\ current_event \in pending_events
    <3>1. /\ pc = "contains" /\ pc' = "poll" /\ current_event' = current_event
          /\ future' = [future EXCEPT ![current_event] = "polled"]
          /\ current_event \in Event /\ future[current_event] \in {"fresh", "polled"}
      BY <2>3 DEF ContainsEvent, LiveInv
    <3>2. Abstract!Poll(current_event)
      BY Zenon, <3>1 DEF Abstract!Poll, Status
    <3> QED
      BY <3>1, <3>2 DEF Abstract!Next
  <2>4. CASE PollPending
    <3>1. /\ pc = "poll" /\ pc' = "check" /\ current_event' = NoEvent /\ future' = future
          /\ current_event \in Event /\ future[current_event] \in {"fresh", "polled"}
      BY <2>4 DEF PollPending, LiveInv
    <3>2. Abstract!Pending(current_event)
      BY Zenon, <3>1 DEF Abstract!Pending, Status
    <3> QED
      BY <3>1, <3>2 DEF Abstract!Next
  <2>5. CASE PollReady
    <3>1. /\ pc = "poll" /\ pc' = "check" /\ current_event' = NoEvent
          /\ future' = [future EXCEPT ![current_event] = "ready"]
          /\ current_event \in Event /\ future[current_event] \in {"fresh", "polled"}
      BY <2>5 DEF PollReady, LiveInv
    <3>2. Abstract!Ready(current_event)
      BY Zenon, <3>1 DEF Abstract!Ready, Status
    <3> QED
      BY <3>1, <3>2 DEF Abstract!Next
  <2>6. CASE future' = future /\ pc # "poll" /\ pc' # "poll"
    BY <2>6 DEF Status
  <2>7. CASE UNCHANGED <<future, pc, current_event>>
    BY <2>7 DEF Status
  <2> QED
    BY <2>2, <2>3, <2>4, <2>5, <2>6, <2>7
       DEF Next, RunLoop, Wake, EnterLoop, CheckPending, Interrupt, PopRewake,
           RewakeEmpty, Reprioritize, ReprioritizeDone, Scan, ScanEmpty, ContainsEvent,
           vars
<1> QED
  BY <1>1, <1>2, TypeCorrect, LiveInvariant, PTL DEF Spec, ImplementsExecutor, Abstract!Spec
-----------------------------------------------------------------------------
(* The entries of an event                                                 *)

\* The entries of e in a family Q of queues.
Places(Q, e) == UNION {{<<l, i>> : i \in {j \in DOMAIN Q[l] : Q[l][j] = e}} : l \in DOMAIN Q}

\* The queues of the runner as one family, the rewake queue under -1.
Family(q, r) == [l \in Level \cup {-1} |-> IF l = -1 THEN r ELSE q[l]]

\* An entry is a queue and a position in it.
IsPlace(L, Q, e, y) == \E k \in L : \E i \in 1..Len(Q[k]) : Q[k][i] = e /\ y = <<k, i>>

\* The entries are the places where the event is.
LEMMA PlacesFacts ==
  ASSUME NEW L, NEW Q, Q \in [L -> Seq(Event)], NEW e
  PROVE  \A y : y \in Places(Q, e) <=> IsPlace(L, Q, e, y)
<1>1. DOMAIN Q = L /\ \A k \in L : DOMAIN Q[k] = 1..Len(Q[k])
  OBVIOUS
<1> QED
  BY <1>1 DEF Places, IsPlace

\* R is the family Q of queues after x was pushed on queue l, or popped from it.
OnQueue(L, Q, R, l) ==
  /\ Q \in [L -> Seq(Event)] /\ R \in [L -> Seq(Event)] /\ l \in L
  /\ \A k \in L \ {l} : R[k] = Q[k]
IsPush(L, Q, R, l, x) == OnQueue(L, Q, R, l) /\ R[l] = Append(Q[l], x)
IsPop(L, Q, R, l, x) ==
  OnQueue(L, Q, R, l) /\ Q[l] # <<>> /\ x = Head(Q[l]) /\ R[l] = Tail(Q[l])

\* Set B has one element more than A if e is x, and as many if not.
OneMore(A, B, e, x) ==
  /\ IsFiniteSet(A) /\ IsFiniteSet(B)
  /\ Cardinality(A) \in Nat /\ Cardinality(B) \in Nat
  /\ Cardinality(B) = Cardinality(A) + (IF e = x THEN 1 ELSE 0)

\* push_back adds one entry, of the event pushed.
LEMMA PlacesPush ==
  ASSUME NEW L, NEW Q, NEW R, NEW l, NEW x \in Event, NEW e \in Event,
         IsFiniteSet(Places(Q, e)), IsPush(L, Q, R, l, x)
  PROVE  OneMore(Places(Q, e), Places(R, e), e, x)
<1> SUFFICES ASSUME Q \in [L -> Seq(Event)], R \in [L -> Seq(Event)], l \in L,
                    \A k \in L \ {l} : R[k] = Q[k], R[l] = Append(Q[l], x)
             PROVE  /\ IsFiniteSet(Places(R, e))
                    /\ Cardinality(Places(R, e)) =
                         Cardinality(Places(Q, e)) + (IF e = x THEN 1 ELSE 0)
  BY FS_CardinalityType DEF IsPush, OnQueue, OneMore
<1>1. PICK s : s = Q[l]
  OBVIOUS
<1>2. s \in Seq(Event) /\ Len(s) \in Nat
  BY <1>1
<1>3. PICK n \in Nat : n = Len(s)
  BY <1>2
<1>4. /\ Append(s, x) \in Seq(Event) /\ Len(Append(s, x)) = n + 1
      /\ \A i \in 1..n : Append(s, x)[i] = s[i]
      /\ Append(s, x)[n + 1] = x
  BY <1>2, <1>3
<1>5. /\ R[l] = Append(s, x) /\ \A k \in L \ {l} : R[k] = Q[k]
  BY <1>1, Zenon
<1>6. \A i : i \in 1..(n + 1) <=> i \in 1..n \/ i = n + 1
  OBVIOUS
<1>7. ASSUME NEW y
      PROVE  y \in Places(R, e) <=> y \in Places(Q, e) \/ (e = x /\ y = <<l, n + 1>>)
  <2>1. y \in Places(R, e) <=> \E k \in L : \E i \in 1..Len(R[k]) : R[k][i] = e /\ y = <<k, i>>
    <3>1. y \in Places(R, e) <=> IsPlace(L, R, e, y)
      BY PlacesFacts, Zenon
    <3> QED
      BY <3>1 DEF IsPlace
  <2>2. y \in Places(Q, e) <=> \E k \in L : \E i \in 1..Len(Q[k]) : Q[k][i] = e /\ y = <<k, i>>
    <3>1. y \in Places(Q, e) <=> IsPlace(L, Q, e, y)
      BY PlacesFacts, Zenon
    <3> QED
      BY <3>1 DEF IsPlace
  <2>3. ASSUME y \in Places(R, e) PROVE y \in Places(Q, e) \/ (e = x /\ y = <<l, n + 1>>)
    <3>1. PICK k \in L : \E i \in 1..Len(R[k]) : R[k][i] = e /\ y = <<k, i>>
      BY <2>1, <2>3
    <3>2. PICK i \in 1..Len(R[k]) : R[k][i] = e /\ y = <<k, i>>
      BY <3>1
    <3>3. CASE k = l
      BY <1>1, <1>3, <1>4, <1>5, <1>6, <2>2, <3>2, <3>3, Zenon
    <3>4. CASE k # l
      BY <1>5, <2>2, <3>2, <3>4, Zenon
    <3> QED
      BY <3>3, <3>4
  <2>4. ASSUME y \in Places(Q, e) PROVE y \in Places(R, e)
    <3>1. PICK k \in L : \E i \in 1..Len(Q[k]) : Q[k][i] = e /\ y = <<k, i>>
      BY <2>2, <2>4
    <3>2. PICK i \in 1..Len(Q[k]) : Q[k][i] = e /\ y = <<k, i>>
      BY <3>1
    <3>3. CASE k = l
      BY <1>1, <1>3, <1>4, <1>5, <1>6, <2>1, <3>2, <3>3, Zenon
    <3>4. CASE k # l
      BY <1>5, <2>1, <3>2, <3>4, Zenon
    <3> QED
      BY <3>3, <3>4
  <2>5. ASSUME e = x, y = <<l, n + 1>> PROVE y \in Places(R, e)
    BY <1>4, <1>5, <1>6, <2>1, <2>5, Zenon
  <2> QED
    BY <2>3, <2>4, <2>5
<1>8. <<l, n + 1>> \notin Places(Q, e)
  <2>1. n + 1 \notin 1..n
    OBVIOUS
  <2>2. ASSUME NEW k \in L, NEW i \in 1..Len(Q[k]), <<l, n + 1>> = <<k, i>> PROVE FALSE
    BY <1>1, <1>3, <2>1, <2>2
  <2>3. ~IsPlace(L, Q, e, <<l, n + 1>>)
    BY <2>2 DEF IsPlace
  <2> QED
    BY <2>3, PlacesFacts, Zenon
<1>9. CASE e = x
  <2>1. Places(R, e) = Places(Q, e) \cup {<<l, n + 1>>}
    BY <1>7, <1>9
  <2>2. Cardinality(Places(R, e)) = Cardinality(Places(Q, e)) + 1 /\ IsFiniteSet(Places(R, e))
    BY Zenon, <1>8, <2>1, FS_AddElement
  <2> QED
    BY <1>9, <2>2
<1>10. CASE e # x
  <2>1. Places(R, e) = Places(Q, e)
    BY Zenon, <1>7, <1>10
  <2>2. Cardinality(Places(Q, e)) \in Nat
    BY FS_CardinalityType
  <2> QED
    BY <1>10, <2>1, <2>2
<1> QED
  BY <1>9, <1>10

\* pop_front removes one entry, of the front event, and moves the others up.
LEMMA PlacesPop ==
  ASSUME NEW L, NEW Q, NEW R, NEW l, NEW x, NEW e \in Event,
         IsFiniteSet(Places(Q, e)), IsPop(L, Q, R, l, x)
  PROVE  OneMore(Places(R, e), Places(Q, e), e, x)
<1> SUFFICES ASSUME Q \in [L -> Seq(Event)], R \in [L -> Seq(Event)], l \in L,
                    Q[l] # <<>>, \A k \in L \ {l} : R[k] = Q[k], R[l] = Tail(Q[l])
             PROVE  /\ IsFiniteSet(Places(R, e))
                    /\ Cardinality(Places(Q, e)) =
                         Cardinality(Places(R, e)) + (IF e = Head(Q[l]) THEN 1 ELSE 0)
  BY FS_CardinalityType DEF IsPop, OnQueue, OneMore
<1>1. PICK s : s = Q[l]
  OBVIOUS
<1>2. s \in Seq(Event) /\ Len(s) \in Nat /\ s # <<>>
  BY <1>1
<1>3. PICK n \in Nat \ {0} : n = Len(s)
  BY <1>2
<1>4. /\ Tail(s) \in Seq(Event) /\ Len(Tail(s)) = n - 1 /\ Head(s) = s[1]
      /\ \A i \in 1..(n - 1) : Tail(s)[i] = s[i + 1]
  BY <1>2, <1>3
<1>5. /\ R[l] = Tail(s) /\ \A k \in L \ {l} : R[k] = Q[k]
  BY <1>1, Zenon
<1> DEFINE S == Places(Q, e) \ {<<l, 1>>}
           T == Places(R, e)
           F == [y \in S |-> IF y[1] = l THEN <<l, y[2] - 1>> ELSE y]
<1>6. ASSUME NEW y
      PROVE  y \in S <=> \E k \in L : \E i \in 1..Len(Q[k]) :
                            Q[k][i] = e /\ y = <<k, i>> /\ (k = l => i # 1)
  <2>1. y \in Places(Q, e) <=> \E k \in L : \E i \in 1..Len(Q[k]) : Q[k][i] = e /\ y = <<k, i>>
    <3>1. y \in Places(Q, e) <=> IsPlace(L, Q, e, y)
      BY PlacesFacts, Zenon
    <3> QED
      BY <3>1 DEF IsPlace
  <2> QED
    BY <2>1
<1>7. ASSUME NEW y
      PROVE  y \in T <=> \E k \in L : \E i \in 1..Len(R[k]) : R[k][i] = e /\ y = <<k, i>>
  <2>1. y \in Places(R, e) <=> IsPlace(L, R, e, y)
    BY PlacesFacts, Zenon
  <2> QED
    BY <2>1 DEF IsPlace
<1> HIDE DEF S, T
<1>8. ASSUME NEW y \in S
      PROVE  \E k \in L : \E i \in 1..Len(Q[k]) :
               /\ Q[k][i] = e /\ y = <<k, i>> /\ (k = l => i # 1)
               /\ F[y] = IF k = l THEN <<k, i - 1>> ELSE <<k, i>>
  <2>1. PICK k \in L : \E i \in 1..Len(Q[k]) : Q[k][i] = e /\ y = <<k, i>> /\ (k = l => i # 1)
    BY <1>6
  <2>2. PICK i \in 1..Len(Q[k]) : Q[k][i] = e /\ y = <<k, i>> /\ (k = l => i # 1)
    BY <2>1
  <2>3. y[1] = k /\ y[2] = i
    BY <2>2
  <2>4. F[y] = IF k = l THEN <<k, i - 1>> ELSE <<k, i>>
    BY <2>2, <2>3
  <2> QED
    BY Zenon, <2>2, <2>4
<1>9. F \in [S -> T]
  <2> SUFFICES ASSUME NEW y \in S PROVE F[y] \in T
    OBVIOUS
  <2>1. PICK k \in L : \E i \in 1..Len(Q[k]) :
               /\ Q[k][i] = e /\ y = <<k, i>> /\ (k = l => i # 1)
               /\ F[y] = IF k = l THEN <<k, i - 1>> ELSE <<k, i>>
    BY Zenon, <1>8
  <2>2. PICK i \in 1..Len(Q[k]) :
               /\ Q[k][i] = e /\ y = <<k, i>> /\ (k = l => i # 1)
               /\ F[y] = IF k = l THEN <<k, i - 1>> ELSE <<k, i>>
    BY Zenon, <2>1
  <2> HIDE DEF F
  <2>3. CASE k = l
    <3>1. i \in 1..n /\ i # 1 /\ s[i] = e
      BY <1>1, <1>3, <2>2, <2>3
    <3>2. i - 1 \in 1..(n - 1) /\ (i - 1) + 1 = i
      BY <3>1
    <3>3. i - 1 \in 1..Len(R[l]) /\ R[l][i - 1] = e
      BY Zenon, <1>4, <1>5, <3>1, <3>2
    <3> QED
      BY Zenon, <1>7, <2>2, <2>3, <3>3
  <2>4. CASE k # l
    BY <1>5, <1>7, <2>2, <2>4
  <2> QED
    BY <2>3, <2>4
<1>10. ASSUME NEW y \in S, NEW z \in S, F[y] = F[z] PROVE y = z
  <2>1. PICK k \in L : \E i \in 1..Len(Q[k]) :
               /\ Q[k][i] = e /\ y = <<k, i>> /\ (k = l => i # 1)
               /\ F[y] = IF k = l THEN <<k, i - 1>> ELSE <<k, i>>
    BY Zenon, <1>8
  <2>2. PICK i \in 1..Len(Q[k]) :
               /\ Q[k][i] = e /\ y = <<k, i>> /\ (k = l => i # 1)
               /\ F[y] = IF k = l THEN <<k, i - 1>> ELSE <<k, i>>
    BY Zenon, <2>1
  <2>3. PICK m \in L : \E j \in 1..Len(Q[m]) :
               /\ Q[m][j] = e /\ z = <<m, j>> /\ (m = l => j # 1)
               /\ F[z] = IF m = l THEN <<m, j - 1>> ELSE <<m, j>>
    BY Zenon, <1>8
  <2>4. PICK j \in 1..Len(Q[m]) :
               /\ Q[m][j] = e /\ z = <<m, j>> /\ (m = l => j # 1)
               /\ F[z] = IF m = l THEN <<m, j - 1>> ELSE <<m, j>>
    BY Zenon, <2>3
  <2> HIDE DEF F
  <2>5. k = m
    BY <1>10, <2>2, <2>4
  <2>6. i = j
    BY <1>10, <2>2, <2>4, <2>5
  <2> QED
    BY <2>2, <2>4, <2>5, <2>6
<1>11. ASSUME NEW t \in T PROVE \E y \in S : F[y] = t
  <2>1. PICK k \in L : \E i \in 1..Len(R[k]) : R[k][i] = e /\ t = <<k, i>>
    BY <1>7
  <2>2. PICK i \in 1..Len(R[k]) : R[k][i] = e /\ t = <<k, i>>
    BY <2>1
  <2>3. CASE k = l
    <3>1. i \in 1..(n - 1) /\ i + 1 \in 1..n /\ i + 1 # 1 /\ (i + 1) - 1 = i
      BY <1>4, <1>5, <2>2, <2>3
    <3>2. s[i + 1] = e
      BY Zenon, <1>4, <1>5, <2>2, <2>3, <3>1
    <3>3. <<l, i + 1>> \in S
      BY <1>1, <1>3, <1>6, <3>1, <3>2
    <3>4. F[<<l, i + 1>>] = t
      BY <2>2, <2>3, <3>1, <3>3
    <3> QED
      BY <3>3, <3>4
  <2>4. CASE k # l
    <3>1. t \in S
      BY <1>5, <1>6, <2>2, <2>4
    <3>2. F[t] = t
      BY <2>2, <2>4, <3>1
    <3> QED
      BY <3>1, <3>2
  <2> QED
    BY <2>3, <2>4
<1> HIDE DEF F
<1>12. F \in Bijection(S, T)
  BY <1>9, <1>10, <1>11, Fun_IsBij
<1>13. ExistsBijection(S, T)
  BY <1>12, Fun_ExistsBij
<1>14. IsFiniteSet(S) /\ Cardinality(S) =
         IF <<l, 1>> \in Places(Q, e) THEN Cardinality(Places(Q, e)) - 1 ELSE Cardinality(Places(Q, e))
  BY Zenon, FS_RemoveElement DEF S
<1>15. IsFiniteSet(T) /\ Cardinality(T) = Cardinality(S)
  BY <1>13, <1>14, FS_Bijection
<1>16. <<l, 1>> \in Places(Q, e) <=> e = Head(Q[l])
  <2>1. 1 \in 1..Len(Q[l]) /\ Head(Q[l]) = Q[l][1]
    BY <1>1, <1>3, <1>4
  <2>2. <<l, 1>> \in Places(Q, e) <=>
          \E k \in L : \E i \in 1..Len(Q[k]) : Q[k][i] = e /\ <<l, 1>> = <<k, i>>
    <3>1. <<l, 1>> \in Places(Q, e) <=> IsPlace(L, Q, e, <<l, 1>>)
      BY PlacesFacts, Zenon
    <3> QED
      BY <3>1 DEF IsPlace
  <2> QED
    BY <2>1, <2>2
<1>17. Cardinality(Places(Q, e)) \in Nat
  BY FS_CardinalityType
<1> QED
  BY <1>14, <1>15, <1>16, <1>17 DEF T

\* The entries of the runner are those in its family of queues.
LEMMA FamilyFacts ==
  ASSUME NEW q \in [Level -> Seq(Event)], NEW r \in Seq(Event)
  PROVE  /\ Family(q, r) \in [Level \cup {-1} -> Seq(Event)]
         /\ Family(q, r)[-1] = r
         /\ \A l \in Level : Family(q, r)[l] = q[l] /\ l # -1
         /\ \A e : Places(Family(q, r), e) =
              {<<-1, i>> : i \in {j \in DOMAIN r : r[j] = e}}
                \cup UNION {{<<l, i>> : i \in {j \in DOMAIN q[l] : q[l][j] = e}} : l \in Level}
<1>1. \A l \in Level : l # -1
  BY DEF Level
<1>2. /\ Family(q, r) \in [Level \cup {-1} -> Seq(Event)]
      /\ Family(q, r)[-1] = r /\ \A l \in Level : Family(q, r)[l] = q[l]
      /\ DOMAIN Family(q, r) = Level \cup {-1}
  BY <1>1 DEF Family
<1>3. ASSUME NEW e, NEW y
      PROVE  y \in Places(Family(q, r), e) <=>
               \/ \E i \in {j \in DOMAIN r : r[j] = e} : y = <<-1, i>>
               \/ \E l \in Level : \E i \in {j \in DOMAIN q[l] : q[l][j] = e} : y = <<l, i>>
  <2> DEFINE F == Family(q, r)
  <2> HIDE DEF F
  <2>1. y \in Places(F, e) <=>
          \E l \in Level \cup {-1} : \E i \in {j \in DOMAIN F[l] : F[l][j] = e} : y = <<l, i>>
    BY <1>2 DEF Places, F
  <2>2. F[-1] = r /\ \A l \in Level : F[l] = q[l]
    BY <1>2 DEF F
  <2> QED
    BY <2>1, <2>2 DEF F
<1> QED
  BY <1>1, <1>2, <1>3

\* Which pushes and pops the steps of the runner are, by the queue they work on.
LEMMA FamilySteps ==
  ASSUME NEW q \in [Level -> Seq(Event)], NEW r \in Seq(Event), NEW p \in Level,
         NEW x \in Event
  PROVE  LET L == Level \cup {-1}
         IN  /\ \A w \in [Level -> Seq(Event)] :
                  w = [q EXCEPT ![p] = Append(@, x)] =>
                    IsPush(L, Family(q, r), Family(w, r), p, x)
             /\ \A w \in [Level -> Seq(Event)] :
                  q[p] # <<>> /\ x = Head(q[p]) /\ w = [q EXCEPT ![p] = Tail(@)] =>
                    IsPop(L, Family(q, r), Family(w, r), p, x)
             /\ IsPush(L, Family(q, r), Family(q, Append(r, x)), -1, x)
             /\ r # <<>> /\ x = Head(r) =>
                  IsPop(L, Family(q, r), Family(q, Tail(r)), -1, x)
<1>1. \A l \in Level : l # -1
  BY DEF Level
<1>2. Append(r, x) \in Seq(Event) /\ (r # <<>> => Tail(r) \in Seq(Event))
  OBVIOUS
<1>3. ASSUME NEW w \in [Level -> Seq(Event)],
             \A l \in Level \ {p} : w[l] = q[l]
      PROVE  /\ OnQueue(Level \cup {-1}, Family(q, r), Family(w, r), p)
             /\ Family(q, r)[p] = q[p] /\ Family(w, r)[p] = w[p]
  BY <1>1, <1>3 DEF OnQueue, Family
<1>4. ASSUME NEW t \in Seq(Event)
      PROVE  /\ OnQueue(Level \cup {-1}, Family(q, r), Family(q, t), -1)
             /\ Family(q, r)[-1] = r /\ Family(q, t)[-1] = t
  BY <1>1, <1>4 DEF OnQueue, Family
<1>5. ASSUME NEW w \in [Level -> Seq(Event)], w = [q EXCEPT ![p] = Append(@, x)]
      PROVE  IsPush(Level \cup {-1}, Family(q, r), Family(w, r), p, x)
  <2>1. w[p] = Append(q[p], x) /\ \A l \in Level \ {p} : w[l] = q[l]
    BY <1>5, Zenon
  <2> QED
    BY <1>3, <2>1, Zenon DEF IsPush
<1>6. ASSUME NEW w \in [Level -> Seq(Event)], q[p] # <<>>, x = Head(q[p]),
             w = [q EXCEPT ![p] = Tail(@)]
      PROVE  IsPop(Level \cup {-1}, Family(q, r), Family(w, r), p, x)
  <2>1. w[p] = Tail(q[p]) /\ \A l \in Level \ {p} : w[l] = q[l]
    BY <1>6, Zenon
  <2> QED
    BY <1>3, <1>6, <2>1, Zenon DEF IsPop
<1>7. IsPush(Level \cup {-1}, Family(q, r), Family(q, Append(r, x)), -1, x)
  BY <1>2, <1>4, Zenon DEF IsPush
<1>8. r # <<>> /\ x = Head(r) =>
        IsPop(Level \cup {-1}, Family(q, r), Family(q, Tail(r)), -1, x)
  BY <1>2, <1>4, Zenon DEF IsPop
<1> QED
  BY Zenon, <1>5, <1>6, <1>7, <1>8

\* The entries of an event, as places of the family of queues.
LEMMA EntriesArePlaces ==
  ASSUME TypeOK, NEW e
  PROVE  Entries(e) = Places(Family(event_queues, rewake_queue), e)
<1>1. event_queues \in [Level -> Seq(Event)] /\ rewake_queue \in Seq(Event)
  BY DEF TypeOK
<1> QED
  BY <1>1, FamilyFacts DEF Entries

\* What each change of the queues does to the entries of an event.
LEMMA EntriesStep ==
  ASSUME TypeOK, TypeOK', NEW e \in Event, IsFiniteSet(Entries(e))
  PROVE  /\ UNCHANGED queues => Entries(e)' = Entries(e)
         /\ \A p \in Level, x \in Event :
              /\ event_queues' = [event_queues EXCEPT ![p] = Append(@, x)]
              /\ UNCHANGED rewake_queue
              => OneMore(Entries(e), Entries(e)', e, x)
         /\ \A p \in Level :
              /\ event_queues[p] # <<>>
              /\ event_queues' = [event_queues EXCEPT ![p] = Tail(@)]
              /\ UNCHANGED rewake_queue
              => OneMore(Entries(e)', Entries(e), e, Head(event_queues[p]))
         /\ \A x \in Event :
              rewake_queue' = Append(rewake_queue, x) /\ UNCHANGED event_queues
              => OneMore(Entries(e), Entries(e)', e, x)
         /\ /\ rewake_queue # <<>>
            /\ rewake_queue' = Tail(rewake_queue) /\ UNCHANGED event_queues
            => OneMore(Entries(e)', Entries(e), e, Head(rewake_queue))
         /\ \A i \in Level \ {0} :
              event_queues[i] # <<>> /\ Promote(i) /\ UNCHANGED rewake_queue
              => IsFiniteSet(Entries(e)') /\ Cardinality(Entries(e)') = Cardinality(Entries(e))
<1>1. PICK q, w, r, t : /\ q = event_queues /\ w = event_queues'
                        /\ r = rewake_queue /\ t = rewake_queue'
  OBVIOUS
<1>2. /\ q \in [Level -> Seq(Event)] /\ w \in [Level -> Seq(Event)]
      /\ r \in Seq(Event) /\ t \in Seq(Event)
  BY Zenon, <1>1 DEF TypeOK
<1>3. /\ Entries(e) = Places(Family(q, r), e)
      /\ Entries(e)' = Places(Family(w, t), e)
  <2>1. Entries(e) = Places(Family(event_queues, rewake_queue), e)
    BY EntriesArePlaces
  <2>2. Entries(e)' = Places(Family(event_queues', rewake_queue'), e)
    <3>1. event_queues' \in [Level -> Seq(Event)] /\ rewake_queue' \in Seq(Event)
      BY DEF TypeOK
    <3> QED
      BY <3>1, FamilyFacts DEF Entries
  <2> QED
    BY <1>1, <2>1, <2>2
<1>4. IsFiniteSet(Places(Family(q, r), e))
  BY <1>3
<1>5. ASSUME UNCHANGED queues PROVE Entries(e)' = Entries(e)
  BY <1>1, <1>3, <1>5 DEF queues
<1>6. ASSUME NEW p \in Level, NEW x \in Event, w = [q EXCEPT ![p] = Append(@, x)], t = r
      PROVE  OneMore(Entries(e), Entries(e)', e, x)
  <2>1. IsPush(Level \cup {-1}, Family(q, r), Family(w, r), p, x)
    BY <1>2, <1>6, FamilySteps, Zenon
  <2> QED
    BY <1>3, <1>4, <1>6, <2>1, PlacesPush, Zenon
<1>7. ASSUME NEW p \in Level, q[p] # <<>>, w = [q EXCEPT ![p] = Tail(@)], t = r
      PROVE  OneMore(Entries(e)', Entries(e), e, Head(q[p]))
  <2>1. q[p] \in Seq(Event)
    BY <1>2
  <2>2. Head(q[p]) \in Event
    BY <1>7, <2>1
  <2>3. IsPop(Level \cup {-1}, Family(q, r), Family(w, r), p, Head(q[p]))
    BY <1>2, <1>7, <2>2, FamilySteps, Zenon
  <2> QED
    BY <1>3, <1>4, <1>7, <2>3, PlacesPop, Zenon
<1>8. ASSUME NEW x \in Event, t = Append(r, x), w = q
      PROVE  OneMore(Entries(e), Entries(e)', e, x)
  <2>1. 0 \in Level
    BY PriorityAssumption DEF Level
  <2>2. IsPush(Level \cup {-1}, Family(q, r), Family(q, t), -1, x)
    BY <1>2, <1>8, <2>1, FamilySteps, Zenon
  <2> QED
    BY <1>3, <1>4, <1>8, <2>2, PlacesPush, Zenon
<1>9. ASSUME r # <<>>, t = Tail(r), w = q
      PROVE  OneMore(Entries(e)', Entries(e), e, Head(r))
  <2>1. 0 \in Level
    BY PriorityAssumption DEF Level
  <2>2. Head(r) \in Event
    BY <1>2, <1>9
  <2>3. IsPop(Level \cup {-1}, Family(q, r), Family(q, t), -1, Head(r))
    BY <1>2, <1>9, <2>1, <2>2, FamilySteps, Zenon
  <2> QED
    BY <1>3, <1>4, <1>9, <2>3, PlacesPop, Zenon
<1>10. ASSUME NEW i \in Level \ {0}, q[i] # <<>>, t = r,
              w = [q EXCEPT ![i] = Tail(@), ![i - 1] = Append(@, Head(q[i]))]
       PROVE  IsFiniteSet(Entries(e)') /\ Cardinality(Entries(e)') = Cardinality(Entries(e))
  <2>1. i \in Level /\ i - 1 \in Level /\ i - 1 # i
    BY PriorityAssumption DEF Level
  <2>2. PICK x : x = Head(q[i])
    OBVIOUS
  <2>3. q[i] \in Seq(Event)
    BY <1>2, <2>1
  <2>4. x \in Event /\ Tail(q[i]) \in Seq(Event)
    BY <1>10, <2>2, <2>3
  <2>5. PICK v : v = [q EXCEPT ![i] = Tail(@)]
    BY Zenon
  <2>6. v \in [Level -> Seq(Event)]
    BY <1>2, <2>1, <2>4, <2>5
  <2>7. w = [v EXCEPT ![i - 1] = Append(@, x)]
    <3>1. /\ w[i] = Tail(q[i]) /\ w[i - 1] = Append(q[i - 1], x)
          /\ \A l \in Level \ {i, i - 1} : w[l] = q[l]
      BY <1>2, <1>10, <2>1, <2>2
    <3>2. /\ v[i] = Tail(q[i]) /\ v[i - 1] = q[i - 1]
          /\ \A l \in Level \ {i, i - 1} : v[l] = q[l]
      BY <1>2, <2>1, <2>5
    <3>3. \A l \in Level : w[l] = [v EXCEPT ![i - 1] = Append(@, x)][l]
      BY Zenon, <2>1, <2>6, <3>1, <3>2
    <3> QED
      BY <1>2, <2>1, <2>6, <3>3
  <2>8. OneMore(Places(Family(v, r), e), Places(Family(q, r), e), e, x)
    <3>1. IsPop(Level \cup {-1}, Family(q, r), Family(v, r), i, x)
      BY <1>2, <1>10, <2>1, <2>2, <2>4, <2>5, <2>6, FamilySteps, Zenon
    <3> QED
      BY <1>4, <3>1, PlacesPop, Zenon
  <2>9. OneMore(Places(Family(v, r), e), Places(Family(w, r), e), e, x)
    <3>1. IsPush(Level \cup {-1}, Family(v, r), Family(w, r), i - 1, x)
      BY <1>2, <2>1, <2>4, <2>6, <2>7, FamilySteps, Zenon
    <3>2. IsFiniteSet(Places(Family(v, r), e))
      BY <2>8 DEF OneMore
    <3> QED
      BY <2>4, <3>1, <3>2, PlacesPush, Zenon
  <2>10. Entries(e)' = Places(Family(w, r), e)
    BY <1>3, <1>10
  <2> HIDE DEF OneMore
  <2> QED
    BY <1>3, <2>8, <2>9, <2>10 DEF OneMore
<1> QED
  <2>1. \A i \in Level \ {0} :
          Promote(i) => event_queues' = [event_queues EXCEPT ![i] = Tail(@),
                                           ![i - 1] = Append(@, Head(event_queues[i]))]
    BY DEF Promote
  <2> QED
    BY <1>1, <1>5, <1>6, <1>7, <1>8, <1>9, <1>10, <2>1, Zenon

\* The inductive invariant behind EntriesPerWake: the entry that run_loop has in hand
\* counts too.
EntriesInv ==
  \A e \in Event :
    /\ IsFiniteSet(Entries(e))
    /\ Cardinality(Entries(e)) + (IF current_event = e THEN 1 ELSE 0)
         <= (IF future[e] = "new" THEN 0 ELSE 1 + wakes[e])

\* At the start there are no entries.
LEMMA EntriesInit ==
  ASSUME Init PROVE EntriesInv
<1>1. \A e \in Event : Entries(e) = {}
  <2>1. rewake_queue = <<>> /\ \A l \in Level : event_queues[l] = <<>>
    BY DEF Init
  <2>2. DOMAIN <<>> = {}
    OBVIOUS
  <2> QED
    BY <2>1, <2>2, Zenon DEF Entries
<1>2. \A e \in Event : current_event # e /\ future[e] = "new"
  BY EventAssumption DEF Init
<1> QED
  BY <1>1, <1>2, FS_EmptySet DEF EntriesInv

\* Every step keeps the count: what it pushes it had in hand, has just been scheduled or
\* is a wake-up.
LEMMA EntriesInvStep ==
  ASSUME TypeOK, TypeOK', EntriesInv, [Next]_vars
  PROVE  EntriesInv'
<1> SUFFICES ASSUME NEW e \in Event
             PROVE  /\ IsFiniteSet(Entries(e)')
                    /\ Cardinality(Entries(e)') + (IF current_event' = e THEN 1 ELSE 0)
                         <= (IF future'[e] = "new" THEN 0 ELSE 1 + wakes'[e])
  BY DEF EntriesInv
<1>1. /\ IsFiniteSet(Entries(e))
      /\ Cardinality(Entries(e)) + (IF current_event = e THEN 1 ELSE 0)
           <= (IF future[e] = "new" THEN 0 ELSE 1 + wakes[e])
  BY DEF EntriesInv
<1>2. Cardinality(Entries(e)) \in Nat
  BY <1>1, FS_CardinalityType
<1>3. /\ current_event \in Event \cup {NoEvent} /\ NoEvent \notin Event
      /\ future \in [Event -> FutureState] /\ wakes \in [Event -> Nat]
  BY Zenon, EventAssumption DEF TypeOK
<1>4. wakes[e] \in Nat
  BY <1>3
<1> DEFINE Bound(A, c, f, k) ==
      /\ IsFiniteSet(A)
      /\ Cardinality(A) + (IF c = e THEN 1 ELSE 0) <= (IF f = "new" THEN 0 ELSE 1 + k)
<1>5. Bound(Entries(e), current_event, future[e], wakes[e])
  BY <1>1
<1> SUFFICES Bound(Entries(e)', current_event', future'[e], wakes'[e])
  OBVIOUS
<1>6. ASSUME UNCHANGED <<queues, wakes>>, current_event' \in {current_event, NoEvent},
             future'[e] = future[e] \/ future'[e] # "new"
      PROVE  Bound(Entries(e)', current_event', future'[e], wakes'[e])
  <2>1. Entries(e)' = Entries(e)
    BY <1>1, <1>6, EntriesStep
  <2> QED
    BY <1>1, <1>2, <1>3, <1>4, <1>6, <2>1
<1>7. ASSUME NEW x \in Event, NEW p \in Level, Enqueue(x, p, age'[x]),
             UNCHANGED <<rewake_queue, current_event, wakes>>
      PROVE  Bound(Entries(e)', current_event', future'[e], wakes'[e])
  <2>1. OneMore(Entries(e), Entries(e)', e, x)
    BY <1>1, <1>7, EntriesStep, Zenon DEF Enqueue
  <2>2. future[x] = "new" /\ future' = [future EXCEPT ![x] = "fresh"]
    BY <1>7 DEF Enqueue
  <2> QED
    BY <1>1, <1>2, <1>3, <1>4, <1>7, <2>1, <2>2 DEF OneMore
<1>8. ASSUME NEW x \in Event, Wake(x)
      PROVE  Bound(Entries(e)', current_event', future'[e], wakes'[e])
  <2>1. OneMore(Entries(e), Entries(e)', e, x)
    BY <1>1, <1>8, EntriesStep, Zenon DEF Wake
  <2>2. /\ future[x] # "new" /\ wakes' = [wakes EXCEPT ![x] = @ + 1]
        /\ current_event' = current_event /\ future' = future
    BY <1>8 DEF Wake, events
  <2> QED
    BY <1>1, <1>2, <1>3, <1>4, <2>1, <2>2 DEF OneMore
<1>9. ASSUME NEW x, OneMore(Entries(e)', Entries(e), e, x), current_event = NoEvent,
             current_event' = x, UNCHANGED <<future, wakes>>
      PROVE  Bound(Entries(e)', current_event', future'[e], wakes'[e])
  BY <1>1, <1>3, <1>9 DEF OneMore
<1>10. CASE PopRewake
  <2>1. OneMore(Entries(e)', Entries(e), e, Head(rewake_queue))
    BY <1>1, <1>10, EntriesStep, Zenon DEF PopRewake
  <2> QED
    BY <1>9, <1>10, <2>1 DEF PopRewake, events, ghosts, TypeOK
<1>11. CASE Reprioritize
  <2>1. CASE Aged(level) /\ Promote(level)
    <3>1. /\ level \in Level \ {0} /\ event_queues[level] # <<>>
          /\ UNCHANGED <<rewake_queue, future, current_event, wakes>>
      <4>1. level \in 0..NUM_EVENT_PRIORITIES /\ level < NUM_EVENT_PRIORITIES /\ level >= 1
        BY <1>11 DEF Reprioritize, TypeOK
      <4>2. level \in Level \ {0}
        BY <4>1, PriorityAssumption DEF Level
      <4> QED
        BY <1>11, <2>1, <4>2 DEF Reprioritize, Aged, ghosts
    <3>2. IsFiniteSet(Entries(e)') /\ Cardinality(Entries(e)') = Cardinality(Entries(e))
      BY <1>1, <2>1, <3>1, EntriesStep, Zenon
    <3> QED
      BY <1>1, <3>1, <3>2
  <2>2. CASE ~Aged(level) /\ UNCHANGED <<event_queues, priority, age>>
    BY <1>6, <1>11, <2>2 DEF Reprioritize, queues, ghosts
  <2> QED
    BY <1>11, <2>1, <2>2 DEF Reprioritize
<1>12. CASE Scan
  <2>1. CASE event_queues[level] # <<>>
    <3>1. level \in Level
      BY <1>12, PriorityAssumption DEF Scan, TypeOK, Level
    <3>2. OneMore(Entries(e)', Entries(e), e, Head(event_queues[level]))
      BY <1>1, <1>12, <2>1, <3>1, EntriesStep, Zenon DEF Scan
    <3> QED
      BY <1>9, <1>12, <2>1, <3>2 DEF Scan, events, ghosts, TypeOK
  <2>2. CASE event_queues[level] = <<>>
    BY <1>6, <1>12, <2>2 DEF Scan, queues, events, ghosts
  <2> QED
    BY <2>1, <2>2
<1>13. CASE PollPending
  <2>1. current_event \in Event /\ priority[current_event] \in Level
    BY <1>13 DEF PollPending, TypeOK
  <2>2. OneMore(Entries(e), Entries(e)', e, current_event)
    BY <1>1, <1>13, <2>1, EntriesStep, Zenon DEF PollPending
  <2>3. current_event' = NoEvent /\ UNCHANGED <<future, wakes>>
    BY <1>13 DEF PollPending, events, ghosts
  <2> QED
    BY <1>1, <1>2, <1>3, <1>4, <2>2, <2>3 DEF OneMore
<1>14. CASE ContainsEvent
  <2>1. /\ UNCHANGED <<queues, wakes>> /\ current_event' \in {current_event, NoEvent}
        /\ future' = future \/ future' = [future EXCEPT ![current_event] = "polled"]
    BY <1>14 DEF ContainsEvent
  <2> QED
    BY <1>3, <1>6, <2>1
<1>15. CASE PollReady
  <2>1. /\ UNCHANGED <<queues, wakes>> /\ current_event' = NoEvent
        /\ future' = [future EXCEPT ![current_event] = "ready"]
    BY <1>15 DEF PollReady, ghosts
  <2> QED
    BY <1>3, <1>6, <2>1
<1>16. CASE \/ RemoteInsert \/ EnterLoop \/ CheckPending \/ Interrupt \/ RewakeEmpty
            \/ ReprioritizeDone \/ ScanEmpty \/ UNCHANGED vars
  <2>1. UNCHANGED <<queues, wakes, current_event, future>>
    BY <1>16 DEF RemoteInsert, EnterLoop, CheckPending, Interrupt, RewakeEmpty,
                 ReprioritizeDone, ScanEmpty, vars, queues, events, ghosts
  <2> QED
    BY <1>6, <2>1
<1>17. ASSUME NEW x \in Event, NEW p \in Level, ScheduleLocal(x, p)
       PROVE  Bound(Entries(e)', current_event', future'[e], wakes'[e])
  <2>1. Enqueue(x, p, age'[x]) /\ UNCHANGED <<rewake_queue, current_event, wakes>>
    BY <1>17 DEF ScheduleLocal, Enqueue, ghosts, TypeOK
  <2> QED
    BY <1>7, <2>1
<1>18. ASSUME NEW x \in Event, NEW p \in Level, NEW a \in Age, RemoteEnqueue(x, p, a)
       PROVE  Bound(Entries(e)', current_event', future'[e], wakes'[e])
  <2>1. Enqueue(x, p, age'[x]) /\ UNCHANGED <<rewake_queue, current_event, wakes>>
    BY <1>18 DEF RemoteEnqueue, Enqueue, ghosts, TypeOK
  <2> QED
    BY <1>7, <2>1
<1> HIDE DEF Bound
<1> QED
  BY Zenon, <1>8, <1>10, <1>11, <1>12, <1>13, <1>14, <1>15, <1>16, <1>17, <1>18
     DEF Next, Schedule, RunLoop

\* The queues grow only by wake-ups, for any number of events, priorities and wake-ups:
\* no schedule, promotion, poll or rewake ever leaves an entry behind.
THEOREM EntriesBounded == Spec => []EntriesPerWake
<1>1. Init => EntriesInv
  BY EntriesInit
<1>2. TypeOK /\ TypeOK' /\ EntriesInv /\ [Next]_vars => EntriesInv'
  BY EntriesInvStep
<1>3. TypeOK /\ EntriesInv => EntriesPerWake
  <2> SUFFICES ASSUME TypeOK, EntriesInv, NEW e \in Event
               PROVE  Cardinality(Entries(e)) <= (IF future[e] = "new" THEN 0 ELSE 1 + wakes[e])
    BY DEF EntriesPerWake
  <2>1. /\ IsFiniteSet(Entries(e))
        /\ Cardinality(Entries(e)) + (IF current_event = e THEN 1 ELSE 0)
             <= (IF future[e] = "new" THEN 0 ELSE 1 + wakes[e])
    BY DEF EntriesInv
  <2>2. Cardinality(Entries(e)) \in Nat /\ wakes[e] \in Nat
    BY <2>1, FS_CardinalityType DEF TypeOK
  <2> QED
    BY <2>1, <2>2
<1> QED
  BY <1>1, <1>2, <1>3, TypeCorrect, PTL DEF Spec
=============================================================================
