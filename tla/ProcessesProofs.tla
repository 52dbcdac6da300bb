---------------------------- MODULE ProcessesProofs ----------------------------
(***************************************************************************)
(* Processes for any number of cores, processes and frames: lookups        *)
(* succeed, address spaces are isolated and contexts survive preemption,   *)
(* each process has one event and each frame is accounted for; and what    *)
(* the loader leaves in memory.                                            *)
(***************************************************************************)
EXTENDS Processes, Loader, FiniteSetTheorems, TLAPS

\* A process is in at most one place: in a queue, in the hands of a core that has
\* not finished its event, or in those of a core that creates it.
QueuedOnce ==
  \A c, d \in Core : \A i \in 1..Len(queue[c]) : \A j \in 1..Len(queue[d]) :
    queue[c][i] = queue[d][j] => c = d /\ i = j
LiveOnce ==
  \A c, d \in Core : Live(c) /\ Live(d) /\ current_event[c] = current_event[d] => c = d
SpawnedOnce ==
  \A c, d \in Core : spawning[c] # NoPid /\ spawning[c] = spawning[d] => c = d
QueuedNotLive ==
  \A c, d \in Core : \A i \in 1..Len(queue[c]) : Live(d) => queue[c][i] # current_event[d]
QueuedNotSpawned ==
  \A c, d \in Core : \A i \in 1..Len(queue[c]) : queue[c][i] # spawning[d]
LiveNotSpawned ==
  \A c, d \in Core : Live(c) => current_event[c] # spawning[d]
OnePlace ==
  QueuedOnce /\ LiveOnce /\ SpawnedOnce /\ QueuedNotLive /\ QueuedNotSpawned /\ LiveNotSpawned

\* An event that is not used up has its process in the table.
QueuedInTable == \A c \in Core : \A i \in 1..Len(queue[c]) : queue[c][i] \in PROCESS_TABLE
LiveInTable == \A c \in Core : Live(c) => current_event[c] \in PROCESS_TABLE
LoopIdle == \A c \in Core : pc[c] = "loop" => current_event[c] = NoPid
InTable == QueuedInTable /\ LiveInTable /\ LoopIdle

\* Pids from NEXT_PID on have not been used.
Fresh ==
  /\ \A p \in PROCESS_TABLE : p < NEXT_PID
  /\ \A c \in Core : spawning[c] < NEXT_PID
  /\ \A p \in Pid : p >= NEXT_PID => work[p] = 0 /\ frames[p] = <<>>
  /\ \A c \in Core : spawning[c] \in Pid \ PROCESS_TABLE => work[spawning[c]] = 0

\* A process is Running exactly while a core is in ring 3 with it.
RunningInRing3 ==
  /\ \A c \in Core : pc[c] = "ring3" => state[current_event[c]] = "Running"
  /\ \A p \in PROCESS_TABLE : state[p] = "Running" =>
       \E c \in Core : pc[c] = "ring3" /\ current_event[c] = p

\* Address spaces are disjoint, and their frames are not free.
TwoFrames == \A p \in PROCESS_TABLE : Len(frames[p]) = 2
FramesDisjoint ==
  \A p, q \in Pid : \A i \in 1..Len(frames[p]) : \A j \in 1..Len(frames[q]) :
    frames[p][i] = frames[q][j] => p = q
FramesTaken == \A p \in Pid : \A i \in 1..Len(frames[p]) : frames[p][i] \notin free
OwnTable == \A c \in Core : pc[c] = "ring3" => cr3[c] = frames[current_event[c]][1]
Memory == TwoFrames /\ FramesDisjoint /\ FramesTaken /\ OwnTable

\* The inductive invariant.
ProcInv ==
  TypeOK /\ OnePlace /\ InTable /\ Fresh /\ RunningInRing3 /\ Memory /\ ContextKept
  /\ LookUpsSucceed

-----------------------------------------------------------------------------
\* Append adds one element at the end.
LEMMA AppendFacts ==
  ASSUME NEW S, NEW s \in Seq(S), NEW e \in S
  PROVE  /\ Append(s, e) \in Seq(S) /\ Len(Append(s, e)) = Len(s) + 1 /\ Len(s) \in Nat
         /\ \A i \in 1..Len(s) : Append(s, e)[i] = s[i]
         /\ Append(s, e)[Len(s) + 1] = e
  OBVIOUS

\* The elements of a sequence.
LEMMA ElementFacts ==
  ASSUME NEW S, NEW s \in Seq(S), NEW i \in 1..Len(s)
  PROVE  s[i] \in S
  OBVIOUS

\* Head and Tail of a sequence.
LEMMA TailFacts ==
  ASSUME NEW S, NEW s \in Seq(S), s # <<>>
  PROVE  /\ Tail(s) \in Seq(S) /\ Len(Tail(s)) = Len(s) - 1 /\ Len(s) \in Nat \ {0}
         /\ \A i \in 1..(Len(s) - 1) : Tail(s)[i] = s[i + 1]
         /\ Head(s) = s[1] /\ Head(s) \in S
  OBVIOUS

\* A new pid is in no place yet (create_process).
LEMMA CreateStep ==
  ASSUME ProcInv, NEW c \in Core, CreateProcess(c)
  PROVE  ProcInv'
<1> USE DEF pcbs, memory, runners, cores
<1>1. NEXT_PID \in Pid /\ NEXT_PID # NoPid /\ MaxPid \in Nat
  BY BoundAssumption DEF ProcInv, TypeOK, CreateProcess, Pid, NoPid
<1>2. TypeOK'
  <2>1. NEXT_PID' \in 1..(MaxPid + 1)
    BY <1>1 DEF CreateProcess, Pid
  <2>2. spawning' \in [Core -> Pid \cup {NoPid}]
    BY <1>1 DEF ProcInv, TypeOK, CreateProcess
  <2> QED
    BY <2>1, <2>2, Zenon DEF ProcInv, TypeOK, CreateProcess
<1>3. NEXT_PID \notin PROCESS_TABLE /\ \A d \in Core : spawning[d] # NEXT_PID
  BY <1>1 DEF ProcInv, Fresh, Pid
<1>4. OnePlace'
  <2>1. \A d \in Core : \A i \in 1..Len(queue[d]) : queue[d][i] # NEXT_PID
    BY <1>3, Zenon DEF ProcInv, InTable, QueuedInTable, LiveInTable, LoopIdle
  <2>2. \A d \in Core : Live(d) => current_event[d] # NEXT_PID
    BY <1>3, Zenon DEF ProcInv, InTable, QueuedInTable, LiveInTable, LoopIdle
  <2>3. spawning' = [spawning EXCEPT ![c] = NEXT_PID] /\ spawning \in [Core -> Pid \cup {NoPid}]
        /\ queue' = queue /\ current_event' = current_event /\ pc' = pc
    BY Zenon DEF CreateProcess, ProcInv, TypeOK
  <2> QED
    BY <1>3, <2>1, <2>2, <2>3 DEF ProcInv, OnePlace, QueuedOnce, LiveOnce, SpawnedOnce,
       QueuedNotLive, QueuedNotSpawned, LiveNotSpawned, Live
<1>5. InTable'
  BY Zenon DEF ProcInv, InTable, QueuedInTable, LiveInTable, LoopIdle, Live, CreateProcess
<1>6. Fresh'
  <2>1. NEXT_PID' = NEXT_PID + 1 /\ PROCESS_TABLE' = PROCESS_TABLE /\ work' = work
        /\ frames' = frames /\ PROCESS_TABLE \subseteq Pid
        /\ spawning' = [spawning EXCEPT ![c] = NEXT_PID] /\ spawning \in [Core -> Pid \cup {NoPid}]
    BY Zenon DEF CreateProcess, ProcInv, TypeOK
  <2>2. \A p \in Pid \cup {NoPid} : p \in Int
    BY DEF Pid, NoPid
  <2>3. \A p \in PROCESS_TABLE' : p < NEXT_PID'
    BY <1>1, <2>1, <2>2 DEF ProcInv, Fresh
  <2>4. \A d \in Core : spawning'[d] < NEXT_PID'
    BY <1>1, <2>1, <2>2 DEF ProcInv, Fresh
  <2>5. \A p \in Pid : p >= NEXT_PID' => work'[p] = 0 /\ frames'[p] = <<>>
    BY <1>1, <2>1, <2>2 DEF ProcInv, Fresh
  <2>6. \A d \in Core : spawning'[d] \in Pid \ PROCESS_TABLE' => work'[spawning'[d]] = 0
    <3>1. work[NEXT_PID] = 0
      BY <1>1, <2>2 DEF ProcInv, Fresh
    <3> QED
      BY <2>1, <3>1 DEF ProcInv, Fresh
  <2> QED
    BY <2>3, <2>4, <2>5, <2>6 DEF Fresh
<1>7. RunningInRing3' /\ Memory' /\ ContextKept' /\ LookUpsSucceed'
  BY DEF ProcInv, RunningInRing3, Memory, TwoFrames, FramesDisjoint, FramesTaken, OwnTable,
     ContextKept, LookUpsSucceed, CreateProcess
<1> QED
  BY <1>2, <1>4, <1>5, <1>6, <1>7 DEF ProcInv

\* A frame that was free belongs to no process (alloc_frame).
LEMMA AllocFrameStep ==
  ASSUME ProcInv, NEW c \in Core, NEW f \in Frame, AllocFrame(c, f)
  PROVE  ProcInv'
<1> DEFINE p == spawning[c]
<1>1. /\ p # NoPid /\ p \notin PROCESS_TABLE /\ Len(frames[p]) < 2 /\ f \in free
      /\ free' = free \ {f} /\ frames' = [frames EXCEPT ![p] = Append(@, f)]
      /\ NEXT_PID' = NEXT_PID /\ PROCESS_TABLE' = PROCESS_TABLE /\ state' = state
      /\ registers' = registers /\ queue' = queue /\ current_event' = current_event
      /\ pc' = pc /\ spawning' = spawning /\ interrupts' = interrupts /\ cr3' = cr3
      /\ cpu' = cpu /\ work' = work
  BY DEF AllocFrame, pcbs, runners, cores
<1>2. /\ p \in Pid /\ frames \in [Pid -> Seq(Frame)] /\ free \subseteq Frame
      /\ PROCESS_TABLE \subseteq Pid
  BY <1>1, Zenon DEF ProcInv, TypeOK
<1>3. frames[p] \in Seq(Frame)
  BY <1>2
<1>4. /\ Append(frames[p], f) \in Seq(Frame) /\ Len(Append(frames[p], f)) = Len(frames[p]) + 1
      /\ Len(frames[p]) \in Nat
      /\ \A i \in 1..Len(frames[p]) : Append(frames[p], f)[i] = frames[p][i]
      /\ Append(frames[p], f)[Len(frames[p]) + 1] = f
  BY <1>3, AppendFacts
<1>5. /\ frames'[p] = Append(frames[p], f) /\ frames' \in [Pid -> Seq(Frame)]
      /\ \A q \in Pid \ {p} : frames'[q] = frames[q]
  BY <1>1, <1>2, <1>4, Zenon
<1>6. TypeOK'
  <2>1. free' \subseteq Frame
    BY <1>1, <1>2
  <2> QED
    BY <1>1, <1>5, <2>1, Zenon DEF ProcInv, TypeOK
<1>7. OnePlace' /\ InTable' /\ RunningInRing3' /\ ContextKept' /\ LookUpsSucceed'
  <2>1. OnePlace' /\ InTable'
    BY <1>1 DEF ProcInv, OnePlace, QueuedOnce, LiveOnce, SpawnedOnce, QueuedNotLive,
       QueuedNotSpawned, LiveNotSpawned, InTable, QueuedInTable, LiveInTable, LoopIdle, Live
  <2>2. RunningInRing3'
    BY <1>1 DEF ProcInv, RunningInRing3
  <2> QED
    BY <1>1, <2>1, <2>2 DEF ProcInv, ContextKept, LookUpsSucceed
<1>8. Fresh'
  <2>1. p < NEXT_PID /\ p \in Int /\ NEXT_PID \in Int
    BY <1>2 DEF ProcInv, Fresh, TypeOK, Pid
  <2>2. \A q \in Pid : q >= NEXT_PID => q # p
    BY <2>1
  <2> QED
    BY <1>1, <1>5, <2>2, Zenon DEF ProcInv, Fresh
<1>9. Memory'
  <2>1. \A q \in PROCESS_TABLE : q \in Pid \ {p}
    BY <1>1, <1>2
  <2>2. \A q \in PROCESS_TABLE' : Len(frames'[q]) = 2
    BY <1>1, <1>5, <2>1, Zenon DEF ProcInv, Memory, TwoFrames, FramesDisjoint, FramesTaken,
       OwnTable
  <2>3. \A q \in Pid : \A i \in 1..Len(frames'[q]) :
          \/ i \in 1..Len(frames[q]) /\ frames'[q][i] = frames[q][i]
          \/ q = p /\ frames'[q][i] = f
    <3>1. \A i \in 1..Len(frames'[p]) :
            \/ i \in 1..Len(frames[p]) /\ frames'[p][i] = frames[p][i]
            \/ frames'[p][i] = f
      <4>1. \A i \in 1..(Len(frames[p]) + 1) : i \in 1..Len(frames[p]) \/ i = Len(frames[p]) + 1
        BY <1>4
      <4> QED
        BY <1>4, <1>5, <4>1, Zenon
    <3> QED
      BY <1>5, <3>1, Zenon
  <2>4. \A q \in Pid : \A i \in 1..Len(frames[q]) : frames[q][i] # f
    BY <1>1, Zenon DEF ProcInv, Memory, FramesTaken
  <2>5. \A q, r \in Pid : \A i \in 1..Len(frames'[q]) : \A j \in 1..Len(frames'[r]) :
          frames'[q][i] = frames'[r][j] => q = r
    <3> SUFFICES ASSUME NEW q \in Pid, NEW r \in Pid, NEW i \in 1..Len(frames'[q]),
                        NEW j \in 1..Len(frames'[r]), frames'[q][i] = frames'[r][j], q # r
                 PROVE  FALSE
      BY Zenon
    <3> DEFINE Disjoint(x, y) == \A k \in 1..Len(frames[x]) : \A l \in 1..Len(frames[y]) :
                                   frames[x][k] = frames[y][l] => x = y
    <3>0. Disjoint(q, r)
      BY Zenon DEF ProcInv, Memory, TwoFrames, FramesDisjoint, FramesTaken, OwnTable
    <3>1. CASE q = p
      <4>1. j \in 1..Len(frames[r]) /\ frames'[r][j] = frames[r][j]
        BY <2>3, <3>1, Zenon
      <4>2. frames[r][j] # f
        BY <2>4, <4>1, Zenon
      <4>3. i \in 1..Len(frames[q]) /\ frames'[q][i] = frames[q][i]
        BY <2>3, <4>1, <4>2, Zenon
      <4> QED
        BY <3>0, <4>1, <4>3, Zenon
    <3>2. CASE q # p
      <4>1. i \in 1..Len(frames[q]) /\ frames'[q][i] = frames[q][i]
        BY <2>3, <3>2, Zenon
      <4>2. frames[q][i] # f
        BY <2>4, <4>1, Zenon
      <4>3. j \in 1..Len(frames[r]) /\ frames'[r][j] = frames[r][j]
        BY <2>3, <4>1, <4>2, Zenon
      <4> QED
        BY <3>0, <4>1, <4>3, Zenon
    <3> QED
      BY <3>1, <3>2, Zenon
  <2>6. \A q \in Pid : \A i \in 1..Len(frames'[q]) : frames'[q][i] \notin free'
    BY <1>1, <2>3 DEF ProcInv, Memory, TwoFrames, FramesDisjoint, FramesTaken, OwnTable
  <2>7. \A d \in Core : pc'[d] = "ring3" => cr3'[d] = frames'[current_event'[d]][1]
    <3>1. \A d \in Core : pc[d] = "ring3" => current_event[d] \in PROCESS_TABLE
      BY DEF ProcInv, InTable, QueuedInTable, LiveInTable, LoopIdle, Live
    <3> QED
      BY <1>1, <1>5, <2>1, <3>1, Zenon DEF ProcInv, Memory, TwoFrames, FramesDisjoint,
         FramesTaken, OwnTable
  <2> QED
    BY <2>2, <2>5, <2>6, <2>7, Zenon DEF Memory, TwoFrames, FramesDisjoint, FramesTaken,
       OwnTable
<1> QED
  BY <1>6, <1>7, <1>8, <1>9, Zenon DEF ProcInv

\* A process enters the table (create_process).
LEMMA InsertProcessStep ==
  ASSUME ProcInv, NEW c \in Core, InsertProcess(c)
  PROVE  ProcInv'
<1> DEFINE p == spawning[c]
<1>1. /\ p # NoPid /\ p \notin PROCESS_TABLE /\ Len(frames[p]) = 2
      /\ PROCESS_TABLE' = PROCESS_TABLE \cup {p}
      /\ state' = [state EXCEPT ![p] = "New"] /\ registers' = [registers EXCEPT ![p] = 0]
      /\ NEXT_PID' = NEXT_PID /\ frames' = frames /\ free' = free
      /\ queue' = queue /\ current_event' = current_event
      /\ pc' = pc /\ spawning' = spawning /\ interrupts' = interrupts /\ cr3' = cr3
      /\ cpu' = cpu /\ work' = work
  BY DEF InsertProcess, memory, runners, cores
<1>2. /\ p \in Pid /\ PROCESS_TABLE \subseteq Pid /\ state \in [Pid -> ProcessState]
      /\ registers \in [Pid -> 0..MaxWork] /\ MaxWork \in Nat
  BY <1>1, BoundAssumption, Zenon DEF ProcInv, TypeOK
<1>3. TypeOK'
  <2>1. /\ state' \in [Pid -> ProcessState] /\ registers' \in [Pid -> 0..MaxWork]
        /\ PROCESS_TABLE' \subseteq Pid
    BY <1>1, <1>2 DEF ProcessState
  <2> QED
    BY <1>1, <2>1, Zenon DEF ProcInv, TypeOK
<1>4. OnePlace'
  BY <1>1 DEF ProcInv, OnePlace, QueuedOnce, LiveOnce, SpawnedOnce, QueuedNotLive,
     QueuedNotSpawned, LiveNotSpawned, Live
<1>5. InTable'
  BY <1>1 DEF ProcInv, InTable, QueuedInTable, LiveInTable, LoopIdle, Live
<1>6. Fresh'
  BY <1>1 DEF ProcInv, Fresh
<1>7. /\ state'[p] = "New" /\ registers'[p] = 0 /\ work[p] = 0
      /\ \A q \in PROCESS_TABLE : q # p /\ state'[q] = state[q] /\ registers'[q] = registers[q]
  <2>1. work[p] = 0
    BY <1>1, <1>2, Zenon DEF ProcInv, Fresh
  <2> QED
    BY <1>1, <1>2, <2>1
<1>8. \A d \in Core : pc[d] = "ring3" => current_event[d] \in PROCESS_TABLE
  BY DEF ProcInv, InTable, QueuedInTable, LiveInTable, LoopIdle, Live
<1>9. RunningInRing3'
  <2>1. \A d \in Core : pc'[d] = "ring3" => state'[current_event'[d]] = "Running"
    <3>1. \A d \in Core : pc[d] = "ring3" => state[current_event[d]] = "Running"
      BY Zenon DEF ProcInv, RunningInRing3
    <3>2. \A d \in Core : pc[d] = "ring3" => state'[current_event[d]] = state[current_event[d]]
      BY <1>7, <1>8, Zenon
    <3> QED
      BY <1>1, <3>1, <3>2, Zenon
  <2>2. \A q \in PROCESS_TABLE' : state'[q] = "Running" =>
          \E d \in Core : pc'[d] = "ring3" /\ current_event'[d] = q
    BY <1>1, <1>7 DEF ProcInv, RunningInRing3
  <2> QED
    BY <2>1, <2>2, Zenon DEF RunningInRing3
<1>10. Memory'
  <2>1. \A q \in PROCESS_TABLE' : Len(frames'[q]) = 2
    BY <1>1 DEF ProcInv, Memory, TwoFrames, FramesDisjoint, FramesTaken, OwnTable
  <2> QED
    BY <1>1, <2>1 DEF ProcInv, Memory, TwoFrames, FramesDisjoint, FramesTaken, OwnTable
<1>11. ContextKept' /\ LookUpsSucceed'
  <2>1. \A q \in PROCESS_TABLE' : state'[q] # "Running" => registers'[q] = work'[q]
    BY <1>1, <1>7 DEF ProcInv, ContextKept
  <2> QED
    BY <1>1, <2>1 DEF ProcInv, ContextKept, LookUpsSucceed
<1> QED
  BY <1>3, <1>4, <1>5, <1>6, <1>9, <1>10, <1>11, Zenon DEF ProcInv

\* A new process goes from its creator to a queue (schedule_process).
LEMMA ScheduleProcessStep ==
  ASSUME ProcInv, NEW c \in Core, NEW d \in Core, ScheduleProcess(c, d)
  PROVE  ProcInv'
<1> DEFINE p == spawning[c]
<1>1. /\ p \in PROCESS_TABLE
      /\ queue' = [queue EXCEPT ![d] = Append(@, p)]
      /\ spawning' = [spawning EXCEPT ![c] = NoPid]
      /\ PROCESS_TABLE' = PROCESS_TABLE /\ state' = state /\ registers' = registers
      /\ NEXT_PID' = NEXT_PID /\ frames' = frames /\ free' = free
      /\ current_event' = current_event
      /\ pc' = pc /\ interrupts' = interrupts /\ cr3' = cr3 /\ cpu' = cpu /\ work' = work
  BY DEF ScheduleProcess, pcbs, memory, cores
<1>2. /\ p \in Pid /\ PROCESS_TABLE \subseteq Pid /\ queue \in [Core -> Seq(Pid)]
      /\ spawning \in [Core -> Pid \cup {NoPid}]
  BY <1>1 DEF ProcInv, TypeOK
<1>3. p # NoPid
  BY <1>2 DEF Pid, NoPid
<1>4. queue[d] \in Seq(Pid)
  BY <1>2
<1>5. /\ Append(queue[d], p) \in Seq(Pid) /\ Len(Append(queue[d], p)) = Len(queue[d]) + 1
      /\ Len(queue[d]) \in Nat
      /\ \A i \in 1..Len(queue[d]) : Append(queue[d], p)[i] = queue[d][i]
      /\ Append(queue[d], p)[Len(queue[d]) + 1] = p
  BY <1>2, <1>4, AppendFacts
<1>6. /\ queue'[d] = Append(queue[d], p) /\ queue' \in [Core -> Seq(Pid)]
      /\ \A e \in Core \ {d} : queue'[e] = queue[e]
  BY <1>1, <1>2, <1>5, Zenon
<1>7. /\ spawning'[c] = NoPid /\ spawning' \in [Core -> Pid \cup {NoPid}]
      /\ \A e \in Core \ {c} : spawning'[e] = spawning[e]
  BY <1>1, <1>2
<1>8. TypeOK'
  BY <1>1, <1>6, <1>7, Zenon DEF ProcInv, TypeOK
<1>9. \A e \in Core : \A i \in 1..Len(queue'[e]) :
        \/ i \in 1..Len(queue[e]) /\ queue'[e][i] = queue[e][i]
        \/ e = d /\ i = Len(queue[d]) + 1 /\ queue'[e][i] = p
  <2>1. \A i \in 1..Len(queue'[d]) : i \in 1..Len(queue[d]) \/ i = Len(queue[d]) + 1
    BY <1>5, <1>6
  <2> QED
    BY <1>5, <1>6, <2>1, Zenon
<1>10. QueuedNotSpawned'
  <2> SUFFICES ASSUME NEW e \in Core, NEW g \in Core, NEW i \in 1..Len(queue'[e]),
                      spawning'[g] = queue'[e][i]
               PROVE  FALSE
    BY Zenon DEF QueuedNotSpawned
  <2>1. queue'[e][i] # NoPid
    <3>1. queue'[e] \in Seq(Pid)
      BY <1>6
    <3>2. queue'[e][i] \in Pid
      BY <3>1, ElementFacts
    <3> QED
      BY <3>2 DEF Pid, NoPid
  <2>2. g # c /\ spawning'[g] = spawning[g] /\ spawning[g] # NoPid
    BY <1>7, <2>1, Zenon
  <2>3. CASE queue'[e][i] = p
    BY <1>3, <2>2, <2>3, Zenon DEF ProcInv, OnePlace, SpawnedOnce
  <2>4. CASE i \in 1..Len(queue[e]) /\ queue'[e][i] = queue[e][i]
    <3>1. queue[e][i] # spawning[g]
      BY <2>4, Zenon DEF ProcInv, OnePlace, QueuedNotSpawned
    <3> QED
      BY <2>2, <2>4, <3>1, Zenon
  <2> QED
    BY <1>9, <2>3, <2>4, Zenon
<1>11. QueuedOnce'
  <2> SUFFICES ASSUME NEW e \in Core, NEW g \in Core, NEW i \in 1..Len(queue'[e]),
                      NEW j \in 1..Len(queue'[g]), queue'[e][i] = queue'[g][j]
               PROVE  e = g /\ i = j
    BY Zenon DEF QueuedOnce
  <2>1. \A h \in Core : \A k \in 1..Len(queue[h]) : queue[h][k] # p
    BY Zenon DEF ProcInv, OnePlace, QueuedNotSpawned
  <2>2. CASE queue'[e][i] = p
    <3>1. e = d /\ i = Len(queue[d]) + 1
      <4>1. \/ i \in 1..Len(queue[e]) /\ queue'[e][i] = queue[e][i]
            \/ e = d /\ i = Len(queue[d]) + 1
        BY <1>9, Zenon
      <4> QED
        BY <2>1, <2>2, <4>1, Zenon
    <3>2. g = d /\ j = Len(queue[d]) + 1
      <4>1. \/ j \in 1..Len(queue[g]) /\ queue'[g][j] = queue[g][j]
            \/ g = d /\ j = Len(queue[d]) + 1
        BY <1>9, Zenon
      <4> QED
        BY <2>1, <2>2, <4>1, Zenon
    <3> QED
      BY <3>1, <3>2, Zenon
  <2>3. CASE queue'[e][i] # p
    <3>1. /\ i \in 1..Len(queue[e]) /\ queue'[e][i] = queue[e][i]
          /\ j \in 1..Len(queue[g]) /\ queue'[g][j] = queue[g][j]
      <4>1. queue'[g][j] # p
        BY <2>3, Zenon
      <4> QED
        BY <1>9, <2>3, <4>1
    <3>2. QueuedOnce
      BY DEF ProcInv, OnePlace
    <3>3. queue[e][i] = queue[g][j]
      BY <3>1, Zenon
    <3> QED
      BY <3>1, <3>2, <3>3 DEF QueuedOnce
  <2> QED
    BY <2>2, <2>3, Zenon
<1>12. QueuedNotLive'
  <2> SUFFICES ASSUME NEW e \in Core, NEW g \in Core, NEW i \in 1..Len(queue'[e]), Live(g)
               PROVE  queue'[e][i] # current_event[g]
    BY <1>1 DEF QueuedNotLive, Live
  <2>1. current_event[g] # p
    BY Zenon DEF ProcInv, OnePlace, LiveNotSpawned
  <2>2. \A k \in 1..Len(queue[e]) : queue[e][k] # current_event[g]
    BY Zenon DEF ProcInv, OnePlace, QueuedNotLive
  <2> QED
    BY <1>9, <2>1, <2>2, Zenon
<1>13. LiveNotSpawned'
  <2> SUFFICES ASSUME NEW e \in Core, NEW g \in Core, Live(e)
               PROVE  current_event[e] # spawning'[g]
    BY <1>1, Zenon DEF LiveNotSpawned, Live
  <2>1. current_event[e] # NoPid
    <3>1. current_event[e] \in Pid
      BY <1>2, Zenon DEF ProcInv, InTable, LiveInTable
    <3> QED
      BY <3>1 DEF Pid, NoPid
  <2> QED
    BY <1>7, <2>1, Zenon DEF ProcInv, OnePlace, LiveNotSpawned
<1>14. LiveOnce' /\ SpawnedOnce'
  <2>1. LiveOnce'
    BY <1>1 DEF ProcInv, OnePlace, LiveOnce, Live
  <2>2. SpawnedOnce'
    BY <1>7 DEF ProcInv, OnePlace, SpawnedOnce
  <2> QED
    BY <2>1, <2>2
<1>15. InTable'
  <2>1. QueuedInTable'
    <3>1. QueuedInTable
      BY DEF ProcInv, InTable
    <3>2. \A e \in Core : \A i \in 1..Len(queue'[e]) : queue'[e][i] \in PROCESS_TABLE
      BY <1>1, <1>9, <3>1, Zenon DEF QueuedInTable
    <3> QED
      BY <1>1, <3>2, Zenon DEF QueuedInTable
  <2> QED
    BY <1>1, <2>1 DEF ProcInv, InTable, LiveInTable, LoopIdle, Live
<1>16. Fresh'
  <2>1. NoPid < NEXT_PID
    BY DEF ProcInv, TypeOK, NoPid
  <2>2. NoPid \notin Pid
    BY DEF Pid, NoPid
  <2> QED
    BY <1>1, <1>7, <2>1, <2>2, Zenon DEF ProcInv, Fresh
<1>17. RunningInRing3' /\ ContextKept' /\ LookUpsSucceed' /\ Memory'
  BY <1>1 DEF ProcInv, RunningInRing3, ContextKept, LookUpsSucceed, Memory, TwoFrames,
     FramesDisjoint, FramesTaken, OwnTable
<1> QED
  BY <1>8, <1>10, <1>11, <1>12, <1>13, <1>14, <1>15, <1>16, <1>17, Zenon DEF ProcInv, OnePlace

\* A process goes from a queue to the core that polls its event (next_event).
LEMMA NextEventStep ==
  ASSUME ProcInv, NEW c \in Core, NextEvent(c)
  PROVE  ProcInv'
<1> DEFINE p == Head(queue[c])
<1>1. /\ pc[c] = "loop" /\ spawning[c] = NoPid /\ queue[c] # <<>>
      /\ current_event' = [current_event EXCEPT ![c] = p]
      /\ queue' = [queue EXCEPT ![c] = Tail(@)]
      /\ pc' = [pc EXCEPT ![c] = "poll"]
      /\ PROCESS_TABLE' = PROCESS_TABLE /\ state' = state /\ registers' = registers
      /\ NEXT_PID' = NEXT_PID /\ frames' = frames /\ free' = free
      /\ spawning' = spawning /\ interrupts' = interrupts /\ cr3' = cr3 /\ cpu' = cpu
      /\ work' = work
  BY DEF NextEvent, Goto, pcbs, memory, cores
<1>2. /\ queue \in [Core -> Seq(Pid)] /\ current_event \in [Core -> Pid \cup {NoPid}]
      /\ pc \in [Core -> {"loop", "poll", "enter", "ring3", "return", "panic"}]
  BY Zenon DEF ProcInv, TypeOK
<1>3. queue[c] \in Seq(Pid)
  BY <1>2
<1>4. /\ Tail(queue[c]) \in Seq(Pid) /\ Len(Tail(queue[c])) = Len(queue[c]) - 1
      /\ Len(queue[c]) \in Nat \ {0}
      /\ \A i \in 1..(Len(queue[c]) - 1) : Tail(queue[c])[i] = queue[c][i + 1]
      /\ p = queue[c][1] /\ p \in Pid
  BY <1>1, <1>3, TailFacts
<1> HIDE DEF p
<1>5. /\ queue'[c] = Tail(queue[c]) /\ queue' \in [Core -> Seq(Pid)]
      /\ \A e \in Core \ {c} : queue'[e] = queue[e]
  BY <1>1, <1>2, <1>4, Zenon
<1>6. /\ current_event'[c] = p /\ current_event' \in [Core -> Pid \cup {NoPid}]
      /\ \A e \in Core \ {c} : current_event'[e] = current_event[e]
  BY <1>1, <1>2, <1>4
<1>7. /\ pc'[c] = "poll"
      /\ pc' \in [Core -> {"loop", "poll", "enter", "ring3", "return", "panic"}]
      /\ \A e \in Core \ {c} : pc'[e] = pc[e]
  BY <1>1, <1>2
<1>8. TypeOK'
  BY <1>1, <1>5, <1>6, <1>7, Zenon DEF ProcInv, TypeOK
<1>9. ~Live(c) /\ \A e \in Core \ {c} : Live(e)' <=> Live(e)
  BY <1>1, <1>7 DEF Live
<1> DEFINE from(e, i) == IF e = c THEN i + 1 ELSE i
<1>10. \A e \in Core : \A i \in 1..Len(queue'[e]) :
         /\ from(e, i) \in 1..Len(queue[e]) /\ queue'[e][i] = queue[e][from(e, i)]
         /\ e = c => from(e, i) # 1
  <2>1. \A i \in 1..(Len(queue[c]) - 1) : i + 1 \in 1..Len(queue[c]) /\ i + 1 # 1
    BY <1>4
  <2>2. \A i \in 1..Len(queue'[c]) :
          i + 1 \in 1..Len(queue[c]) /\ queue'[c][i] = queue[c][i + 1] /\ i + 1 # 1
    BY <1>4, <1>5, <2>1, Zenon
  <2> QED
    BY <1>5, <2>2, Zenon
<1>11. \A e \in Core : \A i, j \in 1..Len(queue'[e]) : from(e, i) = from(e, j) => i = j
  BY <1>4, <1>5
<1>12. 1 \in 1..Len(queue[c])
  BY <1>4
<1> HIDE DEF from
<1>13. \A e \in Core : \A i \in 1..Len(queue'[e]) : queue'[e][i] # p
  <2> SUFFICES ASSUME NEW e \in Core, NEW i \in 1..Len(queue'[e]), queue'[e][i] = p
               PROVE  FALSE
    BY Zenon
  <2>1. from(e, i) \in 1..Len(queue[e]) /\ queue[e][from(e, i)] = queue[c][1]
    BY <1>4, <1>10, Zenon
  <2>2. e = c /\ from(e, i) = 1
    BY <1>12, <2>1 DEF ProcInv, OnePlace, QueuedOnce
  <2> QED
    BY <1>10, <2>2, Zenon
<1>14. \A e \in Core : Live(e) => current_event[e] # p
  BY <1>4, <1>12, Zenon DEF ProcInv, OnePlace, QueuedNotLive
<1>15. QueuedOnce'
  <2> SUFFICES ASSUME NEW e \in Core, NEW g \in Core, NEW i \in 1..Len(queue'[e]),
                      NEW j \in 1..Len(queue'[g]), queue'[e][i] = queue'[g][j]
               PROVE  e = g /\ i = j
    BY Zenon DEF QueuedOnce
  <2>1. /\ from(e, i) \in 1..Len(queue[e]) /\ from(g, j) \in 1..Len(queue[g])
        /\ queue[e][from(e, i)] = queue[g][from(g, j)]
    BY <1>10, Zenon
  <2>2. e = g /\ from(e, i) = from(g, j)
    BY <2>1 DEF ProcInv, OnePlace, QueuedOnce
  <2> QED
    BY <1>11, <2>2, Zenon
<1>16. LiveOnce'
  <2> SUFFICES ASSUME NEW e \in Core, NEW g \in Core, Live(e)', Live(g)',
                      current_event'[e] = current_event'[g]
               PROVE  e = g
    BY Zenon DEF LiveOnce
  <2>1. CASE e = c
    BY <1>6, <1>9, <1>14, <2>1, Zenon
  <2>2. CASE g = c
    BY <1>6, <1>9, <1>14, <2>2, Zenon
  <2>3. CASE e # c /\ g # c
    BY <1>6, <1>9, <2>3, Zenon DEF ProcInv, OnePlace, LiveOnce
  <2> QED
    BY <2>1, <2>2, <2>3, Zenon
<1>17. QueuedNotLive'
  <2> SUFFICES ASSUME NEW e \in Core, NEW g \in Core, NEW i \in 1..Len(queue'[e]), Live(g)'
               PROVE  queue'[e][i] # current_event'[g]
    BY Zenon DEF QueuedNotLive
  <2>1. CASE g = c
    BY <1>6, <1>13, <2>1, Zenon
  <2>2. CASE g # c
    <3>1. Live(g) /\ current_event'[g] = current_event[g]
      BY <1>6, <1>9, <2>2, Zenon
    <3>2. \A k \in 1..Len(queue[e]) : queue[e][k] # current_event[g]
      BY <3>1, Zenon DEF ProcInv, OnePlace, QueuedNotLive
    <3> QED
      BY <1>10, <3>1, <3>2, Zenon
  <2> QED
    BY <2>1, <2>2, Zenon
<1>18. QueuedNotSpawned' /\ SpawnedOnce'
  <2>1. \A e, g \in Core : \A i \in 1..Len(queue[e]) : queue[e][i] # spawning[g]
    BY Zenon DEF ProcInv, OnePlace, QueuedNotSpawned
  <2>2. \A e, g \in Core : \A i \in 1..Len(queue'[e]) : queue'[e][i] # spawning[g]
    <3> SUFFICES ASSUME NEW e \in Core, NEW g \in Core, NEW i \in 1..Len(queue'[e])
                 PROVE  queue'[e][i] # spawning[g]
      BY Zenon
    <3>1. from(e, i) \in 1..Len(queue[e]) /\ queue'[e][i] = queue[e][from(e, i)]
      BY <1>10, Zenon
    <3> QED
      BY <2>1, <3>1, Zenon
  <2>3. QueuedNotSpawned'
    BY <1>1, <2>2, Zenon DEF QueuedNotSpawned
  <2>4. SpawnedOnce'
    BY <1>1 DEF ProcInv, OnePlace, SpawnedOnce
  <2> QED
    BY <2>3, <2>4
<1>19. LiveNotSpawned'
  <2>1. \A g \in Core : p # spawning[g]
    BY <1>4, <1>12, Zenon DEF ProcInv, OnePlace, QueuedNotSpawned
  <2>2. \A e, g \in Core : Live(e) => current_event[e] # spawning[g]
    BY Zenon DEF ProcInv, OnePlace, LiveNotSpawned
  <2>3. \A e, g \in Core : Live(e)' => current_event'[e] # spawning[g]
    BY <1>6, <1>9, <2>1, <2>2, Zenon
  <2> QED
    BY <1>1, <2>3, Zenon DEF LiveNotSpawned
<1>20. InTable'
  <2>1. QueuedInTable /\ LiveInTable /\ LoopIdle
    BY Zenon DEF ProcInv, InTable
  <2>2. QueuedInTable'
    <3>1. \A e \in Core : \A i \in 1..Len(queue'[e]) : queue'[e][i] \in PROCESS_TABLE
      BY <1>10, <2>1, Zenon DEF QueuedInTable
    <3> QED
      BY <1>1, <3>1, Zenon DEF QueuedInTable
  <2>3. LiveInTable'
    <3>1. p \in PROCESS_TABLE
      BY <1>4, <1>12, <2>1, Zenon DEF QueuedInTable
    <3>2. \A e \in Core : Live(e)' => current_event'[e] \in PROCESS_TABLE
      BY <1>6, <1>9, <2>1, <3>1, Zenon DEF LiveInTable
    <3> QED
      BY <1>1, <3>2, Zenon DEF LiveInTable
  <2>4. LoopIdle'
    BY <1>6, <1>7, <2>1 DEF LoopIdle
  <2> QED
    BY <2>2, <2>3, <2>4, Zenon DEF InTable
<1>21. Fresh'
  BY <1>1 DEF ProcInv, Fresh
<1>22. \A e \in Core : pc'[e] = "ring3" <=> pc[e] = "ring3"
  BY <1>1, <1>7
<1>23. \A e \in Core : pc[e] = "ring3" => current_event'[e] = current_event[e]
  BY <1>1, <1>6
<1>24. RunningInRing3'
  <2>1. \A e \in Core : pc'[e] = "ring3" => state[current_event'[e]] = "Running"
    BY <1>22, <1>23, Zenon DEF ProcInv, RunningInRing3
  <2>2. \A q \in PROCESS_TABLE : state[q] = "Running" =>
          \E e \in Core : pc'[e] = "ring3" /\ current_event'[e] = q
    BY <1>22, <1>23 DEF ProcInv, RunningInRing3
  <2> QED
    BY <1>1, <2>1, <2>2, Zenon DEF RunningInRing3
<1>25. ContextKept' /\ LookUpsSucceed' /\ Memory'
  <2>1. \A e \in Core : pc'[e] = "ring3" => cpu[e] = work[current_event'[e]]
    BY <1>22, <1>23, Zenon DEF ProcInv, ContextKept
  <2>2. ContextKept'
    BY <1>1, <2>1, Zenon DEF ProcInv, ContextKept
  <2>3. LookUpsSucceed'
    BY <1>7 DEF ProcInv, LookUpsSucceed
  <2>4. \A e \in Core : pc'[e] = "ring3" => cr3[e] = frames[current_event'[e]][1]
    BY <1>22, <1>23, Zenon DEF ProcInv, Memory, OwnTable
  <2>5. OwnTable'
    BY <1>1, <2>4, Zenon DEF OwnTable
  <2>6. TwoFrames' /\ FramesDisjoint' /\ FramesTaken'
    BY <1>1 DEF ProcInv, Memory, TwoFrames, FramesDisjoint, FramesTaken
  <2> QED
    BY <2>2, <2>3, <2>5, <2>6, Zenon DEF Memory
<1> QED
  BY <1>8, <1>15, <1>16, <1>17, <1>18, <1>19, <1>20, <1>21, <1>24, <1>25, Zenon
     DEF ProcInv, OnePlace

\* A step that moves no process keeps each in its place.
LEMMA PlaceKept ==
  ASSUME ProcInv, queue' = queue, spawning' = spawning,
         \A e \in Core : Live(e)' => Live(e) /\ current_event'[e] = current_event[e]
  PROVE  OnePlace'
<1>1. QueuedOnce' /\ SpawnedOnce' /\ QueuedNotSpawned'
  BY DEF ProcInv, OnePlace, QueuedOnce, SpawnedOnce, QueuedNotSpawned
<1>2. LiveOnce'
  BY Zenon DEF ProcInv, OnePlace, LiveOnce
<1>3. QueuedNotLive'
  BY DEF ProcInv, OnePlace, QueuedNotLive
<1>4. LiveNotSpawned'
  BY DEF ProcInv, OnePlace, LiveNotSpawned
<1> QED
  BY <1>1, <1>2, <1>3, <1>4 DEF OnePlace

\* hlt changes no process (run_loop).
LEMMA HaltStep ==
  ASSUME ProcInv, NEW c \in Core, Halt(c)
  PROVE  ProcInv'
<1>1. /\ interrupts' = interrupts \cup {c}
      /\ PROCESS_TABLE' = PROCESS_TABLE /\ state' = state /\ registers' = registers
      /\ NEXT_PID' = NEXT_PID /\ frames' = frames /\ free' = free /\ pc' = pc
      /\ queue' = queue /\ current_event' = current_event
      /\ spawning' = spawning /\ cr3' = cr3 /\ cpu' = cpu /\ work' = work
  BY DEF Halt, pcbs, memory, runners
<1>2. TypeOK'
  <2>1. interrupts' \subseteq Core
    BY <1>1 DEF ProcInv, TypeOK
  <2> QED
    BY <1>1, <2>1, Zenon DEF ProcInv, TypeOK
<1>3. OnePlace'
  BY <1>1, PlaceKept DEF Live
<1>4. InTable' /\ Fresh'
  BY <1>1 DEF ProcInv, InTable, QueuedInTable, LiveInTable, LoopIdle, Live, Fresh
<1>5. RunningInRing3' /\ ContextKept' /\ LookUpsSucceed' /\ Memory'
  BY <1>1 DEF ProcInv, RunningInRing3, ContextKept, LookUpsSucceed, Memory, TwoFrames,
     FramesDisjoint, FramesTaken, OwnTable
<1> QED
  BY <1>2, <1>3, <1>4, <1>5, Zenon DEF ProcInv

\* The process of an event in hand is in the table (run_process_ring3).
LEMMA LookUpStep ==
  ASSUME ProcInv, NEW c \in Core, LookUp(c)
  PROVE  ProcInv'
<1>1. current_event[c] \in PROCESS_TABLE
  BY DEF LookUp, ProcInv, InTable, LiveInTable, Live
<1>2. /\ pc[c] = "poll" /\ pc' = [pc EXCEPT ![c] = "enter"]
      /\ interrupts' = interrupts \ {c}
      /\ PROCESS_TABLE' = PROCESS_TABLE /\ state' = state /\ registers' = registers
      /\ NEXT_PID' = NEXT_PID /\ frames' = frames /\ free' = free
      /\ queue' = queue /\ current_event' = current_event
      /\ spawning' = spawning /\ cr3' = cr3 /\ cpu' = cpu /\ work' = work
  BY <1>1 DEF LookUp, Goto, pcbs, memory, runners
<1>3. pc \in [Core -> {"loop", "poll", "enter", "ring3", "return", "panic"}]
  BY Zenon DEF ProcInv, TypeOK
<1>4. TypeOK'
  <2>1. /\ interrupts' \subseteq Core
        /\ pc' \in [Core -> {"loop", "poll", "enter", "ring3", "return", "panic"}]
    BY <1>2, <1>3 DEF ProcInv, TypeOK
  <2> QED
    BY <1>2, <2>1, Zenon DEF ProcInv, TypeOK
<1>5. \A e \in Core : /\ Live(e)' <=> Live(e)
                      /\ pc'[e] = "ring3" <=> pc[e] = "ring3"
                      /\ pc'[e] = "loop" <=> pc[e] = "loop"
                      /\ pc'[e] = "panic" <=> pc[e] = "panic"
  BY <1>2, <1>3 DEF Live
<1>6. OnePlace'
  BY <1>2, <1>5, PlaceKept, Zenon
<1>7. InTable' /\ Fresh'
  <2>1. QueuedInTable' /\ Fresh'
    BY <1>2 DEF ProcInv, InTable, QueuedInTable, Fresh
  <2>2. LiveInTable' /\ LoopIdle'
    BY <1>2, <1>5, Zenon DEF ProcInv, InTable, LiveInTable, LoopIdle
  <2> QED
    BY <2>1, <2>2 DEF InTable
<1>8. RunningInRing3' /\ ContextKept'
  <2>1. RunningInRing3'
    BY <1>2, <1>5, Zenon DEF ProcInv, RunningInRing3
  <2>2. ContextKept'
    BY <1>2, <1>5, Zenon DEF ProcInv, ContextKept
  <2> QED
    BY <2>1, <2>2
<1>9. LookUpsSucceed' /\ Memory'
  <2>1. LookUpsSucceed' /\ OwnTable'
    BY <1>2, <1>5, Zenon DEF ProcInv, LookUpsSucceed, Memory, OwnTable
  <2>2. TwoFrames' /\ FramesDisjoint' /\ FramesTaken'
    BY <1>2 DEF ProcInv, Memory, TwoFrames, FramesDisjoint, FramesTaken
  <2> QED
    BY <2>1, <2>2 DEF Memory
<1> QED
  BY <1>4, <1>6, <1>7, <1>8, <1>9, Zenon DEF ProcInv

\* A process is entered with its own page table and registers (call_process).
LEMMA CallProcessStep ==
  ASSUME ProcInv, NEW c \in Core, CallProcess(c)
  PROVE  ProcInv'
<1> DEFINE p == current_event[c]
<1>1. /\ pc[c] = "enter" /\ pc' = [pc EXCEPT ![c] = "ring3"]
      /\ cr3' = [cr3 EXCEPT ![c] = frames[p][1]]
      /\ cpu' = [cpu EXCEPT ![c] = registers[p]]
      /\ state' = [state EXCEPT ![p] = "Running"]
      /\ PROCESS_TABLE' = PROCESS_TABLE /\ registers' = registers
      /\ NEXT_PID' = NEXT_PID /\ frames' = frames /\ free' = free
      /\ queue' = queue /\ current_event' = current_event
      /\ spawning' = spawning /\ interrupts' = interrupts /\ work' = work
  BY DEF CallProcess, Goto, memory, runners
<1>2. /\ pc \in [Core -> {"loop", "poll", "enter", "ring3", "return", "panic"}]
      /\ cr3 \in [Core -> Frame \cup {BootPml4}] /\ cpu \in [Core -> 0..MaxWork]
      /\ state \in [Pid -> ProcessState] /\ registers \in [Pid -> 0..MaxWork]
      /\ PROCESS_TABLE \subseteq Pid /\ frames \in [Pid -> Seq(Frame)]
  BY Zenon DEF ProcInv, TypeOK
<1>3. p \in PROCESS_TABLE /\ p \in Pid /\ Live(c)
  BY <1>1, <1>2 DEF ProcInv, InTable, LiveInTable, Live
<1>4. frames[p][1] \in Frame
  <2>1. frames[p] \in Seq(Frame) /\ Len(frames[p]) = 2
    BY <1>2, <1>3, Zenon DEF ProcInv, Memory, TwoFrames
  <2> QED
    BY <2>1, ElementFacts
<1>5. TypeOK'
  <2>1. /\ cr3' \in [Core -> Frame \cup {BootPml4}] /\ cpu' \in [Core -> 0..MaxWork]
        /\ pc' \in [Core -> {"loop", "poll", "enter", "ring3", "return", "panic"}]
        /\ state' \in [Pid -> ProcessState]
    BY <1>1, <1>2, <1>3, <1>4 DEF ProcessState
  <2> QED
    BY <1>1, <2>1, Zenon DEF ProcInv, TypeOK
<1>6. /\ \A e \in Core : /\ Live(e)' <=> Live(e)
                         /\ pc'[e] = "ring3" <=> pc[e] = "ring3" \/ e = c
                         /\ pc'[e] = "loop" <=> pc[e] = "loop"
                         /\ pc'[e] = "panic" <=> pc[e] = "panic"
      /\ pc[c] # "ring3"
  BY <1>1, <1>2 DEF Live
<1>7. OnePlace'
  BY <1>1, <1>6, PlaceKept, Zenon
<1>8. InTable' /\ Fresh'
  <2>1. QueuedInTable' /\ Fresh'
    BY <1>1 DEF ProcInv, InTable, QueuedInTable, Fresh
  <2>2. LiveInTable' /\ LoopIdle'
    BY <1>1, <1>6, Zenon DEF ProcInv, InTable, LiveInTable, LoopIdle
  <2> QED
    BY <2>1, <2>2 DEF InTable
<1>9. \A e \in Core : pc[e] = "ring3" => current_event[e] \in Pid \ {p}
  <2>1. \A e \in Core : pc[e] = "ring3" => Live(e) /\ e # c
    BY <1>1 DEF Live
  <2>2. \A e \in Core : pc[e] = "ring3" => current_event[e] \in Pid
    BY <1>2, <2>1 DEF ProcInv, InTable, LiveInTable
  <2>3. \A e \in Core : pc[e] = "ring3" => current_event[e] # p
    BY <1>3, <2>1, Zenon DEF ProcInv, OnePlace, LiveOnce
  <2> QED
    BY <2>2, <2>3
<1>10. /\ state'[p] = "Running" /\ \A q \in Pid \ {p} : state'[q] = state[q]
       /\ cpu'[c] = registers[p] /\ \A e \in Core \ {c} : cpu'[e] = cpu[e]
       /\ cr3'[c] = frames[p][1] /\ \A e \in Core \ {c} : cr3'[e] = cr3[e]
  BY <1>1, <1>2, <1>3
<1>11. RunningInRing3'
  <2>1. \A e \in Core : pc'[e] = "ring3" => state'[current_event[e]] = "Running"
    BY <1>6, <1>9, <1>10 DEF ProcInv, RunningInRing3
  <2>2. \A q \in PROCESS_TABLE : state'[q] = "Running" =>
          \E e \in Core : pc'[e] = "ring3" /\ current_event[e] = q
    <3> SUFFICES ASSUME NEW q \in PROCESS_TABLE, state'[q] = "Running"
                 PROVE  \E e \in Core : pc'[e] = "ring3" /\ current_event[e] = q
      BY Zenon
    <3>1. CASE q = p
      BY <1>6, <3>1, Zenon
    <3>2. CASE q # p
      <4>1. state[q] = "Running"
        BY <1>2, <1>10, <3>2
      <4> QED
        BY <1>6, <4>1 DEF ProcInv, RunningInRing3
    <3> QED
      BY <3>1, <3>2, Zenon
  <2> QED
    BY <1>1, <2>1, <2>2, Zenon DEF RunningInRing3
<1>12. state[p] # "Running"
  BY <1>3, <1>9 DEF ProcInv, RunningInRing3
<1>13. ContextKept'
  <2>1. registers[p] = work[p]
    BY <1>3, <1>12, Zenon DEF ProcInv, ContextKept
  <2>2. \A q \in PROCESS_TABLE : state'[q] # "Running" => registers[q] = work[q]
    BY <1>2, <1>10 DEF ProcInv, ContextKept
  <2>3. \A e \in Core : pc'[e] = "ring3" => cpu'[e] = work[current_event[e]]
    BY <1>6, <1>10, <2>1 DEF ProcInv, ContextKept
  <2> QED
    BY <1>1, <2>2, <2>3, Zenon DEF ContextKept
<1>14. LookUpsSucceed' /\ Memory'
  <2>1. LookUpsSucceed'
    BY <1>6, Zenon DEF ProcInv, LookUpsSucceed
  <2>2. \A e \in Core : pc'[e] = "ring3" => cr3'[e] = frames[current_event[e]][1]
    BY <1>6, <1>10 DEF ProcInv, Memory, OwnTable
  <2>3. OwnTable'
    BY <1>1, <2>2, Zenon DEF OwnTable
  <2>4. TwoFrames' /\ FramesDisjoint' /\ FramesTaken'
    BY <1>1 DEF ProcInv, Memory, TwoFrames, FramesDisjoint, FramesTaken
  <2> QED
    BY <2>1, <2>3, <2>4 DEF Memory
<1> QED
  BY <1>5, <1>7, <1>8, <1>11, <1>13, <1>14, Zenon DEF ProcInv

\* A process executes.
LEMMA UserWorkStep ==
  ASSUME ProcInv, NEW c \in Core, UserWork(c)
  PROVE  ProcInv'
<1> DEFINE p == current_event[c]
<1>1. /\ pc[c] = "ring3" /\ work[p] < MaxWork /\ cpu[c] < MaxWork
      /\ work' = [work EXCEPT ![p] = @ + 1] /\ cpu' = [cpu EXCEPT ![c] = @ + 1]
      /\ PROCESS_TABLE' = PROCESS_TABLE /\ state' = state /\ registers' = registers
      /\ NEXT_PID' = NEXT_PID /\ frames' = frames /\ free' = free /\ pc' = pc
      /\ queue' = queue /\ current_event' = current_event
      /\ spawning' = spawning /\ interrupts' = interrupts /\ cr3' = cr3
  BY DEF UserWork, pcbs, memory, runners
<1>2. /\ cpu \in [Core -> 0..MaxWork] /\ work \in [Pid -> 0..MaxWork]
      /\ PROCESS_TABLE \subseteq Pid /\ MaxWork \in Nat
  BY BoundAssumption, Zenon DEF ProcInv, TypeOK
<1>3. p \in PROCESS_TABLE /\ p \in Pid /\ Live(c)
  BY <1>1, <1>2 DEF ProcInv, InTable, LiveInTable, Live
<1>4. TypeOK'
  <2>1. work[p] + 1 \in 0..MaxWork /\ cpu[c] + 1 \in 0..MaxWork
    BY <1>1, <1>2, <1>3
  <2>2. cpu' \in [Core -> 0..MaxWork] /\ work' \in [Pid -> 0..MaxWork]
    BY Zenon, <1>1, <1>2, <2>1
  <2> QED
    BY <1>1, <2>2, Zenon DEF ProcInv, TypeOK
<1>5. OnePlace'
  BY <1>1, PlaceKept DEF Live
<1>6. InTable'
  BY <1>1 DEF ProcInv, InTable, QueuedInTable, LiveInTable, LoopIdle, Live
<1>7. /\ work'[p] = work[p] + 1 /\ \A q \in Pid \ {p} : work'[q] = work[q]
      /\ cpu'[c] = cpu[c] + 1 /\ \A e \in Core \ {c} : cpu'[e] = cpu[e]
  BY <1>1, <1>2, <1>3
<1>8. Fresh'
  <2>1. p < NEXT_PID /\ p \in Int /\ NEXT_PID \in Int
    BY <1>3 DEF ProcInv, Fresh, TypeOK, Pid
  <2>2. \A q \in Pid : q >= NEXT_PID => q \in Pid \ {p}
    BY <2>1
  <2>3. \A e \in Core : spawning[e] \in Pid \ PROCESS_TABLE => spawning[e] \in Pid \ {p}
    BY <1>3
  <2> QED
    BY <1>1, <1>7, <2>2, <2>3, Zenon DEF ProcInv, Fresh
<1>9. RunningInRing3' /\ LookUpsSucceed' /\ Memory'
  BY <1>1 DEF ProcInv, RunningInRing3, LookUpsSucceed, Memory, TwoFrames, FramesDisjoint,
     FramesTaken, OwnTable
<1>10. ContextKept'
  <2>1. state[p] = "Running"
    BY <1>1, Zenon DEF ProcInv, RunningInRing3
  <2>2. \A q \in PROCESS_TABLE : state[q] # "Running" => registers[q] = work'[q]
    BY <1>2, <1>7, <2>1 DEF ProcInv, ContextKept
  <2>3. \A e \in Core : pc[e] = "ring3" /\ e # c => current_event[e] \in Pid \ {p}
    <3>1. \A e \in Core : pc[e] = "ring3" => Live(e)
      BY DEF Live
    <3>2. \A e \in Core : pc[e] = "ring3" => current_event[e] \in Pid
      BY <1>2, <3>1 DEF ProcInv, InTable, LiveInTable
    <3>3. \A e \in Core : pc[e] = "ring3" /\ e # c => current_event[e] # p
      BY <1>3, <3>1, Zenon DEF ProcInv, OnePlace, LiveOnce
    <3> QED
      BY <3>2, <3>3
  <2>4. \A e \in Core : pc[e] = "ring3" => cpu[e] = work[current_event[e]]
    BY Zenon DEF ProcInv, ContextKept
  <2>5. \A e \in Core : pc[e] = "ring3" => cpu'[e] = work'[current_event[e]]
    BY <1>1, <1>7, <2>3, <2>4
  <2> QED
    BY <1>1, <2>2, <2>5, Zenon DEF ContextKept
<1> QED
  BY <1>4, <1>5, <1>6, <1>8, <1>9, <1>10, Zenon DEF ProcInv

\* The event is over (return_process).
LEMMA PollReadyStep ==
  ASSUME ProcInv, NEW c \in Core, PollReady(c)
  PROVE  ProcInv'
<1>1. /\ pc[c] = "return" /\ pc' = [pc EXCEPT ![c] = "loop"]
      /\ current_event' = [current_event EXCEPT ![c] = NoPid]
      /\ PROCESS_TABLE' = PROCESS_TABLE /\ state' = state /\ registers' = registers
      /\ NEXT_PID' = NEXT_PID /\ frames' = frames /\ free' = free
      /\ queue' = queue /\ interrupts' = interrupts
      /\ spawning' = spawning /\ cr3' = cr3 /\ cpu' = cpu /\ work' = work
  BY DEF PollReady, Goto, pcbs, memory, cores
<1>2. /\ pc \in [Core -> {"loop", "poll", "enter", "ring3", "return", "panic"}]
      /\ current_event \in [Core -> Pid \cup {NoPid}]
  BY Zenon DEF ProcInv, TypeOK
<1>3. TypeOK'
  <2>1. /\ pc' \in [Core -> {"loop", "poll", "enter", "ring3", "return", "panic"}]
        /\ current_event' \in [Core -> Pid \cup {NoPid}]
    BY <1>1, <1>2
  <2> QED
    BY <1>1, <2>1, Zenon DEF ProcInv, TypeOK
<1>4. /\ \A e \in Core : /\ Live(e)' <=> Live(e)
                         /\ pc'[e] = "ring3" <=> pc[e] = "ring3"
                         /\ pc'[e] = "loop" <=> pc[e] = "loop" \/ e = c
                         /\ pc'[e] = "panic" <=> pc[e] = "panic"
                         /\ pc[e] = "ring3" \/ Live(e) => e # c
      /\ current_event'[c] = NoPid
      /\ \A e \in Core \ {c} : current_event'[e] = current_event[e]
  BY <1>1, <1>2 DEF Live
<1>5. OnePlace'
  <2>1. \A e \in Core : Live(e)' => Live(e) /\ current_event'[e] = current_event[e]
    BY <1>4, Zenon
  <2> QED
    BY <1>1, <2>1, PlaceKept, Zenon
<1>6. InTable' /\ Fresh'
  <2>1. QueuedInTable' /\ Fresh'
    BY <1>1 DEF ProcInv, InTable, QueuedInTable, Fresh
  <2>2. LiveInTable' /\ LoopIdle'
    BY <1>1, <1>4 DEF ProcInv, InTable, LiveInTable, LoopIdle
  <2> QED
    BY <2>1, <2>2 DEF InTable
<1>7. \A e \in Core : pc'[e] = "ring3" => pc[e] = "ring3" /\ current_event'[e] = current_event[e]
  BY <1>4, Zenon
<1>8. RunningInRing3'
  <2>1. \A q \in PROCESS_TABLE : state[q] = "Running" =>
          \E e \in Core : pc'[e] = "ring3" /\ current_event'[e] = q
    BY <1>4 DEF ProcInv, RunningInRing3
  <2>2. \A e \in Core : pc'[e] = "ring3" => state[current_event'[e]] = "Running"
    BY <1>7, Zenon DEF ProcInv, RunningInRing3
  <2> QED
    BY <1>1, <2>1, <2>2, Zenon DEF RunningInRing3
<1>9. ContextKept' /\ LookUpsSucceed'
  <2>1. \A e \in Core : pc'[e] = "ring3" => cpu[e] = work[current_event'[e]]
    BY <1>7, Zenon DEF ProcInv, ContextKept
  <2>2. ContextKept'
    BY <1>1, <2>1, Zenon DEF ProcInv, ContextKept
  <2>3. LookUpsSucceed'
    BY <1>4, Zenon DEF ProcInv, LookUpsSucceed
  <2> QED
    BY <2>2, <2>3
<1>10. Memory'
  <2>1. \A e \in Core : pc'[e] = "ring3" => cr3[e] = frames[current_event'[e]][1]
    BY <1>7, Zenon DEF ProcInv, Memory, OwnTable
  <2>2. OwnTable'
    BY <1>1, <2>1, Zenon DEF OwnTable
  <2>3. TwoFrames' /\ FramesDisjoint' /\ FramesTaken'
    BY <1>1 DEF ProcInv, Memory, TwoFrames, FramesDisjoint, FramesTaken
  <2> QED
    BY <2>2, <2>3 DEF Memory
<1> QED
  BY <1>3, <1>5, <1>6, <1>8, <1>9, <1>10, Zenon DEF ProcInv

\* A process leaves the table and its frames become free (sys_exit).
LEMMA SysExitStep ==
  ASSUME ProcInv, NEW c \in Core, SysExit(c)
  PROVE  ProcInv'
<1> DEFINE p == current_event[c]
<1>1. p \in PROCESS_TABLE /\ p \in Pid /\ Live(c) /\ pc[c] = "ring3"
  BY DEF SysExit, ProcInv, TypeOK, InTable, LiveInTable, Live
<1>2. /\ pc' = [pc EXCEPT ![c] = "return"]
      /\ state' = [state EXCEPT ![p] = "Terminated"]
      /\ free' = free \cup Range(frames[p]) /\ frames' = [frames EXCEPT ![p] = <<>>]
      /\ PROCESS_TABLE' = PROCESS_TABLE \ {p}
      /\ registers' = registers /\ NEXT_PID' = NEXT_PID
      /\ queue' = queue /\ current_event' = current_event /\ interrupts' = interrupts
      /\ spawning' = spawning /\ cr3' = cr3 /\ cpu' = cpu /\ work' = work
  BY <1>1 DEF SysExit, Goto, clear_process_frames, runners, cores
<1>3. /\ pc \in [Core -> {"loop", "poll", "enter", "ring3", "return", "panic"}]
      /\ state \in [Pid -> ProcessState] /\ frames \in [Pid -> Seq(Frame)]
      /\ free \subseteq Frame /\ PROCESS_TABLE \subseteq Pid
  BY Zenon DEF ProcInv, TypeOK
<1>4. frames[p] \in Seq(Frame) /\ Range(frames[p]) = {frames[p][i] : i \in 1..Len(frames[p])}
  BY <1>1, <1>3 DEF Range
<1>5. TypeOK'
  <2>1. Range(frames[p]) \subseteq Frame
    BY <1>4
  <2>2. free' \subseteq Frame /\ PROCESS_TABLE' \subseteq Pid
    BY <1>2, <1>3, <2>1
  <2>3. pc' \in [Core -> {"loop", "poll", "enter", "ring3", "return", "panic"}]
        /\ state' \in [Pid -> ProcessState]
    BY Zenon, <1>2, <1>3 DEF ProcessState
  <2>4. frames' \in [Pid -> Seq(Frame)]
    <3>1. <<>> \in Seq(Frame)
      OBVIOUS
    <3> QED
      BY <1>2, <1>3, <3>1, Zenon
  <2> QED
    BY <1>2, <2>2, <2>3, <2>4, Zenon DEF ProcInv, TypeOK
<1>6. \A e \in Core : /\ Live(e)' <=> Live(e) /\ e # c
                      /\ pc'[e] = "ring3" <=> pc[e] = "ring3" /\ e # c
                      /\ pc'[e] = "loop" <=> pc[e] = "loop"
                      /\ pc'[e] = "panic" <=> pc[e] = "panic"
                      /\ pc[e] = "ring3" => Live(e)
  BY <1>1, <1>2, <1>3 DEF Live
<1>7. OnePlace'
  BY <1>2, <1>6, PlaceKept, Zenon
<1>8. \A e \in Core : Live(e) /\ e # c => current_event[e] \in PROCESS_TABLE \ {p}
  <2>1. \A e \in Core : Live(e) /\ e # c => current_event[e] # p
    BY <1>1, Zenon DEF ProcInv, OnePlace, LiveOnce
  <2> QED
    BY <2>1 DEF ProcInv, InTable, LiveInTable
<1>9. InTable'
  <2>1. \A e \in Core : \A i \in 1..Len(queue[e]) : queue[e][i] \in PROCESS_TABLE \ {p}
    <3>1. \A e \in Core : \A i \in 1..Len(queue[e]) : queue[e][i] # p
      BY <1>1, Zenon DEF ProcInv, OnePlace, QueuedNotLive
    <3>2. \A e \in Core : \A i \in 1..Len(queue[e]) : queue[e][i] \in PROCESS_TABLE
      BY Zenon DEF ProcInv, InTable, QueuedInTable
    <3> QED
      BY <3>1, <3>2, Zenon
  <2>2. QueuedInTable'
    BY <1>2, <2>1, Zenon DEF QueuedInTable
  <2>3. LiveInTable' /\ LoopIdle'
    BY <1>2, <1>6, <1>8, Zenon DEF ProcInv, InTable, LiveInTable, LoopIdle
  <2> QED
    BY <2>2, <2>3 DEF InTable
<1>10. /\ frames'[p] = <<>> /\ \A q \in Pid \ {p} : frames'[q] = frames[q]
       /\ \A q \in Pid \ {p} : state'[q] = state[q]
  BY <1>1, <1>2, <1>3
<1>11. Fresh'
  <2>1. \A q \in Pid : q >= NEXT_PID => work[q] = 0 /\ frames'[q] = <<>>
    BY <1>10, Zenon DEF ProcInv, Fresh
  <2>2. \A e \in Core : spawning[e] # p
    BY <1>1, Zenon DEF ProcInv, OnePlace, LiveNotSpawned
  <2>3. \A e \in Core : spawning[e] \in Pid \ (PROCESS_TABLE \ {p}) => work[spawning[e]] = 0
    BY <2>2 DEF ProcInv, Fresh
  <2>4. \A q \in PROCESS_TABLE \ {p} : q < NEXT_PID
    BY Zenon DEF ProcInv, Fresh
  <2> QED
    BY <1>2, <2>1, <2>3, <2>4, Zenon DEF ProcInv, Fresh
<1>12. \A e \in Core : pc'[e] = "ring3" => pc[e] = "ring3" /\ current_event[e] \in Pid \ {p}
  BY <1>3, <1>6, <1>8
<1>13. RunningInRing3'
  <2>1. \A e \in Core : pc'[e] = "ring3" => state'[current_event[e]] = "Running"
    BY <1>10, <1>12, Zenon DEF ProcInv, RunningInRing3
  <2>2. \A q \in PROCESS_TABLE \ {p} : state'[q] = "Running" =>
          \E e \in Core : pc'[e] = "ring3" /\ current_event[e] = q
    <3> SUFFICES ASSUME NEW q \in PROCESS_TABLE, q # p, state'[q] = "Running"
                 PROVE  \E e \in Core : pc'[e] = "ring3" /\ current_event[e] = q
      BY Zenon
    <3>1. state[q] = "Running"
      BY <1>3, <1>10
    <3>2. PICK e \in Core : pc[e] = "ring3" /\ current_event[e] = q
      BY <3>1, Zenon DEF ProcInv, RunningInRing3
    <3>3. pc'[e] = "ring3"
      BY <1>6, <3>2, Zenon
    <3> QED
      BY <3>2, <3>3, Zenon
  <2> QED
    BY <1>2, <2>1, <2>2 DEF RunningInRing3
<1>14. ContextKept' /\ LookUpsSucceed'
  <2>1. \A q \in PROCESS_TABLE \ {p} : state'[q] # "Running" => registers[q] = work[q]
    BY <1>3, <1>10 DEF ProcInv, ContextKept
  <2>2. \A e \in Core : pc'[e] = "ring3" => cpu[e] = work[current_event[e]]
    BY <1>12, Zenon DEF ProcInv, ContextKept
  <2>3. ContextKept'
    BY <1>2, <2>1, <2>2, Zenon DEF ContextKept
  <2>4. LookUpsSucceed'
    BY <1>6, Zenon DEF ProcInv, LookUpsSucceed
  <2> QED
    BY <2>3, <2>4
<1>15. Memory'
  <2>1. \A q \in PROCESS_TABLE \ {p} : Len(frames'[q]) = 2
    BY <1>3, <1>10 DEF ProcInv, Memory, TwoFrames
  <2>2. TwoFrames'
    BY <1>2, <2>1, Zenon DEF TwoFrames
  <2>3. \A q \in Pid : \A i \in 1..Len(frames'[q]) :
          q # p /\ i \in 1..Len(frames[q]) /\ frames'[q][i] = frames[q][i]
    <3>1. ~ \E i \in 1..Len(frames'[p]) : TRUE
      BY <1>10
    <3> QED
      BY <1>10, <3>1, Zenon
  <2>4. FramesDisjoint'
    <3> SUFFICES ASSUME NEW q \in Pid, NEW r \in Pid, NEW i \in 1..Len(frames'[q]),
                        NEW j \in 1..Len(frames'[r]), frames'[q][i] = frames'[r][j]
                 PROVE  q = r
      BY Zenon DEF FramesDisjoint
    <3>1. /\ i \in 1..Len(frames[q]) /\ j \in 1..Len(frames[r])
          /\ frames[q][i] = frames[r][j]
      BY <2>3, Zenon
    <3> QED
      BY <3>1, Zenon DEF ProcInv, Memory, FramesDisjoint
  <2>5. FramesTaken'
    <3> SUFFICES ASSUME NEW q \in Pid, NEW i \in 1..Len(frames'[q]), frames'[q][i] \in free'
                 PROVE  FALSE
      BY Zenon DEF FramesTaken
    <3>1. q # p /\ i \in 1..Len(frames[q]) /\ frames'[q][i] = frames[q][i]
      BY <2>3, Zenon
    <3>2. frames[q][i] \notin free
      BY <3>1, Zenon DEF ProcInv, Memory, FramesTaken
    <3>3. \A j \in 1..Len(frames[p]) : frames[q][i] # frames[p][j]
      BY <1>1, <3>1, Zenon DEF ProcInv, Memory, FramesDisjoint
    <3> QED
      BY <1>2, <1>4, <3>1, <3>2, <3>3
  <2>6. \A e \in Core : pc'[e] = "ring3" => cr3[e] = frames'[current_event[e]][1]
    BY <1>10, <1>12, Zenon DEF ProcInv, Memory, OwnTable
  <2>7. OwnTable'
    BY <1>2, <2>6, Zenon DEF OwnTable
  <2> QED
    BY <2>2, <2>4, <2>5, <2>7 DEF Memory
<1> QED
  BY <1>5, <1>7, <1>9, <1>11, <1>13, <1>14, <1>15, Zenon DEF ProcInv

\* The timer interrupts a core outside ring 3: nothing changes.
LEMMA TimerInRing0 ==
  ASSUME ProcInv, NEW c \in Core, TimerHandler(c), pc[c] # "ring3"
  PROVE  UNCHANGED vars
<1> DEFINE p == current_event[c]
<1>1. pc[c] = "poll"
  BY DEF TimerHandler, ProcInv, InTable, LoopIdle
<1>2. Live(c) /\ p \in PROCESS_TABLE
  BY <1>1 DEF Live, ProcInv, InTable, LiveInTable
<1>3. state[p] # "Running"
  <2> SUFFICES ASSUME state[p] = "Running" PROVE FALSE
    OBVIOUS
  <2>1. PICK e \in Core : pc[e] = "ring3" /\ current_event[e] = p
    BY <1>2, Zenon DEF ProcInv, RunningInRing3
  <2>2. Live(e)
    BY <2>1 DEF Live
  <2>3. e = c
    BY <1>2, <2>1, <2>2, Zenon DEF ProcInv, OnePlace, LiveOnce
  <2> QED
    BY <2>1, <2>3
<1>4. /\ ~Preempt(c) /\ pc' = [pc EXCEPT ![c] = pc[c]] /\ UNCHANGED <<pcbs, queue>>
  BY <1>2, <1>3 DEF TimerHandler, Preempt, Goto
<1>5. pc' = pc
  <2>1. pc \in [Core -> {"loop", "poll", "enter", "ring3", "return", "panic"}]
    BY Zenon DEF ProcInv, TypeOK
  <2> QED
    BY <1>4, <2>1
<1> QED
  BY <1>4, <1>5 DEF TimerHandler, vars, pcbs, memory, cores

\* The timer interrupts a process.
LEMMA PreemptStep ==
  ASSUME ProcInv, NEW c \in Core, TimerHandler(c), pc[c] = "ring3"
  PROVE  ProcInv'
<1> DEFINE p == current_event[c]
<1>1. p \in PROCESS_TABLE /\ p \in Pid /\ Live(c) /\ state[p] = "Running"
  BY DEF ProcInv, TypeOK, InTable, LiveInTable, Live, RunningInRing3
<1>2. /\ pc' = [pc EXCEPT ![c] = "return"]
      /\ registers' = [registers EXCEPT ![p] = cpu[c]]
      /\ state' = [state EXCEPT ![p] = "Blocked"]
      /\ queue' = [queue EXCEPT ![c] = Append(@, p)]
      /\ PROCESS_TABLE' = PROCESS_TABLE /\ NEXT_PID' = NEXT_PID
      /\ frames' = frames /\ free' = free
      /\ current_event' = current_event /\ interrupts' = interrupts
      /\ spawning' = spawning /\ cr3' = cr3 /\ cpu' = cpu /\ work' = work
  BY <1>1 DEF TimerHandler, Preempt, Goto, memory, cores
<1>3. /\ pc \in [Core -> {"loop", "poll", "enter", "ring3", "return", "panic"}]
      /\ state \in [Pid -> ProcessState] /\ registers \in [Pid -> 0..MaxWork]
      /\ queue \in [Core -> Seq(Pid)] /\ cpu \in [Core -> 0..MaxWork]
      /\ PROCESS_TABLE \subseteq Pid
  BY Zenon DEF ProcInv, TypeOK
<1>4. queue[c] \in Seq(Pid)
  BY <1>3
<1>5. /\ Append(queue[c], p) \in Seq(Pid) /\ Len(Append(queue[c], p)) = Len(queue[c]) + 1
      /\ Len(queue[c]) \in Nat
      /\ \A i \in 1..Len(queue[c]) : Append(queue[c], p)[i] = queue[c][i]
      /\ Append(queue[c], p)[Len(queue[c]) + 1] = p
  BY <1>1, <1>4, AppendFacts
<1>6. /\ queue'[c] = Append(queue[c], p) /\ queue' \in [Core -> Seq(Pid)]
      /\ \A e \in Core \ {c} : queue'[e] = queue[e]
  BY <1>2, <1>3, <1>5, Zenon
<1>7. TypeOK'
  <2>1. /\ pc' \in [Core -> {"loop", "poll", "enter", "ring3", "return", "panic"}]
        /\ state' \in [Pid -> ProcessState] /\ registers' \in [Pid -> 0..MaxWork]
    BY Zenon, <1>2, <1>3 DEF ProcessState
  <2> QED
    BY <1>2, <1>6, <2>1, Zenon DEF ProcInv, TypeOK
<1>8. \A e \in Core : /\ Live(e)' <=> Live(e) /\ e # c
                      /\ pc'[e] = "ring3" <=> pc[e] = "ring3" /\ e # c
                      /\ pc'[e] = "loop" <=> pc[e] = "loop"
                      /\ pc'[e] = "panic" <=> pc[e] = "panic"
                      /\ pc[e] = "ring3" => Live(e)
  BY <1>1, <1>2, <1>3 DEF Live
<1>9. \A e \in Core : \A i \in 1..Len(queue'[e]) :
        \/ i \in 1..Len(queue[e]) /\ queue'[e][i] = queue[e][i]
        \/ e = c /\ i = Len(queue[c]) + 1 /\ queue'[e][i] = p
  <2>1. \A i \in 1..Len(queue'[c]) : i \in 1..Len(queue[c]) \/ i = Len(queue[c]) + 1
    BY <1>5, <1>6
  <2> QED
    BY <1>5, <1>6, <2>1, Zenon
<1>10. \A e \in Core : \A i \in 1..Len(queue[e]) : queue[e][i] # p
  BY <1>1, Zenon DEF ProcInv, OnePlace, QueuedNotLive
<1>11. \A e \in Core : Live(e) /\ e # c => current_event[e] # p
  BY <1>1, Zenon DEF ProcInv, OnePlace, LiveOnce
<1>12. QueuedOnce'
  <2> SUFFICES ASSUME NEW e \in Core, NEW g \in Core, NEW i \in 1..Len(queue'[e]),
                      NEW j \in 1..Len(queue'[g]), queue'[e][i] = queue'[g][j]
               PROVE  e = g /\ i = j
    BY Zenon DEF QueuedOnce
  <2>1. CASE queue'[e][i] = p
    <3>1. e = c /\ i = Len(queue[c]) + 1
      <4>1. \/ i \in 1..Len(queue[e]) /\ queue'[e][i] = queue[e][i]
            \/ e = c /\ i = Len(queue[c]) + 1
        BY <1>9, Zenon
      <4> QED
        BY <1>10, <2>1, <4>1, Zenon
    <3>2. g = c /\ j = Len(queue[c]) + 1
      <4>1. \/ j \in 1..Len(queue[g]) /\ queue'[g][j] = queue[g][j]
            \/ g = c /\ j = Len(queue[c]) + 1
        BY <1>9, Zenon
      <4> QED
        BY <1>10, <2>1, <4>1, Zenon
    <3> QED
      BY <3>1, <3>2, Zenon
  <2>2. CASE queue'[e][i] # p
    <3>1. queue'[g][j] # p
      BY <2>2, Zenon
    <3>2. /\ i \in 1..Len(queue[e]) /\ queue'[e][i] = queue[e][i]
          /\ j \in 1..Len(queue[g]) /\ queue'[g][j] = queue[g][j]
      BY <1>9, <2>2, <3>1
    <3>3. queue[e][i] = queue[g][j]
      BY <3>2, Zenon
    <3>4. QueuedOnce
      BY DEF ProcInv, OnePlace
    <3> QED
      BY <3>2, <3>3, <3>4 DEF QueuedOnce
  <2> QED
    BY <2>1, <2>2, Zenon
<1>13. LiveOnce' /\ SpawnedOnce'
  <2>1. LiveOnce'
    BY <1>2, <1>8, Zenon DEF ProcInv, OnePlace, LiveOnce
  <2>2. SpawnedOnce'
    BY <1>2 DEF ProcInv, OnePlace, SpawnedOnce
  <2> QED
    BY <2>1, <2>2
<1>14. QueuedNotLive'
  <2> SUFFICES ASSUME NEW e \in Core, NEW g \in Core, NEW i \in 1..Len(queue'[e]),
                      Live(g), g # c
               PROVE  queue'[e][i] # current_event[g]
    BY <1>2, <1>8 DEF QueuedNotLive
  <2>1. \A k \in 1..Len(queue[e]) : queue[e][k] # current_event[g]
    BY Zenon DEF ProcInv, OnePlace, QueuedNotLive
  <2> QED
    BY <1>9, <1>11, <2>1, Zenon
<1>15. QueuedNotSpawned'
  <2> SUFFICES ASSUME NEW e \in Core, NEW g \in Core, NEW i \in 1..Len(queue'[e])
               PROVE  queue'[e][i] # spawning[g]
    BY <1>2, Zenon DEF QueuedNotSpawned
  <2>1. \A k \in 1..Len(queue[e]) : queue[e][k] # spawning[g]
    BY Zenon DEF ProcInv, OnePlace, QueuedNotSpawned
  <2>2. p # spawning[g]
    BY <1>1, Zenon DEF ProcInv, OnePlace, LiveNotSpawned
  <2> QED
    BY <1>9, <2>1, <2>2, Zenon
<1>16. LiveNotSpawned'
  BY <1>2, <1>8, Zenon DEF ProcInv, OnePlace, LiveNotSpawned
<1>17. InTable' /\ Fresh'
  <2>1. \A e \in Core : \A i \in 1..Len(queue'[e]) : queue'[e][i] \in PROCESS_TABLE
    <3>1. QueuedInTable
      BY DEF ProcInv, InTable
    <3> QED
      BY <1>1, <1>9, <3>1, Zenon DEF QueuedInTable
  <2>2. QueuedInTable'
    BY <1>2, <2>1, Zenon DEF QueuedInTable
  <2>3. LiveInTable' /\ LoopIdle'
    BY <1>2, <1>8, Zenon DEF ProcInv, InTable, LiveInTable, LoopIdle
  <2>4. Fresh'
    BY <1>2 DEF ProcInv, Fresh
  <2> QED
    BY <2>2, <2>3, <2>4 DEF InTable
<1>18. /\ state'[p] = "Blocked" /\ \A q \in Pid \ {p} : state'[q] = state[q]
       /\ registers'[p] = cpu[c] /\ \A q \in Pid \ {p} : registers'[q] = registers[q]
  BY <1>1, <1>2, <1>3
<1>19. \A e \in Core : pc'[e] = "ring3" => pc[e] = "ring3" /\ current_event[e] \in Pid \ {p}
  <2>1. \A e \in Core : Live(e) => current_event[e] \in Pid
    BY <1>3 DEF ProcInv, InTable, LiveInTable
  <2> QED
    BY <1>8, <1>11, <2>1
<1>20. RunningInRing3'
  <2>1. \A e \in Core : pc'[e] = "ring3" => state'[current_event[e]] = "Running"
    <3>1. \A e \in Core : pc[e] = "ring3" => state[current_event[e]] = "Running"
      BY Zenon DEF ProcInv, RunningInRing3
    <3> QED
      BY <1>18, <1>19, <3>1, Zenon
  <2>2. \A q \in PROCESS_TABLE : state'[q] = "Running" =>
          \E e \in Core : pc'[e] = "ring3" /\ current_event[e] = q
    <3> SUFFICES ASSUME NEW q \in PROCESS_TABLE, state'[q] = "Running"
                 PROVE  \E e \in Core : pc'[e] = "ring3" /\ current_event[e] = q
      BY Zenon
    <3>1. q # p
      BY <1>18
    <3>2. state[q] = "Running"
      BY <1>3, <1>18, <3>1
    <3>3. PICK e \in Core : pc[e] = "ring3" /\ current_event[e] = q
      BY <3>2, Zenon DEF ProcInv, RunningInRing3
    <3>4. pc'[e] = "ring3"
      BY <1>8, <3>1, <3>3, Zenon
    <3> QED
      BY <3>3, <3>4, Zenon
  <2> QED
    BY <1>2, <2>1, <2>2, Zenon DEF RunningInRing3
<1>21. ContextKept'
  <2>1. cpu[c] = work[p]
    BY Zenon DEF ProcInv, ContextKept
  <2>2. \A q \in PROCESS_TABLE : state'[q] # "Running" => registers'[q] = work[q]
    BY Zenon, <1>3, <1>18, <2>1 DEF ProcInv, ContextKept
  <2>3. \A e \in Core : pc'[e] = "ring3" => cpu[e] = work[current_event[e]]
    BY <1>19, Zenon DEF ProcInv, ContextKept
  <2> QED
    BY <1>2, <2>2, <2>3, Zenon DEF ContextKept
<1>22. LookUpsSucceed' /\ Memory'
  <2>1. LookUpsSucceed'
    BY <1>8, Zenon DEF ProcInv, LookUpsSucceed
  <2>2. OwnTable'
    BY <1>2, <1>19, Zenon DEF ProcInv, Memory, OwnTable
  <2>3. TwoFrames' /\ FramesDisjoint' /\ FramesTaken'
    BY <1>2 DEF ProcInv, Memory, TwoFrames, FramesDisjoint, FramesTaken
  <2> QED
    BY <2>1, <2>2, <2>3 DEF Memory
<1> QED
  BY <1>7, <1>12, <1>13, <1>14, <1>15, <1>16, <1>17, <1>20, <1>21, <1>22, Zenon
     DEF ProcInv, OnePlace

\* A step that changes nothing keeps ProcInv.
LEMMA Stutter == ProcInv /\ UNCHANGED vars => ProcInv'
<1> SUFFICES ASSUME ProcInv, UNCHANGED vars PROVE ProcInv'
  OBVIOUS
<1> USE DEF ProcInv, vars
<1>1. TypeOK'
  BY DEF TypeOK
<1>2. OnePlace'
  BY PlaceKept DEF Live
<1>3. InTable' /\ Fresh'
  BY DEF InTable, QueuedInTable, LiveInTable, LoopIdle, Live, Fresh
<1>4. RunningInRing3' /\ ContextKept' /\ LookUpsSucceed'
  BY DEF RunningInRing3, ContextKept, LookUpsSucceed
<1>5. Memory'
  BY DEF Memory, TwoFrames, FramesDisjoint, FramesTaken, OwnTable
<1> QED
  BY <1>1, <1>2, <1>3, <1>4, <1>5

\* Every step keeps ProcInv.
LEMMA ProcInvStep == ProcInv /\ [Next]_vars => ProcInv'
<1> SUFFICES ASSUME ProcInv, [Next]_vars PROVE ProcInv'
  OBVIOUS
<1>1. CASE UNCHANGED vars
  BY <1>1, Stutter
<1>2. ASSUME NEW c \in Core, Spawn(c) PROVE ProcInv'
  BY <1>2, AllocFrameStep, InsertProcessStep, ScheduleProcessStep, Zenon DEF Spawn
<1>3. ASSUME NEW c \in Core, RunProcess(c) PROVE ProcInv'
  BY <1>3, NextEventStep, HaltStep, LookUpStep, CallProcessStep, PollReadyStep, Zenon
     DEF RunProcess
<1>4. ASSUME NEW c \in Core, TimerHandler(c) PROVE ProcInv'
  BY <1>4, TimerInRing0, PreemptStep, Stutter, Zenon
<1> QED
  BY <1>1, <1>2, <1>3, <1>4, CreateStep, UserWorkStep, SysExitStep, Zenon DEF Next

\* ProcInv holds in every state.
THEOREM ProcInvariant == Spec => []ProcInv
<1>1. Init => ProcInv
  <2> SUFFICES ASSUME Init PROVE ProcInv
    OBVIOUS
  <2>1. TypeOK
    BY BoundAssumption DEF Init, TypeOK, Pid, NoPid, ProcessState
  <2>2. /\ \A c \in Core : Len(queue[c]) = 0 /\ ~Live(c) /\ spawning[c] = NoPid
                           /\ pc[c] = "loop" /\ current_event[c] = NoPid
        /\ \A p \in Pid : Len(frames[p]) = 0 /\ frames[p] = <<>> /\ work[p] = 0
        /\ PROCESS_TABLE = {} /\ NEXT_PID = 1
    BY DEF Init, Live
  <2>3. \A i \in 1..0 : FALSE
    OBVIOUS
  <2>4. OnePlace
    BY <2>2, <2>3, Zenon DEF OnePlace, QueuedOnce, LiveOnce, SpawnedOnce, QueuedNotLive,
       QueuedNotSpawned, LiveNotSpawned
  <2>5. InTable
    BY <2>2, <2>3, Zenon DEF InTable, QueuedInTable, LiveInTable, LoopIdle
  <2>6. Fresh
    BY <2>2 DEF Fresh, NoPid, Pid
  <2>7. RunningInRing3 /\ ContextKept /\ LookUpsSucceed
    BY <2>2 DEF RunningInRing3, ContextKept, LookUpsSucceed
  <2>8. Memory
    <3>1. OwnTable
      BY <2>2 DEF OwnTable
    <3>2. TwoFrames /\ FramesDisjoint /\ FramesTaken
      BY <2>2, <2>3, Zenon DEF TwoFrames, FramesDisjoint, FramesTaken
    <3> QED
      BY <3>1, <3>2 DEF Memory
  <2> QED
    BY <2>1, <2>4, <2>5, <2>6, <2>7, <2>8 DEF ProcInv
<1> QED
  BY <1>1, ProcInvStep, PTL DEF Spec

-----------------------------------------------------------------------------
\* The lookups of run_process_ring3 and of the handlers succeed, for any number of
\* cores and processes.
THEOREM EveryLookUpSucceeds == Spec => []LookUpsSucceed
<1>1. ProcInv => LookUpsSucceed
  BY DEF ProcInv
<1> QED
  BY <1>1, ProcInvariant, PTL

\* A preempted process goes on where it was interrupted, for any number of cores and
\* processes (timer_handler, run_process_ring3).
THEOREM EveryContextKept == Spec => []ContextKept
<1>1. ProcInv => ContextKept
  BY DEF ProcInv
<1> QED
  BY <1>1, ProcInvariant, PTL

\* A process in ring 3 runs in its own address space, whose frames nobody else has,
\* for any number of cores, processes and frames.
THEOREM AddressSpacesIsolated == Spec => []Isolated
<1>1. ProcInv => Isolated
  <2> SUFFICES ASSUME ProcInv, NEW c \in Core, pc[c] = "ring3"
               PROVE  LET p == current_event[c]
                      IN  /\ frames[p] # <<>> /\ cr3[c] = frames[p][1]
                          /\ Range(frames[p]) \cap free = {}
                          /\ \A q \in Pid \ {p} : Range(frames[p]) \cap Range(frames[q]) = {}
    BY Zenon DEF Isolated
  <2> DEFINE p == current_event[c]
  <2>1. p \in PROCESS_TABLE /\ p \in Pid
    BY DEF ProcInv, TypeOK, InTable, LiveInTable, Live
  <2>2. \A q \in Pid : frames[q] \in Seq(Frame)
    BY DEF ProcInv, TypeOK
  <2>3. \A q \in Pid : Range(frames[q]) = {frames[q][i] : i \in 1..Len(frames[q])}
    BY <2>2 DEF Range
  <2> HIDE DEF p
  <2>4. frames[p] # <<>> /\ cr3[c] = frames[p][1]
    <3>1. Len(frames[p]) = 2 /\ cr3[c] = frames[p][1]
      BY <2>1, Zenon DEF ProcInv, Memory, TwoFrames, OwnTable, p
    <3> QED
      BY <2>1, <2>2, <3>1
  <2>5. Range(frames[p]) \cap free = {}
    <3>1. \A i \in 1..Len(frames[p]) : frames[p][i] \notin free
      BY <2>1, Zenon DEF ProcInv, Memory, FramesTaken
    <3>2. Range(frames[p]) = {frames[p][i] : i \in 1..Len(frames[p])}
      BY <2>1, <2>3, Zenon
    <3>3. \A f \in Range(frames[p]) : f \notin free
      BY <3>1, <3>2, Zenon
    <3> QED
      BY <3>3
  <2>6. \A q \in Pid \ {p} : Range(frames[p]) \cap Range(frames[q]) = {}
    <3> SUFFICES ASSUME NEW q \in Pid \ {p}, NEW f \in Range(frames[p]), f \in Range(frames[q])
                 PROVE  FALSE
      OBVIOUS
    <3>1. PICK i \in 1..Len(frames[p]) : f = frames[p][i]
      <4>1. Range(frames[p]) = {frames[p][i] : i \in 1..Len(frames[p])}
        BY <2>1, <2>3, Zenon
      <4> QED
        BY <4>1, Zenon
    <3>2. PICK j \in 1..Len(frames[q]) : f = frames[q][j]
      <4>1. Range(frames[q]) = {frames[q][k] : k \in 1..Len(frames[q])}
        BY <2>3, Zenon
      <4> QED
        BY <4>1, Zenon
    <3>3. FramesDisjoint
      BY DEF ProcInv, Memory
    <3> QED
      BY <2>1, <3>1, <3>2, <3>3, Zenon DEF FramesDisjoint
  <2> QED
    BY <2>4, <2>5, <2>6 DEF p
<1> QED
  BY <1>1, ProcInvariant, PTL

\* No two cores run one process, and none runs a process that also waits in a queue:
\* the part of OneEventPerProcess that says "at most one".
THEOREM NoProcessTwice == Spec => []OnePlace
<1>1. ProcInv => OnePlace
  BY DEF ProcInv
<1> QED
  BY <1>1, ProcInvariant, PTL

\* The state of the processes is well typed; no core leaves its pid, frames or
\* counters outside their ranges.
THEOREM TypeCorrect == Spec => []TypeOK
<1>1. ProcInv => TypeOK
  BY DEF ProcInv
<1> QED
  BY <1>1, ProcInvariant, PTL
-----------------------------------------------------------------------------
(* No event is lost                                                        *)

Queued(p) == \E c \in Core : \E i \in 1..Len(queue[c]) : queue[c][i] = p
InHand(p) == \E c \in Core : Live(c) /\ current_event[c] = p
Spawned(p) == \E c \in Core : spawning[c] = p

\* A process of the table is in some place.
NoneLost == \A p \in PROCESS_TABLE : Queued(p) \/ InHand(p) \/ Spawned(p)

\* A step that moves no process keeps it where it is.
LEMMA PlacesStay ==
  ASSUME NEW p, queue' = queue, spawning' = spawning,
         \A c \in Core : Live(c) => Live(c)' /\ current_event'[c] = current_event[c]
  PROVE  /\ Queued(p) => Queued(p)'
         /\ InHand(p) => InHand(p)'
         /\ Spawned(p) => Spawned(p)'
  BY DEF Queued, InHand, Spawned

\* An event appended to a queue is there, and the others stay.
LEMMA PlacesAppend ==
  ASSUME NEW d \in Core, NEW p \in Pid, queue \in [Core -> Seq(Pid)],
         queue' = [queue EXCEPT ![d] = Append(@, p)]
  PROVE  Queued(p)' /\ \A q : Queued(q) => Queued(q)'
<1>1. queue[d] \in Seq(Pid)
  OBVIOUS
<1>2. /\ queue'[d] = Append(queue[d], p) /\ \A e \in Core \ {d} : queue'[e] = queue[e]
  OBVIOUS
<1>3. /\ Len(queue'[d]) = Len(queue[d]) + 1 /\ Len(queue[d]) \in Nat
      /\ \A i \in 1..Len(queue[d]) : queue'[d][i] = queue[d][i]
      /\ queue'[d][Len(queue[d]) + 1] = p
  BY <1>1, <1>2, AppendFacts
<1>4. Len(queue[d]) + 1 \in 1..Len(queue'[d]) /\ 1..Len(queue[d]) \subseteq 1..Len(queue'[d])
  BY <1>3
<1>5. Queued(p)'
  BY <1>3, <1>4, Zenon DEF Queued
<1>6. ASSUME NEW q, Queued(q) PROVE Queued(q)'
  <2>1. PICK c \in Core : \E i \in 1..Len(queue[c]) : queue[c][i] = q
    BY <1>6, Zenon DEF Queued
  <2>2. \E i \in 1..Len(queue'[c]) : queue'[c][i] = q
    <3>1. CASE c = d
      BY <1>3, <1>4, <2>1, <3>1, Zenon
    <3>2. CASE c # d
      <4>1. queue'[c] = queue[c]
        BY <1>2, <3>2, Zenon
      <4> QED
        BY <2>1, <4>1, Zenon
    <3> QED
      BY <3>1, <3>2, Zenon
  <2> QED
    BY <2>2, Zenon DEF Queued
<1> QED
  BY <1>5, <1>6, Zenon

\* Every step keeps NoneLost.
LEMMA NoneLostStep == ProcInv /\ NoneLost /\ [Next]_vars => NoneLost'
<1> SUFFICES ASSUME ProcInv, NoneLost, [Next]_vars PROVE NoneLost'
  OBVIOUS
<1>1. /\ queue \in [Core -> Seq(Pid)] /\ current_event \in [Core -> Pid \cup {NoPid}]
      /\ pc \in [Core -> {"loop", "poll", "enter", "ring3", "return", "panic"}]
      /\ spawning \in [Core -> Pid \cup {NoPid}] /\ PROCESS_TABLE \subseteq Pid
  BY Zenon DEF ProcInv, TypeOK
\* Most steps move no process.
<1>2. ASSUME PROCESS_TABLE' = PROCESS_TABLE, queue' = queue, spawning' = spawning,
             \A c \in Core : Live(c) => Live(c)' /\ current_event'[c] = current_event[c]
      PROVE  NoneLost'
  BY <1>2, PlacesStay, Zenon DEF NoneLost
<1>3. ASSUME pc' = pc, current_event' = current_event
      PROVE  \A c \in Core : (Live(c) <=> Live(c)') /\ current_event'[c] = current_event[c]
  BY <1>3 DEF Live
<1>4. CASE UNCHANGED vars
  BY <1>2, <1>3, <1>4, Zenon DEF vars
<1>5. ASSUME NEW c \in Core, CreateProcess(c) PROVE NoneLost'
  <2>1. /\ PROCESS_TABLE' = PROCESS_TABLE /\ queue' = queue /\ pc' = pc
        /\ current_event' = current_event /\ spawning[c] = NoPid
        /\ spawning' = [spawning EXCEPT ![c] = NEXT_PID]
    BY <1>5, Zenon DEF CreateProcess, runners
  <2>2. \A p \in Pid : Spawned(p) => Spawned(p)'
    BY <1>1, <2>1 DEF Spawned, Pid, NoPid
  <2>3. \A p \in Pid : (Queued(p) => Queued(p)') /\ (InHand(p) => InHand(p)')
    BY <2>1, <1>3 DEF Queued, InHand
  <2> QED
    BY <1>1, <2>1, <2>2, <2>3 DEF NoneLost
<1>6. ASSUME NEW c \in Core, NEW f \in Frame, AllocFrame(c, f) PROVE NoneLost'
  <2>1. /\ PROCESS_TABLE' = PROCESS_TABLE /\ queue' = queue /\ pc' = pc
        /\ current_event' = current_event /\ spawning' = spawning
    BY <1>6, Zenon DEF AllocFrame, runners
  <2> QED
    BY <2>1, <1>2, <1>3, Zenon
<1>7. ASSUME NEW c \in Core, InsertProcess(c) PROVE NoneLost'
  <2>1. /\ PROCESS_TABLE' = PROCESS_TABLE \cup {spawning[c]} /\ queue' = queue /\ pc' = pc
        /\ current_event' = current_event /\ spawning' = spawning
    BY <1>7, Zenon DEF InsertProcess, runners
  <2>2. PICK p : p = spawning[c] /\ Spawned(p)'
    BY <2>1, Zenon DEF Spawned
  <2>3. \A q \in PROCESS_TABLE : Queued(q)' \/ InHand(q)' \/ Spawned(q)'
    BY <2>1, <1>3, PlacesStay, Zenon DEF NoneLost
  <2> QED
    BY <2>1, <2>2, <2>3 DEF NoneLost
<1>8. ASSUME NEW c \in Core, NEW d \in Core, ScheduleProcess(c, d) PROVE NoneLost'
  <2>0. PICK p : p = spawning[c]
    OBVIOUS
  <2>1. /\ PROCESS_TABLE' = PROCESS_TABLE /\ pc' = pc /\ current_event' = current_event
        /\ queue' = [queue EXCEPT ![d] = Append(@, p)]
        /\ spawning' = [spawning EXCEPT ![c] = NoPid] /\ p \in PROCESS_TABLE
    BY <1>8, <2>0, Zenon DEF ScheduleProcess
  <2>2. Queued(p)' /\ \A q : Queued(q) => Queued(q)'
    BY Zenon, <1>1, <2>1, PlacesAppend
  <2>3. \A q : Spawned(q) => q = p \/ Spawned(q)'
    BY <1>1, <2>0, <2>1 DEF Spawned
  <2>4. \A q : InHand(q) => InHand(q)'
    BY <2>1, <1>3 DEF InHand
  <2> QED
    BY <2>1, <2>2, <2>3, <2>4, Zenon DEF NoneLost
<1>9. ASSUME NEW c \in Core, NextEvent(c) PROVE NoneLost'
  <2>1. /\ PROCESS_TABLE' = PROCESS_TABLE /\ spawning' = spawning /\ queue[c] # <<>>
        /\ current_event' = [current_event EXCEPT ![c] = Head(queue[c])]
        /\ queue' = [queue EXCEPT ![c] = Tail(@)]
        /\ pc[c] = "loop" /\ pc' = [pc EXCEPT ![c] = "poll"]
    BY <1>9, Zenon DEF NextEvent, Goto
  <2>2. queue[c] \in Seq(Pid)
    BY <1>1
  <2>3. /\ Len(Tail(queue[c])) = Len(queue[c]) - 1 /\ Len(queue[c]) \in Nat \ {0}
        /\ \A i \in 1..(Len(queue[c]) - 1) : Tail(queue[c])[i] = queue[c][i + 1]
        /\ Head(queue[c]) = queue[c][1]
    BY <2>1, <2>2, TailFacts
  <2>4. queue'[c] = Tail(queue[c]) /\ \A e \in Core \ {c} : queue'[e] = queue[e]
    BY <1>1, <2>1
  <2>5. PICK p : p = queue[c][1] /\ InHand(p)'
    BY <1>1, <2>1, <2>3 DEF InHand, Live
  <2>6. \A q : InHand(q) => InHand(q)'
    BY <1>1, <2>1 DEF InHand, Live
  <2>7. ASSUME NEW q, Queued(q), q # queue[c][1] PROVE Queued(q)'
    <3>1. PICK e \in Core : \E i \in 1..Len(queue[e]) : queue[e][i] = q
      BY <2>7 DEF Queued
    <3>2. PICK i \in 1..Len(queue[e]) : queue[e][i] = q
      BY <3>1
    <3>3. CASE e = c
      <4>1. i - 1 \in 1..(Len(queue[c]) - 1) /\ (i - 1) + 1 = i
        BY <2>3, <2>7, <3>2, <3>3
      <4>2. queue'[c][i - 1] = q /\ i - 1 \in 1..Len(queue'[c])
        BY <2>3, <2>4, <3>2, <3>3, <4>1
      <4> QED
        BY <4>2 DEF Queued
    <3>4. CASE e # c
      BY <2>4, <3>2, <3>4 DEF Queued
    <3> QED
      BY <3>3, <3>4
  <2>8. \A q : Spawned(q) => Spawned(q)'
    BY <2>1 DEF Spawned
  <2> QED
    BY <2>1, <2>5, <2>6, <2>7, <2>8, Zenon DEF NoneLost
\* Steps of a core inside run_process_ring3 that keep its event in hand.
<1>10. ASSUME NEW c \in Core, NEW to, to \in {"enter", "ring3"}, pc' = [pc EXCEPT ![c] = to],
              current_event' = current_event
       PROVE  \A d \in Core : Live(d) => Live(d)' /\ current_event'[d] = current_event[d]
  BY <1>10, <1>1 DEF Live
<1>11. ASSUME NEW c \in Core, Halt(c) \/ UserWork(c) PROVE NoneLost'
  <2>1. /\ PROCESS_TABLE' = PROCESS_TABLE /\ queue' = queue /\ pc' = pc
        /\ current_event' = current_event /\ spawning' = spawning
    BY <1>11, Zenon DEF Halt, UserWork, runners
  <2> QED
    BY <2>1, <1>2, <1>3, Zenon
<1>12. ASSUME NEW c \in Core, LookUp(c) PROVE NoneLost'
  <2>1. current_event[c] \in PROCESS_TABLE
    BY <1>12, Zenon DEF LookUp, ProcInv, InTable, LiveInTable, Live
  <2>2. /\ PROCESS_TABLE' = PROCESS_TABLE /\ queue' = queue /\ spawning' = spawning
        /\ current_event' = current_event /\ pc' = [pc EXCEPT ![c] = "enter"]
    BY <1>12, <2>1, Zenon DEF LookUp, Goto, runners
  <2> QED
    BY Zenon, <2>2, <1>2, <1>10
<1>13. ASSUME NEW c \in Core, CallProcess(c) PROVE NoneLost'
  <2>1. /\ PROCESS_TABLE' = PROCESS_TABLE /\ queue' = queue /\ spawning' = spawning
        /\ current_event' = current_event /\ pc' = [pc EXCEPT ![c] = "ring3"]
    BY <1>13, Zenon DEF CallProcess, Goto, runners
  <2> QED
    BY Zenon, <2>1, <1>2, <1>10
<1>14. ASSUME NEW c \in Core, PollReady(c) PROVE NoneLost'
  <2>1. /\ PROCESS_TABLE' = PROCESS_TABLE /\ queue' = queue /\ spawning' = spawning
        /\ current_event' = [current_event EXCEPT ![c] = NoPid]
        /\ pc[c] = "return" /\ pc' = [pc EXCEPT ![c] = "loop"]
    BY <1>14, Zenon DEF PollReady, Goto
  <2>2. \A d \in Core : Live(d) => Live(d)' /\ current_event'[d] = current_event[d]
    BY <1>1, <2>1 DEF Live
  <2> QED
    BY <2>1, <2>2, <1>2, Zenon
<1>15. ASSUME NEW c \in Core, TimerHandler(c) PROVE NoneLost'
  <2>1. PROCESS_TABLE' = PROCESS_TABLE /\ current_event' = current_event /\ spawning' = spawning
    BY <1>15, Zenon DEF TimerHandler
  <2>2. CASE Preempt(c)
    <3>0. PICK p : p = current_event[c]
      OBVIOUS
    <3>1. /\ p \in PROCESS_TABLE /\ pc' = [pc EXCEPT ![c] = "return"]
          /\ queue' = [queue EXCEPT ![c] = Append(@, p)]
      BY <2>2, <3>0, Zenon DEF Preempt, Goto
    <3>2. Queued(p)' /\ \A q : Queued(q) => Queued(q)'
      BY Zenon, <1>1, <3>1, PlacesAppend
    <3>3. \A q : InHand(q) => q = p \/ InHand(q)'
      BY <1>1, <2>1, <3>0, <3>1 DEF InHand, Live
    <3>4. \A q : Spawned(q) => Spawned(q)'
      BY <2>1 DEF Spawned
    <3> QED
      BY <2>1, <3>2, <3>3, <3>4, Zenon DEF NoneLost
  <2>3. CASE ~Preempt(c)
    <3>1. current_event[c] \in PROCESS_TABLE
      <4>1. pc[c] \in {"ring3", "poll"} \/ pc[c] = "loop"
        BY <1>15 DEF TimerHandler
      <4>2. current_event[c] # NoPid
        BY <1>15 DEF TimerHandler
      <4> QED
        BY <4>1, <4>2 DEF ProcInv, InTable, LiveInTable, LoopIdle, Live
    <3>2. pc' = [pc EXCEPT ![c] = pc[c]] /\ queue' = queue
      BY <1>15, <2>3, <3>1, Zenon DEF TimerHandler, Goto
    <3>3. pc' = pc
      BY <1>1, <3>2
    <3> QED
      BY <2>1, <3>2, <3>3, <1>2, <1>3, Zenon
  <2> QED
    BY <2>2, <2>3
<1>16. ASSUME NEW c \in Core, SysExit(c) PROVE NoneLost'
  <2>1. current_event[c] \in PROCESS_TABLE
    BY <1>16, Zenon DEF SysExit, ProcInv, InTable, LiveInTable, Live
  <2>2. /\ PROCESS_TABLE' = PROCESS_TABLE \ {current_event[c]} /\ queue' = queue
        /\ current_event' = current_event /\ spawning' = spawning
        /\ pc' = [pc EXCEPT ![c] = "return"]
    BY <1>16, <2>1, Zenon DEF SysExit, Goto, runners
  <2>3. \A q : InHand(q) => q = current_event[c] \/ InHand(q)'
    BY <1>1, <2>2 DEF InHand, Live
  <2>4. \A q : (Queued(q) => Queued(q)') /\ (Spawned(q) => Spawned(q)')
    BY <2>2 DEF Queued, Spawned
  <2> QED
    BY <2>2, <2>3, <2>4 DEF NoneLost
<1> QED
  BY <1>4, <1>5, <1>6, <1>7, <1>8, <1>9, <1>11, <1>12, <1>13, <1>14, <1>15, <1>16, Zenon
     DEF Next, Spawn, RunProcess

\* The place of an event: in a queue, or 0 for the event in hand.
LEMMA EventsFacts ==
  ASSUME ProcInv, NEW p \in Pid, NEW x
  PROVE  x \in Events(p) <=>
           \E c \in Core : \/ Live(c) /\ current_event[c] = p /\ x = <<c, 0>>
                           \/ \E i \in 1..Len(queue[c]) : queue[c][i] = p /\ x = <<c, i>>
<1>1. \A c \in Core : Len(queue[c]) \in Nat
  BY DEF ProcInv, TypeOK
<1>2. p # NoPid
  BY DEF Pid, NoPid
<1>3. x \in Events(p) <=> \E c \in Core : \E i \in 0..Len(queue[c]) : EventAt(c, i) = p /\ x = <<c, i>>
  BY DEF Events
<1>4. ASSUME NEW c \in Core
      PROVE  (\E i \in 0..Len(queue[c]) : EventAt(c, i) = p /\ x = <<c, i>>) <=>
               \/ Live(c) /\ current_event[c] = p /\ x = <<c, 0>>
               \/ \E i \in 1..Len(queue[c]) : queue[c][i] = p /\ x = <<c, i>>
  <2>1. EventAt(c, 0) = p <=> Live(c) /\ current_event[c] = p
    BY <1>2 DEF EventAt
  <2>2. \A i \in 1..Len(queue[c]) : EventAt(c, i) = queue[c][i]
    BY DEF EventAt
  <2>3. \A i : i \in 0..Len(queue[c]) <=> i = 0 \/ i \in 1..Len(queue[c])
    BY <1>1
  <2> QED
    BY <2>1, <2>2, <2>3, Zenon
<1> QED
  BY <1>3, <1>4

\* A scheduled process has exactly one event until it exits, for any number of cores
\* and processes: preemption neither loses nor duplicates it (schedule_process,
\* next_event, timer_handler, sys_exit).
THEOREM ExactlyOneEvent == Spec => []OneEventPerProcess
<1>1. Init => NoneLost
  BY DEF Init, NoneLost
<1>2. ProcInv /\ NoneLost => OneEventPerProcess
  <2> SUFFICES ASSUME ProcInv, NoneLost, NEW p \in Pid
               PROVE  Cardinality(Events(p)) =
                        IF p \in PROCESS_TABLE /\ \A c \in Core : spawning[c] # p THEN 1 ELSE 0
    BY DEF OneEventPerProcess
  <2>1. ASSUME NEW x, NEW y, x \in Events(p), y \in Events(p) PROVE x = y
    <3>1. PICK c \in Core : \/ Live(c) /\ current_event[c] = p /\ x = <<c, 0>>
                            \/ \E i \in 1..Len(queue[c]) : queue[c][i] = p /\ x = <<c, i>>
      BY <2>1, EventsFacts
    <3>2. PICK d \in Core : \/ Live(d) /\ current_event[d] = p /\ y = <<d, 0>>
                            \/ \E i \in 1..Len(queue[d]) : queue[d][i] = p /\ y = <<d, i>>
      BY <2>1, EventsFacts
    <3>3. QueuedOnce /\ LiveOnce /\ QueuedNotLive
      BY DEF ProcInv, OnePlace
    <3>4. CASE Live(c) /\ current_event[c] = p /\ x = <<c, 0>>
      BY <3>2, <3>3, <3>4, Zenon DEF LiveOnce, QueuedNotLive
    <3>5. CASE \E i \in 1..Len(queue[c]) : queue[c][i] = p /\ x = <<c, i>>
      <4>1. PICK i \in 1..Len(queue[c]) : queue[c][i] = p /\ x = <<c, i>>
        BY <3>5
      <4>2. ~(Live(d) /\ current_event[d] = p)
        BY <3>3, <4>1, Zenon DEF QueuedNotLive
      <4>3. PICK j \in 1..Len(queue[d]) : queue[d][j] = p /\ y = <<d, j>>
        BY <3>2, <4>2
      <4>4. c = d /\ i = j
        BY <3>3, <4>1, <4>3 DEF QueuedOnce
      <4> QED
        BY <4>1, <4>3, <4>4
    <3> QED
      BY <3>1, <3>4, <3>5
  <2>2. CASE p \in PROCESS_TABLE /\ \A c \in Core : spawning[c] # p
    <3>1. Queued(p) \/ InHand(p)
      BY <2>2 DEF NoneLost, Spawned
    <3>2. \E x : x \in Events(p)
      <4>1. CASE Queued(p)
        <5>1. PICK c \in Core : \E i \in 1..Len(queue[c]) : queue[c][i] = p
          BY <4>1 DEF Queued
        <5>2. PICK i \in 1..Len(queue[c]) : queue[c][i] = p
          BY <5>1
        <5>3. <<c, i>> \in Events(p)
          BY <5>2, EventsFacts, Zenon
        <5> QED
          BY <5>3
      <4>2. CASE InHand(p)
        <5>1. PICK c \in Core : Live(c) /\ current_event[c] = p
          BY <4>2 DEF InHand
        <5>2. <<c, 0>> \in Events(p)
          BY <5>1, EventsFacts, Zenon
        <5> QED
          BY <5>2
      <4> QED
        BY <3>1, <4>1, <4>2
    <3>3. PICK x : Events(p) = {x}
      BY <2>1, <3>2
    <3> QED
      BY <2>2, <3>3, FS_Singleton, Zenon
  <2>3. CASE ~(p \in PROCESS_TABLE /\ \A c \in Core : spawning[c] # p)
    <3>1. ~Queued(p) /\ ~InHand(p)
      <4>1. QueuedInTable /\ LiveInTable /\ QueuedNotSpawned /\ LiveNotSpawned
        BY DEF ProcInv, OnePlace, InTable
      <4> QED
        BY <2>3, <4>1, Zenon DEF QueuedInTable, LiveInTable, QueuedNotSpawned, LiveNotSpawned,
           Queued, InHand
    <3>2. ASSUME NEW x, x \in Events(p) PROVE FALSE
      BY <3>1, <3>2, EventsFacts, Zenon DEF Queued, InHand
    <3>3. Events(p) = {}
      BY <3>2
    <3> QED
      BY <2>3, <3>3, FS_EmptySet, Zenon
  <2> QED
    BY <2>2, <2>3
<1> QED
  BY <1>1, <1>2, ProcInvariant, NoneLostStep, PTL DEF Spec

-----------------------------------------------------------------------------
(* No frame is lost                                                        *)

\* A frame is free or a process has it, and no process has a frame twice.
FramesKnown ==
  \A f \in Frame : f \in free \/ \E p \in Pid : \E i \in 1..Len(frames[p]) : frames[p][i] = f
FramesOnce ==
  \A p \in Pid : \A i, j \in 1..Len(frames[p]) : frames[p][i] = frames[p][j] => i = j

\* Every step keeps FramesKnown and FramesOnce.
LEMMA FramesStep ==
  ProcInv /\ FramesKnown /\ FramesOnce /\ [Next]_vars => FramesKnown' /\ FramesOnce'
<1> SUFFICES ASSUME ProcInv, FramesKnown, FramesOnce, [Next]_vars
             PROVE  FramesKnown' /\ FramesOnce'
  OBVIOUS
<1>1. /\ frames \in [Pid -> Seq(Frame)] /\ spawning \in [Core -> Pid \cup {NoPid}]
      /\ current_event \in [Core -> Pid \cup {NoPid}] /\ PROCESS_TABLE \subseteq Pid
      /\ free \subseteq Frame
  BY Zenon DEF ProcInv, TypeOK
<1>2. ASSUME NEW c \in Core, NEW f \in Frame, AllocFrame(c, f) PROVE FramesKnown' /\ FramesOnce'
  <2>1. PICK p : p = spawning[c]
    OBVIOUS
  <2>2. /\ p # NoPid /\ f \in free /\ free' = free \ {f}
        /\ frames' = [frames EXCEPT ![p] = Append(@, f)]
    BY <1>2, <2>1, Zenon DEF AllocFrame
  <2>3. p \in Pid
    BY <1>1, <2>1, <2>2
  <2>4. frames[p] \in Seq(Frame)
    BY <1>1, <2>3
  <2>5. frames'[p] = Append(frames[p], f) /\ \A q \in Pid \ {p} : frames'[q] = frames[q]
    BY <1>1, <2>2, <2>3
  <2>6. /\ Len(frames'[p]) = Len(frames[p]) + 1 /\ Len(frames[p]) \in Nat
        /\ \A i \in 1..Len(frames[p]) : frames'[p][i] = frames[p][i]
        /\ frames'[p][Len(frames[p]) + 1] = f
    BY <2>4, <2>5, AppendFacts
  <2>7. /\ Len(frames[p]) + 1 \in 1..Len(frames'[p])
        /\ \A i : i \in 1..Len(frames'[p]) <=> i \in 1..Len(frames[p]) \/ i = Len(frames[p]) + 1
    BY <2>6
  <2>8. FramesKnown'
    <3> SUFFICES ASSUME NEW g \in Frame, g \notin free'
                 PROVE  \E q \in Pid : \E i \in 1..Len(frames'[q]) : frames'[q][i] = g
      BY DEF FramesKnown
    <3>1. CASE g = f
      BY <2>3, <2>6, <2>7, <3>1, Zenon
    <3>2. CASE g # f
      <4>1. g \notin free
        BY <2>2, <3>2
      <4>2. PICK q \in Pid : \E i \in 1..Len(frames[q]) : frames[q][i] = g
        BY <4>1 DEF FramesKnown
      <4>3. PICK i \in 1..Len(frames[q]) : frames[q][i] = g
        BY <4>2
      <4>4. i \in 1..Len(frames'[q]) /\ frames'[q][i] = g
        BY <2>5, <2>6, <2>7, <4>3, Zenon
      <4> QED
        BY <4>4
    <3> QED
      BY <3>1, <3>2
  <2>9. \A i \in 1..Len(frames[p]) : frames[p][i] # f
    BY <2>2, <2>3, Zenon DEF ProcInv, Memory, FramesTaken
  <2>10. FramesOnce'
    <3> SUFFICES ASSUME NEW q \in Pid, NEW i \in 1..Len(frames'[q]), NEW j \in 1..Len(frames'[q]),
                        frames'[q][i] = frames'[q][j]
                 PROVE  i = j
      BY DEF FramesOnce
    <3>1. CASE q = p
      <4>1. \A k, l \in 1..Len(frames[p]) : frames[p][k] = frames[p][l] => k = l
        BY <2>3 DEF FramesOnce
      <4>2. i \in 1..Len(frames[p]) \/ i = Len(frames[p]) + 1
        BY <2>7, <3>1
      <4>3. j \in 1..Len(frames[p]) \/ j = Len(frames[p]) + 1
        BY <2>7, <3>1
      <4>4. frames'[p][i] = frames'[p][j]
        BY <3>1
      <4> QED
        BY <2>6, <2>9, <4>1, <4>2, <4>3, <4>4, Zenon
    <3>2. CASE q # p
      BY <2>5, <3>2, Zenon DEF FramesOnce
    <3> QED
      BY <3>1, <3>2
  <2> QED
    BY <2>8, <2>10
<1>3. ASSUME NEW c \in Core, SysExit(c) PROVE FramesKnown' /\ FramesOnce'
  <2>1. PICK p : p = current_event[c]
    OBVIOUS
  <2>2. p \in Pid
    BY <1>1, <1>3, <2>1, Zenon DEF SysExit, ProcInv, InTable, LiveInTable, Live
  <2>3. free' = free \cup Range(frames[p]) /\ frames' = [frames EXCEPT ![p] = <<>>]
    BY <1>3, <2>1, Zenon DEF SysExit, clear_process_frames
  <2>4. frames'[p] = <<>> /\ \A q \in Pid \ {p} : frames'[q] = frames[q]
    BY <1>1, <2>2, <2>3
  <2>5. frames[p] \in Seq(Frame)
    BY <1>1, <2>2
  <2>6. Range(frames[p]) = {frames[p][i] : i \in 1..Len(frames[p])}
    BY <2>5 DEF Range
  <2>7. FramesKnown'
    <3> SUFFICES ASSUME NEW g \in Frame, g \notin free'
                 PROVE  \E q \in Pid : \E i \in 1..Len(frames'[q]) : frames'[q][i] = g
      BY DEF FramesKnown
    <3>1. g \notin free /\ \A i \in 1..Len(frames[p]) : frames[p][i] # g
      BY <2>3, <2>6
    <3>2. PICK q \in Pid : \E i \in 1..Len(frames[q]) : frames[q][i] = g
      BY <3>1 DEF FramesKnown
    <3>3. q # p
      BY <3>1, <3>2
    <3> QED
      BY <2>4, <3>2, <3>3
  <2>8. \A i \in 1..Len(<<>>) : FALSE
    OBVIOUS
  <2>9. FramesOnce'
    BY <2>4, <2>8, Zenon DEF FramesOnce
  <2> QED
    BY <2>7, <2>9
<1>4. ASSUME \A c \in Core : ~SysExit(c) /\ \A f \in Frame : ~AllocFrame(c, f)
      PROVE  frames' = frames /\ free' = free
  BY <1>4, Zenon DEF Next, Spawn, RunProcess, CreateProcess, InsertProcess, ScheduleProcess,
     NextEvent, Halt, LookUp, CallProcess, PollReady, UserWork, TimerHandler, memory, vars
<1>5. frames' = frames /\ free' = free => FramesKnown' /\ FramesOnce'
  BY DEF FramesKnown, FramesOnce
<1> QED
  BY <1>2, <1>3, <1>4, <1>5, Zenon

\* Every frame is free or one frame of one process, for any number of cores,
\* processes and frames: create_process and sys_exit lose none and share none.
THEOREM EveryFrameAccounted == Spec => []FramesAccounted
<1>1. Init => FramesKnown /\ FramesOnce
  <2> SUFFICES ASSUME Init PROVE FramesKnown /\ FramesOnce
    OBVIOUS
  <2>1. \A i \in 1..Len(<<>>) : FALSE
    OBVIOUS
  <2>2. free = Frame /\ \A p \in Pid : frames[p] = <<>>
    BY DEF Init
  <2> QED
    BY <2>1, <2>2, Zenon DEF FramesKnown, FramesOnce
<1>2. ProcInv /\ FramesKnown /\ FramesOnce => FramesAccounted
  <2> SUFFICES ASSUME ProcInv, FramesKnown, FramesOnce PROVE FramesAccounted
    OBVIOUS
  <2>1. \A p \in Pid : frames[p] \in Seq(Frame)
    BY DEF ProcInv, TypeOK
  <2>2. ASSUME NEW p \in Pid PROVE DOMAIN frames[p] = 1..Len(frames[p])
    BY <2>1
  <2>3. \A p \in Pid : IsInjective(frames[p])
    BY <2>2, Zenon DEF FramesOnce, IsInjective
  <2>4. ASSUME NEW p \in Pid, NEW f
        PROVE  f \in Range(frames[p]) <=> \E i \in 1..Len(frames[p]) : frames[p][i] = f
    BY <2>2 DEF Range
  <2>5. ASSUME NEW f \in Frame
        PROVE  Cardinality({p \in Pid : f \in Range(frames[p])}) = IF f \in free THEN 0 ELSE 1
    <3> DEFINE H == {p \in Pid : f \in Range(frames[p])}
    <3>1. CASE f \in free
      <4>1. FramesTaken
        BY DEF ProcInv, Memory
      <4>2. \A p \in Pid : \A i \in 1..Len(frames[p]) : frames[p][i] # f
        BY <3>1, <4>1 DEF FramesTaken
      <4>3. H = {}
        BY <2>4, <4>2
      <4> QED
        BY <3>1, <4>3, FS_EmptySet, Zenon
    <3>2. CASE f \notin free
      <4>1. PICK p \in Pid : \E i \in 1..Len(frames[p]) : frames[p][i] = f
        BY <3>2 DEF FramesKnown
      <4>2. FramesDisjoint
        BY DEF ProcInv, Memory
      <4>3. ASSUME NEW q \in Pid, f \in Range(frames[q]) PROVE q = p
        <5>1. PICK j \in 1..Len(frames[q]) : frames[q][j] = f
          BY <2>4, <4>3
        <5>2. PICK i \in 1..Len(frames[p]) : frames[p][i] = f
          BY <4>1
        <5> QED
          BY <4>2, <5>1, <5>2 DEF FramesDisjoint
      <4>4. H = {p}
        BY Zenon, <2>4, <4>1, <4>3
      <4> QED
        BY <3>2, <4>4, FS_Singleton, Zenon
    <3> QED
      BY <3>1, <3>2
  <2> QED
    BY <2>3, <2>5 DEF FramesAccounted
<1> QED
  BY <1>1, <1>2, ProcInvariant, FramesStep, PTL DEF Spec
-----------------------------------------------------------------------------
(* What load_elf leaves in memory, for every page size, executable and     *)
(* list of program headers                                                 *)

\* A product with a factor strictly between two consecutive ones does not exist.
LEMMA QuotientUnique ==
  ASSUME NEW q \in Int, NEW k \in Int, NEW r \in Int, NEW s \in Int, NEW P \in Nat \ {0},
         0 <= r, r < P, 0 <= s, s < P, q * P + r = k * P + s
  PROVE  q = k /\ r = s
<1>1. (q - k) * P = s - r
  BY SMT
<1>2. ~ q - k >= 1
  <2>1. SUFFICES ASSUME q - k >= 1 PROVE FALSE
    OBVIOUS
  <2>2. (q - k) * P >= P
    BY <2>1, SMT
  <2> QED
    BY <1>1, <2>2, SMT
<1>3. ~ k - q >= 1
  <2>1. SUFFICES ASSUME k - q >= 1 PROVE FALSE
    OBVIOUS
  <2>2. (k - q) * P >= P
    BY <2>1, SMT
  <2>3. (k - q) * P = r - s
    BY SMT
  <2> QED
    BY <2>2, <2>3, SMT
<1> QED
  BY <1>1, <1>2, <1>3, SMT

\* The page and the byte in it of an address, given as a page and an offset in it.
LEMMA PageAndByte ==
  ASSUME NEW k \in Nat, NEW r \in Index
  PROVE  /\ containing_address(k * PAGE_SIZE + r) = k
         /\ (k * PAGE_SIZE + r) % PAGE_SIZE = r
<1> DEFINE a == k * PAGE_SIZE + r
<1>1. /\ PAGE_SIZE \in Nat \ {0} /\ r \in Nat /\ r < PAGE_SIZE
  BY PageAssumption DEF Index
<1>2. a \in Nat
  BY <1>1, SMT
<1>3. /\ a \div PAGE_SIZE \in Int /\ a % PAGE_SIZE \in Int
      /\ 0 <= a % PAGE_SIZE /\ a % PAGE_SIZE < PAGE_SIZE
      /\ a = (a \div PAGE_SIZE) * PAGE_SIZE + (a % PAGE_SIZE)
  BY <1>1, <1>2, SMT
<1> HIDE DEF a
<1>4. a = k * PAGE_SIZE + r
  BY DEF a
<1> DEFINE q == a \div PAGE_SIZE
           s == a % PAGE_SIZE
<1>5. q * PAGE_SIZE + s = k * PAGE_SIZE + r
  BY <1>3, <1>4
<1>6. q \in Int /\ s \in Int /\ 0 <= s /\ s < PAGE_SIZE
  BY <1>3
<1>7. k \in Int /\ r \in Int /\ 0 <= r
  BY <1>1
<1>8. a \div PAGE_SIZE = q /\ a % PAGE_SIZE = s
  OBVIOUS
<1> HIDE DEF q, s
<1>9. q = k /\ s = r
  BY <1>1, <1>5, <1>6, <1>7, QuotientUnique
<1>10. a \div PAGE_SIZE = k /\ a % PAGE_SIZE = r
  BY <1>8, <1>9, Zenon
<1>11. /\ (k * PAGE_SIZE + r) \div PAGE_SIZE = k
       /\ (k * PAGE_SIZE + r) % PAGE_SIZE = r
  BY <1>10, <1>4, Zenon
<1> QED
  BY <1>11, Zenon DEF containing_address

\* Every address is a page and a byte in it.
LEMMA AddressSplit ==
  ASSUME NEW a \in Nat
  PROVE  /\ containing_address(a) \in Nat
         /\ a % PAGE_SIZE \in Index
         /\ a = containing_address(a) * PAGE_SIZE + (a % PAGE_SIZE)
<1>1. PAGE_SIZE \in Nat \ {0}
  BY PageAssumption
<1>2. /\ a \div PAGE_SIZE \in Nat /\ a % PAGE_SIZE \in 0..(PAGE_SIZE - 1)
      /\ a = (a \div PAGE_SIZE) * PAGE_SIZE + (a % PAGE_SIZE)
  BY <1>1, SMT
<1> QED
  BY <1>2 DEF containing_address, Index

\* A higher address lies on no lower page.
LEMMA PagesOrdered ==
  ASSUME NEW a \in Nat, NEW b \in Nat, a <= b
  PROVE  containing_address(a) <= containing_address(b)
<1> DEFINE p == containing_address(a)
           e == containing_address(b)
           r == a % PAGE_SIZE
           t == b % PAGE_SIZE
<1>1. /\ PAGE_SIZE \in Nat \ {0}
      /\ p \in Nat /\ e \in Nat /\ r \in Nat /\ t \in Nat /\ t < PAGE_SIZE
      /\ a = p * PAGE_SIZE + r /\ b = e * PAGE_SIZE + t
  <2>1. p \in Nat /\ r \in Index /\ a = p * PAGE_SIZE + r
    BY AddressSplit, Zenon
  <2>2. e \in Nat /\ t \in Index /\ b = e * PAGE_SIZE + t
    BY AddressSplit, Zenon
  <2>3. \A i \in Index : i \in Nat /\ i < PAGE_SIZE
    BY PageAssumption DEF Index
  <2> QED
    BY <2>1, <2>2, <2>3, PageAssumption, Zenon
<1> HIDE DEF p, e, r, t
<1>2. SUFFICES ASSUME p > e PROVE FALSE
  BY <1>1 DEF p, e
<1>3. (p - e) * PAGE_SIZE >= PAGE_SIZE
  BY <1>1, <1>2, SMT
<1>4. (p - e) * PAGE_SIZE = p * PAGE_SIZE - e * PAGE_SIZE
  BY <1>1, SMT
<1>5. p * PAGE_SIZE \in Int /\ e * PAGE_SIZE \in Int
  BY <1>1, SMT
<1>6. p * PAGE_SIZE - e * PAGE_SIZE < PAGE_SIZE
  BY <1>1, <1>5
<1> QED
  BY <1>1, <1>3, <1>4, <1>5, <1>6

\* The pages of a segment lie a whole number of pages behind its first one.
LEMMA PageOffset ==
  ASSUME NEW ph \in ProgramHeader, NEW page \in Pages(ph)
  PROVE  /\ page \in Nat /\ start_page(ph) \in Nat
         /\ page_offset(ph, page) \in Nat
         /\ page_offset(ph, page) = page * PAGE_SIZE - start_page(ph) * PAGE_SIZE
         /\ page_remaining(ph, page) = PAGE_SIZE
<1> DEFINE first == start_page(ph)
<1>1. ph.p_vaddr \in Nat /\ ph.p_memsz \in Nat \ {0}
  BY DEF ProgramHeader
<1>2. first \in Nat /\ end_page(ph) \in Nat
  <2>1. ph.p_vaddr + (ph.p_memsz - 1) \in Nat
    BY <1>1
  <2> QED
    BY <1>1, <2>1, AddressSplit DEF start_page, end_page
<1>3. page \in Nat /\ first <= page
  BY <1>2 DEF Pages
<1>4. PAGE_SIZE \in Nat \ {0}
  BY PageAssumption
<1> HIDE DEF first
<1>5. /\ page * PAGE_SIZE \in Nat /\ first * PAGE_SIZE \in Nat
      /\ page * PAGE_SIZE - first * PAGE_SIZE = (page - first) * PAGE_SIZE
  BY <1>2, <1>3, <1>4, SMT
<1>6. (page - first) * PAGE_SIZE \in Nat
  BY <1>2, <1>3, <1>4, SMT
<1>7. page_offset(ph, page) = page * PAGE_SIZE - first * PAGE_SIZE
  BY <1>5, <1>6 DEF page_offset, saturating_sub, start_address, first
<1>8. page_offset(ph, page) % PAGE_SIZE = 0
  <2>1. page - first \in Nat /\ 0 \in Index
    BY <1>2, <1>3, <1>4 DEF Index
  <2>2. ((page - first) * PAGE_SIZE + 0) % PAGE_SIZE = 0
    BY <2>1, PageAndByte, Zenon
  <2>3. (page - first) * PAGE_SIZE + 0 = page_offset(ph, page)
    BY <1>5, <1>6, <1>7
  <2> QED
    BY <2>2, <2>3, Zenon
<1>9. page_remaining(ph, page) = PAGE_SIZE
  BY <1>4, <1>8 DEF page_remaining
<1> QED
  BY <1>2, <1>3, <1>5, <1>6, <1>7, <1>9 DEF first

-----------------------------------------------------------------------------
\* A page of a segment holds the file's bytes as far as they go and zeros behind
\* them, whatever was in its frame.
THEOREM PageLoaded ==
  ASSUME NEW ph \in ProgramHeader, NEW page \in Pages(ph), NEW elf_bytes, NEW frame,
         NEW i \in Index
  PROVE  LoadedFrame(elf_bytes, ph, page, frame)[i]
           = IF page_offset(ph, page) + i < ph.p_filesz
             THEN elf_bytes[ph.p_offset + page_offset(ph, page) + i] ELSE 0
<1> DEFINE o == page_offset(ph, page)
           n == ph.p_filesz
<1>1. o \in Nat /\ page_remaining(ph, page) = PAGE_SIZE
  BY PageOffset, Zenon
<1>2. n \in Nat /\ i \in Nat /\ i < PAGE_SIZE /\ PAGE_SIZE \in Nat
  BY PageAssumption DEF ProgramHeader, Index
<1>3. bss_start(ph, page) = IF n > o THEN n - o ELSE 0
  BY DEF bss_start, saturating_sub
<1>4. to_copy(ph, page) = min(bss_start(ph, page), PAGE_SIZE)
  BY <1>1 DEF to_copy
<1> HIDE DEF o, n
<1>5. /\ i < to_copy(ph, page) <=> o + i < n
      /\ bss_start(ph, page) <= i <=> ~ o + i < n
  BY <1>1, <1>2, <1>3, <1>4 DEF min
<1>6. LoadedFrame(elf_bytes, ph, page, frame)[i]
        = IF bss_start(ph, page) <= i /\ i < page_remaining(ph, page) THEN 0
          ELSE Copied(elf_bytes, ph, page, frame)[i]
  BY Zenon DEF LoadedFrame, Zeroed
<1>7. Copied(elf_bytes, ph, page, frame)[i]
        = IF i < to_copy(ph, page) THEN elf_bytes[ph.p_offset + page_offset(ph, page) + i]
          ELSE frame[i]
  BY Zenon DEF Copied
<1>8. i < page_remaining(ph, page)
  BY <1>1, <1>2
<1> QED
  BY <1>5, <1>6, <1>7, <1>8, Zenon DEF o, n

\* The slice of elf_bytes that is copied to a page ends with the segment's bytes in
\* the file and fits in the page: neither the slice nor the copy goes out of bounds
\* when the segment lies inside the file.
THEOREM CopyInBounds ==
  ASSUME NEW ph \in ProgramHeader, NEW page \in Pages(ph)
  PROVE  /\ to_copy(ph, page) \in 0..PAGE_SIZE
         /\ to_copy(ph, page) > 0 => page_offset(ph, page) + to_copy(ph, page) <= ph.p_filesz
<1>1. page_offset(ph, page) \in Nat /\ page_remaining(ph, page) = PAGE_SIZE
  BY PageOffset, Zenon
<1>2. ph.p_filesz \in Nat /\ PAGE_SIZE \in Nat
  BY PageAssumption DEF ProgramHeader
<1> QED
  BY <1>1, <1>2 DEF to_copy, min, bss_start, saturating_sub

\* If load_elf maps no page twice (otherwise it panics), every loadable segment that
\* starts on a page boundary is in memory as the executable describes it: the bytes
\* of the file, then zeros up to p_memsz.
THEOREM SegmentsLoaded ==
  ASSUME NEW phs \in Seq(ProgramHeader), MapsOnce(phs), NEW elf_bytes, NEW old,
         NEW k \in Segments(phs), phs[k].p_vaddr % PAGE_SIZE = 0
  PROVE  SegmentLoaded(elf_bytes, phs[k], load_elf(elf_bytes, phs, old))
<1> DEFINE ph == phs[k]
           space == load_elf(elf_bytes, phs, old)
           first == start_page(ph)
<1>1. ph \in ProgramHeader
  BY DEF Segments
<1>2. /\ ph.p_vaddr \in Nat /\ ph.p_memsz \in Nat \ {0} /\ ph.p_filesz \in Nat
      /\ ph.p_offset \in Nat /\ PAGE_SIZE \in Nat \ {0}
  BY <1>1, PageAssumption DEF ProgramHeader
<1>3. first \in Nat /\ ph.p_vaddr = first * PAGE_SIZE
  <2>1. /\ containing_address(ph.p_vaddr) \in Nat
        /\ ph.p_vaddr = containing_address(ph.p_vaddr) * PAGE_SIZE + (ph.p_vaddr % PAGE_SIZE)
    BY <1>2, AddressSplit, Zenon
  <2>2. ph.p_vaddr = first * PAGE_SIZE + 0
    BY <2>1, Zenon DEF start_page
  <2>3. first \in Nat
    BY <2>1, Zenon DEF start_page
  <2> QED
    BY <1>2, <2>2, <2>3, SMT
<1> HIDE DEF ph, space, first
<1>4. SUFFICES ASSUME NEW j \in 0..(ph.p_memsz - 1)
               PROVE  ByteAt(space, ph.p_vaddr + j)
                        = IF j < ph.p_filesz THEN elf_bytes[ph.p_offset + j] ELSE 0
  BY Zenon DEF SegmentLoaded, ph, space
<1> DEFINE a == ph.p_vaddr + j
           page == containing_address(a)
           i == a % PAGE_SIZE
<1>5. a \in Nat /\ ph.p_vaddr <= a /\ a <= ph.p_vaddr + (ph.p_memsz - 1)
      /\ ph.p_vaddr + (ph.p_memsz - 1) \in Nat /\ j \in Nat /\ a = ph.p_vaddr + j
  <2>1. \A v \in Nat, m \in Nat \ {0} : \A n \in 0..(m - 1) :
          v + n \in Nat /\ v <= v + n /\ v + n <= v + (m - 1) /\ v + (m - 1) \in Nat /\ n \in Nat
    OBVIOUS
  <2> QED
    BY <1>2, <2>1, Zenon
<1> HIDE DEF a
<1>6. page \in Nat /\ i \in Index /\ a = page * PAGE_SIZE + i
  BY <1>5, AddressSplit, Zenon
<1>7. page \in Pages(ph)
  <2>1. containing_address(ph.p_vaddr) <= page
    BY <1>2, <1>5, PagesOrdered, Zenon
  <2>2. page <= containing_address(ph.p_vaddr + (ph.p_memsz - 1))
    BY <1>5, PagesOrdered, Zenon
  <2>3. start_page(ph) <= page /\ page <= end_page(ph)
    BY <2>1, <2>2, Zenon DEF start_page, end_page
  <2>4. start_page(ph) \in Nat /\ end_page(ph) \in Nat
    BY <1>2, <1>5, AddressSplit, Zenon DEF start_page, end_page
  <2> HIDE DEF page
  <2> QED
    BY <1>6, <2>3, <2>4 DEF Pages
<1> HIDE DEF page, i
<1>8. space[page].bytes = LoadedFrame(elf_bytes, ph, page, old[page])
  <2> DEFINE l == CHOOSE x \in Segments(phs) : page \in Pages(phs[x])
  <2>1. l \in Segments(phs) /\ page \in Pages(phs[l])
    BY <1>7, Zenon DEF ph
  <2>2. page \notin StackPages
    BY <1>7, Zenon DEF MapsOnce, ph
  <2>3. l = k
    BY <1>7, <2>1, Zenon DEF MapsOnce, ph
  <2>4. page \in UNION {Pages(phs[x]) : x \in Segments(phs)} \cup StackPages
    BY <1>7, Zenon DEF ph
  <2>5. space[page] = [bytes |-> LoadedFrame(elf_bytes, phs[l], page, old[page]),
                       flags |-> Flags(phs[l])]
    BY <2>2, <2>4, Zenon DEF space, load_elf
  <2> HIDE DEF l
  <2> QED
    BY <2>3, <2>5 DEF ph
<1>9. page_offset(ph, page) \in Nat
      /\ page_offset(ph, page) = page * PAGE_SIZE - first * PAGE_SIZE
  BY <1>1, <1>7, PageOffset, Zenon DEF first
<1>10. page_offset(ph, page) + i = j
  <2>1. page * PAGE_SIZE \in Int /\ i \in Int
    BY <1>2, <1>6, SMT DEF Index
  <2> QED
    BY <1>2, <1>3, <1>5, <1>6, <1>9, <2>1
<1>11. ph.p_offset + page_offset(ph, page) + i = ph.p_offset + j
  <2>1. i \in Int
    BY <1>2, <1>6 DEF Index
  <2> QED
    BY <1>2, <1>5, <1>9, <1>10, <2>1
<1>12. LoadedFrame(elf_bytes, ph, page, old[page])[i]
         = IF page_offset(ph, page) + i < ph.p_filesz
           THEN elf_bytes[ph.p_offset + page_offset(ph, page) + i] ELSE 0
  BY <1>1, <1>6, <1>7, PageLoaded, Zenon
<1>13. ByteAt(space, a) = space[page].bytes[i]
  BY Zenon DEF ByteAt, page, i
<1> QED
  BY <1>5, <1>8, <1>10, <1>11, <1>12, <1>13, Zenon
=============================================================================
