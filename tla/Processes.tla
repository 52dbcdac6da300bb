------------------------------ MODULE Processes ------------------------------
(***************************************************************************)
(* User processes on several cores: creation, the event that runs a        *)
(* process in ring 3, preemption by the timer, exit, and the memory that   *)
(* goes with them.  It composes three components by what they promise:     *)
(*   - each core's event runner serves the events of its processes, which  *)
(*     all have the lowest priority, in order (EventRunner);               *)
(*   - the frame allocator hands out a frame that is free, any of them     *)
(*     (FrameAllocator);                                                   *)
(*   - each core has its runner before it runs (SmpBoot).                  *)
(* A step is what a core does under one lock, or with interrupts disabled  *)
(* and on state that no other core reads.                                  *)
(***************************************************************************)
EXTENDS Integers, Sequences, FiniteSets, Functions

CONSTANTS Core,
          Frame,        \* the frames that processes may get
          BootPml4,     \* the frame of the kernel's own level 4 table
          MaxPid,       \* bound: processes ever created
          MaxWork       \* bound: instructions of a process

Pid == 1..MaxPid
NoPid == 0

\* Memory does not run out: create_process panics when it does.
ASSUME FrameAssumption ==
  BootPml4 \notin Frame /\ IsFiniteSet(Frame) /\ Cardinality(Frame) >= 2 * MaxPid
ASSUME CoreAssumption == IsFiniteSet(Core)
ASSUME BoundAssumption == MaxPid \in Nat /\ MaxWork \in Nat

VARIABLES NEXT_PID,
          PROCESS_TABLE,  \* keys of the table
          state,          \* PCB.state
          registers,      \* PCB.registers: how far the process has got
          frames,         \* the frames of its address space, PCB.pml4_frame first
          queue,          \* per core: process events in its runner's queues
          current_event,  \* per core: pid of the current event, 0 for none
          pc,             \* per core: where it is
          spawning,       \* per core: the process create_process is building
          interrupts,     \* cores with interrupts enabled in ring 0
          cr3,            \* per core
          cpu,            \* per core: the user registers
          free,           \* the frames the allocator can hand out
          work            \* ghost: instructions each process has executed

vars == <<NEXT_PID, PROCESS_TABLE, state, registers, frames, queue, current_event, pc,
          spawning, interrupts, cr3, cpu, free, work>>
pcbs == <<state, registers>>
memory == <<frames, free>>
runners == <<queue, current_event>>
cores == <<interrupts, cr3, cpu>>

ProcessState == {"New", "Ready", "Running", "Blocked", "Terminated"}

\* "loop": run_loop between events.  "poll": current_event is set, its future is
\* about to be polled.  "enter": run_process_ring3 has its PCB.  "ring3": in user
\* mode.  "return": return_process goes back to run_loop.
TypeOK ==
  /\ NEXT_PID \in 1..MaxPid + 1
  /\ PROCESS_TABLE \subseteq Pid
  /\ state \in [Pid -> ProcessState]
  /\ registers \in [Pid -> 0..MaxWork]
  /\ frames \in [Pid -> Seq(Frame)]
  /\ queue \in [Core -> Seq(Pid)]
  /\ current_event \in [Core -> Pid \cup {NoPid}]
  /\ pc \in [Core -> {"loop", "poll", "enter", "ring3", "return", "panic"}]
  /\ spawning \in [Core -> Pid \cup {NoPid}]
  /\ interrupts \subseteq Core
  /\ cr3 \in [Core -> Frame \cup {BootPml4}]
  /\ cpu \in [Core -> 0..MaxWork]
  /\ free \subseteq Frame
  /\ work \in [Pid -> 0..MaxWork]

Init ==
  /\ NEXT_PID = 1
  /\ PROCESS_TABLE = {}
  /\ state = [p \in Pid |-> "New"]
  /\ registers = [p \in Pid |-> 0]
  /\ frames = [p \in Pid |-> <<>>]
  /\ queue = [c \in Core |-> <<>>]
  /\ current_event = [c \in Core |-> NoPid]
  /\ pc = [c \in Core |-> "loop"]
  /\ spawning = [c \in Core |-> NoPid]
  /\ interrupts = Core
  /\ cr3 = [c \in Core |-> BootPml4]
  /\ cpu = [c \in Core |-> 0]
  /\ free = Frame
  /\ work = [p \in Pid |-> 0]

Goto(c, to) == pc' = [pc EXCEPT ![c] = to]

-----------------------------------------------------------------------------
(* create_process and schedule_process, called by init or a kernel event   *)

\* NEXT_PID.fetch_add(1).
CreateProcess(c) ==
  /\ pc[c] = "loop" /\ spawning[c] = NoPid
  /\ NEXT_PID <= MaxPid
  /\ spawning' = [spawning EXCEPT ![c] = NEXT_PID]
  /\ NEXT_PID' = NEXT_PID + 1
  /\ UNCHANGED <<PROCESS_TABLE, pcbs, memory, runners, pc, cores, work>>

\* alloc_frame, first for the level 4 table (create_process_page_table), then for
\* the pages and lower tables (load_elf), for which one frame stands.
AllocFrame(c, f) ==
  LET p == spawning[c]
  IN  /\ p # NoPid /\ p \notin PROCESS_TABLE
      /\ Len(frames[p]) < 2
      /\ f \in free
      /\ free' = free \ {f}
      /\ frames' = [frames EXCEPT ![p] = Append(@, f)]
      /\ UNCHANGED <<NEXT_PID, PROCESS_TABLE, pcbs, runners, pc, spawning, cores, work>>

\* The new PCB, and PROCESS_TABLE.write().insert.
InsertProcess(c) ==
  LET p == spawning[c]
  IN  /\ p # NoPid /\ p \notin PROCESS_TABLE
      /\ Len(frames[p]) = 2
      /\ PROCESS_TABLE' = PROCESS_TABLE \cup {p}
      /\ state' = [state EXCEPT ![p] = "New"]
      /\ registers' = [registers EXCEPT ![p] = 0]
      /\ UNCHANGED <<NEXT_PID, memory, runners, pc, spawning, cores, work>>

\* Mutant: the event is scheduled as a kernel event, with pid 0.
ScheduleAsKernel(c, d) ==
  /\ spawning[c] \in PROCESS_TABLE
  /\ queue' = [queue EXCEPT ![d] = Append(@, NoPid)]
  /\ spawning' = [spawning EXCEPT ![c] = NoPid]
  /\ UNCHANGED <<NEXT_PID, PROCESS_TABLE, pcbs, memory, current_event, pc, cores, work>>

\* schedule_process on core d.
ScheduleProcess(c, d) ==
  /\ spawning[c] \in PROCESS_TABLE
  /\ queue' = [queue EXCEPT ![d] = Append(@, spawning[c])]
  /\ spawning' = [spawning EXCEPT ![c] = NoPid]
  /\ UNCHANGED <<NEXT_PID, PROCESS_TABLE, pcbs, memory, current_event, pc, cores, work>>

-----------------------------------------------------------------------------
(* run_loop and run_process_ring3                                          *)

\* next_event returns the event of a process.
NextEvent(c) ==
  /\ pc[c] = "loop" /\ spawning[c] = NoPid
  /\ queue[c] # <<>>
  /\ current_event' = [current_event EXCEPT ![c] = Head(queue[c])]
  /\ queue' = [queue EXCEPT ![c] = Tail(@)]
  /\ Goto(c, "poll")
  /\ UNCHANGED <<NEXT_PID, PROCESS_TABLE, pcbs, memory, spawning, cores, work>>

\* No event is left: enable_and_hlt.
Halt(c) ==
  /\ pc[c] = "loop" /\ spawning[c] = NoPid
  /\ queue[c] = <<>>
  /\ c \notin interrupts
  /\ interrupts' = interrupts \cup {c}
  /\ UNCHANGED <<NEXT_PID, PROCESS_TABLE, pcbs, memory, runners, pc, spawning, cr3, cpu,
                 work>>

\* run_process_ring3 up to the release of the table: interrupts off, and the PCB
\* is looked up with expect("Could not find process from process table").
LookUp(c) ==
  /\ pc[c] = "poll"
  /\ interrupts' = interrupts \ {c}
  /\ Goto(c, IF current_event[c] \in PROCESS_TABLE THEN "enter" ELSE "panic")
  /\ UNCHANGED <<NEXT_PID, PROCESS_TABLE, pcbs, memory, runners, spawning, cr3, cpu, work>>

\* Mutant: the page table of the previous process stays loaded.
CallProcessOldTable(c) ==
  LET p == current_event[c]
  IN  /\ pc[c] = "enter"
      /\ cpu' = [cpu EXCEPT ![c] = registers[p]]
      /\ state' = [state EXCEPT ![p] = "Running"]
      /\ Goto(c, "ring3")
      /\ UNCHANGED <<NEXT_PID, PROCESS_TABLE, registers, memory, runners, spawning,
                     interrupts, cr3, work>>

\* The rest of run_process_ring3, with call_process: the process's page table and
\* registers are loaded, its state is Running, iretq.
CallProcess(c) ==
  LET p == current_event[c]
  IN  /\ pc[c] = "enter"
      /\ cr3' = [cr3 EXCEPT ![c] = frames[p][1]]
      /\ cpu' = [cpu EXCEPT ![c] = registers[p]]
      /\ state' = [state EXCEPT ![p] = "Running"]
      /\ Goto(c, "ring3")
      /\ UNCHANGED <<NEXT_PID, PROCESS_TABLE, registers, memory, runners, spawning,
                     interrupts, work>>

\* The process executes; a syscall other than exit returns to it.
UserWork(c) ==
  LET p == current_event[c]
  IN  /\ pc[c] = "ring3"
      /\ work[p] < MaxWork /\ cpu[c] < MaxWork
      /\ work' = [work EXCEPT ![p] = @ + 1]
      /\ cpu' = [cpu EXCEPT ![c] = @ + 1]
      /\ UNCHANGED <<NEXT_PID, PROCESS_TABLE, pcbs, memory, runners, pc, spawning,
                     interrupts, cr3>>

\* return_process has come back to the poll, which returns Ready: the event is
\* over.  Interrupts stay disabled.
PollReady(c) ==
  /\ pc[c] = "return"
  /\ current_event' = [current_event EXCEPT ![c] = NoPid]
  /\ Goto(c, "loop")
  /\ UNCHANGED <<NEXT_PID, PROCESS_TABLE, pcbs, memory, queue, spawning, cores, work>>

-----------------------------------------------------------------------------
(* Interrupt handlers                                                      *)

\* Mutant: the process is blocked and nothing will resume it.
PreemptForgets(c) ==
  LET p == current_event[c]
  IN  /\ p \in PROCESS_TABLE /\ state[p] = "Running"
      /\ registers' = [registers EXCEPT ![p] = cpu[c]]
      /\ state' = [state EXCEPT ![p] = "Blocked"]
      /\ Goto(c, "return")
      /\ UNCHANGED queue

\* Mutant: the registers are not saved.
PreemptUnsaved(c) ==
  LET p == current_event[c]
  IN  /\ p \in PROCESS_TABLE /\ state[p] = "Running"
      /\ state' = [state EXCEPT ![p] = "Blocked"]
      /\ queue' = [queue EXCEPT ![c] = Append(@, p)]
      /\ Goto(c, "return")
      /\ UNCHANGED registers

\* Mutant: the preempted process goes to the front of the queue.
PreemptInFront(c) ==
  LET p == current_event[c]
  IN  /\ p \in PROCESS_TABLE /\ state[p] = "Running"
      /\ registers' = [registers EXCEPT ![p] = cpu[c]]
      /\ state' = [state EXCEPT ![p] = "Blocked"]
      /\ queue' = [queue EXCEPT ![c] = <<p>> \o @]
      /\ Goto(c, "return")

\* timer_handler of a core that runs a process: the registers are saved, the
\* process is Blocked, and a new event for it is scheduled on this core.
Preempt(c) ==
  LET p == current_event[c]
  IN  /\ p \in PROCESS_TABLE /\ state[p] = "Running"
      /\ registers' = [registers EXCEPT ![p] = cpu[c]]
      /\ state' = [state EXCEPT ![p] = "Blocked"]
      /\ queue' = [queue EXCEPT ![c] = Append(@, p)]
      /\ Goto(c, "return")

\* timer_handler.  In ring 0 it finds no process event, or one whose process is
\* not Running; a process that is not in the table is a panic.
TimerHandler(c) ==
  LET p == current_event[c]
  IN  /\ pc[c] = "ring3" \/ (pc[c] \in {"loop", "poll"} /\ c \in interrupts)
      /\ p # NoPid
      /\ \/ Preempt(c)
         \/ /\ p \in PROCESS_TABLE => state[p] # "Running"
            /\ Goto(c, IF p \in PROCESS_TABLE THEN pc[c] ELSE "panic")
            /\ UNCHANGED <<pcbs, queue>>
      /\ UNCHANGED <<NEXT_PID, PROCESS_TABLE, memory, current_event, spawning, cores, work>>

\* Mutant: the level 4 table is not given back.
clear_frames_below(p) ==
  /\ free' = free \cup Range(Tail(frames[p]))
  /\ frames' = [frames EXCEPT ![p] = <<>>]

\* Every frame below the level 4 table, then the table's own.
clear_process_frames(p) ==
  /\ free' = free \cup Range(frames[p])
  /\ frames' = [frames EXCEPT ![p] = <<>>]

\* Mutant: the exiting process is scheduled again, like a preempted one.
SysExitRescheduled(c) ==
  LET p == current_event[c]
  IN  /\ pc[c] = "ring3"
      /\ Goto(c, IF p \in PROCESS_TABLE THEN "return" ELSE "panic")
      /\ state' = [state EXCEPT ![p] = "Terminated"]
      /\ clear_process_frames(p)
      /\ PROCESS_TABLE' = PROCESS_TABLE \ {p}
      /\ queue' = [queue EXCEPT ![c] = Append(@, p)]
      /\ UNCHANGED <<NEXT_PID, registers, current_event, spawning, cores, work>>

\* sys_exit: under the table's write lock the process is Terminated, its frames
\* go back to the allocator, and it leaves the table.  cr3 is not changed.
SysExit(c) ==
  LET p == current_event[c]
  IN  /\ pc[c] = "ring3"
      /\ Goto(c, IF p \in PROCESS_TABLE THEN "return" ELSE "panic")
      /\ state' = [state EXCEPT ![p] = "Terminated"]
      /\ clear_process_frames(p)
      /\ PROCESS_TABLE' = PROCESS_TABLE \ {p}
      /\ UNCHANGED <<NEXT_PID, registers, runners, spawning, cores, work>>

Spawn(c) ==
  \/ \E f \in Frame : AllocFrame(c, f)
  \/ InsertProcess(c)
  \/ \E d \in Core : ScheduleProcess(c, d)

RunProcess(c) == NextEvent(c) \/ Halt(c) \/ LookUp(c) \/ CallProcess(c) \/ PollReady(c)

Next ==
  \E c \in Core :
    \/ CreateProcess(c) \/ Spawn(c) \/ RunProcess(c) \/ UserWork(c)
    \/ TimerHandler(c) \/ SysExit(c)

Spec == Init /\ [][Next]_vars

\* Cores execute kernel code, and the periodic timer preempts a process.
Fairness ==
  \A c \in Core : /\ WF_vars(Spawn(c))
                  /\ WF_vars(RunProcess(c))
                  /\ WF_vars(TimerHandler(c))

FairSpec == Spec /\ Fairness

-----------------------------------------------------------------------------
(* Properties                                                              *)

\* Every process looked up by pid is in the table: in run_process_ring3, which
\* runs long after schedule_process, and in the handlers.
LookUpsSucceed == \A c \in Core : pc[c] # "panic"

\* The events of a core that have not been used up: the one in hand, at place 0, and
\* those in its queues.
Live(c) == pc[c] \in {"poll", "enter", "ring3"}
EventAt(c, i) == IF i > 0 THEN queue[c][i] ELSE IF Live(c) THEN current_event[c] ELSE NoPid

\* Where the events of process p are.
Events(p) ==
  UNION {{<<c, i>> : i \in {j \in 0..Len(queue[c]) : EventAt(c, j) = p}} : c \in Core}

\* A process that has been scheduled and has not exited has exactly one event, on
\* one core: it is neither lost nor run by two cores, however often it is preempted.
OneEventPerProcess ==
  \A p \in Pid : Cardinality(Events(p)) =
    IF p \in PROCESS_TABLE /\ \A c \in Core : spawning[c] # p THEN 1 ELSE 0

\* In ring 3 a core has the page table of its own process, whose frames are not
\* free and belong to no other process.
Isolated ==
  \A c \in Core : pc[c] = "ring3" =>
    LET p == current_event[c]
    IN  /\ frames[p] # <<>> /\ cr3[c] = frames[p][1]
        /\ Range(frames[p]) \cap free = {}
        /\ \A q \in Pid \ {p} : Range(frames[p]) \cap Range(frames[q]) = {}

\* A process goes on where it was interrupted, on whatever core.
ContextKept ==
  /\ \A p \in PROCESS_TABLE : state[p] # "Running" => registers[p] = work[p]
  /\ \A c \in Core : pc[c] = "ring3" => cpu[c] = work[current_event[c]]

\* No frame is lost and none is freed or handed out twice: a frame is free, or it is
\* one frame of one process that lives or is being created.
FramesAccounted ==
  /\ \A f \in Frame : Cardinality({p \in Pid : f \in Range(frames[p])}) =
                         IF f \in free THEN 0 ELSE 1
  /\ \A p \in Pid : IsInjective(frames[p])

\* A process waiting in a queue gets to run.
EveryProcessRuns ==
  \A p \in Pid : Events(p) # {} ~> \E c \in Core : pc[c] = "ring3" /\ current_event[c] = p
=============================================================================
