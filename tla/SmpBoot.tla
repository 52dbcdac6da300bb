------------------------------- MODULE SmpBoot -------------------------------
(***************************************************************************)
(* The boot of the cores: init on the bootstrap processor (BSP) up to its  *)
(* run_loop, secondary_cpu_main on the application processors (APs), and   *)
(* the timer interrupts that hit a core once it has enabled them, and      *)
(* kernel events that a core schedules on any core (schedule_kernel).      *)
(*                                                                         *)
(* The cores meet at CPU_COUNT, at BOOT_COMPLETE, at the read-write lock   *)
(* of EVENT_RUNNERS, a spin lock in which a waiting writer does not keep   *)
(* readers out, and at the lock of each runner, which is only ever taken   *)
(* for writing.                                                            *)
(***************************************************************************)
EXTENDS Integers, FiniteSets

CONSTANTS Core, BSP, NoCore,
          MaxCalls   \* bound: calls of schedule_kernel

AP == Core \ {BSP}

ASSUME CoreAssumption == BSP \in Core /\ IsFiniteSet(Core) /\ NoCore \notin Core
ASSUME BoundAssumption == MaxCalls \in Nat

VARIABLES pc,             \* where each core is
          CPU_COUNT,
          BOOT_COMPLETE,
          calibrated,     \* CALIBRATED_TIMER_COUNT has been stored
          heap,           \* the frame allocator and the heap are initialised
          ticking,        \* cores whose local timer has a count other than 0
          runners,        \* keys of EVENT_RUNNERS
          readers,        \* its read guards: <<core, what the core holds it for>>
          writer,         \* core that holds its write guard
          lock,           \* per runner: the core that holds its lock
          target,         \* per core: the runner its schedule_kernel is about
          calls,          \* calls of schedule_kernel so far (bounds the model)
          enabled,        \* cores with interrupts enabled
          timer           \* cores inside timer_handler

vars == <<pc, CPU_COUNT, BOOT_COMPLETE, calibrated, heap, ticking, runners, readers,
          writer, lock, target, calls, enabled, timer>>
flags == <<CPU_COUNT, BOOT_COMPLETE>>
devices == <<calibrated, heap, ticking>>
kernel == <<lock, target, calls>>
locks == <<runners, readers, writer, kernel>>
irqs == <<enabled, timer>>

TypeOK ==
  /\ pc \in [Core -> {"parked", "count", "interrupts", "memory", "wake", "wait",
                      "register", "insert", "enable", "create", "schedule", "run",
                      "loop", "panic"}]
  /\ CPU_COUNT \in 0..Cardinality(AP)
  /\ BOOT_COMPLETE \in BOOLEAN /\ calibrated \in BOOLEAN /\ heap \in BOOLEAN
  /\ ticking \subseteq Core
  /\ runners \subseteq Core
  /\ readers \subseteq Core \X {"loop", "call", "timer"}
  /\ writer \in Core \cup {NoCore}
  /\ lock \in [Core -> Core \cup {NoCore}]
  /\ target \in [Core -> Core \cup {NoCore}]
  /\ calls \in 0..MaxCalls
  /\ enabled \subseteq Core
  /\ timer \subseteq enabled

Init ==
  /\ pc = [c \in Core |-> IF c = BSP THEN "interrupts" ELSE "parked"]
  /\ CPU_COUNT = 0
  /\ BOOT_COMPLETE = FALSE
  /\ calibrated = FALSE
  /\ heap = FALSE
  /\ ticking = {}
  /\ runners = {}
  /\ readers = {}
  /\ writer = NoCore
  /\ lock = [c \in Core |-> NoCore]
  /\ target = [c \in Core |-> NoCore]
  /\ calls = 0
  /\ enabled = {}
  /\ timer = {}

\* Core c is at from and goes on to to; a core inside an interrupt handler or a
\* call of schedule_kernel does not.
Step(c, from, to) ==
  /\ pc[c] = from /\ c \notin timer /\ target[c] = NoCore
  /\ pc' = [pc EXCEPT ![c] = to]

-----------------------------------------------------------------------------
(* Initialisation                                                          *)

\* Mutant of BspInterrupts: the BSP counts itself.
BspCountsItself ==
  /\ Step(BSP, "interrupts", "memory")
  /\ calibrated' = TRUE
  /\ ticking' = ticking \cup {BSP}
  /\ CPU_COUNT' = CPU_COUNT + 1
  /\ UNCHANGED <<BOOT_COMPLETE, heap, locks, irqs>>

\* Mutant of BspInterrupts: the calibrated count is not stored.
BspCountNotStored ==
  /\ Step(BSP, "interrupts", "memory")
  /\ ticking' = ticking \cup {BSP}
  /\ UNCHANGED <<flags, calibrated, heap, locks, irqs>>

\* bsp_init: calibrate, store the count, start the timer.
BspInterrupts ==
  /\ Step(BSP, "interrupts", "memory")
  /\ calibrated' = TRUE
  /\ ticking' = ticking \cup {BSP}
  /\ UNCHANGED <<flags, heap, locks, irqs>>

\* memory::init(0), devices::init(0) and logging::init(0).
BspMemory ==
  /\ Step(BSP, "memory", "wake")
  /\ heap' = TRUE
  /\ UNCHANGED <<flags, calibrated, ticking, locks, irqs>>

\* wake_cores writes the entry point of AP c.
Wake(c) ==
  /\ pc[BSP] = "wake"
  /\ Step(c, "parked", "count")
  /\ UNCHANGED <<flags, devices, locks, irqs>>

\* The last entry point has been written.
AllWoken ==
  /\ \A c \in AP : pc[c] # "parked"
  /\ Step(BSP, "wake", "wait")
  /\ UNCHANGED <<flags, devices, locks, irqs>>

\* secondary_cpu_main begins: CPU_COUNT.fetch_add(1).
ApCount(c) ==
  /\ Step(c, "count", "interrupts")
  /\ CPU_COUNT' = CPU_COUNT + 1
  /\ UNCHANGED <<BOOT_COMPLETE, devices, locks, irqs>>

\* ap_init loads the count and starts the timer with it.
ApInterrupts(c) ==
  /\ c # BSP
  /\ Step(c, "interrupts", "memory")
  /\ ticking' = IF calibrated THEN ticking \cup {c} ELSE ticking
  /\ UNCHANGED <<flags, calibrated, heap, locks, irqs>>

\* memory::init and logging::init, which do nothing on an AP.
ApMemory(c) ==
  /\ c # BSP
  /\ Step(c, "memory", "wait")
  /\ UNCHANGED <<flags, devices, locks, irqs>>

\* wake_cores sees the count and stores BOOT_COMPLETE.
BspWait ==
  /\ CPU_COUNT >= Cardinality(AP)
  /\ Step(BSP, "wait", "register")
  /\ BOOT_COMPLETE' = TRUE
  /\ UNCHANGED <<CPU_COUNT, devices, locks, irqs>>

\* Mutant of ApWait: idt::enable is called before register_event_runner.
ApWaitEnables(c) ==
  /\ c # BSP
  /\ BOOT_COMPLETE
  /\ Step(c, "wait", "register")
  /\ enabled' = enabled \cup {c}
  /\ UNCHANGED <<flags, devices, locks, timer>>

\* An AP sees BOOT_COMPLETE.
ApWait(c) ==
  /\ c # BSP
  /\ BOOT_COMPLETE
  /\ Step(c, "wait", "register")
  /\ UNCHANGED <<flags, devices, locks, irqs>>

-----------------------------------------------------------------------------
(* Registration and the event loop                                         *)

\* register_event_runner: EventRunner::init allocates, then EVENT_RUNNERS.write()
\* is granted when no guard is held.
Register(c) ==
  /\ heap => writer = NoCore /\ readers = {}
  /\ Step(c, "register", IF heap THEN "insert" ELSE "panic")
  /\ writer' = IF heap THEN c ELSE writer
  /\ UNCHANGED <<flags, devices, runners, readers, kernel, irqs>>

\* insert, and the guard is dropped.
Insert(c) ==
  /\ Step(c, "insert", "enable")
  /\ runners' = runners \cup {c}
  /\ writer' = NoCore
  /\ UNCHANGED <<flags, devices, readers, kernel, irqs>>

\* idt::enable.  The BSP goes on to create a process, an AP to run_loop.
Enable(c) ==
  /\ Step(c, "enable", IF c = BSP THEN "create" ELSE "run")
  /\ enabled' = enabled \cup {c}
  /\ UNCHANGED <<flags, devices, locks, timer>>

\* create_process.
Create ==
  /\ Step(BSP, "create", "schedule")
  /\ UNCHANGED <<flags, devices, locks, irqs>>

\* schedule_process(bsp_id, ...): a read guard and the lock of the BSP's runner for
\* the length of the call, with interrupts disabled.
ScheduleProcess ==
  /\ writer = NoCore /\ lock[BSP] = NoCore
  /\ Step(BSP, "schedule", IF BSP \in runners THEN "run" ELSE "panic")
  /\ UNCHANGED <<flags, devices, locks, irqs>>

\* Mutant of RunLoop: the read guard is dropped before the loop.
RunLoopUnguarded(c) ==
  /\ writer = NoCore
  /\ Step(c, "run", IF c \in runners THEN "loop" ELSE "panic")
  /\ UNCHANGED <<flags, devices, locks, irqs>>

\* Mutant of RunLoop: an upgradeable guard, which one core can hold at a time.
RunLoopUpgradeable(c) ==
  /\ writer = NoCore /\ readers = {}
  /\ Step(c, "run", IF c \in runners THEN "loop" ELSE "panic")
  /\ readers' = readers \cup {<<c, "loop">>}
  /\ UNCHANGED <<flags, devices, runners, writer, kernel, irqs>>

\* run_loop: the read guard is held as long as the loop runs, which is for ever.
RunLoop(c) ==
  /\ writer = NoCore
  /\ Step(c, "run", IF c \in runners THEN "loop" ELSE "panic")
  /\ readers' = readers \cup {<<c, "loop">>}
  /\ UNCHANGED <<flags, devices, runners, writer, kernel, irqs>>

\* The timer interrupts core c.
TimerInterrupt(c) ==
  /\ c \in enabled \cap ticking /\ c \notin timer
  /\ pc[c] # "panic"
  /\ timer' = timer \cup {c}
  /\ UNCHANGED <<pc, flags, devices, locks, enabled>>

\* current_running_event_info finds the lock of the core's runner taken: it keeps
\* its read guard while it spins.
TimerSpins(c) ==
  /\ c \in timer /\ <<c, "timer">> \notin readers
  /\ writer = NoCore
  /\ c \in runners /\ lock[c] # NoCore
  /\ readers' = readers \cup {<<c, "timer">>}
  /\ UNCHANGED <<pc, flags, devices, runners, writer, kernel, irqs>>

\* current_running_event_info: a read guard and the lock of the core's own runner,
\* both dropped when it returns.
TimerHandler(c) ==
  /\ c \in timer
  /\ writer = NoCore
  /\ c \in runners => lock[c] = NoCore
  /\ timer' = timer \ {c}
  /\ readers' = readers \ {<<c, "timer">>}
  /\ pc' = IF c \in runners THEN pc ELSE [pc EXCEPT ![c] = "panic"]
  /\ UNCHANGED <<flags, devices, runners, writer, kernel, enabled>>

-----------------------------------------------------------------------------
(* schedule_kernel                                                         *)

\* Code on core c, with interrupts enabled, schedules on a core that has a runner:
\* the read guard of EVENT_RUNNERS.
KernelCall(c, d) ==
  /\ c \in enabled \ timer /\ pc[c] \in {"run", "loop"}
  /\ target[c] = NoCore /\ calls < MaxCalls
  /\ d \in runners /\ writer = NoCore
  /\ target' = [target EXCEPT ![c] = d]
  /\ calls' = calls + 1
  /\ readers' = readers \cup {<<c, "call">>}
  /\ UNCHANGED <<pc, flags, devices, runners, writer, lock, irqs>>

\* The write lock of the runner.
KernelLock(c) ==
  LET d == target[c]
  IN  /\ d # NoCore /\ c \notin timer
      /\ lock[d] = NoCore
      /\ lock' = [lock EXCEPT ![d] = c]
      /\ UNCHANGED <<pc, flags, devices, runners, readers, writer, target, calls, irqs>>

\* Mutant of KernelReturn: the runner's guard is not dropped.
KernelReturnLeaks(c) ==
  /\ target[c] # NoCore /\ c \notin timer
  /\ lock[target[c]] = c
  /\ target' = [target EXCEPT ![c] = NoCore]
  /\ readers' = readers \ {<<c, "call">>}
  /\ UNCHANGED <<pc, flags, devices, runners, writer, lock, calls, irqs>>

\* The event is scheduled and both guards are dropped.
KernelReturn(c) ==
  LET d == target[c]
  IN  /\ d # NoCore /\ c \notin timer
      /\ lock[d] = c
      /\ lock' = [lock EXCEPT ![d] = NoCore]
      /\ target' = [target EXCEPT ![c] = NoCore]
      /\ readers' = readers \ {<<c, "call">>}
      /\ UNCHANGED <<pc, flags, devices, runners, writer, calls, irqs>>

BspStep ==
  \/ BspInterrupts \/ BspMemory \/ (\E c \in AP : Wake(c)) \/ AllWoken \/ BspWait
  \/ Create \/ ScheduleProcess

ApStep(c) == ApCount(c) \/ ApInterrupts(c) \/ ApMemory(c) \/ ApWait(c)

CoreStep(c) ==
  Register(c) \/ Insert(c) \/ Enable(c) \/ RunLoop(c) \/ KernelLock(c) \/ KernelReturn(c)

Next ==
  \/ BspStep
  \/ \E c \in AP : ApStep(c)
  \/ \E c \in Core : CoreStep(c) \/ TimerInterrupt(c) \/ TimerSpins(c) \/ TimerHandler(c)
  \/ \E c, d \in Core : KernelCall(c, d)

Spec == Init /\ [][Next]_vars

\* Every core executes.  A core that timer interrupts hit makes progress between
\* two of them, hence strong fairness for the steps of the core itself.
Fairness ==
  /\ SF_vars(BspStep)
  /\ \A c \in AP : SF_vars(ApStep(c))
  /\ \A c \in Core : SF_vars(CoreStep(c)) /\ WF_vars(TimerHandler(c))

FairSpec == Spec /\ Fairness

-----------------------------------------------------------------------------
(* Properties                                                              *)

\* No expect("No runner found") fails, in run_loop, schedule_process or a timer
\* interrupt, and no core allocates before the heap is there.
NoPanic == \A c \in Core : pc[c] # "panic"

\* An AP never starts its timer with the count 0, which would stop it: hlt in
\* run_loop relies on the timer to look at the queues again.
TimersTick == \A c \in Core : pc[c] \in {"register", "insert", "enable", "run", "loop"}
                                => c \in ticking

\* Some core runs its event loop.
Looping == \E c \in Core : pc[c] = "loop"

\* The guard that run_loop holds closes EVENT_RUNNERS: once a core runs its
\* loop, no runner is registered any more.
RegistrationClosed == [][Looping => runners' = runners]_vars

\* A set of cores that stand in their timer handlers for ever, each waiting for the
\* lock of its runner, which a core of the set took in schedule_kernel: one core
\* that scheduled on itself, or several that scheduled on each other.
Deadlocked == \E S \in SUBSET Core \ {{}} : S \subseteq timer /\ \A c \in S : lock[c] \in S

\* If no core enters its loop before all have registered, and none is deadlocked,
\* the boot ends with every core in its loop.
EveryCoreLoops ==
  []((Looping => runners = Core) /\ ~Deadlocked) => \A c \in Core : <>(pc[c] = "loop")

\* A timer interrupt returns, unless cores that were interrupted inside
\* schedule_kernel wait for each other: schedule_kernel leaves interrupts enabled
\* while it holds a runner's lock, and the timer handler takes the same lock.
TimerReturns == \A c \in Core : c \in timer ~> c \notin timer \/ Deadlocked
=============================================================================
