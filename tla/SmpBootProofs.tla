----------------------------- MODULE SmpBootProofs -----------------------------
(***************************************************************************)
(* The boot for any number of cores: no core panics, every timer ticks,    *)
(* and the read guard of run_loop closes the registration.                 *)
(***************************************************************************)
EXTENDS SmpBoot, FiniteSetTheorems, TLAPS

PcOK ==
  pc \in [Core -> {"parked", "count", "interrupts", "memory", "wake", "wait", "register",
                   "insert", "enable", "create", "schedule", "run", "loop", "panic"}]

\* What the BSP sets up is there when the first AP leaves its park loop.
BspFirst ==
  /\ ~heap => pc[BSP] \in {"interrupts", "memory"} /\ \A c \in AP : pc[c] = "parked"
  /\ ~calibrated => pc[BSP] = "interrupts" /\ \A c \in AP : pc[c] = "parked"

\* A core has a runner from its registration on, and interrupts only after it.
Registered ==
  /\ enabled \subseteq runners
  /\ timer \subseteq enabled
  /\ \A c \in Core : pc[c] \in {"enable", "create", "schedule", "run", "loop"} => c \in runners

TimerStarted ==
  \A c \in Core : pc[c] \notin {"parked", "count", "interrupts"} => c \in ticking

\* EVENT_RUNNERS has one writer or any number of readers; a core in its loop reads.
Guards ==
  /\ \A c \in Core : pc[c] = "insert" => writer = c
  /\ writer # NoCore => readers = {}
  /\ \A c \in Core : pc[c] = "loop" => <<c, "loop">> \in readers

\* The inductive invariant.
BootInv == PcOK /\ BspFirst /\ Registered /\ TimerStarted /\ Guards /\ NoPanic

-----------------------------------------------------------------------------
\* Every step keeps BootInv.
LEMMA BootInvStep == BootInv /\ [Next]_vars => BootInv'
<1> SUFFICES ASSUME BootInv, [Next]_vars PROVE BootInv'
  OBVIOUS
<1> USE CoreAssumption DEF BootInv, PcOK, BspFirst, Registered, TimerStarted, Guards,
        NoPanic, AP, flags, devices, kernel, locks, irqs
<1>1. CASE BspInterrupts
  BY <1>1 DEF BspInterrupts, Step
<1>2. CASE BspMemory
  BY <1>2 DEF BspMemory, Step
<1>3. ASSUME NEW c \in AP, Wake(c) PROVE BootInv'
  <2>1. heap /\ calibrated
    BY <1>3 DEF Wake, Step
  <2>2. heap' /\ calibrated'
    BY <1>3, <2>1, Zenon DEF Wake
  <2> QED
    BY <1>3, <2>2 DEF Wake, Step
<1>4. CASE AllWoken
  BY <1>4 DEF AllWoken, Step
<1>5. CASE BspWait
  BY <1>5 DEF BspWait, Step
<1>6. CASE Create
  BY <1>6 DEF Create, Step
<1>7. CASE ScheduleProcess
  BY <1>7 DEF ScheduleProcess, Step
<1>8. ASSUME NEW c \in AP, ApStep(c) PROVE BootInv'
  <2>1. CASE ApCount(c)
    BY <2>1 DEF ApCount, Step
  <2>2. CASE ApInterrupts(c)
    BY <2>2 DEF ApInterrupts, Step
  <2>3. CASE ApMemory(c)
    BY <2>3 DEF ApMemory, Step
  <2>4. CASE ApWait(c)
    BY <2>4 DEF ApWait, Step
  <2> QED
    BY <1>8, <2>1, <2>2, <2>3, <2>4 DEF ApStep
<1>9. ASSUME NEW c \in Core, Register(c) PROVE BootInv'
  BY <1>9 DEF Register, Step
<1>10. ASSUME NEW c \in Core, Insert(c) PROVE BootInv'
  BY <1>10 DEF Insert, Step
<1>11. ASSUME NEW c \in Core, Enable(c) PROVE BootInv'
  BY <1>11 DEF Enable, Step
<1>12. ASSUME NEW c \in Core, RunLoop(c) PROVE BootInv'
  BY <1>12 DEF RunLoop, Step
<1>13. ASSUME NEW c \in Core, TimerInterrupt(c) PROVE BootInv'
  BY <1>13 DEF TimerInterrupt
<1>14. ASSUME NEW c \in Core, TimerSpins(c) PROVE BootInv'
  BY <1>14 DEF TimerSpins
<1>15. ASSUME NEW c \in Core, TimerHandler(c) PROVE BootInv'
  BY <1>15 DEF TimerHandler
<1>16. ASSUME NEW c \in Core, NEW d \in Core, KernelCall(c, d) PROVE BootInv'
  BY <1>16 DEF KernelCall
<1>17. ASSUME NEW c \in Core, KernelLock(c) PROVE BootInv'
  BY <1>17 DEF KernelLock
<1>18. ASSUME NEW c \in Core, KernelReturn(c) PROVE BootInv'
  BY <1>18 DEF KernelReturn
<1>19. CASE UNCHANGED vars
  BY <1>19 DEF vars
<1> QED
  BY <1>1, <1>2, <1>3, <1>4, <1>5, <1>6, <1>7, <1>8, <1>9, <1>10, <1>11, <1>12, <1>13,
     <1>14, <1>15, <1>16, <1>17, <1>18, <1>19 DEF Next, BspStep, CoreStep

\* BootInv holds in every state of the boot.
THEOREM BootInvariant == Spec => []BootInv
<1>1. Init => BootInv
  BY CoreAssumption DEF Init, BootInv, PcOK, BspFirst, Registered, TimerStarted, Guards,
     NoPanic, AP
<1> QED
  BY <1>1, BootInvStep, PTL DEF Spec

\* No core finds its runner missing or allocates before the heap is there, for any
\* number of cores and any interrupts (run_loop, schedule_process,
\* current_running_event_info).
THEOREM BootNeverPanics == Spec => []NoPanic
<1>1. BootInv => NoPanic
  BY DEF BootInv
<1> QED
  BY <1>1, BootInvariant, PTL

\* No AP starts its timer before the BSP has stored the calibrated count (ap_init).
THEOREM EveryTimerTicks == Spec => []TimersTick
<1>1. BootInv => TimersTick
  BY DEF BootInv, TimerStarted, TimersTick
<1> QED
  BY <1>1, BootInvariant, PTL

\* Once a core runs its loop, register_event_runner adds no runner.
THEOREM RegistrationCloses == Spec => RegistrationClosed
<1>1. BootInv /\ [Next]_vars => [Looping => runners' = runners]_vars
  <2> SUFFICES ASSUME BootInv, Next, Looping PROVE runners' = runners
    BY DEF vars
  <2>1. ASSUME NEW c \in Core, Insert(c) PROVE FALSE
    BY Zenon, <2>1, CoreAssumption DEF Insert, Step, BootInv, Guards, Looping
  <2> QED
    BY Zenon, <2>1 DEF Next, BspStep, ApStep, CoreStep, BspInterrupts, BspMemory, Wake, AllWoken,
       BspWait, Create, ScheduleProcess, ApCount, ApInterrupts, ApMemory, ApWait, Register,
       Enable, RunLoop, TimerInterrupt, TimerSpins, TimerHandler, KernelCall, KernelLock,
       KernelReturn, locks
<1> QED
  BY <1>1, BootInvariant, PTL DEF Spec, RegistrationClosed
-----------------------------------------------------------------------------
\* The APs that have executed CPU_COUNT.fetch_add(1).
Counted == {c \in AP : pc[c] \notin {"parked", "count"}}

\* CPU_COUNT counts every AP once, and BOOT_COMPLETE is stored after the last one.
CountInv ==
  /\ CPU_COUNT = Cardinality(Counted)
  /\ BOOT_COMPLETE => Counted = AP

\* The number of cores that have been counted is bounded by the number of APs, and
\* reaches it only with the last of them.
LEMMA CountFacts ==
  /\ Cardinality(AP) \in Nat
  /\ Cardinality(Counted) \in 0..Cardinality(AP)
  /\ Cardinality(Counted) = Cardinality(AP) => Counted = AP
<1>1. IsFiniteSet(AP) /\ Counted \subseteq AP
  BY CoreAssumption, FS_Subset DEF AP, Counted
<1>2. IsFiniteSet(Counted) /\ Cardinality(Counted) <= Cardinality(AP)
  BY <1>1, FS_Subset
<1>3. Cardinality(AP) \in Nat /\ Cardinality(Counted) \in Nat
  BY <1>1, <1>2, FS_CardinalityType
<1>4. Cardinality(Counted) = Cardinality(AP) => Counted = AP
  BY <1>1, FS_Subset
<1> QED
  BY <1>2, <1>3, <1>4

\* Every step keeps CountInv and TypeOK.
LEMMA CountStep == BootInv /\ TypeOK /\ CountInv /\ [Next]_vars => TypeOK' /\ CountInv'
<1> SUFFICES ASSUME BootInv, TypeOK, CountInv, [Next]_vars PROVE TypeOK' /\ CountInv'
  OBVIOUS
<1> DEFINE Rest == /\ ticking' \subseteq Core /\ runners' \subseteq Core
                   /\ readers' \subseteq Core \X {"loop", "call", "timer"}
                   /\ writer' \in Core \cup {NoCore}
                   /\ lock' \in [Core -> Core \cup {NoCore}]
                   /\ target' \in [Core -> Core \cup {NoCore}]
                   /\ enabled' \subseteq Core /\ timer' \subseteq enabled'
           Flags == /\ BOOT_COMPLETE' \in BOOLEAN /\ calibrated' \in BOOLEAN
                    /\ heap' \in BOOLEAN
<1>1. PcOK'
  BY BootInvStep DEF BootInv
\* Steps that count no core.
<1>2. ASSUME CPU_COUNT' = CPU_COUNT, Counted' = Counted,
             BOOT_COMPLETE' = BOOT_COMPLETE \/ Counted = AP
      PROVE  CountInv' /\ CPU_COUNT' \in 0..Cardinality(AP)
  BY <1>2, CountFacts DEF CountInv
<1>3. CountInv' /\ CPU_COUNT' \in 0..Cardinality(AP)
  <2>1. CASE BspWait
    <3>1. Counted' = Counted
      BY <2>1, CoreAssumption DEF BspWait, Step, Counted, AP, BootInv, PcOK
    <3>2. Counted = AP
      BY <2>1, CountFacts DEF BspWait, CountInv
    <3> QED
      BY <2>1, <3>1, <3>2, <1>2, Zenon DEF BspWait
  <2>2. ASSUME NEW c \in AP, ApCount(c) PROVE CountInv' /\ CPU_COUNT' \in 0..Cardinality(AP)
    <3>1. pc[c] = "count" /\ pc' = [pc EXCEPT ![c] = "interrupts"] /\ c \in Core
      BY <2>2 DEF ApCount, Step, AP
    <3>2. c \notin Counted /\ Counted' = Counted \cup {c}
      BY <3>1 DEF Counted, AP, BootInv, PcOK
    <3>3. IsFiniteSet(Counted)
      BY CoreAssumption, FS_Subset DEF AP, Counted
    <3>4. Cardinality(Counted') = Cardinality(Counted) + 1
      BY <3>2, <3>3, FS_AddElement
    <3>5. Counted' \subseteq AP /\ IsFiniteSet(AP)
      BY CoreAssumption, FS_Subset DEF AP, Counted
    <3>6. Cardinality(Counted') <= Cardinality(AP)
      BY <3>5, FS_Subset
    <3>7. ~BOOT_COMPLETE
      BY <3>2 DEF CountInv
    <3>8. CPU_COUNT' = CPU_COUNT + 1 /\ ~BOOT_COMPLETE'
      BY <2>2, <3>7 DEF ApCount
    <3> QED
      BY <3>4, <3>6, <3>8, CountFacts DEF CountInv
  <2>3. ASSUME ~BspWait, \A c \in AP : ~ApCount(c)
        PROVE  CPU_COUNT' = CPU_COUNT /\ BOOT_COMPLETE' = BOOT_COMPLETE
    BY <2>3, Zenon DEF Next, BspStep, ApStep, CoreStep, BspInterrupts, BspMemory, Wake, AllWoken,
       Create, ScheduleProcess, ApInterrupts, ApMemory, ApWait, Register, Insert,
       Enable, RunLoop, TimerInterrupt, TimerSpins, TimerHandler, KernelCall, KernelLock,
       KernelReturn, flags, vars
  <2>4. ASSUME ~BspWait, \A c \in AP : ~ApCount(c) PROVE Counted' = Counted
    <3>1. ASSUME NEW c \in Core, NEW from, NEW to, Step(c, from, to), c = BSP
          PROVE  Counted' = Counted
      BY <3>1 DEF Step, Counted, AP, BootInv, PcOK
    <3>2. ASSUME NEW c \in Core, NEW from, NEW to, Step(c, from, to),
                 from \notin {"parked", "count"}, to \notin {"parked", "count"}
          PROVE  Counted' = Counted
      BY <3>2 DEF Step, Counted, AP, BootInv, PcOK
    <3>3. ASSUME NEW c \in AP, Wake(c) PROVE Counted' = Counted
      BY <3>3 DEF Wake, Step, Counted, AP, BootInv, PcOK
    <3>4. CASE BspStep
      <4>1. ASSUME NEW from, NEW to, Step(BSP, from, to) PROVE Counted' = Counted
        BY <4>1, <3>1, CoreAssumption
      <4> QED
        BY <3>4, <2>4, <4>1, <3>3, Zenon DEF BspStep, BspInterrupts, BspMemory, AllWoken,
           Create, ScheduleProcess
    <3>5. ASSUME NEW c \in AP, ApStep(c) PROVE Counted' = Counted
      <4>1. c \in Core
        BY DEF AP
      <4> QED
        BY <2>4, <3>5, <3>2, <4>1 DEF ApStep, ApInterrupts, ApMemory, ApWait
    <3>6. ASSUME NEW c \in Core, Register(c) \/ Insert(c) \/ Enable(c) \/ RunLoop(c)
          PROVE  Counted' = Counted
      <4>1. CASE Register(c)
        BY <4>1, <3>2 DEF Register
      <4>2. CASE Insert(c)
        BY <4>2, <3>2 DEF Insert
      <4>3. CASE Enable(c)
        BY <4>3, <3>2 DEF Enable
      <4>4. CASE RunLoop(c)
        BY <4>4, <3>2 DEF RunLoop
      <4> QED
        BY <3>6, <4>1, <4>2, <4>3, <4>4
    <3>7. ASSUME NEW c \in Core, TimerHandler(c) PROVE pc' = pc
      BY <3>7 DEF TimerHandler, BootInv, Registered
    <3>8. pc' = pc => Counted' = Counted
      BY DEF Counted
    <3>9. ASSUME NEW c \in Core, NEW d \in Core,
                 \/ KernelLock(c) \/ KernelReturn(c) \/ KernelCall(c, d)
                 \/ TimerInterrupt(c) \/ TimerSpins(c)
          PROVE  pc' = pc
      BY <3>9, Zenon DEF KernelLock, KernelReturn, KernelCall, TimerInterrupt, TimerSpins
    <3> QED
      BY <2>4, <3>4, <3>5, <3>6, <3>7, <3>8, <3>9, Zenon DEF Next, CoreStep, vars
  <2> QED
    BY <2>1, <2>2, <2>3, <2>4, <1>2
<1>4. Flags /\ calls' \in 0..MaxCalls
  <2>1. ASSUME NEW c \in Core, NEW d \in Core, KernelCall(c, d) PROVE Flags /\ calls' \in 0..MaxCalls
    BY <2>1, BoundAssumption DEF KernelCall, flags, devices, TypeOK
  <2>2. ASSUME \A c, d \in Core : ~KernelCall(c, d) PROVE calls' = calls
    BY <2>2, Zenon DEF Next, BspStep, ApStep, CoreStep, BspInterrupts, BspMemory, Wake, AllWoken,
       BspWait, Create, ScheduleProcess, ApCount, ApInterrupts, ApMemory, ApWait, Register, Insert,
       Enable, RunLoop, TimerInterrupt, TimerSpins, TimerHandler, KernelLock,
       KernelReturn, kernel, locks, vars
  <2>3. /\ BOOT_COMPLETE' = BOOT_COMPLETE \/ BOOT_COMPLETE' = TRUE
        /\ calibrated' = calibrated \/ calibrated' = TRUE
        /\ heap' = heap \/ heap' = TRUE
    BY Zenon DEF Next, BspStep, ApStep, CoreStep, BspInterrupts, BspMemory, Wake, AllWoken,
       BspWait, Create, ScheduleProcess, ApCount, ApInterrupts, ApMemory, ApWait, Register, Insert,
       Enable, RunLoop, TimerInterrupt, TimerSpins, TimerHandler, KernelCall, KernelLock,
       KernelReturn, flags, devices, vars
  <2>4. BOOT_COMPLETE \in BOOLEAN /\ calibrated \in BOOLEAN /\ heap \in BOOLEAN
        /\ calls \in 0..MaxCalls
    BY Zenon DEF TypeOK
  <2>5. Flags
    BY <2>3, <2>4, Zenon
  <2> QED
    BY <2>1, <2>2, <2>4, <2>5, Zenon
<1>5. Rest
  <2> USE CoreAssumption DEF TypeOK, AP, flags, devices, kernel, locks, irqs
  <2>1. CASE BspStep
    BY <2>1, Zenon DEF BspStep, BspInterrupts, BspMemory, Wake, AllWoken, BspWait, Create,
       ScheduleProcess
  <2>2. ASSUME NEW c \in AP, ApStep(c) PROVE Rest
    BY <2>2 DEF ApStep, ApCount, ApInterrupts, ApMemory, ApWait
  <2>3. ASSUME NEW c \in Core, CoreStep(c) PROVE Rest
    <3>1. CASE Register(c) \/ Insert(c) \/ Enable(c) \/ RunLoop(c)
      BY <3>1 DEF Register, Insert, Enable, RunLoop
    <3>2. CASE KernelLock(c)
      BY <3>2 DEF KernelLock
    <3>3. CASE KernelReturn(c)
      BY <3>3 DEF KernelReturn
    <3> QED
      BY <2>3, <3>1, <3>2, <3>3 DEF CoreStep
  <2>4. ASSUME NEW c \in Core, TimerInterrupt(c) \/ TimerSpins(c) \/ TimerHandler(c) PROVE Rest
    BY <2>4 DEF TimerInterrupt, TimerSpins, TimerHandler
  <2>5. ASSUME NEW c \in Core, NEW d \in Core, KernelCall(c, d) PROVE Rest
    BY <2>5 DEF KernelCall
  <2>6. CASE UNCHANGED vars
    BY <2>6 DEF vars
  <2> QED
    BY <2>1, <2>2, <2>3, <2>4, <2>5, <2>6 DEF Next
<1> QED
  BY <1>1, <1>3, <1>4, <1>5, Zenon DEF TypeOK, PcOK

\* CPU_COUNT is the number of APs that run, and BOOT_COMPLETE is never stored before
\* the last of them is there (wake_cores, secondary_cpu_main).
THEOREM BootWaitsForEveryCore == Spec => [](BootInv /\ TypeOK /\ CountInv)
<1>1. Init => TypeOK /\ CountInv
  <2> SUFFICES ASSUME Init PROVE TypeOK /\ CountInv
    OBVIOUS
  <2>1. Counted = {}
    BY CoreAssumption DEF Init, Counted, AP
  <2>2. Cardinality(Counted) = 0
    BY <2>1, FS_EmptySet
  <2>3. CPU_COUNT \in 0..Cardinality(AP) /\ calls \in 0..MaxCalls
    BY CountFacts, BoundAssumption DEF Init
  <2>4. CountInv
    BY <2>2 DEF Init, CountInv
  <2>5. PcOK
    BY DEF Init, PcOK
  <2> QED
    BY Zenon, <2>3, <2>4, <2>5, CoreAssumption DEF Init, TypeOK, PcOK
<1> QED
  BY <1>1, BootInvariant, CountStep, PTL DEF Spec

\* The boot is type correct: CPU_COUNT never exceeds the number of APs, which is
\* what the comparison in wake_cores relies on.
THEOREM TypeCorrect == Spec => []TypeOK
<1> QED
  BY BootWaitsForEveryCore, PTL
=============================================================================
