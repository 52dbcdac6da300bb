------------------------- MODULE TlbShootdownProofs -------------------------
(***************************************************************************)
(* Theorems about TlbShootdown, for any number of cores, pages and frames. *)
(***************************************************************************)
EXTENDS TlbShootdown, TLAPS

\* A core that has the old entry of the page shot down last will still flush it:
\* the page is in its slot, or the loop of tlb_shootdown has not reached the core,
\* or the core is the one that calls tlb_shootdown.
LastInv ==
  \A c \in Core : last \in stale[c] =>
    \/ addresses[c] = last
    \/ pc = "lock"
    \/ pc = "send" /\ (c = mapper \/ c >= next)
    \/ pc = "flush" /\ c = mapper

\* The inductive invariant implies what is checked.
LEMMA InvImplies ==
  ASSUME TypeOK, SlotServed, LastInv
  PROVE  LastFlushed
BY DEF TypeOK, SlotServed, LastInv, LastFlushed, Quiet

\* Changing an entry starts a shootdown, so every core is still to be reached.
LEMMA ChangeStep ==
  ASSUME TypeOK, SlotServed, LastInv,
         NEW c \in Core, NEW p \in Page, NEW f \in Frame \cup {NoFrame},
         ChangeEntry(c, p, f)
  PROVE  TypeOK' /\ SlotServed' /\ LastInv'
<1> USE DEF ChangeEntry, interrupts
<1>1. TypeOK'
  BY CoreAssumption DEF TypeOK
<1>2. SlotServed'
  BY DEF SlotServed
<1>3. LastInv'
  BY DEF LastInv
<1> QED
  BY <1>1, <1>2, <1>3

\* The steps of tlb_shootdown.
LEMMA ShootdownStep ==
  ASSUME TypeOK, SlotServed, LastInv, Shootdown
  PROVE  TypeOK' /\ SlotServed' /\ LastInv'
<1> USE DEF interrupts, tables
<1>1. CASE Lock
  <2>1. TypeOK'
    BY <1>1, CoreAssumption DEF Lock, TypeOK
  <2>2. SlotServed'
    BY <1>1 DEF Lock, SlotServed
  <2>3. LastInv'
    BY <1>1, CoreAssumption DEF Lock, LastInv, Core
  <2> QED
    BY <2>1, <2>2, <2>3
<1>2. CASE Send
  <2> USE DEF Send
  <2>1. next \in Core /\ next' = next + 1 /\ target \in Page /\ last = target
    BY <1>2, CoreAssumption DEF TypeOK, Core
  <2>2. TypeOK'
    <3>1. next' \in 0..MAX_CORES
      BY <1>2, CoreAssumption DEF TypeOK
    <3>2. addresses' \in [Core -> Page \cup {NoPage}] /\ ipi' \subseteq Core
      BY Zenon, <1>2, <2>1 DEF TypeOK
    <3> QED
      BY <1>2, <3>1, <3>2 DEF TypeOK
  <2>3. SlotServed'
    BY <1>2, <2>1 DEF SlotServed, TypeOK
  <2>4. LastInv'
    <3> SUFFICES ASSUME NEW c \in Core, last \in stale[c]
                 PROVE  addresses'[c] = last \/ c = mapper \/ c >= next + 1
      BY <1>2 DEF LastInv
    <3>1. CASE c = next
      BY <1>2, <2>1, <3>1 DEF TypeOK
    <3>2. CASE c # next
      <4>1. addresses'[c] = addresses[c]
        BY <1>2, <3>2 DEF TypeOK
      <4>2. addresses[c] = last \/ c = mapper \/ c >= next
        BY <1>2 DEF LastInv
      <4>3. c \in Int /\ next \in Int
        BY <2>1, CoreAssumption DEF Core
      <4> QED
        BY <3>2, <4>1, <4>2, <4>3
    <3> QED
      BY <3>1, <3>2
  <2> QED
    BY <2>2, <2>3, <2>4
<1>3. CASE Unlock
  <2>1. TypeOK'
    BY <1>3, CoreAssumption DEF Unlock, TypeOK
  <2>2. SlotServed'
    BY <1>3 DEF Unlock, SlotServed
  <2>3. ~(\E c \in Core : c >= next)
    BY <1>3, CoreAssumption DEF Unlock, TypeOK, Core
  <2>4. LastInv'
    BY <1>3, <2>3 DEF Unlock, LastInv
  <2> QED
    BY <2>1, <2>2, <2>4
<1>4. CASE Flush
  <2> USE DEF Flush, Invlpg
  <2>1. mapper \in Core /\ target \in Page /\ last = target
    BY <1>4, CoreAssumption DEF TypeOK
  <2>2. TypeOK'
    <3>1. /\ tlb' \in [Core -> SUBSET Page] /\ stale' \in [Core -> SUBSET Page]
          /\ next' \in 0..MAX_CORES
      BY <1>4, <2>1, CoreAssumption DEF TypeOK
    <3> QED
      BY <1>4, <3>1 DEF TypeOK
  <2>3. SlotServed'
    BY <1>4 DEF SlotServed
  <2>4. LastInv'
    BY <1>4, <2>1 DEF LastInv, TypeOK
  <2> QED
    BY <2>2, <2>3, <2>4
<1> QED
  BY <1>1, <1>2, <1>3, <1>4 DEF Shootdown

\* The interrupt is delivered; the handler flushes what its slot holds.
LEMMA HandlerStep ==
  ASSUME TypeOK, SlotServed, LastInv, NEW c \in Core, Deliver(c) \/ Handle(c)
  PROVE  TypeOK' /\ SlotServed' /\ LastInv'
<1> USE DEF tables
<1>1. CASE Deliver(c)
  BY <1>1 DEF Deliver, TypeOK, SlotServed, LastInv
<1>2. CASE Handle(c)
  <2> USE DEF Handle, Invlpg
  <2>1. TypeOK'
    <3>1. /\ tlb' \in [Core -> SUBSET Page] /\ stale' \in [Core -> SUBSET Page]
          /\ addresses' \in [Core -> Page \cup {NoPage}] /\ handler' \subseteq Core
      BY <1>2 DEF TypeOK
    <3> QED
      BY <1>2, <3>1 DEF TypeOK
  <2>2. SlotServed'
    BY <1>2 DEF SlotServed, TypeOK
  <2>3. LastInv'
    <3> SUFFICES ASSUME NEW d \in Core, last \in stale'[d]
                 PROVE  \/ addresses'[d] = last
                        \/ pc = "lock"
                        \/ pc = "send" /\ (d = mapper \/ d >= next)
                        \/ pc = "flush" /\ d = mapper
      BY <1>2 DEF LastInv
    <3>1. last \in stale[d]
      BY <1>2 DEF TypeOK
    <3>2. addresses[d] = last => addresses'[d] = last
      BY <1>2 DEF TypeOK
    <3> QED
      BY <3>1, <3>2 DEF LastInv
  <2> QED
    BY <2>1, <2>2, <2>3
<1> QED
  BY <1>1, <1>2

\* The steps that start no shootdown.
LEMMA OtherStep ==
  ASSUME TypeOK, SlotServed, LastInv,
         \/ \E c \in Core, p \in Page, f \in Frame : CreateMapping(c, p, f)
         \/ \E c \in Core, p \in Page : UpdateMappingSame(c, p) \/ Access(c, p)
         \/ UNCHANGED vars
  PROVE  TypeOK' /\ SlotServed' /\ LastInv'
<1>1. UNCHANGED <<addresses, lock, mapper, pc, target, next, ipi, handler, stale, last>>
  BY DEF CreateMapping, UpdateMappingSame, Access, interrupts, vars
<1>2. /\ page_table' \in [Page -> Frame \cup {NoFrame}]
      /\ tlb' \in [Core -> SUBSET Page]
  BY DEF TypeOK, CreateMapping, UpdateMappingSame, Access, vars
<1> QED
  BY <1>1, <1>2 DEF TypeOK, SlotServed, LastInv

\* TypeOK, SlotServed and LastInv are inductive together.
LEMMA Invariant == Spec => [](TypeOK /\ SlotServed /\ LastInv)
<1>1. Init => TypeOK /\ SlotServed /\ LastInv
  BY CoreAssumption DEF Init, TypeOK, SlotServed, LastInv
<1>2. TypeOK /\ SlotServed /\ LastInv /\ [Next]_vars
        => (TypeOK /\ SlotServed /\ LastInv)'
  <2> SUFFICES ASSUME TypeOK, SlotServed, LastInv, [Next]_vars
               PROVE  (TypeOK /\ SlotServed /\ LastInv)'
    OBVIOUS
  <2>1. CASE Change
    <3>1. CASE \E c \in Core, p \in Page, f \in Frame : CreateMapping(c, p, f)
      BY <3>1, OtherStep
    <3>2. CASE \E c \in Core, p \in Page : UpdateMappingSame(c, p)
      BY <3>2, OtherStep
    <3>3. CASE \E c \in Core, p \in Page, f \in Frame \cup {NoFrame} : ChangeEntry(c, p, f)
      BY <3>3, ChangeStep
    <3>4. \A p \in Page : page_table[p] \in Frame \cup {NoFrame}
      BY DEF TypeOK
    <3> QED
      BY <2>1, <3>1, <3>2, <3>3, <3>4
      DEF Change, UpdateMapping, RemoveMapping, UpdatePermissions
  <2>2. CASE \E c \in Core, p \in Page : Access(c, p)
    BY <2>2, OtherStep
  <2>3. CASE Shootdown
    BY <2>3, ShootdownStep
  <2>4. CASE \E c \in Core : Deliver(c) \/ Handle(c)
    BY <2>4, HandlerStep
  <2>5. CASE UNCHANGED vars
    BY <2>5, OtherStep
  <2> QED
    BY <2>1, <2>2, <2>3, <2>4, <2>5 DEF Next
<1> QED
  BY <1>1, <1>2, PTL DEF Spec

\* The variables keep their types, and the slots' lock is held exactly while
\* tlb_shootdown writes the slots.
THEOREM TypeCorrect == Spec => []TypeOK
BY Invariant, PTL

\* A core whose slot holds a page always has an interrupt to come.
THEOREM EverySlotServed == Spec => []SlotServed
BY Invariant, PTL

\* The page shot down last is flushed everywhere once the interrupts are served.
THEOREM LastShootdownWorks == Spec => []LastFlushed
<1>1. TypeOK /\ SlotServed /\ LastInv => LastFlushed
  BY InvImplies
<1> QED
  BY <1>1, Invariant, PTL
=============================================================================
