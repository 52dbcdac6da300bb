---------------------------- MODULE TlbShootdown ----------------------------
(***************************************************************************)
(* Page table changes and TLB shootdowns: the mapping functions of         *)
(* paging.rs, tlb_shootdown, and the handler of the shootdown interrupt.   *)
(*                                                                         *)
(* Every caller of a function that shoots down holds the MAPPER mutex, so  *)
(* at most one core changes the page table at a time.  An interrupt that   *)
(* was sent arrives at any later moment; the local APIC keeps one pending  *)
(* bit per vector.  tlb_shootdown runs with interrupts enabled.            *)
(***************************************************************************)
EXTENDS Integers

CONSTANTS MAX_CORES,
          Page,
          NoPage,        \* the value 0 of a slot
          Frame,
          NoFrame,       \* of a page that is not mapped
          NoCore

Core == 0..MAX_CORES - 1

ASSUME CoreAssumption == MAX_CORES \in Nat \ {0} /\ NoCore \notin Core
ASSUME PageAssumption == NoPage \notin Page /\ NoFrame \notin Frame

VARIABLES page_table,    \* the frame each page is mapped to
          tlb,           \* the pages each core has cached an entry of
          addresses,     \* TLB_SHOOTDOWN_ADDR, one slot per core
          lock,          \* holder of its mutex
          mapper,        \* holder of the MAPPER mutex
          pc,            \* where mapper is inside tlb_shootdown
          target,        \* target_vaddr
          next,          \* loop variable of tlb_shootdown
          ipi,           \* cores with the shootdown interrupt pending
          handler,       \* cores inside tlb_shootdown_handler
          stale,         \* ghost: per core, the pages that were cached when a
                         \* shootdown of them was called, and not flushed since
          last           \* ghost: target of the latest tlb_shootdown

vars == <<page_table, tlb, addresses, lock, mapper, pc, target, next, ipi,
          handler, stale, last>>
tables == <<page_table, tlb>>
interrupts == <<ipi, handler>>

TypeOK ==
  /\ page_table \in [Page -> Frame \cup {NoFrame}]
  /\ tlb \in [Core -> SUBSET Page]
  /\ addresses \in [Core -> Page \cup {NoPage}]
  /\ lock \in Core \cup {NoCore}
  /\ mapper \in Core \cup {NoCore}
  /\ pc \in {"idle", "lock", "send", "flush"}
  /\ target \in Page \cup {NoPage}
  /\ next \in 0..MAX_CORES
  /\ ipi \subseteq Core
  /\ handler \subseteq Core
  /\ stale \in [Core -> SUBSET Page]
  /\ last \in Page \cup {NoPage}
  /\ pc = "idle" <=> mapper = NoCore
  /\ lock = IF pc = "send" THEN mapper ELSE NoCore
  /\ pc # "idle" => target \in Page /\ last = target

Init ==
  /\ page_table = [p \in Page |-> NoFrame]
  /\ tlb = [c \in Core |-> {}]
  /\ addresses = [c \in Core |-> NoPage]
  /\ lock = NoCore
  /\ mapper = NoCore
  /\ pc = "idle"
  /\ target = NoPage
  /\ next = 0
  /\ ipi = {}
  /\ handler = {}
  /\ stale = [c \in Core |-> {}]
  /\ last = NoPage

\* Core c runs its own code, not an interrupt handler.
Runs(c) == c \notin handler

\* invlpg on core c.
Invlpg(c, p) ==
  /\ tlb' = [tlb EXCEPT ![c] = @ \ {p}]
  /\ stale' = [stale EXCEPT ![c] = @ \ {p}]

-----------------------------------------------------------------------------
(* paging.rs                                                               *)

\* alloc_frame returns a frame that no page maps.
Unmapped(f) == \A p \in Page : page_table[p] # f

\* create_mapping: map_to; nothing is flushed.
CreateMapping(c, p, f) ==
  /\ mapper = NoCore /\ Runs(c)
  /\ page_table[p] = NoFrame /\ Unmapped(f)
  /\ page_table' = [page_table EXCEPT ![p] = f]
  /\ UNCHANGED <<tlb, addresses, lock, mapper, pc, target, next, interrupts, stale, last>>

\* Core c, which holds MAPPER, has written the entry of page p and calls
\* tlb_shootdown: the cached entries of p are out of date.
ChangeEntry(c, p, f) ==
  /\ mapper = NoCore /\ Runs(c)
  /\ page_table[p] # NoFrame
  /\ page_table' = [page_table EXCEPT ![p] = f]
  /\ mapper' = c
  /\ pc' = "lock"
  /\ target' = p
  /\ last' = p
  /\ stale' = [d \in Core |-> stale[d] \cup (tlb[d] \cap {p})]
  /\ UNCHANGED <<tlb, addresses, lock, next, interrupts>>

\* update_mapping to another frame: unmap, map_to, shootdown.
UpdateMapping(c, p, f) ==
  /\ page_table[p] # f /\ Unmapped(f)
  /\ ChangeEntry(c, p, f)

\* update_mapping to the frame already mapped: unmap is followed by neither map_to
\* nor a shootdown.
UpdateMappingSame(c, p) ==
  /\ mapper = NoCore /\ Runs(c)
  /\ page_table[p] # NoFrame
  /\ page_table' = [page_table EXCEPT ![p] = NoFrame]
  /\ UNCHANGED <<tlb, addresses, lock, mapper, pc, target, next, interrupts, stale, last>>

\* remove_mapping and remove_mapped_frame (which frees the frame first).
RemoveMapping(c, p) == ChangeEntry(c, p, NoFrame)

\* update_permissions: the frame stays, the flags of the entry change.
UpdatePermissions(c, p) == ChangeEntry(c, p, page_table[p])

\* Core c accesses a mapped page: the entry is cached.
Access(c, p) ==
  /\ page_table[p] # NoFrame /\ p \notin tlb[c]
  /\ tlb' = [tlb EXCEPT ![c] = @ \cup {p}]
  /\ UNCHANGED <<page_table, addresses, lock, mapper, pc, target, next, interrupts,
                 stale, last>>

-----------------------------------------------------------------------------
(* tlb_shootdown                                                           *)

\* TLB_SHOOTDOWN_ADDR.lock()
Lock ==
  /\ pc = "lock" /\ Runs(mapper)
  /\ lock = NoCore
  /\ lock' = mapper
  /\ pc' = "send"
  /\ next' = 0
  /\ UNCHANGED <<tables, addresses, mapper, target, interrupts, stale, last>>

\* One iteration of the loop over the cores: the slot, then the interrupt.
Send ==
  /\ pc = "send" /\ Runs(mapper)
  /\ next < MAX_CORES
  /\ next' = next + 1
  /\ \/ /\ next # mapper
        /\ addresses' = [addresses EXCEPT ![next] = target]
        /\ ipi' = ipi \cup {next}
     \/ /\ next = mapper
        /\ UNCHANGED <<addresses, ipi>>
  /\ UNCHANGED <<tables, lock, mapper, pc, target, handler, stale, last>>

\* Mutant of Unlock: the guard outlives the block.
UnlockNever ==
  /\ pc = "send" /\ Runs(mapper)
  /\ next >= MAX_CORES
  /\ pc' = "flush"
  /\ UNCHANGED <<tables, addresses, lock, mapper, target, next, interrupts, stale, last>>

\* Mutant of Unlock: the loop stops before the last core.
UnlockEarly ==
  /\ pc = "send" /\ Runs(mapper)
  /\ next >= MAX_CORES - 1
  /\ lock' = NoCore
  /\ pc' = "flush"
  /\ UNCHANGED <<tables, addresses, mapper, target, next, interrupts, stale, last>>

\* The guard is dropped at the end of the block.
Unlock ==
  /\ pc = "send" /\ Runs(mapper)
  /\ next >= MAX_CORES
  /\ lock' = NoCore
  /\ pc' = "flush"
  /\ UNCHANGED <<tables, addresses, mapper, target, next, interrupts, stale, last>>

\* invlpg on the calling core; the caller returns and drops the MAPPER guard.
\* No answer of the other cores is waited for.
Flush ==
  /\ pc = "flush" /\ Runs(mapper)
  /\ Invlpg(mapper, target)
  /\ mapper' = NoCore
  /\ pc' = "idle"
  /\ target' = NoPage
  /\ next' = 0
  /\ UNCHANGED <<page_table, addresses, lock, interrupts, last>>

-----------------------------------------------------------------------------
(* tlb_shootdown_handler                                                   *)

\* The interrupt is delivered; the handler runs with interrupts disabled.
Deliver(c) ==
  /\ c \in ipi /\ Runs(c)
  /\ ipi' = ipi \ {c}
  /\ handler' = handler \cup {c}
  /\ UNCHANGED <<tables, addresses, lock, mapper, pc, target, next, stale, last>>

\* Mutant of Handle: the slot keeps its page.
HandleKeepsSlot(c) ==
  /\ c \in handler
  /\ lock = NoCore
  /\ \/ /\ addresses[c] # NoPage
        /\ Invlpg(c, addresses[c])
     \/ /\ addresses[c] = NoPage
        /\ UNCHANGED <<tlb, stale>>
  /\ handler' = handler \ {c}
  /\ UNCHANGED <<page_table, addresses, lock, mapper, pc, target, next, ipi, last>>

\* Mutant of Handle: the handler waits for a page in its slot.
HandleWaits(c) ==
  /\ c \in handler
  /\ lock = NoCore
  /\ addresses[c] # NoPage
  /\ Invlpg(c, addresses[c])
  /\ addresses' = [addresses EXCEPT ![c] = NoPage]
  /\ handler' = handler \ {c}
  /\ UNCHANGED <<page_table, lock, mapper, pc, target, next, ipi, last>>

\* The handler gets the lock, flushes its slot's page, empties the slot,
\* releases the lock and returns.
Handle(c) ==
  /\ c \in handler
  /\ lock = NoCore
  /\ \/ /\ addresses[c] # NoPage
        /\ Invlpg(c, addresses[c])
        /\ addresses' = [addresses EXCEPT ![c] = NoPage]
     \/ /\ addresses[c] = NoPage
        /\ UNCHANGED <<tlb, stale, addresses>>
  /\ handler' = handler \ {c}
  /\ UNCHANGED <<page_table, lock, mapper, pc, target, next, ipi, last>>

Change ==
  \E c \in Core, p \in Page :
    \/ \E f \in Frame : CreateMapping(c, p, f)
    \/ \E f \in Frame : UpdateMapping(c, p, f)
    \/ UpdateMappingSame(c, p)
    \/ RemoveMapping(c, p)
    \/ UpdatePermissions(c, p)

Shootdown == Lock \/ Send \/ Unlock \/ Flush

Next ==
  \/ Change
  \/ \E c \in Core, p \in Page : Access(c, p)
  \/ Shootdown
  \/ \E c \in Core : Deliver(c) \/ Handle(c)

Spec == Init /\ [][Next]_vars

\* A core inside tlb_shootdown goes on, an interrupt that was sent is delivered
\* and its handler goes on.
Fairness == WF_vars(Shootdown) /\ \A c \in Core : WF_vars(Deliver(c)) /\ WF_vars(Handle(c))

FairSpec == Spec /\ Fairness

-----------------------------------------------------------------------------
(* Properties                                                              *)

\* No shootdown is going on and every interrupt has been served.
Quiet == pc = "idle" /\ ipi = {} /\ handler = {}

\* The latest shootdown works: once its interrupts have been served, no core has
\* the old entry of its page, whatever the shootdowns before it.
LastFlushed == Quiet /\ last # NoPage => \A c \in Core : last \notin stale[c]

\* No slot is forgotten: a core whose slot holds a page has an interrupt to come
\* or is inside its handler.
SlotServed == \A c \in Core : addresses[c] # NoPage => c \in ipi \cup handler

\* An interrupt hit the core that holds the slots' lock: its handler spins for ever.
SelfDeadlock == lock \in handler

\* tlb_shootdown returns: two cores never wait for each other's lock; only an
\* interrupt left over from an earlier shootdown that hits the holder of the
\* slots' lock stops it.
ShootdownReturns == pc # "idle" ~> (pc = "idle" \/ SelfDeadlock)

\* Once the page table is not changed any more, every interrupt gets served.
Settles == <>[](pc = "idle") => <>[]Quiet

\* "VA that has to be flushed in all TLBs": no core has the old entry of a page
\* that was shot down once all interrupts have been served.
AllFlushed == Quiet => \A c \in Core : stale[c] = {}
=============================================================================
