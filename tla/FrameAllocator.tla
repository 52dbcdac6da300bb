---------------------------- MODULE FrameAllocator ----------------------------
(***************************************************************************)
(* The global frame allocator: the boot allocator that hands out usable    *)
(* frames in order while the heap is mapped, switch_allocator, and the     *)
(* bitmap allocator used afterwards.  Every operation runs under the       *)
(* FRAME_ALLOCATOR mutex, so a step of the model is a whole operation.     *)
(*                                                                         *)
(* A frame is its number.  The memory map is the set of usable frames      *)
(* (Limine's usable entries are page aligned, disjoint and in ascending    *)
(* order).  owners counts, for each frame, how many callers hold it; it is *)
(* the ghost that the allocator's promise is about.                        *)
(***************************************************************************)
EXTENDS Integers, FiniteSets, FiniteSetsExt, Functions

CONSTANTS MemoryMaps,            \* the memory maps the bootloader may report
          MaxFrame,              \* bound: frames are below MaxFrame
          MAX_ALLOCATED_FRAMES,
          BITMAP_ENTRY_SIZE,
          NoFrame,               \* None
          NoResult               \* no alloc_frame has returned since

Frame == 0..MaxFrame - 1

ASSUME FrameAssumption ==
  /\ MaxFrame \in Nat
  /\ NoFrame \notin Frame /\ NoResult \notin Frame /\ NoFrame # NoResult
  /\ MAX_ALLOCATED_FRAMES \in Nat \ {0}
  /\ BITMAP_ENTRY_SIZE \in Nat \ {0}
ASSUME MapAssumption == MemoryMaps \subseteq (SUBSET Frame) \ {{}}

VARIABLES memory_map,        \* usable frames, fixed at boot
          allocator,         \* "boot", "bitmap", "spin" (inside the loop of
                             \* allocate_frame for ever) or "panic"
          first_frame,       \* boot allocator: the first frame allocated
          allocated_count,   \* boot allocator: frames allocated (equals next)
          bitmap,            \* the frames whose bit is 1
          free_frames,
          to_allocate,
          net_count,         \* allocate_count - free_count
          owners,            \* ghost: holders of each frame
          result             \* what the last alloc_frame returned

vars == <<memory_map, allocator, first_frame, allocated_count, bitmap,
          free_frames, to_allocate, net_count, owners, result>>
boot_vars == <<first_frame, allocated_count>>
bitmap_vars == <<bitmap, free_frames, to_allocate, net_count>>

TypeOK ==
  /\ memory_map \in MemoryMaps
  /\ allocator \in {"boot", "bitmap", "spin", "panic"}
  /\ first_frame \in Frame \cup {NoFrame}
  /\ allocated_count \in 0..MAX_ALLOCATED_FRAMES
  /\ bitmap \subseteq Frame
  /\ free_frames \in Nat
  /\ to_allocate \in Nat
  /\ net_count \in Int
  /\ owners \in [Frame -> Nat]
  /\ result \in Frame \cup {NoFrame, NoResult}

Init ==
  /\ memory_map \in MemoryMaps
  /\ allocator = "boot"
  /\ first_frame = NoFrame
  /\ allocated_count = 0
  /\ bitmap = {}
  /\ free_frames = 0
  /\ to_allocate = 0
  /\ net_count = 0
  /\ owners = [f \in Frame |-> 0]
  /\ result = NoResult

\* div_ceil of the end of the highest usable entry: one bit per frame below it.
total_frames == Max(memory_map) + 1

\* alloc_frame returns f to a caller.
HandOut(f) ==
  /\ owners' = [owners EXCEPT ![f] = @ + 1]
  /\ result' = f

-----------------------------------------------------------------------------
(* The boot allocator                                                      *)

\* The position of frame f among the usable frames.
Rank(f) == Cardinality({g \in memory_map : g < f})

\* allocate_frame: usable_frames().nth(next).  The filter of usable_frames
\* excludes nothing (every physical address is below HEAP_START).
BootAlloc(f) ==
  /\ allocator = "boot"
  /\ f \in memory_map /\ Rank(f) = allocated_count
  /\ allocated_count < MAX_ALLOCATED_FRAMES
  /\ first_frame' = IF first_frame = NoFrame THEN f ELSE first_frame
  /\ allocated_count' = allocated_count + 1
  /\ HandOut(f)
  /\ UNCHANGED <<memory_map, allocator, bitmap_vars>>

\* nth returns None.
BootAllocNone ==
  /\ allocator = "boot"
  /\ allocated_count >= Cardinality(memory_map)
  /\ result' = NoFrame
  /\ UNCHANGED <<memory_map, allocator, boot_vars, bitmap_vars, owners>>

\* assert!(self.allocated_count < MAX_ALLOCATED_FRAMES)
BootAllocAssert ==
  /\ allocator = "boot"
  /\ allocated_count < Cardinality(memory_map)
  /\ allocated_count >= MAX_ALLOCATED_FRAMES
  /\ allocator' = "panic"
  /\ UNCHANGED <<memory_map, boot_vars, bitmap_vars, owners, result>>

\* allocated_frames: allocated_count frames from first_frame on.
allocated_frames == first_frame..first_frame + allocated_count - 1

-----------------------------------------------------------------------------
(* The switch                                                              *)

\* Mutant of SwitchAllocator: free_frames is never counted up.
SwitchUncounted ==
  /\ allocator = "boot"
  /\ first_frame # NoFrame
  /\ allocated_count < total_frames
  /\ allocator' = "bitmap"
  /\ bitmap' = ((0..total_frames - 1) \ memory_map) \cup allocated_frames
  /\ free_frames' = 0
  /\ to_allocate' = allocated_count
  /\ result' = NoResult
  /\ UNCHANGED <<memory_map, boot_vars, net_count, owners>>

\* Mutant of SwitchAllocator: the boot allocator's frames are not marked again.
SwitchForgetsBoot ==
  /\ allocator = "boot"
  /\ first_frame # NoFrame
  /\ allocated_count < total_frames
  /\ allocator' = "bitmap"
  /\ bitmap' = (0..total_frames - 1) \ memory_map
  /\ free_frames' = 2 * Cardinality(memory_map)
  /\ to_allocate' = 0
  /\ result' = NoResult
  /\ UNCHANGED <<memory_map, boot_vars, net_count, owners>>

\* Mutant of SwitchAllocator: the bitmap starts with all bits 0.
SwitchAllFree ==
  /\ allocator = "boot"
  /\ first_frame # NoFrame
  /\ allocated_count < total_frames
  /\ allocator' = "bitmap"
  /\ bitmap' = allocated_frames
  /\ free_frames' = 2 * Cardinality(memory_map) - allocated_count
  /\ to_allocate' = allocated_count
  /\ result' = NoResult
  /\ UNCHANGED <<memory_map, boot_vars, net_count, owners>>

\* switch_allocator with BitmapFrameAllocator::init.  All bits start at 1; the
\* usable frames are cleared, then the boot allocator's are set again.
\* free_frames is counted twice over the usable frames: by clear_bit_init and
\* by the length of each entry.  The heap does not take every frame there is.
SwitchAllocator ==
  /\ allocator = "boot"
  /\ first_frame # NoFrame
  /\ allocated_count < total_frames
  /\ allocator' = "bitmap"
  /\ bitmap' = ((0..total_frames - 1) \ memory_map) \cup allocated_frames
  /\ free_frames' = 2 * Cardinality(memory_map) - allocated_count
  /\ to_allocate' = allocated_count
  /\ result' = NoResult
  /\ UNCHANGED <<memory_map, boot_vars, net_count, owners>>

-----------------------------------------------------------------------------
(* The bitmap allocator                                                    *)

\* The frames whose bit is 0.
clear == (0..total_frames - 1) \ bitmap

\* How far frame f is from to_allocate in the circular scan.
Distance(f) == (f - to_allocate) % total_frames

\* Mutant of Alloc: free_frames is not decremented.
AllocUncounted(f) ==
  /\ allocator = "bitmap"
  /\ free_frames # total_frames
  /\ f \in clear /\ \A g \in clear : Distance(f) <= Distance(g)
  /\ bitmap' = bitmap \cup {f}
  /\ to_allocate' = (f + 1) % total_frames
  /\ net_count' = net_count + 1
  /\ HandOut(f)
  /\ UNCHANGED <<memory_map, allocator, boot_vars, free_frames>>

\* allocate_frame finds a clear bit: the first one from to_allocate on.
Alloc(f) ==
  /\ allocator = "bitmap"
  /\ free_frames # total_frames
  /\ f \in clear /\ \A g \in clear : Distance(f) <= Distance(g)
  /\ bitmap' = bitmap \cup {f}
  /\ free_frames' = free_frames - 1
  /\ to_allocate' = (f + 1) % total_frames
  /\ net_count' = net_count + 1
  /\ HandOut(f)
  /\ UNCHANGED <<memory_map, allocator, boot_vars>>

\* allocate_frame's early return.
AllocNone ==
  /\ allocator = "bitmap"
  /\ free_frames = total_frames
  /\ result' = NoFrame
  /\ UNCHANGED <<memory_map, allocator, boot_vars, bitmap_vars, owners>>

\* No bit is clear and the early return is not taken: allocate_frame scans for
\* ever with the FRAME_ALLOCATOR mutex held, so no further operation starts.
AllocSpin ==
  /\ allocator = "bitmap"
  /\ free_frames # total_frames
  /\ clear = {}
  /\ allocator' = "spin"
  /\ UNCHANGED <<memory_map, boot_vars, bitmap_vars, owners, result>>

\* Mutant of WordIsZero: some bit of the word is 0.
WordHasClear(f) ==
  LET w == f \div BITMAP_ENTRY_SIZE
  IN  \E g \in w * BITMAP_ENTRY_SIZE..(w + 1) * BITMAP_ENTRY_SIZE - 1 : g \in clear

\* The bitmap word of frame f is 0: no frame of the word is used, and the word
\* has no padding bit (those stay 1).
WordIsZero(f) ==
  LET w == f \div BITMAP_ENTRY_SIZE
  IN  \A g \in w * BITMAP_ENTRY_SIZE..(w + 1) * BITMAP_ENTRY_SIZE - 1 : g \in clear

\* Mutant of Dealloc: free_count is not advanced.
DeallocUncounted(f) ==
  /\ allocator = "bitmap"
  /\ owners[f] > 0
  /\ ~WordIsZero(f)
  /\ bitmap' = bitmap \ {f}
  /\ free_frames' = free_frames + 1
  /\ owners' = [owners EXCEPT ![f] = @ - 1]
  /\ result' = NoResult
  /\ UNCHANGED <<memory_map, allocator, boot_vars, to_allocate, net_count>>

\* deallocate_frame, by a caller that holds f ("The frame must be ensured to be
\* allocated").
Dealloc(f) ==
  /\ allocator = "bitmap"
  /\ owners[f] > 0
  /\ ~WordIsZero(f)
  /\ bitmap' = bitmap \ {f}
  /\ free_frames' = free_frames + 1
  /\ net_count' = net_count - 1
  /\ owners' = [owners EXCEPT ![f] = @ - 1]
  /\ result' = NoResult
  /\ UNCHANGED <<memory_map, allocator, boot_vars, to_allocate>>

\* clear_bit's double free assertion fails, although the caller holds f.
DeallocAssert(f) ==
  /\ allocator = "bitmap"
  /\ owners[f] > 0
  /\ WordIsZero(f)
  /\ allocator' = "panic"
  /\ net_count' = net_count - 1
  /\ UNCHANGED <<memory_map, boot_vars, bitmap, free_frames, to_allocate, owners,
                 result>>

Next ==
  \/ \E f \in Frame : BootAlloc(f)
  \/ BootAllocNone \/ BootAllocAssert
  \/ SwitchAllocator
  \/ \E f \in Frame : Alloc(f)
  \/ AllocNone \/ AllocSpin
  \/ \E f \in Frame : Dealloc(f)
  \/ \E f \in Frame : DeallocAssert(f)

Spec == Init /\ [][Next]_vars

-----------------------------------------------------------------------------
(* Properties                                                              *)

\* The boot allocator's frames lie next to each other in physical memory: the
\* case that allocated_frames takes for granted.
BootContiguous ==
  first_frame # NoFrame => allocated_frames \subseteq memory_map

\* A frame has one holder at a time, over the boot allocator, the switch and
\* any sequence of allocations and frees, when the boot frames are contiguous.
Exclusive == BootContiguous => \A f \in Frame : owners[f] <= 1

\* Only usable memory is ever handed out, whatever the memory map.
OnlyUsable == \A f \in Frame : owners[f] > 0 => f \in memory_map

\* alloc_frame does not spin for ever, when the boot frames are contiguous and
\* the frames left after boot are at least as many as the reserved frames below
\* the top of memory (the surplus by which free_frames is off).
NoSpin ==
  /\ BootContiguous
  /\ 2 * Cardinality(memory_map) - allocated_count >= total_frames
  => allocator # "spin"

\* The double free assertion of clear_bit does not fire on a frame that its
\* caller holds, when the boot frames are contiguous.
NoFalseDoubleFree ==
  BootContiguous /\ allocator = "panic" => allocated_count >= MAX_ALLOCATED_FRAMES

\* What the callers hold: a frame once for each holder.
Holdings == UNION {{<<f, k>> : k \in 1..owners[f]} : f \in Frame}

\* The allocation and free counters account for every frame: what the callers
\* hold is what boot allocated plus the difference of the counters.
LeakAccounting ==
  allocator \in {"bitmap", "spin"} =>
    Cardinality(Holdings) = allocated_count + net_count

\* "None if no frame available, otherwise first available frame".
NoneOnlyWhenExhausted == allocator = "bitmap" /\ result = NoFrame => clear = {}

\* "Returns an iterator over all frames allocated so far".
AllocatedFramesExact ==
  allocator = "boot" /\ first_frame # NoFrame =>
    allocated_frames = {f \in Frame : owners[f] > 0}
=============================================================================
