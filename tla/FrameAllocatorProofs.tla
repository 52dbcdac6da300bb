------------------------- MODULE FrameAllocatorProofs -------------------------
(***************************************************************************)
(* Theorems about FrameAllocator, for any memory maps, bitmap word size    *)
(* and number of boot allocations.                                         *)
(***************************************************************************)
EXTENDS FrameAllocator, FiniteSetTheorems, WellFoundedInduction, TLAPS

\* A memory map is a finite, non-empty set of natural numbers below MaxFrame.
LEMMA MapFinite ==
  ASSUME NEW S \in MemoryMaps
  PROVE  /\ S # {} /\ S \subseteq Frame /\ S \subseteq Nat
         /\ IsFiniteSet(S)
         /\ Cardinality(S) \in Nat
<1>1. S # {} /\ S \subseteq Frame
  BY MapAssumption
<1>2. IsFiniteSet(Frame)
  BY FS_Interval, FrameAssumption DEF Frame
<1>3. IsFiniteSet(S)
  BY <1>1, <1>2, FS_Subset
<1> QED
  BY <1>1, <1>3, FS_CardinalityType, FrameAssumption DEF Frame

\* The top of memory: the highest usable frame exists, so total_frames is one
\* more than it, and every usable frame has a bit.
LEMMA TopOfMemory ==
  ASSUME NEW S \in MemoryMaps
  PROVE  Max(S) \in S /\ \A y \in S : Max(S) >= y
<1> USE FrameAssumption DEF Frame
<1> DEFINE T == {MaxFrame - f : f \in S}
           R == OpToRel(<, Nat)
<1>1. T \subseteq Nat /\ T # {}
  BY MapFinite
<1>2. \E x \in T : \A y \in T : ~(<<y, x>> \in R)
  <2> HIDE DEF T, R
  <2>1. IsWellFoundedOn(R, Nat)
    BY Zenon, NatLessThanWellFounded DEF R
  <2> QED
    BY Zenon, <1>1, <2>1, WFMin
<1>3. PICK x \in T : \A y \in T : ~(<<y, x>> \in R)
  BY Zenon, <1>2
<1>4. \A y \in T : ~(y < x)
  BY Zenon, <1>1, <1>3 DEF OpToRel
<1>5. PICK m \in S : x = MaxFrame - m
  OBVIOUS
<1>6. \A y \in S : m >= y
  <2> SUFFICES ASSUME NEW y \in S PROVE m >= y
    OBVIOUS
  <2>1. m \in 0..MaxFrame - 1 /\ y \in 0..MaxFrame - 1
    BY MapFinite
  <2>2. MaxFrame - y \in T
    OBVIOUS
  <2>3. ~(MaxFrame - y < MaxFrame - m)
    BY <1>4, <1>5, <2>2
  <2> QED
    BY <2>1, <2>3
<1> QED
  BY <1>5, <1>6 DEF Max

\* The usable frames below a frame: strictly more for a higher frame.
LEMMA RankMonotone ==
  ASSUME memory_map \in MemoryMaps,
         NEW f \in memory_map, NEW g \in memory_map, f < g
  PROVE  Rank(f) \in Nat /\ Rank(g) \in Nat /\ Rank(f) < Rank(g)
<1> DEFINE A == {h \in memory_map : h < f}
           B == {h \in memory_map : h < g}
<1>1. IsFiniteSet(memory_map) /\ memory_map \subseteq Nat
  BY MapFinite
<1>2. A \subseteq B /\ f \in B /\ f \notin A /\ B \subseteq memory_map
  <2>1. f \in Nat /\ g \in Nat /\ \A h \in memory_map : h \in Nat
    BY <1>1
  <2>2. \A h \in memory_map : h < f => h < g
    <3>1. \A a, b, c \in Nat : a < b /\ b < c => a < c
      OBVIOUS
    <3> QED
      BY <2>1, <3>1
  <2>3. ~(f < f)
    BY <2>1
  <2>4. A \subseteq B
    BY <2>2
  <2>5. f \in B /\ B \subseteq memory_map
    OBVIOUS
  <2>6. f \notin A
    BY <2>3
  <2> QED
    BY <2>4, <2>5, <2>6
<1> HIDE DEF A, B
<1>3. IsFiniteSet(B)
  BY Zenon, <1>1, <1>2, FS_Subset
<1>4. /\ IsFiniteSet(A) /\ Cardinality(A) <= Cardinality(B)
      /\ Cardinality(B) = Cardinality(A) => B = A
  BY <1>2, <1>3, FS_Subset
<1>5. Cardinality(A) \in Nat /\ Cardinality(B) \in Nat
  BY <1>3, <1>4, FS_CardinalityType
<1>6. Cardinality(A) < Cardinality(B)
  BY <1>2, <1>4, <1>5
<1> QED
  BY <1>5, <1>6 DEF Rank, A, B

\* Two usable frames at the same position are the same frame.
LEMMA RankInjective ==
  ASSUME memory_map \in MemoryMaps,
         NEW f \in memory_map, NEW g \in memory_map, Rank(f) = Rank(g)
  PROVE  f = g
<1>1. f \in Nat /\ g \in Nat
  BY MapFinite
<1>2. ~(f < g)
  BY RankMonotone
<1>3. ~(g < f)
  BY RankMonotone
<1> QED
  BY <1>1, <1>2, <1>3

\* The position of a usable frame is below their number.
LEMMA RankBound ==
  ASSUME memory_map \in MemoryMaps, NEW f \in memory_map
  PROVE  Rank(f) \in Nat /\ Rank(f) < Cardinality(memory_map)
<1> DEFINE A == {h \in memory_map : h < f}
<1>1. IsFiniteSet(memory_map) /\ memory_map \subseteq Nat /\ Cardinality(memory_map) \in Nat
  BY MapFinite
<1>2. A \subseteq memory_map /\ f \notin A
  BY <1>1
<1> HIDE DEF A
<1>3. /\ IsFiniteSet(A) /\ Cardinality(A) <= Cardinality(memory_map)
      /\ Cardinality(memory_map) = Cardinality(A) => memory_map = A
  BY Zenon, <1>1, <1>2, FS_Subset
<1>4. Cardinality(A) \in Nat
  BY <1>3, FS_CardinalityType
<1> QED
  BY <1>1, <1>2, <1>3, <1>4 DEF Rank, A

-----------------------------------------------------------------------------
(* The inductive invariant                                                 *)

\* While the boot allocator is in use, the frames held are exactly the first
\* allocated_count usable ones.
BootInv ==
  /\ allocated_count <= Cardinality(memory_map)
  /\ first_frame = NoFrame <=> allocated_count = 0
  /\ first_frame # NoFrame =>
       first_frame \in memory_map /\ \A g \in memory_map : first_frame <= g
  /\ \A g \in memory_map : owners[g] = IF Rank(g) < allocated_count THEN 1 ELSE 0

\* After the switch a clear bit is a usable frame; if the boot frames were
\* contiguous, a frame that is held has its bit set.
BitmapInv ==
  /\ clear \subseteq memory_map
  /\ BootContiguous => \A f \in Frame : owners[f] > 0 => f \in bitmap

\* What free_frames is: never below the number of clear bits; if the boot frames
\* were contiguous, too large by exactly the number of usable frames, and then
\* it does not pass total_frames on the way down.
CountInv ==
  /\ free_frames >= Cardinality(clear)
  /\ BootContiguous =>
       /\ free_frames = Cardinality(clear) + Cardinality(memory_map)
       /\ 2 * Cardinality(memory_map) - allocated_count >= total_frames =>
            free_frames >= total_frames

IInv ==
  /\ OnlyUsable
  /\ Exclusive
  /\ NoSpin
  /\ NoFalseDoubleFree
  /\ allocator = "boot" => BootInv
  /\ allocator = "bitmap" => BitmapInv /\ CountInv

-----------------------------------------------------------------------------
(* Facts about one state                                                   *)

\* total_frames is a positive number above every usable frame, the clear bits
\* are finitely many, and there are at most total_frames usable frames.
LEMMA BitmapFacts ==
  ASSUME TypeOK
  PROVE  /\ total_frames \in Nat \ {0} /\ total_frames <= MaxFrame
         /\ memory_map \subseteq 0..total_frames - 1
         /\ IsFiniteSet(clear) /\ Cardinality(clear) \in Nat
         /\ Cardinality(memory_map) \in Nat
         /\ Cardinality(memory_map) <= total_frames
<1> DEFINE U == 0..total_frames - 1
<1>1. memory_map \in MemoryMaps
  BY DEF TypeOK
<1>2. memory_map \subseteq Frame /\ Cardinality(memory_map) \in Nat
  BY <1>1, MapFinite
<1>3. Max(memory_map) \in memory_map /\ \A y \in memory_map : Max(memory_map) >= y
  BY <1>1, TopOfMemory
<1> DEFINE m == Max(memory_map)
<1> HIDE DEF m
<1>9. m \in 0..MaxFrame - 1 /\ total_frames = m + 1 /\ MaxFrame \in Nat
  BY Zenon, <1>2, <1>3, FrameAssumption DEF total_frames, Frame, m
<1>4. total_frames \in Nat \ {0} /\ total_frames <= MaxFrame
  BY <1>9
<1>5. memory_map \subseteq U
  <2> SUFFICES ASSUME NEW y \in memory_map PROVE y \in 0..total_frames - 1
    OBVIOUS
  <2>1. y \in 0..MaxFrame - 1 /\ m >= y
    BY <1>2, <1>3 DEF Frame, m
  <2> QED
    BY <1>9, <2>1
<1>6. IsFiniteSet(U) /\ Cardinality(U) = total_frames
  BY <1>4, FS_Interval
<1> HIDE DEF U
<1>7. IsFiniteSet(clear)
  <2>1. clear \subseteq U
    BY DEF clear, U
  <2> QED
    BY <1>6, <2>1, FS_Subset
<1>8. Cardinality(memory_map) <= total_frames
  BY <1>5, <1>6, FS_Subset
<1> QED
  BY <1>2, <1>4, <1>5, <1>7, <1>8, FS_CardinalityType DEF U

\* allocated_frames yields allocated_count frames.
LEMMA AllocatedFramesCount ==
  ASSUME first_frame \in Nat, allocated_count \in Nat
  PROVE  /\ IsFiniteSet(allocated_frames)
         /\ Cardinality(allocated_frames) = allocated_count
<1> DEFINE last == first_frame + allocated_count - 1
<1>1. last \in Int /\ first_frame \in Int
  OBVIOUS
<1>2. allocated_count = IF first_frame > last THEN 0 ELSE last - first_frame + 1
  OBVIOUS
<1>3. allocated_frames = first_frame..last
  BY DEF allocated_frames
<1> HIDE DEF last
<1>4. /\ IsFiniteSet(first_frame..last)
      /\ Cardinality(first_frame..last) =
           IF first_frame > last THEN 0 ELSE last - first_frame + 1
  BY <1>1, FS_Interval
<1> QED
  BY <1>2, <1>3, <1>4

\* Contiguous boot frames: allocated_frames covers every frame that the boot
\* allocator handed out.
LEMMA HandoverComplete ==
  ASSUME TypeOK, BootInv, first_frame # NoFrame, BootContiguous,
         NEW g \in memory_map, Rank(g) < allocated_count
  PROVE  g \in allocated_frames
<1>1. memory_map \in MemoryMaps /\ memory_map \subseteq Nat /\ IsFiniteSet(memory_map)
  BY MapFinite DEF TypeOK
<1>2. first_frame \in Nat /\ g \in Nat /\ first_frame <= g /\ allocated_count \in Nat
  <2>1. first_frame \in memory_map /\ first_frame <= g
    BY DEF BootInv
  <2>2. allocated_count \in Nat
    BY FrameAssumption DEF TypeOK
  <2> QED
    BY <1>1, <2>1, <2>2
<1>3. ~(g >= first_frame + allocated_count)
  <2> SUFFICES ASSUME g >= first_frame + allocated_count PROVE FALSE
    OBVIOUS
  <2> DEFINE B == {h \in memory_map : h < g}
  <2>1. allocated_frames \subseteq B
    <3> SUFFICES ASSUME NEW h \in allocated_frames PROVE h \in memory_map /\ h < g
      OBVIOUS
    <3>1. h \in memory_map
      BY DEF BootContiguous
    <3>2. h \in first_frame..first_frame + allocated_count - 1
      BY DEF allocated_frames
    <3> QED
      BY <1>2, <3>1, <3>2
  <2>2. IsFiniteSet(B)
    <3>1. B \subseteq memory_map
      OBVIOUS
    <3> HIDE DEF B
    <3> QED
      BY Zenon, <1>1, <3>1, FS_Subset
  <2>3. IsFiniteSet(allocated_frames) /\ Cardinality(allocated_frames) = allocated_count
    BY <1>2, AllocatedFramesCount
  <2>4. Cardinality(allocated_frames) <= Cardinality(B)
    BY <2>1, <2>2, FS_Subset
  <2>5. Rank(g) \in Nat /\ Rank(g) = Cardinality(B)
    BY <1>1, RankBound DEF Rank
  <2> QED
    BY <1>2, <2>3, <2>4, <2>5
<1> QED
  BY <1>2, <1>3 DEF allocated_frames

-----------------------------------------------------------------------------
(* The steps                                                               *)

\* A step that leaves the memory map alone leaves what is computed from it.
LEMMA SameMap ==
  ASSUME memory_map' = memory_map
  PROVE  /\ total_frames' = total_frames
         /\ \A f : Rank(f)' = Rank(f)
BY DEF total_frames, Rank

\* The boot allocator hands out the next usable frame to its only holder.
LEMMA BootAllocStep ==
  ASSUME TypeOK, IInv, NEW f \in Frame, BootAlloc(f)
  PROVE  TypeOK' /\ IInv'
<1> USE DEF BootAlloc, HandOut, boot_vars, bitmap_vars
<1>1. memory_map \in MemoryMaps /\ memory_map' = memory_map /\ memory_map \subseteq Nat
      /\ memory_map \subseteq Frame
  BY MapFinite DEF TypeOK
<1>2. TypeOK'
  <2>1. allocated_count' \in 0..MAX_ALLOCATED_FRAMES
    BY FrameAssumption DEF TypeOK
  <2>2. owners' \in [Frame -> Nat]
    BY DEF TypeOK
  <2> QED
    BY <2>1, <2>2 DEF TypeOK
<1>3. BootInv
  BY DEF IInv
<1>4. f \in memory_map /\ Rank(f) = allocated_count /\ allocated_count \in Nat
  BY FrameAssumption DEF TypeOK
<1>5. \A g \in memory_map : Rank(g) \in Nat /\ Rank(g) < Cardinality(memory_map)
  BY <1>1, RankBound
<1>6. Cardinality(memory_map) \in Nat
  BY <1>1, MapFinite
<1>7. \A g \in memory_map : owners'[g] = IF Rank(g) < allocated_count' THEN 1 ELSE 0
  <2> SUFFICES ASSUME NEW g \in memory_map
               PROVE  owners'[g] = IF Rank(g) < allocated_count + 1 THEN 1 ELSE 0
    OBVIOUS
  <2>1. owners[g] = IF Rank(g) < allocated_count THEN 1 ELSE 0
    BY <1>3 DEF BootInv
  <2>2. g \in Frame /\ owners'[g] = IF g = f THEN owners[g] + 1 ELSE owners[g]
    BY <1>1 DEF TypeOK
  <2>3. CASE g = f
    BY <1>4, <2>1, <2>2, <2>3
  <2>4. CASE g # f
    <3>1. Rank(g) # Rank(f)
      BY <1>1, <1>4, <2>4, RankInjective
    <3> QED
      BY <1>4, <1>5, <2>1, <2>2, <2>4, <3>1
  <2> QED
    BY <2>3, <2>4
<1>8. first_frame' \in memory_map /\ \A g \in memory_map : first_frame' <= g
  <2>1. CASE first_frame # NoFrame
    BY <1>3, <2>1 DEF BootInv
  <2>2. CASE first_frame = NoFrame
    <3>1. first_frame' = f /\ Rank(f) = 0
      BY <1>3, <1>4, <2>2 DEF BootInv
    <3>2. ASSUME NEW g \in memory_map PROVE f <= g
      <4>1. ~(g < f)
        BY <1>1, <1>4, <1>5, <3>1, RankMonotone
      <4> QED
        BY <1>1, <1>4, <4>1
    <3> QED
      BY <1>4, <3>1, <3>2
  <2> QED
    BY <2>1, <2>2
<1>9. BootInv'
  <2>1. allocated_count' <= Cardinality(memory_map)
    BY <1>4, <1>5, <1>6
  <2>2. first_frame' # NoFrame /\ allocated_count' # 0
    BY <1>1, <1>4, <1>8, FrameAssumption
  <2>3. \A g : Rank(g)' = Rank(g)
    BY <1>1, SameMap
  <2> QED
    BY <1>1, <1>7, <1>8, <2>1, <2>2, <2>3 DEF BootInv
<1>10. OnlyUsable'
  BY <1>1, <1>4 DEF IInv, OnlyUsable, TypeOK
<1>11. \A g \in Frame : owners'[g] <= 1
  <2> SUFFICES ASSUME NEW g \in Frame PROVE owners'[g] <= 1
    OBVIOUS
  <2>1. CASE g \in memory_map
    BY <1>7, <2>1
  <2>2. CASE g \notin memory_map
    <3>1. owners'[g] = owners[g]
      BY <1>4, <2>2 DEF TypeOK
    <3>2. owners[g] = 0
      BY <2>2 DEF IInv, OnlyUsable, TypeOK
    <3> QED
      BY <3>1, <3>2
  <2> QED
    BY <2>1, <2>2
<1> QED
  BY <1>2, <1>9, <1>10, <1>11 DEF IInv, Exclusive, NoSpin, NoFalseDoubleFree

\* mark_frame_used is called within the bitmap: allocated_frames ends below the
\* top of memory, since as many usable frames lie between first_frame and it.
LEMMA AllocatedBelowTop ==
  ASSUME TypeOK, BootInv, first_frame # NoFrame, NEW h \in allocated_frames
  PROVE  h < total_frames
<1> DEFINE T == total_frames
           W == first_frame..T - 1
<1>1. /\ T \in Nat \ {0} /\ memory_map \subseteq 0..T - 1
      /\ Cardinality(memory_map) \in Nat
  BY BitmapFacts
<1>2. first_frame \in memory_map /\ \A g \in memory_map : first_frame <= g
  BY DEF BootInv
<1>3. first_frame \in 0..T - 1
  BY <1>1, <1>2
<1>4. memory_map \subseteq W
  <2> SUFFICES ASSUME NEW y \in memory_map PROVE y \in W
    OBVIOUS
  <2>1. y \in 0..T - 1 /\ first_frame <= y
    BY <1>1, <1>2
  <2> QED
    BY <1>3, <2>1
<1>5. IsFiniteSet(W) /\ Cardinality(W) = T - first_frame
  <2>1. first_frame \in Int /\ T - 1 \in Int /\ ~(first_frame > T - 1)
    BY <1>1, <1>3
  <2>2. /\ IsFiniteSet(first_frame..T - 1)
        /\ Cardinality(first_frame..T - 1) =
             IF first_frame > T - 1 THEN 0 ELSE (T - 1) - first_frame + 1
    BY <2>1, FS_Interval
  <2>3. (T - 1) - first_frame + 1 = T - first_frame
    BY <1>1, <1>3
  <2> QED
    BY <2>1, <2>2, <2>3
<1> HIDE DEF W
<1>6. Cardinality(memory_map) <= Cardinality(W)
  BY <1>4, <1>5, FS_Subset
<1>7. allocated_count <= Cardinality(memory_map) /\ allocated_count \in Nat
  BY FrameAssumption DEF BootInv, TypeOK
<1>8. h \in first_frame..first_frame + allocated_count - 1
  BY DEF allocated_frames
<1> HIDE DEF T
<1>9. h < T
  BY <1>1, <1>3, <1>5, <1>6, <1>7, <1>8
<1> QED
  BY <1>9 DEF T

\* The switch keeps every boot frame marked when the boot frames are contiguous.
LEMMA SwitchStep ==
  ASSUME TypeOK, IInv, SwitchAllocator
  PROVE  TypeOK' /\ IInv'
<1> USE DEF SwitchAllocator, boot_vars
<1> DEFINE S == memory_map
           U == 0..total_frames - 1
<1>1. /\ S \in MemoryMaps /\ memory_map' = S /\ S \subseteq Frame /\ IsFiniteSet(S)
      /\ Cardinality(S) \in Nat
  BY MapFinite DEF TypeOK
<1>2. /\ total_frames \in Nat \ {0} /\ total_frames <= MaxFrame
      /\ S \subseteq U /\ total_frames' = total_frames
  BY <1>1, BitmapFacts, SameMap
<1>3. BootInv
  BY DEF IInv
<1>4. /\ allocated_count \in Nat /\ first_frame \in S /\ first_frame \in Nat
      /\ allocated_count <= Cardinality(S)
  BY <1>1, <1>3, FrameAssumption DEF BootInv, TypeOK, Frame
<1>5. IsFiniteSet(allocated_frames) /\ Cardinality(allocated_frames) = allocated_count
  BY <1>4, AllocatedFramesCount
<1>6. clear' = S \ allocated_frames
  <2>1. clear' = U \ bitmap'
    BY <1>2 DEF clear
  <2>2. bitmap' = (U \ S) \cup allocated_frames
    OBVIOUS
  <2> HIDE DEF U, S
  <2> QED
    BY Zenon, <1>2, <2>1, <2>2
<1>7. /\ IsFiniteSet(S \cap allocated_frames)
      /\ Cardinality(clear') = Cardinality(S) - Cardinality(S \cap allocated_frames)
      /\ Cardinality(S \cap allocated_frames) \in Nat
  BY Zenon, <1>1, <1>6, FS_Difference, FS_Intersection, FS_CardinalityType
<1>8. BootContiguous' <=> allocated_frames \subseteq S
  BY DEF BootContiguous, allocated_frames
<1>9. free_frames' = 2 * Cardinality(S) - allocated_count
  OBVIOUS
<1>10. CountInv'
  <2>1. free_frames' >= Cardinality(clear')
    BY <1>1, <1>4, <1>7, <1>9
  <2>2. ASSUME BootContiguous'
        PROVE  free_frames' = Cardinality(clear') + Cardinality(S)
    <3>1. S \cap allocated_frames = allocated_frames
      BY <1>8, <2>2
    <3>2. Cardinality(clear') = Cardinality(S) - allocated_count
      BY Zenon, <1>5, <1>7, <3>1
    <3> QED
      BY <1>1, <1>4, <1>9, <3>2
  <2> QED
    BY <1>1, <1>2, <1>9, <2>1, <2>2 DEF CountInv
<1>11. BitmapInv'
  <2>1. clear' \subseteq memory_map'
    BY <1>1, <1>6
  <2>2. ASSUME BootContiguous', NEW f \in Frame, owners'[f] > 0
        PROVE  f \in bitmap'
    <3>1. f \in S
      BY <2>2 DEF IInv, OnlyUsable
    <3>2. Rank(f) < allocated_count
      BY <1>3, <2>2, <3>1 DEF BootInv
    <3>3. BootContiguous
      BY <1>8, <2>2 DEF BootContiguous
    <3>4. f \in allocated_frames
      BY <1>3, <3>1, <3>2, <3>3, HandoverComplete
    <3> QED
      BY <3>4
  <2> QED
    BY <2>1, <2>2 DEF BitmapInv
<1>12. TypeOK'
  <2>1. free_frames' \in Nat
    BY <1>1, <1>4, <1>9
  <2>2. bitmap' \subseteq Frame
    <3>1. U \subseteq Frame
      BY <1>2, FrameAssumption DEF Frame
    <3>2. allocated_frames \subseteq Frame
      <4> SUFFICES ASSUME NEW h \in allocated_frames PROVE h \in Frame
        OBVIOUS
      <4>1. Cardinality(S) <= total_frames
        BY BitmapFacts
      <4>2. h < total_frames
        BY <1>3, <1>4, <1>2, AllocatedBelowTop
      <4>3. h \in Nat
        BY <1>4 DEF allocated_frames
      <4> QED
        BY <1>2, <4>2, <4>3, FrameAssumption DEF Frame
    <3> QED
      BY <3>1, <3>2
  <2> QED
    BY <2>1, <2>2, <1>4 DEF TypeOK
<1>13. OnlyUsable' /\ Exclusive'
  BY <1>8 DEF IInv, OnlyUsable, Exclusive, BootContiguous
<1> QED
  BY <1>10, <1>11, <1>12, <1>13 DEF IInv, NoSpin, NoFalseDoubleFree

\* A step that leaves the frames and the counters alone keeps the invariant's
\* parts that are about them.
LEMMA SameFrames ==
  ASSUME UNCHANGED <<memory_map, boot_vars, bitmap, free_frames, owners>>
  PROVE  /\ OnlyUsable' = OnlyUsable
         /\ Exclusive' = Exclusive
         /\ BootContiguous' = BootContiguous
         /\ BootInv' = BootInv
         /\ BitmapInv' = BitmapInv
         /\ CountInv' = CountInv
         /\ total_frames' = total_frames
BY DEF boot_vars, OnlyUsable, Exclusive, BootContiguous, allocated_frames, BootInv,
       Rank, BitmapInv, clear, CountInv, total_frames

\* The bitmap allocator hands out a frame that nobody holds.
LEMMA AllocStep ==
  ASSUME TypeOK, IInv, NEW f \in Frame, Alloc(f)
  PROVE  TypeOK' /\ IInv'
<1> USE DEF Alloc, HandOut, boot_vars
<1>1. BitmapInv /\ CountInv /\ OnlyUsable /\ Exclusive
  BY DEF IInv
<1>2. /\ total_frames \in Nat \ {0} /\ total_frames <= MaxFrame
      /\ IsFiniteSet(clear) /\ Cardinality(clear) \in Nat /\ Cardinality(memory_map) \in Nat
  BY BitmapFacts
<1>3. total_frames' = total_frames /\ memory_map' = memory_map
  BY SameMap
<1>4. clear' = clear \ {f}
  BY <1>3 DEF clear
<1>5. Cardinality(clear') = Cardinality(clear) - 1 /\ Cardinality(clear) > 0
  <2>1. Cardinality(clear \ {f}) = Cardinality(clear) - 1
    BY <1>2, FS_RemoveElement
  <2>2. Cardinality(clear \ {f}) \in Nat
    BY <1>2, FS_RemoveElement, FS_CardinalityType
  <2> QED
    BY <1>2, <1>4, <2>1, <2>2
<1>6. f \in memory_map /\ f \in clear
  BY <1>1 DEF BitmapInv
<1>7. free_frames \in Nat /\ free_frames' = free_frames - 1 /\ free_frames >= Cardinality(clear)
  BY <1>1 DEF CountInv, TypeOK
<1>8. BootContiguous' = BootContiguous
  BY DEF BootContiguous, allocated_frames
<1>9. TypeOK'
  <2>1. free_frames' \in Nat
    BY <1>2, <1>5, <1>7
  <2>2. to_allocate' \in Nat
    <3>1. f + 1 \in Nat
      BY FrameAssumption DEF Frame
    <3> HIDE DEF total_frames
    <3>2. (f + 1) % total_frames \in Nat
      BY <1>2, <3>1
    <3> QED
      BY <3>2
  <2>3. owners' \in [Frame -> Nat] /\ net_count' \in Int
    BY DEF TypeOK
  <2> QED
    BY <2>1, <2>2, <2>3 DEF TypeOK
<1>10. OnlyUsable'
  BY <1>1, <1>3, <1>6 DEF OnlyUsable, TypeOK
<1>11. ASSUME BootContiguous PROVE owners[f] = 0
  BY <1>1, <1>6, <1>11 DEF BitmapInv, clear, TypeOK
<1>12. Exclusive'
  BY <1>1, <1>8, <1>11 DEF Exclusive, TypeOK
<1>13. BitmapInv'
  <2>1. clear' \subseteq memory_map'
    BY <1>1, <1>3, <1>4 DEF BitmapInv
  <2>2. BootContiguous' => \A g \in Frame : owners'[g] > 0 => g \in bitmap'
    BY <1>1, <1>8 DEF BitmapInv, TypeOK
  <2> QED
    BY <2>1, <2>2 DEF BitmapInv
<1>14. CountInv'
  <2>1. free_frames' >= Cardinality(clear')
    BY <1>2, <1>5, <1>7
  <2>2. ASSUME BootContiguous
        PROVE  free_frames' = Cardinality(clear') + Cardinality(memory_map)
    BY <1>1, <1>2, <1>5, <1>7, <2>2 DEF CountInv
  <2>3. ASSUME BootContiguous, 2 * Cardinality(memory_map) - allocated_count >= total_frames
        PROVE  free_frames' >= total_frames
    <3>1. free_frames >= total_frames /\ free_frames # total_frames
      BY <1>1, <2>3 DEF CountInv
    <3> QED
      BY <1>2, <1>7, <3>1
  <2> QED
    BY <1>3, <1>8, <2>1, <2>2, <2>3 DEF CountInv
<1> QED
  BY <1>9, <1>10, <1>12, <1>13, <1>14 DEF IInv, NoSpin, NoFalseDoubleFree

\* A frame freed by its holder becomes clear, and no one else holds it.
LEMMA DeallocStep ==
  ASSUME TypeOK, IInv, NEW f \in Frame, Dealloc(f)
  PROVE  TypeOK' /\ IInv'
<1> USE DEF Dealloc, boot_vars
<1>1. BitmapInv /\ CountInv /\ OnlyUsable /\ Exclusive
  BY DEF IInv
<1>2. /\ total_frames \in Nat \ {0} /\ memory_map \subseteq 0..total_frames - 1
      /\ IsFiniteSet(clear) /\ Cardinality(clear) \in Nat /\ Cardinality(memory_map) \in Nat
  BY BitmapFacts
<1>3. total_frames' = total_frames /\ memory_map' = memory_map
  BY SameMap
<1>4. f \in memory_map
  BY <1>1 DEF OnlyUsable
<1>5. clear' = clear \cup {f}
  BY <1>2, <1>3, <1>4 DEF clear
<1>6. /\ Cardinality(clear') <= Cardinality(clear) + 1 /\ Cardinality(clear') \in Nat
      /\ f \notin clear => Cardinality(clear') = Cardinality(clear) + 1
  <2>1. /\ IsFiniteSet(clear \cup {f})
        /\ Cardinality(clear \cup {f}) =
             IF f \in clear THEN Cardinality(clear) ELSE Cardinality(clear) + 1
    BY <1>2, FS_AddElement
  <2> QED
    BY <1>2, <1>5, <2>1
<1>7. free_frames \in Nat /\ free_frames' = free_frames + 1 /\ free_frames >= Cardinality(clear)
  BY <1>1 DEF CountInv, TypeOK
<1>8. BootContiguous' = BootContiguous
  BY DEF BootContiguous, allocated_frames
<1>9. owners' = [owners EXCEPT ![f] = owners[f] - 1] /\ owners \in [Frame -> Nat]
      /\ owners[f] \in Nat /\ owners[f] > 0 /\ owners' \in [Frame -> Nat]
  BY DEF TypeOK
<1>10. TypeOK'
  BY <1>7, <1>9 DEF TypeOK
<1>11. OnlyUsable'
  BY <1>1, <1>3, <1>4, <1>9 DEF OnlyUsable
<1>12. Exclusive'
  BY <1>1, <1>8, <1>9 DEF Exclusive
<1>13. BitmapInv'
  <2>1. clear' \subseteq memory_map'
    BY <1>1, <1>3, <1>4, <1>5 DEF BitmapInv
  <2>2. ASSUME BootContiguous, NEW g \in Frame, owners'[g] > 0
        PROVE  g \in bitmap'
    <3>1. owners[f] = 1
      BY <1>1, <1>9, <2>2 DEF Exclusive
    <3>2. g # f /\ owners[g] > 0
      BY <1>9, <2>2, <3>1
    <3> QED
      BY <1>1, <2>2, <3>2 DEF BitmapInv
  <2> QED
    BY <1>8, <2>1, <2>2 DEF BitmapInv
<1>14. CountInv'
  <2>1. free_frames' >= Cardinality(clear')
    BY <1>2, <1>6, <1>7
  <2>2. ASSUME BootContiguous
        PROVE  free_frames' = Cardinality(clear') + Cardinality(memory_map)
    <3>1. f \notin clear
      BY <1>1, <2>2 DEF BitmapInv, clear
    <3>2. free_frames = Cardinality(clear) + Cardinality(memory_map)
      BY <1>1, <2>2 DEF CountInv
    <3> QED
      BY <1>2, <1>6, <1>7, <3>1, <3>2
  <2>3. ASSUME BootContiguous, 2 * Cardinality(memory_map) - allocated_count >= total_frames
        PROVE  free_frames' >= total_frames
    BY <1>1, <1>2, <1>7, <2>3 DEF CountInv
  <2> QED
    BY <1>3, <1>8, <2>1, <2>2, <2>3 DEF CountInv
<1> QED
  BY <1>10, <1>11, <1>12, <1>13, <1>14 DEF IInv, NoSpin, NoFalseDoubleFree

\* A frame is in its own bitmap word.
LEMMA OwnWord ==
  ASSUME NEW f \in Nat, NEW b \in Nat \ {0}
  PROVE  f \in (f \div b) * b..((f \div b) + 1) * b - 1
<1> DEFINE q == f \div b
           m == f % b
<1>1. q \in Int /\ m \in 0..b - 1 /\ f = b * q + m
  OBVIOUS
<1> HIDE DEF q, m
<1>2. q * b = b * q /\ (q + 1) * b = b * q + b /\ b * q \in Int
  BY <1>1
<1>3. f \in q * b..(q + 1) * b - 1
  BY <1>1, <1>2
<1> QED
  BY <1>3 DEF q

\* The steps that panic, spin or return None.
LEMMA OtherSteps ==
  ASSUME TypeOK, IInv,
         \/ BootAllocNone \/ BootAllocAssert \/ AllocNone \/ AllocSpin
         \/ \E f \in Frame : DeallocAssert(f)
         \/ UNCHANGED vars
  PROVE  TypeOK' /\ IInv'
<1> USE DEF boot_vars, bitmap_vars
<1>1. UNCHANGED <<memory_map, boot_vars, bitmap, free_frames, owners>>
  BY DEF BootAllocNone, BootAllocAssert, AllocNone, AllocSpin, DeallocAssert, vars
<1>2. /\ OnlyUsable' = OnlyUsable /\ Exclusive' = Exclusive /\ BootInv' = BootInv
      /\ BootContiguous' = BootContiguous /\ BitmapInv' = BitmapInv
      /\ CountInv' = CountInv /\ total_frames' = total_frames
  BY <1>1, SameFrames
<1>3. TypeOK'
  <2>1. net_count' \in Int /\ to_allocate' = to_allocate
    BY DEF TypeOK, BootAllocNone, BootAllocAssert, AllocNone, AllocSpin, DeallocAssert, vars
  <2>2. /\ result' \in Frame \cup {NoFrame, NoResult}
        /\ allocator' \in {"boot", "bitmap", "spin", "panic"}
    BY DEF TypeOK, BootAllocNone, BootAllocAssert, AllocNone, AllocSpin, DeallocAssert, vars
  <2> QED
    BY <1>1, <2>1, <2>2 DEF TypeOK
<1>4. allocator' \in {"boot", "bitmap"} => allocator' = allocator
  BY DEF BootAllocNone, BootAllocAssert, AllocNone, AllocSpin, DeallocAssert, vars
<1>5. NoSpin'
  <2>1. CASE AllocSpin
    <3> SUFFICES ASSUME BootContiguous,
                        2 * Cardinality(memory_map) - allocated_count >= total_frames
                 PROVE  FALSE
      BY <1>1, <1>2 DEF NoSpin
    <3>1. CountInv /\ free_frames # total_frames /\ clear = {}
      BY <2>1 DEF AllocSpin, IInv
    <3>2. Cardinality(clear) = 0
      BY <3>1, FS_EmptySet
    <3>3. free_frames = Cardinality(clear) + Cardinality(memory_map)
          /\ free_frames >= total_frames
      BY <3>1 DEF CountInv
    <3>4. /\ total_frames \in Nat /\ Cardinality(memory_map) \in Nat
          /\ Cardinality(memory_map) <= total_frames
      BY BitmapFacts
    <3> QED
      BY <3>1, <3>2, <3>3, <3>4
  <2>2. CASE ~AllocSpin
    <3>1. allocator' = "spin" => allocator = "spin"
      BY <2>2 DEF BootAllocNone, BootAllocAssert, AllocNone, DeallocAssert, vars
    <3> QED
      BY <1>1, <1>2, <3>1 DEF IInv, NoSpin
  <2> QED
    BY <2>1, <2>2
<1>6. NoFalseDoubleFree'
  <2>1. CASE \E f \in Frame : DeallocAssert(f)
    <3> SUFFICES ASSUME BootContiguous PROVE FALSE
      BY <1>2 DEF NoFalseDoubleFree
    <3>1. PICK f \in Frame : DeallocAssert(f)
      BY <2>1
    <3>2. f \in bitmap
      BY <3>1 DEF DeallocAssert, IInv, BitmapInv
    <3>3. f \in clear
      <4>1. f \in Nat /\ BITMAP_ENTRY_SIZE \in Nat \ {0}
        BY FrameAssumption DEF Frame
      <4>2. f \in (f \div BITMAP_ENTRY_SIZE) * BITMAP_ENTRY_SIZE..
                    ((f \div BITMAP_ENTRY_SIZE) + 1) * BITMAP_ENTRY_SIZE - 1
        BY <4>1, OwnWord
      <4> QED
        BY <3>1, <4>2 DEF DeallocAssert, WordIsZero
    <3> QED
      BY <3>2, <3>3 DEF clear
  <2>2. CASE BootAllocAssert
    BY <1>1, <2>2 DEF BootAllocAssert, NoFalseDoubleFree
  <2>3. CASE BootAllocNone \/ AllocNone \/ AllocSpin \/ UNCHANGED vars
    <3>1. allocator' = "panic" => allocator = "panic"
      BY <2>3 DEF BootAllocNone, AllocNone, AllocSpin, vars
    <3> QED
      BY <1>1, <1>2, <3>1 DEF IInv, NoFalseDoubleFree
  <2> QED
    BY <2>1, <2>2, <2>3
<1> QED
  BY <1>2, <1>3, <1>4, <1>5, <1>6 DEF IInv

-----------------------------------------------------------------------------
(* The theorems                                                            *)

\* TypeOK and IInv hold initially and every operation preserves them.
LEMMA Invariant == Spec => [](TypeOK /\ IInv)
<1>1. Init => TypeOK /\ IInv
  <2> SUFFICES ASSUME Init PROVE TypeOK /\ IInv
    OBVIOUS
  <2>1. TypeOK
    BY FrameAssumption DEF Init, TypeOK
  <2>2. OnlyUsable /\ Exclusive /\ NoSpin /\ NoFalseDoubleFree
    BY DEF Init, OnlyUsable, Exclusive, NoSpin, NoFalseDoubleFree
  <2>3. BootInv
    <3>1. \A g \in memory_map : Rank(g) \in Nat
      BY RankBound DEF Init
    <3>2. Cardinality(memory_map) \in Nat /\ memory_map \subseteq Frame
      BY MapFinite DEF Init
    <3> QED
      BY <3>1, <3>2 DEF Init, BootInv
  <2> QED
    BY <2>1, <2>2, <2>3 DEF IInv, Init
<1>2. TypeOK /\ IInv /\ [Next]_vars => (TypeOK /\ IInv)'
  BY BootAllocStep, SwitchStep, AllocStep, DeallocStep, OtherSteps DEF Next
<1> QED
  BY <1>1, <1>2, PTL DEF Spec

\* The allocator's variables keep their types; free_frames, a usize, never
\* underflows and mark_frame_used never leaves the bitmap.
THEOREM TypeCorrect == Spec => []TypeOK
BY Invariant, PTL

\* Only usable memory is handed out, by either allocator and for every memory map.
THEOREM UsableFrames == Spec => []OnlyUsable
<1>1. TypeOK /\ IInv => OnlyUsable
  BY DEF IInv
<1> QED
  BY <1>1, Invariant, PTL

\* No frame has two holders, when the boot frames are contiguous.
THEOREM ExclusiveFrames == Spec => []Exclusive
<1>1. TypeOK /\ IInv => Exclusive
  BY DEF IInv
<1> QED
  BY <1>1, Invariant, PTL

\* The bound under which allocate_frame's circular scan always ends, for every
\* memory map, in spite of the doubly counted free_frames.
THEOREM ScanEnds == Spec => []NoSpin
<1>1. TypeOK /\ IInv => NoSpin
  BY DEF IInv
<1> QED
  BY <1>1, Invariant, PTL

\* clear_bit's assertion never stops a caller that frees a frame it holds.
THEOREM HolderMayFree == Spec => []NoFalseDoubleFree
<1>1. TypeOK /\ IInv => NoFalseDoubleFree
  BY DEF IInv
<1> QED
  BY <1>1, Invariant, PTL
-----------------------------------------------------------------------------
(* The counters                                                            *)

\* The counters and what the callers hold, until the kernel panics.
CountersExact ==
  /\ IsFiniteSet(Holdings)
  /\ allocator # "panic" => Cardinality(Holdings) = allocated_count + net_count

\* The pairs of Holdings.
LEMMA HoldingsFacts ==
  ASSUME NEW x
  PROVE  x \in Holdings <=> \E f \in Frame : \E k \in 1..owners[f] : x = <<f, k>>
  BY DEF Holdings

\* A frame handed out is held once more (alloc_frame).
LEMMA HoldingsGrow ==
  ASSUME TypeOK, IsFiniteSet(Holdings), NEW f \in Frame, HandOut(f)
  PROVE  IsFiniteSet(Holdings') /\ Cardinality(Holdings') = Cardinality(Holdings) + 1
<1>1. owners \in [Frame -> Nat] /\ owners' = [owners EXCEPT ![f] = @ + 1]
  BY Zenon DEF TypeOK, HandOut
<1>2. PICK n : n = owners[f]
  OBVIOUS
<1>3. n \in Nat /\ owners'[f] = n + 1 /\ \A g \in Frame \ {f} : owners'[g] = owners[g]
  BY <1>1, <1>2
<1>4. \A k : k \in 1..(n + 1) <=> k \in 1..n \/ k = n + 1
  BY <1>3
<1>5. ASSUME NEW x
      PROVE  x \in Holdings' <=> x \in Holdings \/ x = <<f, n + 1>>
  <2>1. x \in Holdings' <=> \E g \in Frame : \E k \in 1..owners'[g] : x = <<g, k>>
    BY DEF Holdings
  <2>2. ASSUME x \in Holdings' PROVE x \in Holdings \/ x = <<f, n + 1>>
    <3>1. PICK g \in Frame : \E k \in 1..owners'[g] : x = <<g, k>>
      BY <2>1, <2>2
    <3>2. PICK k \in 1..owners'[g] : x = <<g, k>>
      BY <3>1
    <3>3. CASE g = f
      BY <1>2, <1>3, <1>4, <3>2, <3>3, HoldingsFacts, Zenon
    <3>4. CASE g # f
      BY <1>3, <3>2, <3>4, HoldingsFacts
    <3> QED
      BY <3>3, <3>4
  <2>3. ASSUME x \in Holdings PROVE x \in Holdings'
    <3>1. PICK g \in Frame : \E k \in 1..owners[g] : x = <<g, k>>
      BY <2>3, HoldingsFacts
    <3>2. PICK k \in 1..owners[g] : x = <<g, k>>
      BY <3>1
    <3>3. CASE g = f
      BY <1>2, <1>3, <1>4, <2>1, <3>2, <3>3, Zenon
    <3>4. CASE g # f
      BY <1>3, <2>1, <3>2, <3>4
    <3> QED
      BY <3>3, <3>4
  <2>4. <<f, n + 1>> \in Holdings'
    <3>1. n + 1 \in 1..owners'[f]
      BY <1>3
    <3> QED
      BY <3>1 DEF Holdings
  <2> QED
    BY <2>2, <2>3, <2>4
<1>6. Holdings' = Holdings \cup {<<f, n + 1>>}
  BY <1>5
<1>7. <<f, n + 1>> \notin Holdings
  <2>1. n + 1 \notin 1..n
    BY <1>3
  <2>2. ASSUME NEW g \in Frame, NEW k \in 1..owners[g], <<f, n + 1>> = <<g, k>> PROVE FALSE
    BY <2>1, <2>2, <1>2
  <2> QED
    BY <2>2, HoldingsFacts
<1> QED
  BY <1>6, <1>7, FS_AddElement

\* A frame given back is held once less (dealloc_frame).
LEMMA HoldingsShrink ==
  ASSUME TypeOK, IsFiniteSet(Holdings), NEW f \in Frame, owners[f] > 0,
         owners' = [owners EXCEPT ![f] = @ - 1]
  PROVE  IsFiniteSet(Holdings') /\ Cardinality(Holdings') = Cardinality(Holdings) - 1
<1>1. owners \in [Frame -> Nat]
  BY Zenon DEF TypeOK
<1>2. PICK n : n = owners[f]
  OBVIOUS
<1>3. n \in Nat \ {0} /\ owners'[f] = n - 1 /\ \A g \in Frame \ {f} : owners'[g] = owners[g]
  BY <1>1, <1>2
<1>4. \A k : k \in 1..(n - 1) <=> k \in 1..n /\ k # n
  BY <1>3
<1>5. ASSUME NEW x
      PROVE  x \in Holdings' <=> x \in Holdings /\ x # <<f, n>>
  <2>1. x \in Holdings' <=> \E g \in Frame : \E k \in 1..owners'[g] : x = <<g, k>>
    BY DEF Holdings
  <2>2. ASSUME x \in Holdings' PROVE x \in Holdings /\ x # <<f, n>>
    <3>1. PICK g \in Frame : \E k \in 1..owners'[g] : x = <<g, k>>
      BY <2>1, <2>2
    <3>2. PICK k \in 1..owners'[g] : x = <<g, k>>
      BY <3>1
    <3>3. CASE g = f
      <4>1. k \in 1..owners[f] /\ k # n
        BY <1>2, <1>3, <1>4, <3>2, <3>3, Zenon
      <4> QED
        BY <3>2, <3>3, <4>1, HoldingsFacts
    <3>4. CASE g # f
      BY <1>3, <3>2, <3>4, HoldingsFacts
    <3> QED
      BY <3>3, <3>4
  <2>3. ASSUME x \in Holdings, x # <<f, n>> PROVE x \in Holdings'
    <3>1. PICK g \in Frame : \E k \in 1..owners[g] : x = <<g, k>>
      BY <2>3, HoldingsFacts
    <3>2. PICK k \in 1..owners[g] : x = <<g, k>>
      BY <3>1
    <3>3. CASE g = f
      BY <1>2, <1>3, <1>4, <2>1, <2>3, <3>2, <3>3, Zenon
    <3>4. CASE g # f
      BY <1>3, <2>1, <3>2, <3>4
    <3> QED
      BY <3>3, <3>4
  <2> QED
    BY <2>2, <2>3
<1>6. Holdings' = Holdings \ {<<f, n>>}
  BY <1>5
<1>7. <<f, n>> \in Holdings
  BY <1>2, <1>3, HoldingsFacts
<1> QED
  BY Zenon, <1>6, <1>7, FS_RemoveElement

\* Every operation moves the counters with what the callers hold.
LEMMA CountersStep == TypeOK /\ CountersExact /\ [Next]_vars => CountersExact'
<1> SUFFICES ASSUME TypeOK, CountersExact, [Next]_vars PROVE CountersExact'
  OBVIOUS
<1>1. /\ allocated_count \in Int /\ net_count \in Int
  BY DEF TypeOK
<1>2. IsFiniteSet(Holdings) /\ Cardinality(Holdings) \in Nat
  BY FS_CardinalityType DEF CountersExact
<1>3. ASSUME NEW f \in Frame, BootAlloc(f) \/ Alloc(f) PROVE CountersExact'
  <2>1. /\ HandOut(f) /\ allocator # "panic" /\ allocator' = allocator
        /\ allocated_count' + net_count' = allocated_count + net_count + 1
    BY <1>1, <1>3 DEF BootAlloc, Alloc, bitmap_vars, boot_vars
  <2>2. IsFiniteSet(Holdings') /\ Cardinality(Holdings') = Cardinality(Holdings) + 1
    BY <1>2, <2>1, HoldingsGrow
  <2> QED
    BY <2>1, <2>2 DEF CountersExact
<1>4. ASSUME NEW f \in Frame, Dealloc(f) PROVE CountersExact'
  <2>1. /\ owners[f] > 0 /\ owners' = [owners EXCEPT ![f] = @ - 1]
        /\ allocator # "panic" /\ allocator' = allocator
        /\ allocated_count' = allocated_count /\ net_count' = net_count - 1
    BY <1>4 DEF Dealloc, boot_vars
  <2>2. IsFiniteSet(Holdings') /\ Cardinality(Holdings') = Cardinality(Holdings) - 1
    BY Zenon, <1>2, <2>1, HoldingsShrink
  <2> QED
    BY <1>1, <2>1, <2>2 DEF CountersExact
<1>5. ASSUME owners' = owners PROVE Holdings' = Holdings
  BY <1>5 DEF Holdings
<1>6. CASE \/ BootAllocNone \/ BootAllocAssert \/ SwitchAllocator \/ AllocNone \/ AllocSpin
           \/ \E f \in Frame : DeallocAssert(f)
           \/ UNCHANGED vars
  <2>1. owners' = owners
    BY <1>6, Zenon DEF BootAllocNone, BootAllocAssert, SwitchAllocator, AllocNone, AllocSpin,
       DeallocAssert, vars
  <2>2. \/ allocator' = "panic"
        \/ /\ allocator # "panic" \/ allocator' = allocator
           /\ allocated_count' = allocated_count /\ net_count' = net_count
    BY <1>6 DEF BootAllocNone, BootAllocAssert, SwitchAllocator, AllocNone, AllocSpin,
       DeallocAssert, bitmap_vars, boot_vars, vars
  <2> QED
    BY <1>5, <2>1, <2>2 DEF CountersExact
<1> QED
  BY <1>3, <1>4, <1>6, Zenon DEF Next

\* The allocation and free counters account for every frame that callers hold, for
\* any memory map and any sequence of operations (allocate_count, free_count).
THEOREM NoFrameLeaks == Spec => []LeakAccounting
<1>1. Init => CountersExact
  <2> SUFFICES ASSUME Init PROVE CountersExact
    OBVIOUS
  <2>1. \A f \in Frame : 1..owners[f] = {}
    BY DEF Init
  <2>2. Holdings = {}
    BY <2>1 DEF Holdings
  <2>3. allocated_count + net_count = 0
    BY DEF Init
  <2> QED
    BY <2>2, <2>3, FS_EmptySet DEF CountersExact
<1>2. CountersExact => LeakAccounting
  BY DEF CountersExact, LeakAccounting
<1> QED
  BY <1>1, <1>2, TypeCorrect, CountersStep, PTL DEF Spec
=============================================================================
