--------------------------- MODULE MCFrameAllocator ---------------------------
(***************************************************************************)
(* Memory maps for TLC: frame 0 is reserved on a PC.                       *)
(***************************************************************************)
EXTENDS FrameAllocator

\* Every memory map on frames 1 to 6.
AllMaps == (SUBSET (1..6)) \ {{}}

\* The legacy hole: a low usable region, then reserved frames, then the rest.
LegacyHole == {{1, 2, 4, 5, 6}}

\* One region above the reserved low frame.
OneRegion == {1..6}
=============================================================================
