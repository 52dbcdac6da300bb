----------------------------- MODULE MCProcesses -----------------------------
(***************************************************************************)
(* A small instance of Processes for TLC, and the loader that fills the    *)
(* address space of a process, evaluated on small executables.             *)
(***************************************************************************)
EXTENDS Processes, Loader

\* Two segments with pages of PAGE_SIZE bytes, at every pair of pages, and every
\* size up to MaxSize; the file's bytes are all different and not zero.
MaxSize == 5
MCSegment ==
  [p_type : {"PT_LOAD"}, p_vaddr : {PAGE_SIZE * k : k \in 0..3}, p_memsz : 1..MaxSize,
   p_filesz : 0..MaxSize, p_offset : {1, 4}, p_flags : {{"PF_X"}}]
MCElf == [i \in 0..(2 * MaxSize) |-> i + 1]
MCOld == [page \in 0..(STACK_START + STACK_SIZE) |-> [i \in Index |-> 255]]

\* load_elf against its reference, where no page is mapped twice.
ASSUME LoaderSmall ==
  \A first, second \in MCSegment :
    LET phs == <<first, second>>
    IN  MapsOnce(phs) =>
          \A k \in Segments(phs) : SegmentLoaded(MCElf, phs[k], load_elf(MCElf, phs, MCOld))
=============================================================================
