------------------------------- MODULE Loader -------------------------------
(***************************************************************************)
(* load_elf (processes/loader.rs): the address space of a new process from *)
(* the program headers of its executable, page by page.  An address is a   *)
(* natural number, a page its index.  The bytes of a frame before it is    *)
(* loaded are whatever its last owner left there.                          *)
(***************************************************************************)
EXTENDS Integers, Sequences

CONSTANTS PAGE_SIZE, STACK_START, STACK_SIZE

ASSUME PageAssumption == PAGE_SIZE \in Nat \ {0}
ASSUME StackAssumption == STACK_START \in Nat /\ STACK_SIZE \in Nat

Byte == 0..255
Index == 0..(PAGE_SIZE - 1)
PageBytes == [Index -> Byte]

\* Program headers; a loadable segment of size 0 makes mem_size - 1 underflow.
ProgramHeader ==
  [p_type : {"PT_LOAD", "other"}, p_vaddr : Nat, p_memsz : Nat \ {0}, p_filesz : Nat,
   p_offset : Nat, p_flags : SUBSET {"PF_W", "PF_X"}]

containing_address(a) == a \div PAGE_SIZE
start_address(page) == page * PAGE_SIZE
saturating_sub(a, b) == IF a > b THEN a - b ELSE 0
min(a, b) == IF a < b THEN a ELSE b

start_page(ph) == containing_address(ph.p_vaddr)
end_page(ph) == containing_address(ph.p_vaddr + (ph.p_memsz - 1))
Pages(ph) == start_page(ph)..end_page(ph)

page_offset(ph, page) == saturating_sub(start_address(page), start_address(start_page(ph)))
page_remaining(ph, page) == PAGE_SIZE - (page_offset(ph, page) % PAGE_SIZE)
bss_start(ph, page) == saturating_sub(ph.p_filesz, page_offset(ph, page))
to_copy(ph, page) == min(bss_start(ph, page), page_remaining(ph, page))

\* copy_nonoverlapping: the slice of the file goes to the start of the frame.
Copied(elf_bytes, ph, page, frame) ==
  [i \in Index |-> IF i < to_copy(ph, page)
                   THEN elf_bytes[ph.p_offset + page_offset(ph, page) + i] ELSE frame[i]]

\* write_bytes: the rest of the page, from the first byte behind the file's.
Zeroed(ph, page, frame) ==
  [i \in Index |-> IF bss_start(ph, page) <= i /\ i < page_remaining(ph, page)
                   THEN 0 ELSE frame[i]]

LoadedFrame(elf_bytes, ph, page, frame) ==
  Zeroed(ph, page, Copied(elf_bytes, ph, page, frame))

Flags(ph) ==
  {"PRESENT", "USER_ACCESSIBLE"}
    \cup (IF "PF_W" \in ph.p_flags THEN {"WRITABLE"} ELSE {})
    \cup (IF "PF_X" \notin ph.p_flags THEN {"NO_EXECUTE"} ELSE {})

StackPages == containing_address(STACK_START)..containing_address(STACK_START + STACK_SIZE)

Segments(phs) == {k \in DOMAIN phs : phs[k].p_type = "PT_LOAD"}

\* No call of create_mapping finds its page mapped ("Mapping failed").
MapsOnce(phs) ==
  \A k \in Segments(phs) :
    /\ Pages(phs[k]) \cap StackPages = {}
    /\ \A j \in Segments(phs) : j # k => Pages(phs[j]) \cap Pages(phs[k]) = {}

\* The address space, from the frames that create_mapping hands out; their
\* contents are old.
load_elf(elf_bytes, phs, old) ==
  [page \in UNION {Pages(phs[k]) : k \in Segments(phs)} \cup StackPages |->
     IF page \in StackPages
     THEN [bytes |-> old[page], flags |-> {"PRESENT", "WRITABLE", "USER_ACCESSIBLE"}]
     ELSE LET ph == phs[CHOOSE k \in Segments(phs) : page \in Pages(phs[k])]
          IN  [bytes |-> LoadedFrame(elf_bytes, ph, page, old[page]), flags |-> Flags(ph)]]

\* The byte at an address of an address space.
ByteAt(space, a) == space[containing_address(a)].bytes[a % PAGE_SIZE]

-----------------------------------------------------------------------------
\* The bytes of the segment in memory are those of the file, followed by zeros.
SegmentLoaded(elf_bytes, ph, space) ==
  \A j \in 0..(ph.p_memsz - 1) :
    ByteAt(space, ph.p_vaddr + j)
      = IF j < ph.p_filesz THEN elf_bytes[ph.p_offset + j] ELSE 0
=============================================================================
