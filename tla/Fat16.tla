-------------------------------- MODULE Fat16 --------------------------------
(***************************************************************************)
(* The FAT16 file system on a block device that may fail or lose power     *)
(* between any two block writes.                                           *)
(*                                                                         *)
(* An operation reads what it needs, which fixes the list "todo" of block  *)
(* writes it goes on to make (the file system is &mut self, nothing else   *)
(* writes), and DoWrite performs them one by one.  A block write that      *)
(* fails ends the operation with an error; a crash ends it and mounts the  *)
(* file system again.                                                      *)
(*                                                                         *)
(* A name is a member of Name; Stored[n] is what of it fits an 8.3 entry.  *)
(* A cluster is Slots units long: a unit is the place of one directory     *)
(* entry, or as much file data.  The first EntriesPerSector slots of a     *)
(* directory are its first sector (after "." and "..").                    *)
(***************************************************************************)
EXTENDS Integers, Sequences, FiniteSetsExt

CONSTANTS total_blocks,      \* of the device
          Name, Stored,
          Slots, EntriesPerSector,
          MaxFds,            \* bound: descriptors
          MaxPosition,       \* bound: units of a file
          MaxOps             \* bound: operations that change the disk

-----------------------------------------------------------------------------
(* The geometry that format writes and new reads                           *)

SECTOR_SIZE == 512
sectors_per_cluster == 4
cluster_size == sectors_per_cluster * SECTOR_SIZE
root_dir_sectors == 32
div_ceil(a, b) == (a + b - 1) \div b

sectors_per_fat ==
  div_ceil(((total_blocks - 1 - root_dir_sectors) \div sectors_per_cluster) * 2, SECTOR_SIZE)
fat_start == 1
root_dir_start == fat_start + 2 * sectors_per_fat
data_start == root_dir_start + root_dir_sectors

\* total_sectors_16 is total_blocks, of a device of fewer than 65536 blocks.
ASSUME DeviceAssumption ==
  /\ total_blocks \in Nat /\ 36 <= total_blocks /\ total_blocks < 65536
  /\ data_start <= total_blocks

total_clusters == (total_blocks - data_start) \div sectors_per_cluster
Cluster == 2..total_clusters - 1
cluster_to_sector(c) == data_start + (c - 2) * sectors_per_cluster
fat_sector(c) == fat_start + (c * 2) \div SECTOR_SIZE

\* The clusters Fat16File::allocate_cluster looks at.
FileCluster == {c \in Cluster : c < data_start \div cluster_size}

-----------------------------------------------------------------------------

Root == 0
Dir == {Root} \cup Cluster
Slot == 1..Slots
END_OF_CHAIN == 65535
FREE == 0

ASSUME NameAssumption ==
  Stored \in [Name -> Name] /\ {"", "DELETED", "data"} \cap Name = {}
ASSUME BoundAssumption ==
  /\ Slots \in Nat \ {0} /\ EntriesPerSector \in 1..Slots
  /\ MaxFds \in Nat /\ MaxPosition \in Nat /\ MaxOps \in Nat

VARIABLES fat,        \* the first FAT
          fat2,       \* its copy
          content,    \* of the root directory and every cluster, by slot
          fd_table, reuse_fds,
          todo,       \* block writes the current operation still makes
          op,         \* the paths of the current operation
          torn,       \* a rename was cut off between its two writes
          result,     \* "NoSpace" after a write_file that returned it
          ops         \* bound: operations begun

vars == <<fat, fat2, content, fd_table, reuse_fds, todo, op, torn, result, ops>>
disk == <<fat, fat2, content>>
descriptors == <<fd_table, reuse_fds>>

Unused == [name |-> "", is_directory |-> FALSE, start_cluster |-> 0, file_size |-> 0]
Deleted == [Unused EXCEPT !.name = "DELETED"]
Data == [Unused EXCEPT !.name = "data"]
DirEntry83 ==
  [name : Name, is_directory : BOOLEAN, start_cluster : Cluster, file_size : 0..MaxPosition]
FatEntry == Cluster \cup {FREE, END_OF_CHAIN}
Fat16File ==
  [valid : BOOLEAN, current_cluster : Cluster \cup {0}, position : 0..MaxPosition,
   size : 0..MaxPosition, dir : Dir, slot : Slot \cup {0}]
Closed == [valid |-> FALSE, current_cluster |-> 0, position |-> 0, size |-> 0,
           dir |-> Root, slot |-> 0]
Path == UNION {[1..n -> Name] : n \in 1..2}
Leaf(path) == path[Len(path)]

\* Path q is p, or a path below it.
Within(p, q) == Len(p) <= Len(q) /\ SubSeq(q, 1, Len(p)) = p

BlockWrite ==
  [do : {"fat"}, cluster : Cluster, entry : FatEntry] \cup [do : {"mirror"}]
  \cup [do : {"init", "free"}, cluster : Cluster]
  \cup [do : {"entry"}, dir : Dir, slot : Slot, entry : DirEntry83 \cup {Deleted}]
  \cup [do : {"data"}, fd : 1..MaxFds, left : 1..MaxPosition]
  \cup [do : {"advance", "size"}, fd : 1..MaxFds]

TypeOK ==
  /\ fat \in [Cluster -> FatEntry]
  /\ fat2 \in [Cluster -> FatEntry]
  /\ content \in [Dir -> [Slot -> DirEntry83 \cup {Unused, Deleted, Data}]]
  /\ fd_table \in Seq(Fat16File) /\ Len(fd_table) <= MaxFds
  /\ reuse_fds \subseteq DOMAIN fd_table
  /\ todo \in Seq(BlockWrite)
  /\ op \subseteq Path
  /\ torn \in BOOLEAN
  /\ result \in {"", "NoSpace"}
  /\ ops \in 0..MaxOps

\* format.
Init ==
  /\ fat = [c \in Cluster |-> FREE]
  /\ fat2 = fat
  /\ content = [d \in Dir |-> [s \in Slot |-> Unused]]
  /\ fd_table = <<>> /\ reuse_fds = {}
  /\ todo = <<>> /\ op = {} /\ torn = FALSE /\ result = "" /\ ops = 0

-----------------------------------------------------------------------------
(* Looking up names                                                        *)

NotFound == <<>>
is_live(e) == e.name \in Name
Sector(s) == {t \in Slot : (t - 1) \div EntriesPerSector = (s - 1) \div EntriesPerSector}

\* The first entry of that name; a sector is read up to its first unused entry.
find_entry_in_dir(d, name) ==
  LET found == {s \in Slot : /\ content[d][s].name = name
                             /\ \A t \in Sector(s) : t < s => content[d][t] # Unused}
  IN  IF found = {} THEN NotFound ELSE <<d, Min(found)>>

At(pos) == content[pos[1]][pos[2]]

\* The place of the entry that a path names.
find_entry(path) ==
  IF Len(path) = 1 THEN find_entry_in_dir(Root, path[1])
  ELSE LET parent == find_entry_in_dir(Root, path[1])
       IN  IF parent = NotFound \/ ~At(parent).is_directory THEN NotFound
           ELSE find_entry_in_dir(At(parent).start_cluster, path[2])

\* Where a new entry goes: the parent may be a file just as well.  The set is
\* empty when there is no parent.
parent_cluster(path) ==
  IF Len(path) = 1 THEN {Root}
  ELSE LET parent == find_entry_in_dir(Root, path[1])
       IN  IF parent = NotFound THEN {} ELSE {At(parent).start_cluster}

\* Mutant: a slot in use counts as usable.
write_dir_entry_first(d) == {Min(Slot)}

\* The slot of d that write_dir_entry takes: none when the directory is full.
write_dir_entry(d) ==
  LET usable == {s \in Slot : content[d][s] \in {Unused, Deleted}}
  IN  IF usable = {} THEN {} ELSE {Min(usable)}

\* Only the first sector is looked at.
is_directory_empty(c) ==
  \A s \in Sector(1) : is_live(content[c][s]) =>
    \E t \in Sector(1) : t < s /\ content[c][t] = Unused

free_clusters == {c \in Cluster : fat[c] = FREE}

-----------------------------------------------------------------------------
(* Operations that change the disk.  At most one is going on.              *)

Begin(writes, paths) ==
  /\ todo = <<>> /\ ~torn
  /\ ops < MaxOps
  /\ todo' = writes
  /\ op' = paths
  /\ ops' = ops + 1
  /\ result' = ""
  /\ UNCHANGED <<disk, torn>>

\* The block writes an operation is made of.
FatWrite(c, v) == [do |-> "fat", cluster |-> c, entry |-> v]
Mirror == [do |-> "mirror"]
EntryWrite(d, s, e) == [do |-> "entry", dir |-> d, slot |-> s, entry |-> e]
InitDirectory(c) == [do |-> "init", cluster |-> c]
FreeChain(c) == [do |-> "free", cluster |-> c]
DataWrite(fd, n) == [do |-> "data", fd |-> fd, left |-> n]
Advance(fd) == [do |-> "advance", fd |-> fd]
SizeWrite(fd) == [do |-> "size", fd |-> fd]

NewEntry(name, is_directory, c) ==
  [name |-> Stored[name], is_directory |-> is_directory, start_cluster |-> c, file_size |-> 0]

\* Mutant: the cluster is not marked in the FAT.
AllocateUnmarked == <<Mirror>>

\* allocate_cluster: the first free cluster, in both FATs.
allocate_cluster == Min(free_clusters)
AllocateWrites == <<FatWrite(allocate_cluster, END_OF_CHAIN), Mirror>>

\* The entry in the parent, if there is a parent and a slot in it: without them
\* the operation fails with the cluster allocated.
EntryWrites(path, e) ==
  IF \E d \in parent_cluster(path) : write_dir_entry(d) # {}
  THEN LET d == CHOOSE x \in parent_cluster(path) : TRUE
       IN  <<EntryWrite(d, Min(write_dir_entry(d)), e)>>
  ELSE <<>>

CreateFile(path) ==
  /\ find_entry(path) = NotFound
  /\ free_clusters # {}
  /\ Begin(AllocateWrites \o EntryWrites(path, NewEntry(Leaf(path), FALSE, allocate_cluster)),
           {path})
  /\ UNCHANGED descriptors

\* A directory's name has to fit.
CreateDir(path) ==
  /\ Stored[Leaf(path)] = Leaf(path)
  /\ find_entry(path) = NotFound
  /\ free_clusters # {}
  /\ Begin(AllocateWrites
             \o (IF parent_cluster(path) = {} THEN <<>> ELSE <<InitDirectory(allocate_cluster)>>)
             \o EntryWrites(path, NewEntry(Leaf(path), TRUE, allocate_cluster)),
           {path})
  /\ UNCHANGED descriptors

\* Usage: callers close a file before they remove or rename it.
IsOpen(pos) ==
  \E i \in DOMAIN fd_table : fd_table[i].valid /\ <<fd_table[i].dir, fd_table[i].slot>> = pos
HasOpen(c) == \E i \in DOMAIN fd_table : fd_table[i].valid /\ fd_table[i].dir = c

\* Mutant: the chain is freed while the entry still names it.
remove_entry_last(pos) ==
  <<FatWrite(At(pos).start_cluster, FREE), Mirror, EntryWrite(pos[1], pos[2], Deleted)>>

\* remove_entry: the entry is marked deleted, then its chain is freed.
remove_entry(pos) == <<EntryWrite(pos[1], pos[2], Deleted), FreeChain(At(pos).start_cluster)>>

RemoveFile(path) ==
  LET pos == find_entry(path)
  IN  /\ pos # NotFound /\ ~At(pos).is_directory /\ ~IsOpen(pos)
      /\ Begin(remove_entry(pos), {path})
      /\ UNCHANGED descriptors

RemoveDir(path) ==
  LET pos == find_entry(path)
  IN  /\ pos # NotFound /\ At(pos).is_directory
      /\ is_directory_empty(At(pos).start_cluster) /\ ~HasOpen(At(pos).start_cluster)
      /\ Begin(remove_entry(pos), {path})
      /\ UNCHANGED descriptors

\* The new entry is written, then the old one is marked deleted.
Rename(from, to) ==
  LET src == find_entry(from)
  IN  /\ src # NotFound /\ ~IsOpen(src)
      /\ find_entry(to) = NotFound
      /\ \E d \in parent_cluster(to) : \E s \in write_dir_entry(d) :
           Begin(<<EntryWrite(d, s, [At(src) EXCEPT !.name = Stored[Leaf(to)]]),
                   EntryWrite(src[1], src[2], Deleted)>>, {from, to})
      /\ UNCHANGED descriptors

WriteFile(fd, n) ==
  /\ fd \in DOMAIN fd_table /\ fd_table[fd].valid
  /\ fd_table[fd].position + n <= MaxPosition
  /\ Begin(<<DataWrite(fd, n)>>, {})
  /\ UNCHANGED descriptors

-----------------------------------------------------------------------------
(* The block writes                                                        *)

\* One turn of write_file's loop: the part of the data that fits the current
\* cluster; when that fills it, the next cluster of the chain or a new one.  No
\* new one is to be had: NoSpace, and the entry is not updated.
WriteChunk(fd, left) ==
  LET f == fd_table[fd]
      offset == f.position % Slots
      chunk == Min({Slots - offset, left})
      full == offset + chunk = Slots
      rest == IF chunk < left THEN <<DataWrite(fd, left - chunk)>> ELSE <<SizeWrite(fd)>>
      free == {c \in FileCluster : fat[c] = FREE}
      grow == <<FatWrite(Min(free), END_OF_CHAIN), FatWrite(f.current_cluster, Min(free))>>
      nospace == full /\ fat[f.current_cluster] = END_OF_CHAIN /\ free = {}
  IN  /\ content' = [content EXCEPT ![f.current_cluster] =
                      [s \in Slot |-> IF s \in offset + 1..offset + chunk THEN Data ELSE @[s]]]
      /\ fd_table' = [fd_table EXCEPT ![fd].position = @ + chunk,
                                      ![fd].size = Max({@, f.position + chunk})]
      /\ todo' = IF nospace THEN <<>>
                 ELSE (IF ~full THEN <<>>
                       ELSE IF fat[f.current_cluster] # END_OF_CHAIN THEN <<Advance(fd)>>
                       ELSE grow \o <<Advance(fd)>>) \o rest
      /\ result' = IF nospace THEN "NoSpace" ELSE ""
      /\ UNCHANGED <<fat, fat2>>

\* The first FAT, and for Fat16's own writes its copy: the whole sector goes there.
WriteFat(w) ==
  /\ \/ w.do = "fat" /\ fat' = [fat EXCEPT ![w.cluster] = w.entry] /\ fat2' = fat2
     \/ w.do = "mirror" /\ fat2' = fat /\ fat' = fat
  /\ todo' = Tail(todo)
  /\ UNCHANGED <<content, fd_table, result>>

\* remove_entry's loop: free a cluster, go on with the next unless it was the last.
FreeCluster(c) ==
  /\ fat' = [fat EXCEPT ![c] = FREE]
  /\ todo' = <<Mirror>> \o (IF fat[c] = END_OF_CHAIN THEN <<>> ELSE <<FreeChain(fat[c])>>)
  /\ UNCHANGED <<fat2, content, fd_table, result>>

WriteDirectory(w) ==
  /\ content' = IF w.do = "entry" THEN [content EXCEPT ![w.dir][w.slot] = w.entry]
                ELSE [content EXCEPT ![w.cluster] = [s \in Slot |-> Unused]]
  /\ todo' = Tail(todo)
  /\ UNCHANGED <<fat, fat2, fd_table, result>>

\* update_directory_entry.
UpdateSize(f) ==
  /\ content' = [content EXCEPT ![f.dir][f.slot].file_size = f.size]
  /\ todo' = Tail(todo)
  /\ UNCHANGED <<fat, fat2, fd_table, result>>

NextCluster(fd) ==
  /\ fd_table' = [fd_table EXCEPT ![fd].current_cluster = fat[@]]
  /\ todo' = Tail(todo)
  /\ UNCHANGED <<disk, result>>

DoWrite ==
  /\ todo # <<>>
  /\ LET w == Head(todo)
     IN  \/ w.do \in {"fat", "mirror"} /\ WriteFat(w)
         \/ w.do = "free" /\ FreeCluster(w.cluster)
         \/ w.do \in {"entry", "init"} /\ WriteDirectory(w)
         \/ w.do = "data" /\ WriteChunk(w.fd, w.left)
         \/ w.do \in {"advance", "size"} /\
              IF w.do = "size" THEN UpdateSize(fd_table[w.fd]) ELSE NextCluster(w.fd)
  /\ UNCHANGED <<reuse_fds, op, torn, ops>>

\* A rename has written its second entry and not removed the first.
InRename == \E p, q \in op : p # q
Tearing == InRename /\ Len(todo) = 1

\* The device reports an error, which ? passes on.
IoError ==
  /\ todo # <<>>
  /\ todo' = <<>>
  /\ torn' = (torn \/ Tearing)
  /\ UNCHANGED <<disk, descriptors, op, result, ops>>

\* Power is lost; the next boot mounts the device with new.
Crash ==
  /\ fd_table' = <<>> /\ reuse_fds' = {}
  /\ todo' = <<>>
  /\ torn' = (torn \/ Tearing)
  /\ result' = ""
  /\ UNCHANGED <<disk, op, ops>>

-----------------------------------------------------------------------------
(* Operations on descriptors                                               *)

\* Mutant: a reused descriptor keeps the entry position it was closed with.
OpenFileStale(path) ==
  LET pos == find_entry(path)
      file == [valid |-> TRUE, current_cluster |-> At(pos).start_cluster, position |-> 0,
               size |-> At(pos).file_size, dir |-> pos[1], slot |-> pos[2]]
  IN  /\ todo = <<>> /\ ~torn
      /\ pos # NotFound /\ ~At(pos).is_directory
      /\ \/ /\ reuse_fds # {}
            /\ fd_table' = [fd_table EXCEPT ![Max(reuse_fds)] = [file EXCEPT !.slot = 0]]
            /\ reuse_fds' = reuse_fds \ {Max(reuse_fds)}
         \/ /\ reuse_fds = {} /\ Len(fd_table) < MaxFds
            /\ fd_table' = Append(fd_table, file)
            /\ UNCHANGED reuse_fds
      /\ result' = ""
      /\ UNCHANGED <<disk, todo, op, torn, ops>>

OpenFile(path) ==
  LET pos == find_entry(path)
      file == [valid |-> TRUE, current_cluster |-> At(pos).start_cluster, position |-> 0,
               size |-> At(pos).file_size, dir |-> pos[1], slot |-> pos[2]]
  IN  /\ todo = <<>> /\ ~torn
      /\ pos # NotFound /\ ~At(pos).is_directory
      /\ \/ /\ reuse_fds # {}
            /\ fd_table' = [fd_table EXCEPT ![Max(reuse_fds)] = file]
            /\ reuse_fds' = reuse_fds \ {Max(reuse_fds)}
         \/ /\ reuse_fds = {} /\ Len(fd_table) < MaxFds
            /\ fd_table' = Append(fd_table, file)
            /\ UNCHANGED reuse_fds
      /\ result' = ""
      /\ UNCHANGED <<disk, todo, op, torn, ops>>

\* Mutant: the number is made available and the descriptor stays valid.
CloseFileValid(fd) ==
  /\ todo = <<>>
  /\ fd \in DOMAIN fd_table /\ fd_table[fd].valid
  /\ reuse_fds' = reuse_fds \cup {fd}
  /\ result' = ""
  /\ UNCHANGED <<disk, fd_table, todo, op, torn, ops>>

CloseFile(fd) ==
  /\ todo = <<>>
  /\ fd \in DOMAIN fd_table /\ fd_table[fd].valid
  /\ fd_table' = [fd_table EXCEPT ![fd] = Closed]
  /\ reuse_fds' = reuse_fds \cup {fd}
  /\ result' = ""
  /\ UNCHANGED <<disk, todo, op, torn, ops>>

\* Mutant: the new position is not compared with the size.
SeekFileUnchecked(fd, new_pos) ==
  /\ todo = <<>> /\ ~torn
  /\ fd \in DOMAIN fd_table /\ fd_table[fd].valid
  /\ fd_table' = [fd_table EXCEPT ![fd].position = @ + new_pos]
  /\ result' = ""
  /\ UNCHANGED <<disk, reuse_fds, todo, op, torn, ops>>

\* The position changes and the current cluster does not.
SeekFile(fd, new_pos) ==
  /\ todo = <<>> /\ ~torn
  /\ fd \in DOMAIN fd_table /\ fd_table[fd].valid
  /\ new_pos <= fd_table[fd].size
  /\ fd_table' = [fd_table EXCEPT ![fd].position = new_pos]
  /\ result' = ""
  /\ UNCHANGED <<disk, reuse_fds, todo, op, torn, ops>>

\* One turn of read_file's loop, up to the end of a cluster at most; a longer read
\* is several turns.
ReadFile(fd, n) ==
  LET f == fd_table[fd]
      offset == f.position % Slots
      chunk == Min({Slots - offset, n, f.size - f.position})
      at_end == offset + chunk = Slots /\ fat[f.current_cluster] # END_OF_CHAIN
  IN  /\ todo = <<>> /\ ~torn
      /\ fd \in DOMAIN fd_table /\ f.valid
      /\ f.position < f.size /\ n <= Slots - offset
      /\ fd_table' = [fd_table EXCEPT ![fd].position = @ + chunk,
                        ![fd].current_cluster = IF at_end THEN fat[@] ELSE @]
      /\ result' = ""
      /\ UNCHANGED <<disk, reuse_fds, todo, op, torn, ops>>

Next ==
  \/ \E p \in Path : \/ CreateFile(p) \/ CreateDir(p) \/ RemoveFile(p) \/ RemoveDir(p)
                     \/ OpenFile(p) \/ \E q \in Path : Rename(p, q)
  \/ \E fd \in 1..MaxFds :
       \/ CloseFile(fd)
       \/ \E n \in 1..Slots : WriteFile(fd, n) \/ ReadFile(fd, n)
       \/ \E n \in 0..MaxPosition : SeekFile(fd, n)
  \/ DoWrite \/ IoError \/ Crash

Spec == Init /\ [][Next]_vars

-----------------------------------------------------------------------------
(* Properties                                                              *)

\* The directories that a path from the root leads to: those in every set that
\* has the root and the subdirectories of its members.
Subdirectories(dirs) ==
  {At(x).start_cluster : x \in {y \in dirs \X Slot : is_live(At(y)) /\ At(y).is_directory}}
Reached ==
  {d \in Dir : \A dirs \in SUBSET Dir :
     Root \in dirs /\ Subdirectories(dirs) \subseteq dirs => d \in dirs}
LiveEntries == {x \in Reached \X Slot : is_live(At(x))}

\* A file or directory that can be reached has its first cluster allocated, after
\* an I/O error or a crash at any block write too (a crash inside a rename apart):
\* creating allocates before it links, removing unlinks before it frees.
EntriesAllocated == ~torn => \A x \in LiveEntries : fat[At(x).start_cluster] # FREE

\* No cluster belongs to two files or directories; while a rename is between its
\* writes its file has two entries.
NoCrossLink ==
  torn \/ Tearing \/ LET entries == LiveEntries
                     IN  \A x, y \in entries :
                           x # y => At(x).start_cluster # At(y).start_cluster

\* The first cluster of what a path names, 0 for nothing.
Named(q) == IF find_entry(q) = NotFound THEN 0 ELSE At(find_entry(q)).start_cluster

\* The path that an entry written for path p is found under.
Cut(p) == [p EXCEPT ![Len(p)] = Stored[@]]

\* An operation on one path leaves alone what every other path names, except for
\* the paths below it and the path that its last name is cut to.
OthersKept ==
  [][content' # content => \A q \in Path :
       (\A p \in op' : ~Within(p, q) /\ ~Within(Cut(p), q)) => Named(q)' = Named(q)]_vars

\* An open descriptor has the place of a file's entry and a cluster of that file,
\* whatever is created, removed or renamed meanwhile.
OpenFilesLive ==
  ~torn => \A i \in DOMAIN fd_table : fd_table[i].valid =>
    LET f == fd_table[i]
        e == content[f.dir][f.slot]
    IN  /\ f.slot # 0 /\ is_live(e) /\ ~e.is_directory
        /\ f.current_cluster = e.start_cluster
        /\ f.position <= f.size

\* The descriptors that may be given out again are exactly the closed ones: the
\* assertion in open_file never fails and no descriptor number is lost.
ReuseClosedOnly == reuse_fds = {i \in DOMAIN fd_table : ~fd_table[i].valid}

\* "Finds and allocates a free cluster" (Fat16File::allocate_cluster): a write
\* that returns NoSpace found none.
NoSpaceWhenFull == result = "NoSpace" => free_clusters = {}
=============================================================================
