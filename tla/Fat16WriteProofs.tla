-------------------------- MODULE Fat16WriteProofs --------------------------
(***************************************************************************)
(* The inductive invariant of Fat16 and the block writes that keep it, for *)
(* every device the driver can use, any names and any number of slots,     *)
(* descriptors and operations.  The geometry comes first: what format      *)
(* chooses is sound, and no file grows beyond one cluster.                 *)
(***************************************************************************)
EXTENDS Fat16, WellFoundedInduction, TLAPS

\* What format's arithmetic comes to.
LEMMA Geometry ==
  /\ total_blocks \in Nat /\ 36 <= total_blocks /\ total_blocks < 65536
  /\ data_start \in Nat /\ data_start <= total_blocks
  /\ sectors_per_fat \in Nat /\ sectors_per_fat <= 64
  /\ data_start = 33 + 2 * sectors_per_fat
  /\ ((total_blocks - 33) \div 4) * 2 <= 512 * sectors_per_fat
<1> DEFINE n == (total_blocks - 33) \div 4
           q == (n * 2 + 511) \div 512
<1>1. total_blocks \in Nat /\ 36 <= total_blocks /\ total_blocks < 65536
  BY DeviceAssumption
<1>2. n \in Int /\ 0 <= n /\ n <= 16375
  BY <1>1
<1>3. sectors_per_fat = q
  BY <1>1 DEF sectors_per_fat, div_ceil, root_dir_sectors, sectors_per_cluster, SECTOR_SIZE
<1> HIDE DEF n
<1>4. q \in Int /\ 0 <= q /\ n * 2 <= 512 * q
  BY <1>2
<1>5. q <= 64
  BY <1>2
<1>6. data_start = 33 + 2 * sectors_per_fat
  BY <1>3, <1>4 DEF data_start, root_dir_start, fat_start, root_dir_sectors
<1>7. data_start \in Nat
  BY <1>3, <1>4, <1>6
<1>8. data_start <= total_blocks
  BY <1>1, <1>7, DeviceAssumption
<1>9. sectors_per_fat \in Nat /\ sectors_per_fat <= 64
  BY <1>3, <1>4, <1>5
<1>10. n * 2 <= 512 * sectors_per_fat
  BY <1>3, <1>4
<1> QED
  BY <1>1, <1>6, <1>7, <1>8, <1>9, <1>10 DEF n

\* Every cluster that allocate_cluster hands out lies on the device, behind the
\* root directory.
THEOREM ClustersOnDevice ==
  \A c \in Cluster : /\ cluster_to_sector(c) >= root_dir_start + root_dir_sectors
                     /\ cluster_to_sector(c) + sectors_per_cluster <= total_blocks
<1> SUFFICES ASSUME NEW c \in Cluster
             PROVE  /\ cluster_to_sector(c) >= data_start
                    /\ cluster_to_sector(c) + 4 <= total_blocks
  BY DEF data_start, sectors_per_cluster
<1>1. c \in Nat /\ c >= 2 /\ c < (total_blocks - data_start) \div 4
  BY Geometry DEF Cluster, total_clusters, sectors_per_cluster
<1>2. cluster_to_sector(c) = data_start + (c - 2) * 4
  BY DEF cluster_to_sector, sectors_per_cluster
<1> QED
  BY <1>1, <1>2, Geometry

\* The FAT entry of every such cluster lies in the first FAT, so that the copy,
\* sectors_per_fat further on, ends before the root directory.
THEOREM FatEntriesInFat ==
  \A c \in Cluster : /\ fat_sector(c) >= fat_start
                     /\ fat_sector(c) + sectors_per_fat < root_dir_start
<1> SUFFICES ASSUME NEW c \in Cluster
             PROVE  /\ fat_sector(c) >= fat_start
                    /\ fat_sector(c) + sectors_per_fat < root_dir_start
  OBVIOUS
<1>1. c \in Nat /\ c >= 2 /\ c < (total_blocks - data_start) \div 4
  BY Geometry DEF Cluster, total_clusters, sectors_per_cluster
<1>2. PICK m \in Int : m = (total_blocks - 33) \div 4
  BY Geometry
<1>3. m * 2 <= 512 * sectors_per_fat
  BY <1>2, Geometry
<1>4. (total_blocks - data_start) \div 4 <= (total_blocks - 33) \div 4
  BY Geometry
<1>5. c < m
  BY <1>1, <1>2, <1>4, Geometry
<1>6. sectors_per_fat \in Nat
  BY Geometry
<1>7. c * 2 < 512 * sectors_per_fat
  BY <1>1, <1>3, <1>5, <1>6
<1>8. (c * 2) \div 512 \in 0..sectors_per_fat - 1
  BY <1>1, <1>6, <1>7
<1> QED
  BY <1>8, Geometry DEF fat_sector, fat_start, root_dir_start, SECTOR_SIZE

\* Fat16File::allocate_cluster divides sectors by bytes and finds no cluster on
\* any device: a write that fills the first cluster of a file fails.
THEOREM FilesNeverGrow == FileCluster = {}
<1>1. data_start \div 2048 = 0
  BY Geometry
<1>2. cluster_size = 2048
  BY DEF cluster_size, sectors_per_cluster, SECTOR_SIZE
<1> QED
  BY <1>1, <1>2, Geometry DEF FileCluster, Cluster, total_clusters, sectors_per_cluster
-----------------------------------------------------------------------------
(* The inductive invariant                                                 *)

Live(d, s) == is_live(content[d][s])
Start(d, s) == content[d][s].start_cluster

\* No live entry names cluster c, in a directory or in what is left of one.
Unnamed(c) == \A d \in Dir, s \in Slot : Live(d, s) => Start(d, s) # c

\* Slot s is the one that write_dir_entry takes in directory d.
FirstUsable(d, s) ==
  /\ content[d][s] \in {Unused, Deleted}
  /\ \A t \in Slot : t < s => content[d][t] \notin {Unused, Deleted}

\* The names of path p but the last lead to d, as a directory or as a file.
LeadsTo(p, d) ==
  \/ Len(p) = 1 /\ d = Root
  \/ /\ Len(p) = 2
     /\ \E r \in Slot : Live(Root, r) /\ content[Root][r].name = p[1] /\ Start(Root, r) = d

\* The entry at slot s of d is one that path p names.
Names(p, d, s) == LeadsTo(p, d) /\ Live(d, s) /\ content[d][s].name = Leaf(p)

\* Only create_file and create_dir allocate, and a chain has one cluster.
FatOK == fat \in [Cluster -> {FREE, END_OF_CHAIN}] /\ fat2 \in [Cluster -> {FREE, END_OF_CHAIN}]

\* What every live entry names is allocated, whether it can be reached or not.
Allocated == \A d \in Dir, s \in Slot : Live(d, s) => fat[Start(d, s)] = END_OF_CHAIN

\* Two live entries name different clusters; the entry at slot b of a is left out.
DistinctBut(a, b) ==
  \A d, e \in Dir : \A s, t \in Slot :
    /\ Live(d, s) /\ Live(e, t) /\ Start(d, s) = Start(e, t)
    /\ <<d, s>> # <<a, b>> /\ <<e, t>> # <<a, b>>
    => d = e /\ s = t
Distinct ==
  \A d, e \in Dir : \A s, t \in Slot :
    Live(d, s) /\ Live(e, t) /\ Start(d, s) = Start(e, t) => d = e /\ s = t

\* A directory has no entry behind an unused one: a search that stops at the first
\* unused entry of a sector finds every name.
Filled(d) == \A s, t \in Slot : s < t /\ content[d][s] = Unused => content[d][t] = Unused
DirsFilled ==
  /\ Filled(Root)
  /\ \A d \in Dir, s \in Slot : Live(d, s) /\ content[d][s].is_directory => Filled(Start(d, s))

\* An open descriptor has the place of a file's entry, in the root or in an
\* allocated cluster that is no file's.
FileOpen(f) ==
  /\ f.slot \in Slot /\ Live(f.dir, f.slot) /\ ~content[f.dir][f.slot].is_directory
  /\ f.current_cluster = Start(f.dir, f.slot)
  /\ f.position <= f.size
  /\ f.dir # Root =>
       /\ fat[f.dir] = END_OF_CHAIN
       /\ \A d \in Dir, s \in Slot :
            Live(d, s) /\ Start(d, s) = f.dir => content[d][s].is_directory
FilesOpen == \A i \in DOMAIN fd_table : fd_table[i].valid => FileOpen(fd_table[i])

\* The writes that create_file and create_dir have left: nothing names cluster c
\* until the last one, the entry; by then it is allocated, and empty if it is to be a
\* directory.
EntryLeft(p, c, i) ==
  \E d \in Dir, s \in Slot, e \in DirEntry83 :
    /\ todo[i] = EntryWrite(d, s, e) /\ i = Len(todo)
    /\ FirstUsable(d, s) /\ LeadsTo(p, d)
    /\ e.name = Stored[Leaf(p)] /\ e.start_cluster = c
    /\ fat[c] = END_OF_CHAIN \/ \E j \in 1..i - 1 : todo[j] = FatWrite(c, END_OF_CHAIN)
    /\ e.is_directory =>
         Filled(c) \/ \E j \in 1..i - 1 : todo[j] = InitDirectory(c)
CreateLeft(p, c) ==
  /\ op = {p} /\ Unnamed(c) /\ ~HasOpen(c)
  /\ \A i \in 1..Len(todo) :
       \/ todo[i] \in {FatWrite(c, END_OF_CHAIN), Mirror, InitDirectory(c)}
       \/ EntryLeft(p, c, i)

\* remove_file and remove_dir: the entry, then its cluster.
RemoveLeft(p, d, s) ==
  /\ op = {p} /\ Names(p, d, s) /\ ~IsOpen(<<d, s>>) /\ ~HasOpen(Start(d, s))
  /\ todo = <<EntryWrite(d, s, Deleted), FreeChain(Start(d, s))>>
FreeLeft(p, c) ==
  /\ op = {p} /\ Unnamed(c) /\ ~HasOpen(c) /\ fat[c] = END_OF_CHAIN
  /\ todo = <<FreeChain(c)>>

\* rename: the second entry, then the first one.
RenameLeft(p, q, d, s, a, b) ==
  /\ op = {p, q} /\ p # q
  /\ Names(p, d, s) /\ ~IsOpen(<<d, s>>)
  /\ LeadsTo(q, a) /\ FirstUsable(a, b)
  /\ todo = <<EntryWrite(a, b, [content[d][s] EXCEPT !.name = Stored[Leaf(q)]]),
               EntryWrite(d, s, Deleted)>>
UnlinkLeft(p, q, d, s) ==
  /\ op = {p, q} /\ p # q
  /\ Names(p, d, s) /\ ~IsOpen(<<d, s>>) /\ DistinctBut(d, s)
  /\ todo = <<EntryWrite(d, s, Deleted)>>

\* write_file: the data, then the size.
WriteLeft(fd) ==
  /\ op = {} /\ fd_table[fd].valid
  /\ \/ \E n \in 1..MaxPosition : /\ todo = <<DataWrite(fd, n)>>
                                 /\ fd_table[fd].position + n <= MaxPosition
     \/ todo = <<SizeWrite(fd)>>

\* What the operation that is going on has left to do.
TodoOK ==
  \/ todo = <<>>
  \/ \E p \in Path, c \in Cluster : CreateLeft(p, c) \/ FreeLeft(p, c)
  \/ \E p \in Path, d \in Dir, s \in Slot : RemoveLeft(p, d, s)
  \/ \E p, q \in Path : \E d \in Dir, s \in Slot :
       \/ UnlinkLeft(p, q, d, s)
       \/ \E a \in Dir, b \in Slot : RenameLeft(p, q, d, s, a, b)
  \/ \E fd \in DOMAIN fd_table : WriteLeft(fd)

DiskInv == Allocated /\ (Tearing \/ Distinct) /\ DirsFilled /\ FilesOpen /\ TodoOK

\* The inductive invariant.  After a torn rename only descriptors are closed.
FatInv ==
  /\ TypeOK /\ ReuseClosedOnly /\ FatOK
  /\ IF torn THEN todo = <<>> ELSE DiskInv
-----------------------------------------------------------------------------
(* Facts about the operators of the model                                  *)

\* The first of a set of numbers.
LEMMA MinFacts ==
  ASSUME NEW S \in SUBSET Nat, S # {}
  PROVE  Min(S) \in S /\ \A y \in S : Min(S) <= y
<1> DEFINE R == OpToRel(<, Nat)
<1>1. \E x \in S : \A y \in S : ~(<<y, x>> \in R)
  <2> HIDE DEF R
  <2>1. IsWellFoundedOn(R, Nat)
    BY Zenon, NatLessThanWellFounded DEF R
  <2> QED
    BY Zenon, <2>1, WFMin
<1>2. PICK x \in S : \A y \in S : ~(<<y, x>> \in R)
  BY Zenon, <1>1
<1>3. \A y \in S : ~(y < x)
  BY Zenon, <1>2 DEF OpToRel
<1>4. \A y \in S : x <= y
  BY <1>3
<1> QED
  BY <1>4, Zenon DEF Min

\* The last of a bounded set of numbers.
LEMMA MaxFacts ==
  ASSUME NEW n \in Nat, NEW S \in SUBSET (1..n), S # {}
  PROVE  Max(S) \in S /\ \A y \in S : Max(S) >= y
<1> DEFINE T == {n - y : y \in S}
<1>1. T \in SUBSET Nat /\ T # {}
  <2>1. PICK z \in S : TRUE
    BY Zenon
  <2>2. n - z \in T
    OBVIOUS
  <2>3. \A y \in 1..n : n - y \in Nat
    OBVIOUS
  <2> QED
    BY <2>2, <2>3
<1>2. Min(T) \in T /\ \A y \in T : Min(T) <= y
  <2> HIDE DEF T
  <2> QED
    BY <1>1, MinFacts
<1>3. PICK x \in S : Min(T) = n - x
  BY Zenon, <1>2
<1>4. \A y \in S : x >= y
  <2> SUFFICES ASSUME NEW y \in S PROVE x >= y
    OBVIOUS
  <2>1. n - y \in T
    OBVIOUS
  <2>2. n - x <= n - y
    BY Zenon, <1>2, <1>3, <2>1
  <2>3. x \in Nat /\ y \in Nat
    OBVIOUS
  <2> QED
    BY <2>2, <2>3
<1> QED
  BY <1>4, Zenon DEF Max

\* The sets that clusters, directories and slots are taken from.
LEMMA SetFacts ==
  /\ Cluster \subseteq Nat /\ Root \notin Cluster /\ END_OF_CHAIN \notin Cluster
  /\ FREE \notin Cluster /\ FREE # END_OF_CHAIN
  /\ Cluster \subseteq Dir /\ Root \in Dir /\ Slot \subseteq Nat /\ 0 \notin Slot
  /\ \A d \in Dir : d = Root \/ d \in Cluster
<1>1. total_clusters \in Int /\ total_clusters < 65535
  BY Geometry DEF total_clusters, sectors_per_cluster
<1>2. \A c \in Cluster : c \in Nat /\ c >= 2 /\ c < 65535
  BY <1>1 DEF Cluster
<1>3. \A s \in Slot : s \in Nat /\ s # 0
  BY BoundAssumption DEF Slot
<1> QED
  BY <1>2, <1>3 DEF Dir, Root, END_OF_CHAIN, FREE

\* An entry is unused, deleted, data or live.
LEMMA EntryFacts ==
  /\ ~is_live(Unused) /\ ~is_live(Deleted) /\ ~is_live(Data)
  /\ Unused # Deleted /\ Data # Unused /\ Data # Deleted
  /\ \A e \in DirEntry83 : is_live(e) /\ e \notin {Unused, Deleted, Data}
<1>1. Unused.name = "" /\ Deleted.name = "DELETED" /\ Data.name = "data"
  BY DEF Unused, Deleted, Data
<1>2. \A e \in DirEntry83 : e.name \in Name
  BY DEF DirEntry83
<1>3. "" \notin Name /\ "DELETED" \notin Name /\ "data" \notin Name
  BY Zenon, NameAssumption
<1> QED
  BY Zenon, <1>1, <1>2, <1>3 DEF is_live

\* The content of a slot.
LEMMA ContentFacts ==
  ASSUME TypeOK, NEW d \in Dir, NEW s \in Slot
  PROVE  /\ content[d][s] \in DirEntry83 \cup {Unused, Deleted, Data}
         /\ Live(d, s) <=> content[d][s] \in DirEntry83
         /\ Live(d, s) => /\ content[d][s].name \in Name /\ Start(d, s) \in Cluster
                          /\ content[d][s].is_directory \in BOOLEAN
<1>1. content[d][s] \in DirEntry83 \cup {Unused, Deleted, Data}
  BY Zenon DEF TypeOK
<1>2. Live(d, s) <=> content[d][s] \in DirEntry83
  BY <1>1, EntryFacts DEF Live
<1>3. \A e \in DirEntry83 : e.name \in Name /\ e.start_cluster \in Cluster /\ e.is_directory \in BOOLEAN
  BY DEF DirEntry83
<1> QED
  BY <1>1, <1>2, <1>3 DEF Start

\* A descriptor.
LEMMA FdFacts ==
  ASSUME TypeOK, NEW i \in DOMAIN fd_table
  PROVE  LET f == fd_table[i]
         IN  /\ i \in Nat /\ i \in 1..Len(fd_table) /\ i \in 1..MaxFds
             /\ f \in Fat16File /\ f.dir \in Dir /\ f.valid \in BOOLEAN
             /\ f.position \in 0..MaxPosition /\ f.size \in 0..MaxPosition
             /\ f.position \in Nat /\ f.size \in Nat
<1>1. fd_table \in Seq(Fat16File) /\ Len(fd_table) <= MaxFds
  BY Zenon DEF TypeOK
<1>2. i \in Nat /\ i \in 1..Len(fd_table) /\ i \in 1..MaxFds
  BY <1>1, BoundAssumption
<1>3. fd_table[i] \in Fat16File
  BY <1>1, <1>2
<1>4. 0..MaxPosition \subseteq Nat
  BY BoundAssumption
<1> QED
  BY <1>2, <1>3, <1>4 DEF Fat16File

\* A path has one or two names.
LEMMA PathFacts ==
  ASSUME NEW p \in Path
  PROVE  /\ Len(p) \in {1, 2} /\ p[1] \in Name /\ (Len(p) = 2 => p[2] \in Name)
         /\ Leaf(p) \in Name /\ p \in Seq(Name)
<1>1. PICK n \in 1..2 : p \in [1..n -> Name]
  BY DEF Path
<1>2. n = 1 \/ n = 2
  OBVIOUS
<1>3. p \in Seq(Name) /\ Len(p) = n
  BY <1>1
<1>4. p[1] \in Name /\ (n = 2 => p[2] \in Name)
  BY <1>1, <1>2
<1> QED
  BY <1>2, <1>3, <1>4 DEF Leaf

\* find_entry_in_dir returns the place of a live entry of that name.
LEMMA FindFacts ==
  ASSUME TypeOK, NEW d \in Dir, NEW n \in Name, find_entry_in_dir(d, n) # NotFound
  PROVE  \E s \in Slot : /\ find_entry_in_dir(d, n) = <<d, s>>
                         /\ Live(d, s) /\ content[d][s].name = n
<1> DEFINE found == {s \in Slot : /\ content[d][s].name = n
                                  /\ \A t \in Sector(s) : t < s => content[d][t] # Unused}
<1>1. found # {} /\ find_entry_in_dir(d, n) = <<d, Min(found)>>
  BY DEF find_entry_in_dir
<1>2. found \in SUBSET Nat
  BY Zenon, SetFacts
<1>3. Min(found) \in found
  <2> HIDE DEF found
  <2> QED
    BY <1>1, <1>2, MinFacts
<1>4. Min(found) \in Slot /\ content[d][Min(found)].name = n
  BY <1>3
<1> HIDE DEF found
<1> QED
  BY <1>1, <1>4 DEF Live, is_live

\* find_entry returns the place of a live entry that the path names, in the root or
\* in a directory that the root names.
LEMMA FindEntryFacts ==
  ASSUME TypeOK, NEW p \in Path, find_entry(p) # NotFound
  PROVE  \E d \in Dir, s \in Slot :
           /\ find_entry(p) = <<d, s>> /\ Names(p, d, s)
           /\ \/ d = Root
              \/ \E r \in Slot : /\ Live(Root, r) /\ content[Root][r].is_directory
                                 /\ Start(Root, r) = d
<1>1. Root \in Dir
  BY SetFacts
<1>2. CASE Len(p) = 1
  <2>1. find_entry(p) = find_entry_in_dir(Root, p[1]) /\ p[1] \in Name /\ Leaf(p) = p[1]
    BY <1>2, PathFacts DEF find_entry, Leaf
  <2>2. PICK s \in Slot : find_entry(p) = <<Root, s>> /\ Live(Root, s)
                          /\ content[Root][s].name = p[1]
    BY <1>1, <2>1, FindFacts
  <2> QED
    BY <1>1, <1>2, <2>1, <2>2 DEF Names, LeadsTo
<1>3. CASE Len(p) # 1
  <2> DEFINE parent == find_entry_in_dir(Root, p[1])
  <2>1. /\ Len(p) = 2 /\ p[1] \in Name /\ p[2] \in Name /\ Leaf(p) = p[2]
        /\ parent # NotFound /\ At(parent).is_directory
        /\ find_entry(p) = find_entry_in_dir(At(parent).start_cluster, p[2])
    BY <1>3, PathFacts DEF find_entry, Leaf
  <2>2. PICK r \in Slot : parent = <<Root, r>> /\ Live(Root, r) /\ content[Root][r].name = p[1]
    BY <1>1, <2>1, FindFacts
  <2>3. At(parent).start_cluster = Start(Root, r) /\ content[Root][r].is_directory
    BY <2>1, <2>2 DEF At, Start
  <2>4. Start(Root, r) \in Dir
    BY Zenon, <1>1, <2>2, ContentFacts, SetFacts
  <2>5. PICK s \in Slot : /\ find_entry(p) = <<Start(Root, r), s>> /\ Live(Start(Root, r), s)
                          /\ content[Start(Root, r)][s].name = p[2]
    BY <2>1, <2>3, <2>4, FindFacts
  <2>6. Names(p, Start(Root, r), s)
    BY <2>1, <2>2, <2>5 DEF Names, LeadsTo
  <2> QED
    BY <2>2, <2>3, <2>4, <2>5, <2>6
<1> QED
  BY <1>2, <1>3

\* The parent that a new entry goes to is what the path leads to.
LEMMA ParentFacts ==
  ASSUME TypeOK, NEW p \in Path, NEW d \in parent_cluster(p)
  PROVE  d \in Dir /\ LeadsTo(p, d) /\ parent_cluster(p) = {d}
<1>1. Root \in Dir
  BY SetFacts
<1>2. CASE Len(p) = 1
  BY <1>1, <1>2 DEF parent_cluster, LeadsTo
<1>3. CASE Len(p) # 1
  <2> DEFINE parent == find_entry_in_dir(Root, p[1])
  <2>1. Len(p) = 2 /\ p[1] \in Name /\ parent # NotFound
        /\ parent_cluster(p) = {At(parent).start_cluster}
    BY <1>3, PathFacts DEF parent_cluster
  <2>2. PICK r \in Slot : parent = <<Root, r>> /\ Live(Root, r) /\ content[Root][r].name = p[1]
    BY <1>1, <2>1, FindFacts
  <2>3. d = Start(Root, r)
    BY <2>1, <2>2 DEF At, Start
  <2> QED
    BY Zenon, <1>1, <2>1, <2>2, <2>3, ContentFacts, SetFacts DEF LeadsTo
<1> QED
  BY <1>2, <1>3

\* write_dir_entry takes the first usable slot.
LEMMA WriteDirEntryFacts ==
  ASSUME TypeOK, NEW d \in Dir, NEW s \in write_dir_entry(d)
  PROVE  s \in Slot /\ FirstUsable(d, s) /\ write_dir_entry(d) = {s}
<1> DEFINE usable == {t \in Slot : content[d][t] \in {Unused, Deleted}}
<1>1. usable # {} /\ write_dir_entry(d) = {Min(usable)}
  BY DEF write_dir_entry
<1>2. usable \in SUBSET Nat
  BY Zenon, SetFacts
<1>3. Min(usable) \in usable /\ \A y \in usable : Min(usable) <= y
  <2> HIDE DEF usable
  <2> QED
    BY <1>1, <1>2, MinFacts
<1>4. s = Min(usable)
  BY <1>1
<1>5. s \in Slot /\ content[d][s] \in {Unused, Deleted}
  BY <1>3, <1>4
<1>6. ASSUME NEW t \in Slot, t < s PROVE content[d][t] \notin {Unused, Deleted}
  <2>1. t \in Nat /\ s \in Nat
    BY <1>5, SetFacts
  <2>2. t \in usable => s <= t
    BY <1>3, <1>4
  <2> QED
    BY <1>6, <2>1, <2>2
<1> QED
  BY <1>1, <1>4, <1>5, <1>6 DEF FirstUsable

\* A block write that changes one entry.
LEMMA EntryWritten ==
  ASSUME TypeOK, NEW a \in Dir, NEW b \in Slot,
         NEW e \in DirEntry83 \cup {Unused, Deleted, Data},
         content' = [content EXCEPT ![a][b] = e]
  PROVE  /\ content' \in [Dir -> [Slot -> DirEntry83 \cup {Unused, Deleted, Data}]]
         /\ content'[a][b] = e
         /\ \A d \in Dir, s \in Slot : d # a \/ s # b => content'[d][s] = content[d][s]
<1> DEFINE E == DirEntry83 \cup {Unused, Deleted, Data}
<1>1. content \in [Dir -> [Slot -> E]]
  BY Zenon DEF TypeOK
<1>2. e \in E
  OBVIOUS
<1> HIDE DEF E
<1>3. /\ content' \in [Dir -> [Slot -> E]]
      /\ content'[a][b] = e
      /\ \A d \in Dir, s \in Slot : d # a \/ s # b => content'[d][s] = content[d][s]
  BY <1>1, <1>2
<1> QED
  BY <1>3 DEF E
-----------------------------------------------------------------------------
(* What the block writes do to the disk                                    *)

\* A new entry in the first usable slot, of an allocated cluster that is filled if
\* it is a directory, and holds no open file's entry if it is not.
LEMMA LinkStep ==
  ASSUME TypeOK, Allocated, DirsFilled, FilesOpen,
         NEW a \in Dir, NEW b \in Slot, FirstUsable(a, b), NEW e \in DirEntry83,
         fat[e.start_cluster] = END_OF_CHAIN,
         e.is_directory => Filled(e.start_cluster),
         ~e.is_directory => ~HasOpen(e.start_cluster),
         content' = [content EXCEPT ![a][b] = e], fat' = fat, fd_table' = fd_table
  PROVE  Allocated' /\ DirsFilled' /\ FilesOpen'
<1>1. /\ content'[a][b] = e
      /\ \A d \in Dir, s \in Slot : d # a \/ s # b => content'[d][s] = content[d][s]
  BY Zenon, EntryWritten
<1>2. is_live(e) /\ e.start_cluster \in Cluster /\ e # Unused /\ e.start_cluster \in Dir
  BY EntryFacts, SetFacts DEF DirEntry83
<1>3. ~Live(a, b)
  BY EntryFacts DEF FirstUsable, Live
<1>4. Allocated'
  <2> SUFFICES ASSUME NEW d \in Dir, NEW s \in Slot, is_live(content'[d][s])
               PROVE  fat'[content'[d][s].start_cluster] = END_OF_CHAIN
    BY DEF Allocated, Live, Start
  <2> QED
    BY <1>1 DEF Allocated, Live, Start
<1>5. ASSUME NEW d \in Dir, Filled(d) PROVE Filled(d)'
  <2> SUFFICES ASSUME NEW s \in Slot, NEW t \in Slot, s < t, content'[d][s] = Unused
               PROVE  content'[d][t] = Unused
    BY DEF Filled
  <2>1. s \in Nat /\ t \in Nat /\ b \in Nat
    BY SetFacts
  <2>2. content[d][s] = Unused /\ (d # a \/ s # b)
    BY <1>1, <1>2
  <2>3. content[d][t] = Unused
    BY <1>5, <2>2 DEF Filled
  <2>4. d = a => ~(s < b)
    BY <2>2 DEF FirstUsable
  <2>5. d # a \/ t # b
    BY <2>1, <2>2, <2>4
  <2> QED
    BY <1>1, <2>3, <2>5
<1>6. DirsFilled'
  <2>1. Filled(Root)'
    BY <1>5, SetFacts DEF DirsFilled
  <2>2. ASSUME NEW d \in Dir, NEW s \in Slot, Live(d, s)', content'[d][s].is_directory
        PROVE  Filled(Start(d, s))'
    <3>1. PICK x : x = content'[d][s].start_cluster
      OBVIOUS
    <3>2. x \in Dir /\ Filled(x)
      <4>1. CASE d = a /\ s = b
        BY <1>1, <1>2, <2>2, <3>1, <4>1
      <4>2. CASE d # a \/ s # b
        <5>1. content'[d][s] = content[d][s] /\ Live(d, s) /\ content[d][s].is_directory
          BY <1>1, <2>2, <4>2 DEF Live
        <5> QED
          BY <3>1, <5>1, ContentFacts, SetFacts DEF DirsFilled, Start
      <4> QED
        BY <4>1, <4>2
    <3>3. Filled(x)'
      BY <1>5, <3>2
    <3> QED
      BY <3>1, <3>3 DEF Start, Filled
  <2> QED
    BY <2>1, <2>2 DEF DirsFilled
<1>7. FilesOpen'
  <2> SUFFICES ASSUME NEW i \in DOMAIN fd_table, fd_table[i].valid
               PROVE  FileOpen(fd_table[i])'
    BY DEF FilesOpen
  <2> DEFINE f == fd_table[i]
  <2>1. FileOpen(f) /\ f.dir \in Dir
    BY FdFacts DEF FilesOpen
  <2>2. f.dir # a \/ f.slot # b
    BY <1>3, <2>1 DEF FileOpen
  <2>3. content'[f.dir][f.slot] = content[f.dir][f.slot]
    BY <1>1, <2>1, <2>2 DEF FileOpen
  <2>4. ASSUME f.dir # Root, NEW d \in Dir, NEW s \in Slot, is_live(content'[d][s]),
               content'[d][s].start_cluster = f.dir
        PROVE  content'[d][s].is_directory
    <3>1. CASE d = a /\ s = b
      BY <1>1, <2>4, <3>1 DEF HasOpen
    <3>2. CASE d # a \/ s # b
      BY <1>1, <2>1, <2>4, <3>2 DEF FileOpen, Live, Start
    <3> QED
      BY <3>1, <3>2
  <2> QED
    BY <2>1, <2>3, <2>4 DEF FileOpen, Live, Start
<1> QED
  BY <1>4, <1>6, <1>7

\* A live entry that is not open is marked deleted.
LEMMA UnlinkStep ==
  ASSUME TypeOK, Allocated, DirsFilled, FilesOpen,
         NEW a \in Dir, NEW b \in Slot, Live(a, b), ~IsOpen(<<a, b>>),
         content' = [content EXCEPT ![a][b] = Deleted], fat' = fat, fd_table' = fd_table
  PROVE  Allocated' /\ DirsFilled' /\ FilesOpen'
<1>1. /\ content'[a][b] = Deleted
      /\ \A d \in Dir, s \in Slot : d # a \/ s # b => content'[d][s] = content[d][s]
  BY Zenon, EntryWritten
<1>2. ~is_live(Deleted) /\ Deleted # Unused /\ content[a][b] # Unused
  BY EntryFacts DEF Live
<1>3. Allocated'
  <2> SUFFICES ASSUME NEW d \in Dir, NEW s \in Slot, is_live(content'[d][s])
               PROVE  fat'[content'[d][s].start_cluster] = END_OF_CHAIN
    BY DEF Allocated, Live, Start
  <2> QED
    BY <1>1, <1>2 DEF Allocated, Live, Start
<1>4. ASSUME NEW d \in Dir, Filled(d) PROVE Filled(d)'
  <2> SUFFICES ASSUME NEW s \in Slot, NEW t \in Slot, s < t, content'[d][s] = Unused
               PROVE  content'[d][t] = Unused
    BY DEF Filled
  <2>1. content[d][s] = Unused
    BY <1>1, <1>2
  <2>2. content[d][t] = Unused
    BY <1>4, <2>1 DEF Filled
  <2> QED
    BY <1>1, <1>2, <2>2
<1>5. DirsFilled'
  <2>1. Filled(Root)'
    BY <1>4, SetFacts DEF DirsFilled
  <2>2. ASSUME NEW d \in Dir, NEW s \in Slot, Live(d, s)', content'[d][s].is_directory
        PROVE  Filled(Start(d, s))'
    <3>1. PICK x : x = content'[d][s].start_cluster
      OBVIOUS
    <3>2. content'[d][s] = content[d][s] /\ Live(d, s) /\ content[d][s].is_directory
      BY <1>1, <1>2, <2>2 DEF Live
    <3>3. x \in Dir /\ Filled(x)
      BY <3>1, <3>2, ContentFacts, SetFacts DEF DirsFilled, Start
    <3>4. Filled(x)'
      BY <1>4, <3>3
    <3> QED
      BY <3>1, <3>4 DEF Start, Filled
  <2> QED
    BY <2>1, <2>2 DEF DirsFilled
<1>6. FilesOpen'
  <2> SUFFICES ASSUME NEW i \in DOMAIN fd_table, fd_table[i].valid
               PROVE  FileOpen(fd_table[i])'
    BY DEF FilesOpen
  <2> DEFINE f == fd_table[i]
  <2>1. FileOpen(f) /\ f.dir \in Dir
    BY FdFacts DEF FilesOpen
  <2>2. f.dir # a \/ f.slot # b
    BY DEF IsOpen
  <2>3. content'[f.dir][f.slot] = content[f.dir][f.slot]
    BY <1>1, <2>1, <2>2 DEF FileOpen
  <2>4. ASSUME f.dir # Root, NEW d \in Dir, NEW s \in Slot, is_live(content'[d][s]),
               content'[d][s].start_cluster = f.dir
        PROVE  content'[d][s].is_directory
    BY <1>1, <1>2, <2>1, <2>4 DEF FileOpen, Live, Start
  <2> QED
    BY <2>1, <2>3, <2>4 DEF FileOpen, Live, Start
<1> QED
  BY <1>3, <1>5, <1>6
\* What only depends on the directories.
LEMMA SameContent ==
  ASSUME content' = content
  PROVE  /\ Distinct' <=> Distinct
         /\ DirsFilled' <=> DirsFilled
         /\ \A c \in Dir : (Filled(c)' <=> Filled(c)) /\ (Unnamed(c)' <=> Unnamed(c))
         /\ \A d \in Dir, s \in Slot : FirstUsable(d, s)' <=> FirstUsable(d, s)
         /\ \A p \in Path, d \in Dir : LeadsTo(p, d)' <=> LeadsTo(p, d)
         /\ \A p \in Path, d \in Dir, s \in Slot : Names(p, d, s)' <=> Names(p, d, s)
<1>1. /\ \A c \in Dir : (Filled(c)' <=> Filled(c)) /\ (Unnamed(c)' <=> Unnamed(c))
      /\ \A d \in Dir, s \in Slot : FirstUsable(d, s)' <=> FirstUsable(d, s)
  BY DEF Filled, Unnamed, Live, Start, FirstUsable
<1>2. \A p \in Path, d \in Dir : LeadsTo(p, d)' <=> LeadsTo(p, d)
  BY DEF LeadsTo, Live, Start
<1>3. \A p \in Path, d \in Dir, s \in Slot : Names(p, d, s)' <=> Names(p, d, s)
  BY DEF Names, LeadsTo, Live, Start
<1>4. Distinct' <=> Distinct
  BY DEF Distinct, Live, Start
<1>5. DirsFilled' <=> DirsFilled
  BY DEF DirsFilled, Filled, Live, Start
<1> QED
  BY <1>1, <1>2, <1>3, <1>4, <1>5

\* What only depends on the descriptors.
LEMMA SameFds ==
  ASSUME fd_table' = fd_table
  PROVE  /\ \A c \in Dir : HasOpen(c)' <=> HasOpen(c)
         /\ \A d \in Dir, s \in Slot : IsOpen(<<d, s>>)' <=> IsOpen(<<d, s>>)
BY DEF HasOpen, IsOpen

\* A FAT entry is written: the end of a chain, or one that nothing names is freed.
LEMMA FatStep ==
  ASSUME TypeOK, Allocated, FilesOpen, NEW c \in Cluster, NEW v,
         v = END_OF_CHAIN \/ (Unnamed(c) /\ ~HasOpen(c)),
         content' = content, fd_table' = fd_table, fat' = [fat EXCEPT ![c] = v]
  PROVE  Allocated' /\ FilesOpen'
<1>1. \A k \in Cluster : fat'[k] = fat[k] \/ (k = c /\ fat'[k] = v)
  BY Zenon DEF TypeOK
<1>2. Allocated'
  <2> SUFFICES ASSUME NEW d \in Dir, NEW s \in Slot, Live(d, s)
               PROVE  fat'[Start(d, s)] = END_OF_CHAIN
    BY DEF Allocated, Live, Start
  <2>1. Start(d, s) \in Cluster
    BY ContentFacts
  <2> QED
    BY <1>1, <2>1 DEF Allocated, Unnamed
<1>3. FilesOpen'
  <2> SUFFICES ASSUME NEW i \in DOMAIN fd_table, fd_table[i].valid
               PROVE  FileOpen(fd_table[i])'
    BY DEF FilesOpen
  <2> DEFINE f == fd_table[i]
  <2>1. FileOpen(f) /\ f.dir \in Dir
    BY FdFacts DEF FilesOpen
  <2>2. f.dir # Root => fat'[f.dir] = END_OF_CHAIN
    BY <1>1, <2>1, SetFacts DEF FileOpen, HasOpen
  <2> QED
    BY <2>1, <2>2 DEF FileOpen, Live, Start
<1> QED
  BY <1>2, <1>3

\* init_directory empties a cluster that nothing names.
LEMMA InitStep ==
  ASSUME TypeOK, Allocated, DirsFilled, FilesOpen, Distinct,
         NEW c \in Cluster, Unnamed(c), ~HasOpen(c),
         content' = [content EXCEPT ![c] = [s \in Slot |-> Unused]],
         fat' = fat, fd_table' = fd_table
  PROVE  /\ Allocated' /\ DirsFilled' /\ FilesOpen' /\ Distinct'
         /\ Filled(c)' /\ Unnamed(c)'
         /\ \A d \in Dir : d # c => content'[d] = content[d]
<1>1. /\ \A s \in Slot : content'[c][s] = Unused
      /\ \A d \in Dir : d # c => content'[d] = content[d]
  BY Zenon, SetFacts DEF TypeOK
<1>2. \A d \in Dir, s \in Slot : Live(d, s)' =>
        Live(d, s) /\ d # c /\ content'[d][s] = content[d][s]
  BY <1>1, EntryFacts DEF Live
<1>3. Allocated' /\ Distinct' /\ Unnamed(c)'
  BY <1>2 DEF Allocated, Distinct, Unnamed, Start
<1>4. Filled(c)'
  BY <1>1 DEF Filled
<1>5. DirsFilled'
  <2>1. Filled(Root)'
    BY <1>1, SetFacts DEF DirsFilled, Filled
  <2>2. ASSUME NEW d \in Dir, NEW s \in Slot, Live(d, s)', content'[d][s].is_directory
        PROVE  Filled(Start(d, s))'
    <3>1. PICK x : x = content'[d][s].start_cluster
      OBVIOUS
    <3>2. x \in Dir /\ x # c /\ Filled(x)
      <4>1. Live(d, s) /\ x = Start(d, s) /\ content[d][s].is_directory
        BY <1>2, <2>2, <3>1 DEF Start
      <4> QED
        BY Zenon, <4>1, ContentFacts, SetFacts DEF DirsFilled, Unnamed
    <3>3. Filled(x)'
      BY <1>1, <3>2 DEF Filled
    <3> QED
      BY <3>1, <3>3 DEF Start, Filled
  <2> QED
    BY <2>1, <2>2 DEF DirsFilled
<1>6. FilesOpen'
  <2> SUFFICES ASSUME NEW i \in DOMAIN fd_table, fd_table[i].valid
               PROVE  FileOpen(fd_table[i])'
    BY DEF FilesOpen
  <2> DEFINE f == fd_table[i]
  <2>1. FileOpen(f) /\ f.dir \in Dir /\ f.dir # c
    BY FdFacts DEF FilesOpen, HasOpen
  <2>2. content'[f.dir] = content[f.dir]
    BY <1>1, <2>1
  <2> QED
    BY <1>2, <2>1, <2>2 DEF FileOpen, Live, Start
<1> QED
  BY <1>1, <1>3, <1>4, <1>5, <1>6

\* Data goes to the cluster of an open file: it is no directory's, and the place of
\* no open file's entry is in it.
LEMMA DataStep ==
  ASSUME TypeOK, Allocated, DirsFilled, FilesOpen, Distinct,
         NEW f \in Fat16File, FileOpen(f), NEW units,
         content' = [content EXCEPT ![f.current_cluster] =
                      [s \in Slot |-> IF s \in units THEN Data ELSE @[s]]],
         fat' = fat
  PROVE  /\ Allocated' /\ DirsFilled' /\ Distinct'
         /\ \A g \in Fat16File : FileOpen(g) => FileOpen(g)'
<1> DEFINE k == f.current_cluster
<1>1. k \in Cluster /\ k \in Dir /\ k # Root /\ k = Start(f.dir, f.slot)
      /\ f.dir \in Dir /\ f.slot \in Slot /\ Live(f.dir, f.slot)
      /\ ~content[f.dir][f.slot].is_directory
  <2>1. f.dir \in Dir
    BY DEF Fat16File
  <2>2. f.slot \in Slot /\ Live(f.dir, f.slot) /\ k = Start(f.dir, f.slot)
        /\ ~content[f.dir][f.slot].is_directory
    BY DEF FileOpen
  <2>3. k \in Cluster
    BY <2>1, <2>2, ContentFacts
  <2> QED
    BY Zenon, <2>1, <2>2, <2>3, SetFacts
<1>2. /\ \A s \in Slot : content'[k][s] = Data \/ content'[k][s] = content[k][s]
      /\ \A d \in Dir : d # k => content'[d] = content[d]
  BY Zenon, <1>1 DEF TypeOK
<1>3. \A d \in Dir, s \in Slot : Live(d, s)' => Live(d, s) /\ content'[d][s] = content[d][s]
  BY <1>2, EntryFacts DEF Live
<1>4. Allocated' /\ Distinct'
  BY <1>3 DEF Allocated, Distinct, Start
<1>5. \A d \in Dir, s \in Slot : Live(d, s) /\ content[d][s].is_directory => Start(d, s) # k
  BY <1>1 DEF Distinct
<1>6. DirsFilled'
  <2>1. Filled(Root)'
    BY <1>1, <1>2, SetFacts DEF DirsFilled, Filled
  <2>2. ASSUME NEW d \in Dir, NEW s \in Slot, Live(d, s)', content'[d][s].is_directory
        PROVE  Filled(Start(d, s))'
    <3>1. PICK x : x = content'[d][s].start_cluster
      OBVIOUS
    <3>2. Live(d, s) /\ x = Start(d, s) /\ content[d][s].is_directory
      BY <1>3, <2>2, <3>1 DEF Start
    <3>3. x \in Dir /\ x # k /\ Filled(x)
      BY Zenon, <1>5, <3>2, ContentFacts, SetFacts DEF DirsFilled
    <3>4. Filled(x)'
      BY <1>2, <3>3 DEF Filled
    <3> QED
      BY <3>1, <3>4 DEF Start, Filled
  <2> QED
    BY <2>1, <2>2 DEF DirsFilled
<1>7. ASSUME NEW g \in Fat16File, FileOpen(g) PROVE FileOpen(g)'
  <2>1. g.dir \in Dir
    BY DEF Fat16File
  <2>2. g.dir # k
    BY <1>1, <1>7 DEF FileOpen
  <2>3. content'[g.dir] = content[g.dir]
    BY <1>2, <2>1, <2>2
  <2> QED
    BY Zenon, <1>3, <1>7, <2>3 DEF FileOpen, Live, Start
<1> QED
  BY <1>4, <1>6, <1>7

\* update_directory_entry writes the size into the entry of an open file, and leaves
\* its name, kind and cluster.
LEMMA SizeStep ==
  ASSUME TypeOK, Allocated, DirsFilled, FilesOpen, Distinct,
         NEW a \in Dir, NEW b \in Slot, Live(a, b), NEW n \in 0..MaxPosition,
         content' = [content EXCEPT ![a][b].file_size = n],
         fat' = fat, fd_table' = fd_table
  PROVE  /\ Allocated' /\ DirsFilled' /\ FilesOpen' /\ Distinct'
         /\ content' \in [Dir -> [Slot -> DirEntry83 \cup {Unused, Deleted, Data}]]
         /\ \A d \in Dir, s \in Slot :
              /\ content'[d][s].name = content[d][s].name
              /\ content'[d][s].is_directory = content[d][s].is_directory
              /\ content'[d][s].start_cluster = content[d][s].start_cluster
              /\ content'[d][s] = Unused <=> content[d][s] = Unused
<1> DEFINE e == [content[a][b] EXCEPT !.file_size = n]
<1>1. content[a][b] \in DirEntry83
  BY ContentFacts
<1>2. e \in DirEntry83
  BY <1>1 DEF DirEntry83
<1>3. content \in [Dir -> [Slot -> DirEntry83 \cup {Unused, Deleted, Data}]]
  BY Zenon DEF TypeOK
<1>4. content' = [content EXCEPT ![a][b] = e]
  BY <1>1, <1>3
<1>5. /\ e.name = content[a][b].name
      /\ e.is_directory = content[a][b].is_directory
      /\ e.start_cluster = content[a][b].start_cluster
  BY <1>1 DEF DirEntry83
<1> HIDE DEF e
<1>6. /\ content'[a][b] = e
      /\ \A d \in Dir, s \in Slot : d # a \/ s # b => content'[d][s] = content[d][s]
  <2> DEFINE E == DirEntry83 \cup {Unused, Deleted, Data}
  <2>1. content \in [Dir -> [Slot -> E]] /\ e \in E
    BY <1>2, <1>3
  <2> HIDE DEF E
  <2> QED
    BY <1>4, <2>1
<1>7. content' \in [Dir -> [Slot -> DirEntry83 \cup {Unused, Deleted, Data}]]
  BY <1>1, <1>2, <1>3, <1>4
<1>8. \A d \in Dir, s \in Slot :
        /\ content'[d][s].name = content[d][s].name
        /\ content'[d][s].is_directory = content[d][s].is_directory
        /\ content'[d][s].start_cluster = content[d][s].start_cluster
  BY <1>5, <1>6
<1>9. \A d \in Dir, s \in Slot : content'[d][s] = Unused <=> content[d][s] = Unused
  BY <1>1, <1>2, <1>6, EntryFacts
<1>10. \A d \in Dir, s \in Slot : Live(d, s)' <=> Live(d, s)
  BY <1>8 DEF Live, is_live
<1>11. Allocated' /\ Distinct'
  BY <1>8, <1>10 DEF Allocated, Distinct, Start
<1>12. \A d \in Dir : Filled(d) => Filled(d)'
  BY <1>9 DEF Filled
<1>13. DirsFilled'
  <2>1. Filled(Root)'
    BY <1>12, SetFacts DEF DirsFilled
  <2>2. ASSUME NEW d \in Dir, NEW s \in Slot, Live(d, s)', content'[d][s].is_directory
        PROVE  Filled(Start(d, s))'
    <3>1. PICK x : x = content'[d][s].start_cluster
      OBVIOUS
    <3>2. Live(d, s) /\ x = Start(d, s) /\ content[d][s].is_directory
      BY <1>8, <1>10, <2>2, <3>1 DEF Start
    <3>3. x \in Dir /\ Filled(x)
      BY <3>2, ContentFacts, SetFacts DEF DirsFilled
    <3>4. Filled(x)'
      BY <1>12, <3>3
    <3> QED
      BY <3>1, <3>4 DEF Start, Filled
  <2> QED
    BY <2>1, <2>2 DEF DirsFilled
<1>14. FilesOpen'
  <2> SUFFICES ASSUME NEW i \in DOMAIN fd_table, fd_table[i].valid
               PROVE  FileOpen(fd_table[i])'
    BY DEF FilesOpen
  <2> DEFINE g == fd_table[i]
  <2>1. FileOpen(g) /\ g.dir \in Dir
    BY FdFacts DEF FilesOpen
  <2>2. /\ Live(g.dir, g.slot)' /\ ~content'[g.dir][g.slot].is_directory
        /\ g.current_cluster = content'[g.dir][g.slot].start_cluster
    BY <1>8, <1>10, <2>1 DEF FileOpen, Start
  <2>3. ASSUME g.dir # Root, NEW d \in Dir, NEW s \in Slot, Live(d, s)',
               content'[d][s].start_cluster = g.dir
        PROVE  content'[d][s].is_directory
    <3>1. Live(d, s) /\ Start(d, s) = g.dir
      BY <1>8, <1>10, <2>3 DEF Start
    <3>2. content[d][s].is_directory
      BY <2>1, <2>3, <3>1 DEF FileOpen
    <3> QED
      BY <1>8, <3>2
  <2> QED
    BY <2>1, <2>2, <2>3 DEF FileOpen, Start
<1> QED
  BY <1>7, <1>8, <1>9, <1>11, <1>13, <1>14
-----------------------------------------------------------------------------
(* One step of an operation                                                *)

\* The next block write, and the ones behind it.
LEMMA TodoFacts ==
  ASSUME TypeOK, todo # <<>>
  PROVE  /\ Head(todo) = todo[1] /\ todo[1] \in BlockWrite
         /\ Len(todo) \in Nat /\ Len(todo) >= 1
         /\ Tail(todo) \in Seq(BlockWrite) /\ Len(Tail(todo)) = Len(todo) - 1
         /\ \A i \in 1..Len(todo) - 1 : Tail(todo)[i] = todo[i + 1]
<1>1. todo \in Seq(BlockWrite)
  BY Zenon DEF TypeOK
<1> HIDE DEF BlockWrite
<1> QED
  BY <1>1

\* What DoWrite does, by the block write that comes next.
LEMMA DoWriteFacts ==
  ASSUME TypeOK, DoWrite
  PROVE  /\ todo # <<>> /\ UNCHANGED <<reuse_fds, op, torn, ops>>
         /\ \A c \in Cluster, v \in FatEntry : todo[1] = FatWrite(c, v) =>
              /\ fat' = [fat EXCEPT ![c] = v] /\ todo' = Tail(todo)
              /\ UNCHANGED <<fat2, content, fd_table, result>>
         /\ todo[1] = Mirror =>
              fat2' = fat /\ todo' = Tail(todo) /\ UNCHANGED <<fat, content, fd_table, result>>
         /\ \A c \in Cluster : todo[1] = FreeChain(c) => FreeCluster(c)
         /\ \A d \in Dir, s \in Slot, e \in DirEntry83 \cup {Deleted} :
              todo[1] = EntryWrite(d, s, e) =>
                /\ content' = [content EXCEPT ![d][s] = e] /\ todo' = Tail(todo)
                /\ UNCHANGED <<fat, fat2, fd_table, result>>
         /\ \A c \in Cluster : todo[1] = InitDirectory(c) =>
              /\ content' = [content EXCEPT ![c] = [s \in Slot |-> Unused]]
              /\ todo' = Tail(todo)
              /\ UNCHANGED <<fat, fat2, fd_table, result>>
         /\ \A fd \in DOMAIN fd_table, n \in 1..MaxPosition :
              todo[1] = DataWrite(fd, n) => WriteChunk(fd, n)
         /\ \A fd \in DOMAIN fd_table : todo[1] = SizeWrite(fd) => UpdateSize(fd_table[fd])
<1> DEFINE w == todo[1]
<1>1. todo # <<>> /\ UNCHANGED <<reuse_fds, op, torn, ops>>
  BY DEF DoWrite
<1>2. Head(todo) = w
  BY <1>1, TodoFacts
<1>3. \/ w.do \in {"fat", "mirror"} /\ WriteFat(w)
      \/ w.do = "free" /\ FreeCluster(w.cluster)
      \/ w.do \in {"entry", "init"} /\ WriteDirectory(w)
      \/ w.do = "data" /\ WriteChunk(w.fd, w.left)
      \/ w.do \in {"advance", "size"} /\
           IF w.do = "size" THEN UpdateSize(fd_table[w.fd]) ELSE NextCluster(w.fd)
  BY <1>2, Zenon DEF DoWrite
<1> HIDE DEF w
<1>4. ASSUME NEW c \in Cluster, NEW v \in FatEntry, w = FatWrite(c, v)
      PROVE  /\ fat' = [fat EXCEPT ![c] = v] /\ todo' = Tail(todo)
             /\ UNCHANGED <<fat2, content, fd_table, result>>
  <2>1. w.do = "fat" /\ w.cluster = c /\ w.entry = v
    BY <1>4 DEF FatWrite
  <2>2. WriteFat(w)
    BY <1>3, <2>1
  <2> QED
    BY <2>1, <2>2 DEF WriteFat
<1>5. ASSUME w = Mirror
      PROVE  fat2' = fat /\ todo' = Tail(todo) /\ UNCHANGED <<fat, content, fd_table, result>>
  <2>1. w.do = "mirror"
    BY <1>5 DEF Mirror
  <2>2. WriteFat(w)
    BY <1>3, <2>1
  <2> QED
    BY <2>1, <2>2 DEF WriteFat
<1>6. ASSUME NEW c \in Cluster, w = FreeChain(c) PROVE FreeCluster(c)
  <2>1. w.do = "free" /\ w.cluster = c
    BY <1>6 DEF FreeChain
  <2> QED
    BY <1>3, <2>1
<1>7. ASSUME NEW d \in Dir, NEW s \in Slot, NEW e \in DirEntry83 \cup {Deleted},
             w = EntryWrite(d, s, e)
      PROVE  /\ content' = [content EXCEPT ![d][s] = e] /\ todo' = Tail(todo)
             /\ UNCHANGED <<fat, fat2, fd_table, result>>
  <2>1. w.do = "entry" /\ w.dir = d /\ w.slot = s /\ w.entry = e
    BY <1>7 DEF EntryWrite
  <2>2. WriteDirectory(w)
    BY <1>3, <2>1
  <2> QED
    BY <2>1, <2>2 DEF WriteDirectory
<1>8. ASSUME NEW c \in Cluster, w = InitDirectory(c)
      PROVE  /\ content' = [content EXCEPT ![c] = [s \in Slot |-> Unused]]
             /\ todo' = Tail(todo)
             /\ UNCHANGED <<fat, fat2, fd_table, result>>
  <2>1. w.do = "init" /\ w.cluster = c
    BY <1>8 DEF InitDirectory
  <2>2. WriteDirectory(w)
    BY <1>3, <2>1
  <2> QED
    BY <2>1, <2>2 DEF WriteDirectory
<1>9. ASSUME NEW fd \in DOMAIN fd_table, NEW n \in 1..MaxPosition, w = DataWrite(fd, n)
      PROVE  WriteChunk(fd, n)
  <2>1. w.do = "data" /\ w.fd = fd /\ w.left = n
    BY <1>9 DEF DataWrite
  <2> QED
    BY <1>3, <2>1
<1>10. ASSUME NEW fd \in DOMAIN fd_table, w = SizeWrite(fd)
       PROVE  UpdateSize(fd_table[fd])
  <2>1. w.do = "size" /\ w.fd = fd
    BY <1>10 DEF SizeWrite
  <2> QED
    BY <1>3, <2>1
<1> QED
  BY <1>1, <1>4, <1>5, <1>6, <1>7, <1>8, <1>9, <1>10 DEF w
\* A creation goes on with the writes behind the first one.
LEMMA CreateGoesOn ==
  ASSUME TypeOK, todo # <<>>, NEW p \in Path, NEW c \in Cluster, CreateLeft(p, c),
         op' = op, todo' = Tail(todo), Unnamed(c)', ~HasOpen(c)',
         \A d \in Dir, s \in Slot :
           FirstUsable(d, s) /\ LeadsTo(p, d) => FirstUsable(d, s)' /\ LeadsTo(p, d)',
         fat[c] = END_OF_CHAIN \/ todo[1] = FatWrite(c, END_OF_CHAIN) => fat'[c] = END_OF_CHAIN,
         Filled(c) \/ todo[1] = InitDirectory(c) => Filled(c)'
  PROVE  CreateLeft(p, c)'
<1>1. /\ Len(todo) \in Nat /\ Len(todo) >= 1 /\ Len(todo') = Len(todo) - 1
      /\ \A i \in 1..Len(todo) - 1 : todo'[i] = todo[i + 1]
  BY TodoFacts
<1>2. ASSUME NEW i \in 1..Len(todo'), EntryLeft(p, c, i + 1)
      PROVE  EntryLeft(p, c, i)'
  <2>1. PICK d \in Dir, s \in Slot, e \in DirEntry83 :
               /\ todo[i + 1] = EntryWrite(d, s, e) /\ i + 1 = Len(todo)
               /\ FirstUsable(d, s) /\ LeadsTo(p, d)
               /\ e.name = Stored[Leaf(p)] /\ e.start_cluster = c
               /\ fat[c] = END_OF_CHAIN
                    \/ \E j \in 1..(i + 1) - 1 : todo[j] = FatWrite(c, END_OF_CHAIN)
               /\ e.is_directory =>
                    Filled(c) \/ \E j \in 1..(i + 1) - 1 : todo[j] = InitDirectory(c)
    BY Zenon, <1>2 DEF EntryLeft
  <2>2. i \in Nat /\ i >= 1 /\ (i + 1) - 1 = i
    BY <1>1
  <2>3. todo'[i] = EntryWrite(d, s, e) /\ i = Len(todo')
    BY Zenon, <1>1, <2>1, <2>2
  <2>4. \A j \in 1..i : j = 1 \/ (j - 1 \in 1..i - 1 /\ todo'[j - 1] = todo[j])
    BY <1>1, <2>1, <2>2
  <2>5. fat'[c] = END_OF_CHAIN \/ \E j \in 1..i - 1 : todo'[j] = FatWrite(c, END_OF_CHAIN)
    <3>1. CASE fat[c] = END_OF_CHAIN
      BY <3>1
    <3>2. CASE \E j \in 1..i : todo[j] = FatWrite(c, END_OF_CHAIN)
      BY <2>4, <3>2
    <3> QED
      BY <2>1, <2>2, <3>1, <3>2
  <2>6. e.is_directory => Filled(c)' \/ \E j \in 1..i - 1 : todo'[j] = InitDirectory(c)
    <3> SUFFICES ASSUME e.is_directory
                 PROVE  Filled(c)' \/ \E j \in 1..i - 1 : todo'[j] = InitDirectory(c)
      OBVIOUS
    <3>1. CASE Filled(c)
      BY <3>1
    <3>2. CASE \E j \in 1..i : todo[j] = InitDirectory(c)
      BY <2>4, <3>2
    <3> QED
      BY <2>1, <2>2, <3>1, <3>2
  <2>7. FirstUsable(d, s)' /\ LeadsTo(p, d)'
    BY <2>1
  <2> QED
    BY <2>1, <2>3, <2>5, <2>6, <2>7 DEF EntryLeft
<1>3. \A i \in 1..Len(todo') : i + 1 \in 1..Len(todo) /\ todo'[i] = todo[i + 1]
  BY <1>1
<1>4. \A i \in 1..Len(todo') :
        \/ todo'[i] \in {FatWrite(c, END_OF_CHAIN), Mirror, InitDirectory(c)}
        \/ EntryLeft(p, c, i)'
  BY <1>2, <1>3 DEF CreateLeft
<1> QED
  BY <1>4 DEF CreateLeft

\* A path's directory is not a cluster that nothing names.
LEMMA LeadsElsewhere ==
  ASSUME NEW p \in Path, NEW d \in Dir, LeadsTo(p, d), NEW c \in Cluster, Unnamed(c)
  PROVE  d # c
BY SetFacts DEF LeadsTo, Unnamed

\* create_file and create_dir, and what remove_entry has left once the chain is free.
LEMMA CreatePhase ==
  ASSUME TypeOK, FatOK, Allocated, Distinct, DirsFilled, FilesOpen, DoWrite,
         NEW p \in Path, NEW c \in Cluster, CreateLeft(p, c)
  PROVE  TypeOK' /\ FatOK' /\ DiskInv'
<1>1. todo # <<>> /\ UNCHANGED <<reuse_fds, op, torn, ops>>
  BY DoWriteFacts
<1>2. op = {p} /\ Unnamed(c) /\ ~HasOpen(c) /\ c \in Dir
  BY SetFacts DEF CreateLeft
<1>3. \/ todo[1] \in {FatWrite(c, END_OF_CHAIN), Mirror, InitDirectory(c)}
      \/ EntryLeft(p, c, 1)
  <2>1. 1 \in 1..Len(todo)
    BY <1>1, TodoFacts
  <2> QED
    BY <2>1 DEF CreateLeft
<1>4. Tail(todo) \in Seq(BlockWrite)
  BY <1>1, TodoFacts
<1>5. FatWrite(c, END_OF_CHAIN) # InitDirectory(c) /\ Mirror # InitDirectory(c)
      /\ Mirror # FatWrite(c, END_OF_CHAIN)
  <2>1. FatWrite(c, END_OF_CHAIN).do = "fat" /\ InitDirectory(c).do = "init"
        /\ Mirror.do = "mirror"
    BY DEF FatWrite, InitDirectory, Mirror
  <2> QED
    BY <2>1
<1>6. CASE todo[1] = FatWrite(c, END_OF_CHAIN)
  <2>1. /\ fat' = [fat EXCEPT ![c] = END_OF_CHAIN] /\ todo' = Tail(todo)
        /\ UNCHANGED <<fat2, content, fd_table, result>>
    BY <1>6, DoWriteFacts DEF FatEntry
  <2>2. Allocated' /\ FilesOpen'
    BY Zenon, <2>1, FatStep
  <2>3. Distinct' /\ DirsFilled'
    BY <2>1, SameContent
  <2>4. FatOK' /\ fat'[c] = END_OF_CHAIN
    BY <2>1 DEF FatOK
  <2>5. TypeOK'
    BY Zenon, <1>1, <1>4, <2>1 DEF TypeOK, FatEntry
  <2>6. CreateLeft(p, c)'
    <3>1. Unnamed(c)' /\ ~HasOpen(c)' /\ (Filled(c) => Filled(c)')
      BY <1>2, <2>1, SameContent, SameFds
    <3>2. \A d \in Dir, s \in Slot :
            FirstUsable(d, s) /\ LeadsTo(p, d) => FirstUsable(d, s)' /\ LeadsTo(p, d)'
      BY <2>1, SameContent
    <3> QED
      BY <1>1, <1>5, <1>6, <2>1, <2>4, <3>1, <3>2, CreateGoesOn
  <2> QED
    BY <2>2, <2>3, <2>4, <2>5, <2>6 DEF DiskInv, TodoOK
<1>7. CASE todo[1] = Mirror
  <2>1. /\ fat2' = fat /\ todo' = Tail(todo)
        /\ UNCHANGED <<fat, content, fd_table, result>>
    BY <1>7, DoWriteFacts
  <2>2. Allocated' /\ FilesOpen'
    BY <2>1 DEF Allocated, FilesOpen, FileOpen, Live, Start
  <2>3. Distinct' /\ DirsFilled'
    BY <2>1, SameContent
  <2>4. FatOK'
    BY <2>1 DEF FatOK
  <2>5. TypeOK'
    BY Zenon, <1>1, <1>4, <2>1 DEF TypeOK
  <2>6. CreateLeft(p, c)'
    <3>1. Unnamed(c)' /\ ~HasOpen(c)' /\ (Filled(c) => Filled(c)')
      BY <1>2, <2>1, SameContent, SameFds
    <3>2. \A d \in Dir, s \in Slot :
            FirstUsable(d, s) /\ LeadsTo(p, d) => FirstUsable(d, s)' /\ LeadsTo(p, d)'
      BY <2>1, SameContent
    <3> QED
      BY <1>1, <1>5, <1>7, <2>1, <3>1, <3>2, CreateGoesOn
  <2> QED
    BY <2>2, <2>3, <2>4, <2>5, <2>6 DEF DiskInv, TodoOK
<1>8. CASE todo[1] = InitDirectory(c)
  <2>1. /\ content' = [content EXCEPT ![c] = [s \in Slot |-> Unused]]
        /\ todo' = Tail(todo) /\ UNCHANGED <<fat, fat2, fd_table, result>>
    BY <1>8, DoWriteFacts
  <2>2. /\ Allocated' /\ DirsFilled' /\ FilesOpen' /\ Distinct'
        /\ Filled(c)' /\ Unnamed(c)'
        /\ \A d \in Dir : d # c => content'[d] = content[d]
    BY Zenon, <1>2, <2>1, InitStep
  <2>3. FatOK'
    BY <2>1 DEF FatOK
  <2>4. TypeOK'
    BY Zenon, <1>1, <1>2, <1>4, <2>1 DEF TypeOK
  <2>5. CreateLeft(p, c)'
    <3>1. ~HasOpen(c)'
      BY <1>2, <2>1, SameFds
    <3>2. ASSUME NEW d \in Dir, NEW s \in Slot, FirstUsable(d, s), LeadsTo(p, d)
          PROVE  FirstUsable(d, s)' /\ LeadsTo(p, d)'
      <4>1. content'[d] = content[d] /\ content'[Root] = content[Root]
        BY Zenon, <1>2, <2>2, <3>2, LeadsElsewhere, SetFacts
      <4> QED
        BY <3>2, <4>1 DEF FirstUsable, LeadsTo, Live, Start
    <3>3. fat[c] = END_OF_CHAIN \/ todo[1] = FatWrite(c, END_OF_CHAIN) => fat'[c] = END_OF_CHAIN
      BY <1>5, <1>8, <2>1
    <3> QED
      BY <1>1, <2>1, <2>2, <3>1, <3>2, <3>3, CreateGoesOn
  <2> QED
    BY Zenon, <2>2, <2>3, <2>4, <2>5 DEF DiskInv, TodoOK
<1>9. CASE EntryLeft(p, c, 1)
  <2>1. PICK d \in Dir, s \in Slot, e \in DirEntry83 :
               /\ todo[1] = EntryWrite(d, s, e) /\ 1 = Len(todo)
               /\ FirstUsable(d, s) /\ e.start_cluster = c
               /\ fat[c] = END_OF_CHAIN /\ (e.is_directory => Filled(c))
    <3>1. 1..(1 - 1) = {}
      OBVIOUS
    <3> QED
      BY Zenon, <1>9, <3>1 DEF EntryLeft
  <2>2. /\ content' = [content EXCEPT ![d][s] = e] /\ todo' = Tail(todo)
        /\ UNCHANGED <<fat, fat2, fd_table, result>>
    BY <2>1, DoWriteFacts
  <2>3. Allocated' /\ DirsFilled' /\ FilesOpen'
    BY Zenon, <1>2, <2>1, <2>2, LinkStep
  <2>4. /\ content' \in [Dir -> [Slot -> DirEntry83 \cup {Unused, Deleted, Data}]]
        /\ content'[d][s] = e
        /\ \A a \in Dir, b \in Slot : a # d \/ b # s => content'[a][b] = content[a][b]
    BY Zenon, <2>2, EntryWritten
  <2>5. Distinct'
    <3>1. Start(d, s)' = c
      BY <2>1, <2>4 DEF Start
    <3>2. \A a \in Dir, b \in Slot : a # d \/ b # s =>
            Start(a, b)' = Start(a, b) /\ (Live(a, b)' => Live(a, b) /\ Start(a, b) # c)
      BY <1>2, <2>4 DEF Live, Start, Unnamed
    <3>3. ASSUME NEW a \in Dir, NEW b \in Dir, NEW t \in Slot, NEW u \in Slot,
                 Live(a, t)', Live(b, u)', Start(a, t)' = Start(b, u)'
          PROVE  a = b /\ t = u
      <4>1. CASE (a # d \/ t # s) /\ (b # d \/ u # s)
        <5>1. Live(a, t) /\ Live(b, u) /\ Start(a, t) = Start(b, u)
          BY <3>2, <3>3, <4>1
        <5> QED
          BY <5>1, Zenon DEF Distinct
      <4>2. CASE (a # d \/ t # s) /\ b = d /\ u = s
        BY <3>1, <3>2, <3>3, <4>2
      <4>3. CASE (b # d \/ u # s) /\ a = d /\ t = s
        BY <3>1, <3>2, <3>3, <4>3
      <4> QED
        BY <4>1, <4>2, <4>3
    <3> QED
      BY <3>3 DEF Distinct
  <2>6. FatOK'
    BY <2>2 DEF FatOK
  <2>7. TypeOK'
    BY Zenon, <1>1, <1>4, <2>2, <2>4 DEF TypeOK
  <2>8. todo' = <<>>
    BY <1>1, <2>1, <2>2, TodoFacts
  <2> QED
    BY <2>3, <2>5, <2>6, <2>7, <2>8 DEF DiskInv, TodoOK
<1> QED
  BY <1>3, <1>6, <1>7, <1>8, <1>9
\* remove_entry has the entry to delete: afterwards nothing names its cluster.
LEMMA RemovePhase ==
  ASSUME TypeOK, FatOK, Allocated, Distinct, DirsFilled, FilesOpen, DoWrite,
         NEW p \in Path, NEW d \in Dir, NEW s \in Slot, RemoveLeft(p, d, s)
  PROVE  TypeOK' /\ FatOK' /\ DiskInv'
<1>1. todo # <<>> /\ UNCHANGED <<reuse_fds, op, torn, ops>>
  BY DoWriteFacts
<1>2. PICK c : c = Start(d, s)
  OBVIOUS
<1>3. /\ op = {p} /\ Live(d, s) /\ ~IsOpen(<<d, s>>) /\ ~HasOpen(c)
      /\ todo = <<EntryWrite(d, s, Deleted), FreeChain(c)>>
  BY <1>2 DEF RemoveLeft, Names
<1>4. c \in Cluster /\ c \in Dir /\ fat[c] = END_OF_CHAIN
  BY Zenon, <1>2, <1>3, ContentFacts, SetFacts DEF Allocated
<1>5. todo[1] = EntryWrite(d, s, Deleted) /\ Tail(todo) = <<FreeChain(c)>>
  BY <1>3
<1>6. /\ content' = [content EXCEPT ![d][s] = Deleted] /\ todo' = Tail(todo)
      /\ UNCHANGED <<fat, fat2, fd_table, result>>
  BY <1>5, DoWriteFacts
<1>7. Allocated' /\ DirsFilled' /\ FilesOpen'
  BY Zenon, <1>3, <1>6, UnlinkStep
<1>8. /\ content' \in [Dir -> [Slot -> DirEntry83 \cup {Unused, Deleted, Data}]]
      /\ content'[d][s] = Deleted
      /\ \A a \in Dir, b \in Slot : a # d \/ b # s => content'[a][b] = content[a][b]
  BY Zenon, <1>6, EntryWritten
<1>9. \A a \in Dir, b \in Slot : Live(a, b)' =>
        Live(a, b) /\ (a # d \/ b # s) /\ content'[a][b] = content[a][b]
  BY <1>8, EntryFacts DEF Live
<1>10. Distinct'
  <2>1. ASSUME NEW a \in Dir, NEW b \in Dir, NEW t \in Slot, NEW u \in Slot,
               Live(a, t)', Live(b, u)', Start(a, t)' = Start(b, u)'
        PROVE  a = b /\ t = u
    <3>1. Live(a, t) /\ Live(b, u) /\ Start(a, t) = Start(b, u)
      BY <1>9, <2>1 DEF Start
    <3> QED
      BY <3>1, Zenon DEF Distinct
  <2> QED
    BY <2>1 DEF Distinct
<1>11. Unnamed(c)'
  BY <1>2, <1>3, <1>9 DEF Distinct, Unnamed, Start
<1>12. FatOK'
  BY <1>6 DEF FatOK
<1>13. TypeOK'
  <2>1. todo' \in Seq(BlockWrite)
    BY <1>1, <1>6, TodoFacts
  <2> QED
    BY Zenon, <1>1, <1>6, <1>8, <2>1 DEF TypeOK
<1>14. FreeLeft(p, c)'
  <2>1. ~HasOpen(c)'
    BY <1>3, <1>4, <1>6, SameFds
  <2> QED
    BY <1>1, <1>3, <1>4, <1>5, <1>6, <1>11, <2>1 DEF FreeLeft
<1> QED
  BY <1>4, <1>7, <1>10, <1>12, <1>13, <1>14 DEF DiskInv, TodoOK

\* remove_entry has the chain to free, of one cluster.
LEMMA FreePhase ==
  ASSUME TypeOK, FatOK, Allocated, Distinct, DirsFilled, FilesOpen, DoWrite,
         NEW p \in Path, NEW c \in Cluster, FreeLeft(p, c)
  PROVE  TypeOK' /\ FatOK' /\ DiskInv'
<1>1. todo # <<>> /\ UNCHANGED <<reuse_fds, op, torn, ops>>
  BY DoWriteFacts
<1>2. /\ op = {p} /\ Unnamed(c) /\ ~HasOpen(c) /\ fat[c] = END_OF_CHAIN /\ c \in Dir
      /\ todo = <<FreeChain(c)>>
  BY SetFacts DEF FreeLeft
<1>3. FreeCluster(c)
  <2>1. todo[1] = FreeChain(c)
    BY <1>2
  <2> QED
    BY <2>1, DoWriteFacts
<1>4. /\ fat' = [fat EXCEPT ![c] = FREE] /\ todo' = <<Mirror>> \o <<>>
      /\ UNCHANGED <<fat2, content, fd_table, result>>
  BY <1>2, <1>3 DEF FreeCluster
<1>5. todo' = <<Mirror>>
  BY <1>4
<1>6. Allocated' /\ FilesOpen'
  BY Zenon, <1>2, <1>4, FatStep
<1>7. Distinct' /\ DirsFilled'
  BY <1>4, SameContent
<1>8. FatOK'
  BY <1>4 DEF FatOK
<1>9. TypeOK'
  <2>1. Mirror \in BlockWrite
    BY Zenon DEF Mirror, BlockWrite
  <2>2. todo' \in Seq(BlockWrite)
    BY <1>5, <2>1
  <2> QED
    BY Zenon, <1>1, <1>4, <2>2 DEF TypeOK, FatEntry
<1>10. CreateLeft(p, c)'
  <2>1. ~HasOpen(c)' /\ Unnamed(c)'
    BY <1>2, <1>4, SameContent, SameFds
  <2>2. \A i \in 1..Len(todo') : todo'[i] = Mirror
    BY <1>5
  <2> QED
    BY <1>1, <1>2, <2>1, <2>2 DEF CreateLeft
<1> QED
  BY <1>6, <1>7, <1>8, <1>9, <1>10 DEF DiskInv, TodoOK

\* rename has both entries to write: afterwards two entries name the cluster.
LEMMA RenamePhase ==
  ASSUME TypeOK, FatOK, Allocated, Distinct, DirsFilled, FilesOpen, DoWrite,
         NEW p \in Path, NEW q \in Path, NEW d \in Dir, NEW s \in Slot,
         NEW a \in Dir, NEW b \in Slot, RenameLeft(p, q, d, s, a, b)
  PROVE  TypeOK' /\ FatOK' /\ DiskInv'
<1>1. todo # <<>> /\ UNCHANGED <<reuse_fds, op, torn, ops>>
  BY DoWriteFacts
<1>2. PICK e : e = [content[d][s] EXCEPT !.name = Stored[Leaf(q)]]
  BY Zenon
<1>3. /\ op = {p, q} /\ p # q /\ Names(p, d, s) /\ Live(d, s) /\ ~IsOpen(<<d, s>>)
      /\ FirstUsable(a, b) /\ todo = <<EntryWrite(a, b, e), EntryWrite(d, s, Deleted)>>
  BY <1>2 DEF RenameLeft, Names
<1>4. content[d][s] \in DirEntry83 /\ Stored[Leaf(q)] \in Name
  BY Zenon, <1>3, ContentFacts, PathFacts, NameAssumption
<1>5. /\ e \in DirEntry83 /\ e.start_cluster = Start(d, s)
      /\ e.is_directory = content[d][s].is_directory
  BY <1>2, <1>4 DEF DirEntry83, Start
<1>6. Start(d, s) \in Cluster /\ fat[Start(d, s)] = END_OF_CHAIN
  BY Zenon, <1>3, ContentFacts DEF Allocated
<1>7. e.is_directory => Filled(e.start_cluster)
  BY Zenon, <1>3, <1>5 DEF DirsFilled
<1>8. ~e.is_directory => ~HasOpen(e.start_cluster)
  <2> SUFFICES ASSUME ~e.is_directory, NEW i \in DOMAIN fd_table, fd_table[i].valid,
                      fd_table[i].dir = Start(d, s)
               PROVE  FALSE
    BY Zenon, <1>5 DEF HasOpen
  <2>1. FileOpen(fd_table[i])
    BY Zenon DEF FilesOpen
  <2>2. fd_table[i].dir # Root
    BY Zenon, <1>6, SetFacts
  <2> QED
    BY Zenon, <1>3, <1>5, <2>1, <2>2 DEF FileOpen
<1>9. todo[1] = EntryWrite(a, b, e) /\ Tail(todo) = <<EntryWrite(d, s, Deleted)>>
  BY <1>3
<1>10. /\ content' = [content EXCEPT ![a][b] = e] /\ todo' = Tail(todo)
       /\ UNCHANGED <<fat, fat2, fd_table, result>>
  BY <1>5, <1>9, DoWriteFacts
<1>11. Allocated' /\ DirsFilled' /\ FilesOpen'
  BY Zenon, <1>3, <1>5, <1>6, <1>7, <1>8, <1>10, LinkStep
<1>12. /\ content' \in [Dir -> [Slot -> DirEntry83 \cup {Unused, Deleted, Data}]]
       /\ content'[a][b] = e
       /\ \A x \in Dir, y \in Slot : x # a \/ y # b => content'[x][y] = content[x][y]
  <2> DEFINE E == DirEntry83 \cup {Unused, Deleted, Data}
  <2>1. content \in [Dir -> [Slot -> E]]
    BY Zenon DEF TypeOK
  <2>2. e \in E
    BY <1>5
  <2> HIDE DEF E
  <2>3. /\ content' \in [Dir -> [Slot -> E]] /\ content'[a][b] = e
        /\ \A x \in Dir, y \in Slot : x # a \/ y # b => content'[x][y] = content[x][y]
    BY <1>10, <2>1, <2>2
  <2> QED
    BY <2>3 DEF E
<1>13. FatOK'
  BY <1>10 DEF FatOK
<1>14. TypeOK'
  <2>1. todo' \in Seq(BlockWrite)
    BY <1>1, <1>10, TodoFacts
  <2> QED
    BY Zenon, <1>1, <1>10, <1>12, <2>1 DEF TypeOK
<1>15. \A x \in Dir, y \in Slot : Live(x, y) => content'[x][y] = content[x][y]
  BY Zenon, <1>3, <1>12, EntryFacts DEF FirstUsable, Live
<1>16. UnlinkLeft(p, q, d, s)'
  <2>1. Names(p, d, s)'
    BY Zenon, <1>3, <1>15, SetFacts DEF Names, LeadsTo, Live, Start
  <2>2. ~IsOpen(<<d, s>>)'
    BY <1>3, <1>10, SameFds
  <2>3. DistinctBut(d, s)'
    <3>1. \A x \in Dir, y \in Slot : Live(x, y)' =>
            \/ Live(x, y) /\ content'[x][y].start_cluster = Start(x, y)
            \/ x = a /\ y = b /\ content'[x][y].start_cluster = Start(d, s)
      BY <1>5, <1>12 DEF Live, Start
    <3> SUFFICES ASSUME NEW x \in Dir, NEW y \in Slot, NEW z \in Dir, NEW t \in Slot,
                        Live(x, y)', Live(z, t)',
                        content'[x][y].start_cluster = content'[z][t].start_cluster,
                        <<x, y>> # <<d, s>>, <<z, t>> # <<d, s>>
                 PROVE  x = z /\ y = t
      BY DEF DistinctBut, Start
    <3> QED
      BY <1>3, <3>1 DEF Distinct
  <2> QED
    BY <1>1, <1>3, <1>9, <1>10, <2>1, <2>2, <2>3 DEF UnlinkLeft
<1>17. Tearing'
  BY <1>1, <1>3, <1>9, <1>10 DEF Tearing, InRename
<1> QED
  BY <1>11, <1>13, <1>14, <1>16, <1>17 DEF DiskInv, TodoOK

\* rename has the old entry to delete.
LEMMA UnlinkPhase ==
  ASSUME TypeOK, FatOK, Allocated, DirsFilled, FilesOpen, DoWrite,
         NEW p \in Path, NEW q \in Path, NEW d \in Dir, NEW s \in Slot,
         UnlinkLeft(p, q, d, s)
  PROVE  TypeOK' /\ FatOK' /\ DiskInv'
<1>1. todo # <<>> /\ UNCHANGED <<reuse_fds, op, torn, ops>>
  BY DoWriteFacts
<1>2. /\ Live(d, s) /\ ~IsOpen(<<d, s>>) /\ DistinctBut(d, s)
      /\ todo[1] = EntryWrite(d, s, Deleted) /\ Tail(todo) = <<>>
  BY DEF UnlinkLeft, Names
<1>3. /\ content' = [content EXCEPT ![d][s] = Deleted] /\ todo' = Tail(todo)
      /\ UNCHANGED <<fat, fat2, fd_table, result>>
  BY <1>2, DoWriteFacts
<1>4. Allocated' /\ DirsFilled' /\ FilesOpen'
  BY Zenon, <1>2, <1>3, UnlinkStep
<1>5. /\ content' \in [Dir -> [Slot -> DirEntry83 \cup {Unused, Deleted, Data}]]
      /\ content'[d][s] = Deleted
      /\ \A a \in Dir, b \in Slot : a # d \/ b # s => content'[a][b] = content[a][b]
  BY Zenon, <1>3, EntryWritten
<1>6. \A a \in Dir, b \in Slot : Live(a, b)' =>
        Live(a, b) /\ <<a, b>> # <<d, s>> /\ content'[a][b] = content[a][b]
  BY <1>5, EntryFacts DEF Live
<1>7. Distinct'
  BY <1>2, <1>6 DEF Distinct, DistinctBut, Start
<1>8. FatOK'
  BY <1>3 DEF FatOK
<1>9. TypeOK'
  <2>1. todo' \in Seq(BlockWrite)
    BY <1>1, <1>3, TodoFacts
  <2> QED
    BY Zenon, <1>1, <1>3, <1>5, <2>1 DEF TypeOK
<1> QED
  BY <1>2, <1>3, <1>4, <1>7, <1>8, <1>9 DEF DiskInv, TodoOK

\* The smaller and the larger of two numbers.
LEMMA MinMaxOfTwo ==
  ASSUME NEW x \in Nat, NEW y \in Nat
  PROVE  /\ Min({x, y}) \in {x, y} /\ Min({x, y}) <= x /\ Min({x, y}) <= y
         /\ Max({x, y}) \in {x, y} /\ Max({x, y}) >= x /\ Max({x, y}) >= y
<1>1. Min({x, y}) \in {x, y} /\ \A z \in {x, y} : Min({x, y}) <= z
  <2>1. {x, y} \in SUBSET Nat /\ {x, y} # {}
    OBVIOUS
  <2> QED
    BY Zenon, <2>1, MinFacts
<1>2. \E m \in {x, y} : \A z \in {x, y} : m >= z
  OBVIOUS
<1>3. Max({x, y}) \in {x, y} /\ \A z \in {x, y} : Max({x, y}) >= z
  BY Zenon, <1>2 DEF Max
<1> QED
  BY <1>1, <1>3

\* How much of the data one turn of write_file's loop writes.
LEMMA ChunkFacts ==
  ASSUME NEW position \in Nat, NEW left \in Nat \ {0}
  PROVE  /\ position % Slots \in 0..Slots - 1
         /\ Min({Slots - (position % Slots), left}) \in 1..left
<1>1. position % Slots \in 0..Slots - 1
  BY BoundAssumption
<1>2. PICK room \in Nat \ {0} : room = Slots - (position % Slots)
  BY <1>1, BoundAssumption
<1>3. Min({room, left}) \in {room, left} /\ Min({room, left}) <= left
  BY MinMaxOfTwo
<1> QED
  BY <1>1, <1>2, <1>3

\* One turn of write_file's loop on an open file: the descriptor moves on in its
\* cluster, and the loop ends with NoSpace when that is full.
LEMMA ChunkStep ==
  ASSUME TypeOK, Allocated, FilesOpen, NEW fd \in DOMAIN fd_table, fd_table[fd].valid,
         NEW n \in 1..MaxPosition, fd_table[fd].position + n <= MaxPosition,
         WriteChunk(fd, n)
  PROVE  /\ \E chunk \in 1..n, size \in 0..MaxPosition :
              /\ fd_table' \in Seq(Fat16File) /\ Len(fd_table') = Len(fd_table)
              /\ \A i \in DOMAIN fd_table : i # fd => fd_table'[i] = fd_table[i]
              /\ fd_table'[fd] = [fd_table[fd] EXCEPT !.position = @ + chunk, !.size = size]
              /\ fd_table[fd].position + chunk \in 0..MaxPosition
              /\ fd_table[fd].position + chunk <= size
              /\ \/ todo' = <<>>
                 \/ n - chunk \in 1..n /\ todo' = <<DataWrite(fd, n - chunk)>>
                 \/ todo' = <<SizeWrite(fd)>>
         /\ \E units : content' = [content EXCEPT ![fd_table[fd].current_cluster] =
                                    [s \in Slot |-> IF s \in units THEN Data ELSE @[s]]]
         /\ UNCHANGED <<fat, fat2>> /\ result' \in {"", "NoSpace"}
<1> DEFINE f == fd_table[fd]
           offset == f.position % Slots
           chunk == Min({Slots - offset, n})
           size == Max({f.size, f.position + chunk})
           full == offset + chunk = Slots
           rest == IF chunk < n THEN <<DataWrite(fd, n - chunk)>> ELSE <<SizeWrite(fd)>>
<1>1. f.position \in Nat /\ f.size \in Nat /\ f.size <= MaxPosition /\ n \in Nat \ {0}
  BY FdFacts, BoundAssumption
<1>2. chunk \in 1..n
  BY <1>1, ChunkFacts
<1>3. {c \in FileCluster : fat[c] = FREE} = {}
  BY FilesNeverGrow
<1>4. fat[f.current_cluster] = END_OF_CHAIN
  <2>1. FileOpen(f) /\ f.dir \in Dir
    BY FdFacts DEF FilesOpen
  <2> QED
    BY <2>1 DEF FileOpen, Allocated
<1>5. /\ content' = [content EXCEPT ![f.current_cluster] =
                      [s \in Slot |-> IF s \in offset + 1..offset + chunk THEN Data ELSE @[s]]]
      /\ fd_table' = [fd_table EXCEPT ![fd].position = @ + chunk, ![fd].size = Max({@, f.position + chunk})]
      /\ todo' = IF full THEN <<>> ELSE <<>> \o rest
      /\ result' = (IF full THEN "NoSpace" ELSE "")
      /\ UNCHANGED <<fat, fat2>>
  BY Zenon, <1>3, <1>4 DEF WriteChunk
<1> HIDE DEF chunk
<1>6. f.position + chunk \in 0..MaxPosition /\ f.position + chunk \in Nat
  BY <1>1, <1>2, BoundAssumption
<1>7. size \in 0..MaxPosition /\ f.position + chunk <= size
  BY <1>1, <1>6, MinMaxOfTwo
<1>8. /\ fd_table' \in Seq(Fat16File) /\ Len(fd_table') = Len(fd_table)
      /\ \A i \in DOMAIN fd_table : i # fd => fd_table'[i] = fd_table[i]
      /\ fd_table'[fd] = [f EXCEPT !.position = @ + chunk, !.size = size]
  <2>1. fd_table \in Seq(Fat16File) /\ f \in Fat16File
    BY Zenon, FdFacts DEF TypeOK
  <2>2. \A i \in DOMAIN fd_table : i # fd => fd_table'[i] = fd_table[i]
    BY Zenon, <1>5
  <2>3. fd_table'[fd] = [f EXCEPT !.position = @ + chunk, !.size = size]
    BY Zenon, <1>5, <2>1 DEF Fat16File
  <2>4. fd_table'[fd] \in Fat16File
    BY Zenon, <1>6, <1>7, <2>1, <2>3 DEF Fat16File
  <2>5. DOMAIN fd_table = 1..Len(fd_table) /\ Len(fd_table) \in Nat
    BY <2>1
  <2>6. DOMAIN fd_table' = 1..Len(fd_table)
    BY Zenon, <1>5, <2>5
  <2>7. fd_table' = [i \in 1..Len(fd_table) |-> fd_table'[i]]
    BY Zenon, <1>5, <2>5
  <2>8. \A i \in 1..Len(fd_table) : fd_table'[i] \in Fat16File
    BY <2>1, <2>2, <2>4, <2>5
  <2>9. fd_table' \in [1..Len(fd_table) -> Fat16File]
    BY <2>7, <2>8
  <2>10. fd_table' \in Seq(Fat16File) /\ Len(fd_table') = Len(fd_table)
    BY <2>5, <2>9
  <2> QED
    BY <2>2, <2>3, <2>10
<1>9. \/ todo' = <<>>
      \/ n - chunk \in 1..n /\ todo' = <<DataWrite(fd, n - chunk)>>
      \/ todo' = <<SizeWrite(fd)>>
  <2>1. <<>> \o rest = rest
    OBVIOUS
  <2>2. chunk < n => n - chunk \in 1..n
    BY <1>1, <1>2
  <2> QED
    BY Zenon, <1>5, <2>1, <2>2
<1>10. \E units : content' = [content EXCEPT ![f.current_cluster] =
                               [s \in Slot |-> IF s \in units THEN Data ELSE @[s]]]
  BY Zenon, <1>5
<1> HIDE DEF size
<1> QED
  BY Zenon, <1>2, <1>5, <1>6, <1>7, <1>8, <1>9, <1>10
\* write_file has data left to write.
LEMMA DataPhase ==
  ASSUME TypeOK, FatOK, Allocated, Distinct, DirsFilled, FilesOpen, DoWrite,
         NEW fd \in DOMAIN fd_table, fd_table[fd].valid, op = {},
         NEW n \in 1..MaxPosition, todo = <<DataWrite(fd, n)>>,
         fd_table[fd].position + n <= MaxPosition
  PROVE  /\ TypeOK' /\ FatOK' /\ DiskInv'
         /\ Len(fd_table') = Len(fd_table)
         /\ \A i \in DOMAIN fd_table : fd_table'[i].valid = fd_table[i].valid
<1>1. UNCHANGED <<reuse_fds, op, torn, ops>> /\ WriteChunk(fd, n)
  <2>1. todo[1] = DataWrite(fd, n)
    OBVIOUS
  <2> QED
    BY <2>1, DoWriteFacts
<1>2. PICK f \in Fat16File : f = fd_table[fd]
  BY FdFacts
<1>3. FileOpen(f)
  BY <1>2 DEF FilesOpen
<1>4. PICK chunk \in 1..n, size \in 0..MaxPosition :
        /\ fd_table' \in Seq(Fat16File) /\ Len(fd_table') = Len(fd_table)
        /\ \A i \in DOMAIN fd_table : i # fd => fd_table'[i] = fd_table[i]
        /\ fd_table'[fd] = [f EXCEPT !.position = @ + chunk, !.size = size]
        /\ f.position + chunk \in 0..MaxPosition
        /\ f.position + chunk <= size
        /\ \/ todo' = <<>>
           \/ n - chunk \in 1..n /\ todo' = <<DataWrite(fd, n - chunk)>>
           \/ todo' = <<SizeWrite(fd)>>
  BY Zenon, <1>1, <1>2, ChunkStep
<1>5. PICK units, k :
        /\ k = f.current_cluster
        /\ content' = [content EXCEPT ![k] = [s \in Slot |-> IF s \in units THEN Data ELSE @[s]]]
  <2>1. PICK units : content' = [content EXCEPT ![fd_table[fd].current_cluster] =
                                  [s \in Slot |-> IF s \in units THEN Data ELSE @[s]]]
    BY Zenon, <1>1, ChunkStep
  <2>2. f.current_cluster = fd_table[fd].current_cluster
    BY <1>2
  <2> QED
    BY Zenon, <2>1, <2>2
<1>6. UNCHANGED <<fat, fat2>> /\ result' \in {"", "NoSpace"}
  BY Zenon, <1>1, ChunkStep
<1>7. /\ Allocated' /\ DirsFilled' /\ Distinct'
      /\ \A g \in Fat16File : FileOpen(g) => FileOpen(g)'
  BY Zenon, <1>3, <1>5, <1>6, DataStep
<1>8. DOMAIN fd_table' = DOMAIN fd_table
  <2>1. fd_table \in Seq(Fat16File)
    BY Zenon DEF TypeOK
  <2> QED
    BY <1>4, <2>1
<1>9. /\ fd_table'[fd].valid = f.valid /\ fd_table'[fd].dir = f.dir
      /\ fd_table'[fd].slot = f.slot /\ fd_table'[fd].current_cluster = f.current_cluster
      /\ fd_table'[fd].position = f.position + chunk /\ fd_table'[fd].size = size
  BY <1>4 DEF Fat16File
<1>10. FilesOpen'
  <2> SUFFICES ASSUME NEW i \in DOMAIN fd_table, fd_table'[i].valid
               PROVE  FileOpen(fd_table[i])'
    BY <1>8 DEF FilesOpen
  <2>1. CASE i # fd
    <3>1. PICK g \in Fat16File : g = fd_table[i] /\ g = fd_table'[i]
      BY <1>4, <2>1, FdFacts
    <3>2. FileOpen(g)'
      BY Zenon, <1>7, <3>1 DEF FilesOpen
    <3> QED
      BY Zenon, <3>1, <3>2 DEF FileOpen
  <2>2. CASE i = fd
    <3>1. FileOpen(f)'
      BY <1>3, <1>7
    <3> QED
      BY Zenon, <1>4, <1>9, <2>2, <3>1 DEF FileOpen, Live, Start
  <2> QED
    BY <2>1, <2>2
<1>11. FatOK'
  BY Zenon, <1>6 DEF FatOK
<1>12. fd \in 1..MaxFds /\ n \in Nat /\ chunk \in Nat /\ f.position \in Nat
  BY <1>2, FdFacts, BoundAssumption
<1>13. content' \in [Dir -> [Slot -> DirEntry83 \cup {Unused, Deleted, Data}]]
  <2> DEFINE E == DirEntry83 \cup {Unused, Deleted, Data}
  <2>1. content \in [Dir -> [Slot -> E]] /\ Data \in E
    BY Zenon DEF TypeOK
  <2> HIDE DEF E
  <2>2. content' \in [Dir -> [Slot -> E]]
    BY Zenon, <1>5, <2>1
  <2> QED
    BY <2>2 DEF E
<1>14. todo' \in Seq(BlockWrite)
  <2>1. \A m \in 1..MaxPosition : DataWrite(fd, m) \in BlockWrite
    BY <1>12 DEF DataWrite, BlockWrite
  <2>2. SizeWrite(fd) \in BlockWrite
    BY <1>12 DEF SizeWrite, BlockWrite
  <2>3. n - chunk \in 1..n => n - chunk \in 1..MaxPosition
    BY BoundAssumption
  <2>4. \A w \in BlockWrite : <<w>> \in Seq(BlockWrite)
    OBVIOUS
  <2>5. <<>> \in Seq(BlockWrite)
    OBVIOUS
  <2>6. n - chunk \in 1..n => <<DataWrite(fd, n - chunk)>> \in Seq(BlockWrite)
    BY <2>1, <2>3, <2>4
  <2> QED
    BY Zenon, <1>4, <2>2, <2>4, <2>5, <2>6
<1>15. TypeOK'
  BY Zenon, <1>1, <1>4, <1>6, <1>8, <1>13, <1>14 DEF TypeOK
<1>16. TodoOK'
  <2>1. CASE todo' = <<>>
    BY <2>1 DEF TodoOK
  <2>2. CASE n - chunk \in 1..n /\ todo' = <<DataWrite(fd, n - chunk)>>
    <3>1. n - chunk \in 1..MaxPosition
      BY <2>2, BoundAssumption
    <3>2. fd_table'[fd].position + (n - chunk) <= MaxPosition
      BY <1>2, <1>9, <1>12
    <3>3. WriteLeft(fd)'
      BY <1>1, <1>2, <1>9, <2>2, <3>1, <3>2 DEF WriteLeft
    <3> QED
      BY <1>8, <3>3 DEF TodoOK
  <2>3. CASE todo' = <<SizeWrite(fd)>>
    <3>1. WriteLeft(fd)'
      BY <1>1, <1>2, <1>9, <2>3 DEF WriteLeft
    <3> QED
      BY <1>8, <3>1 DEF TodoOK
  <2> QED
    BY <1>4, <2>1, <2>2, <2>3
<1>17. \A i \in DOMAIN fd_table : fd_table'[i].valid = fd_table[i].valid
  BY Zenon, <1>2, <1>4, <1>9
<1> QED
  BY <1>4, <1>7, <1>10, <1>11, <1>15, <1>16, <1>17 DEF DiskInv

\* write_file has the size to write.
LEMMA SizePhase ==
  ASSUME TypeOK, FatOK, Allocated, Distinct, DirsFilled, FilesOpen, DoWrite,
         NEW fd \in DOMAIN fd_table, fd_table[fd].valid, todo = <<SizeWrite(fd)>>
  PROVE  TypeOK' /\ FatOK' /\ DiskInv' /\ fd_table' = fd_table
<1>1. UNCHANGED <<reuse_fds, op, torn, ops>> /\ UpdateSize(fd_table[fd])
  <2>1. todo[1] = SizeWrite(fd)
    OBVIOUS
  <2> QED
    BY <2>1, DoWriteFacts
<1>2. PICK a \in Dir, b \in Slot, n \in 0..MaxPosition :
        /\ a = fd_table[fd].dir /\ b = fd_table[fd].slot /\ n = fd_table[fd].size
        /\ Live(a, b)
  BY Zenon, FdFacts DEF FilesOpen, FileOpen
<1>3. /\ content' = [content EXCEPT ![a][b].file_size = n] /\ todo' = <<>>
      /\ UNCHANGED <<fat, fat2, fd_table, result>>
  BY <1>1, <1>2 DEF UpdateSize
<1>4. /\ Allocated' /\ DirsFilled' /\ FilesOpen' /\ Distinct'
      /\ content' \in [Dir -> [Slot -> DirEntry83 \cup {Unused, Deleted, Data}]]
  BY Zenon, <1>2, <1>3, SizeStep
<1>5. FatOK'
  BY <1>3 DEF FatOK
<1>6. TypeOK'
  <2>1. todo' \in Seq(BlockWrite)
    BY <1>3
  <2> QED
    BY Zenon, <1>1, <1>3, <1>4, <2>1 DEF TypeOK
<1> QED
  BY <1>3, <1>4, <1>5, <1>6 DEF DiskInv, TodoOK
\* No block write opens or closes a descriptor.
LEMMA ReuseStep ==
  ASSUME TypeOK, ReuseClosedOnly, DoWrite
  PROVE  ReuseClosedOnly'
<1>1. reuse_fds' = reuse_fds
  BY DoWriteFacts
<1>2. \A i \in DOMAIN fd_table : fd_table[i] \in Fat16File
  BY FdFacts
<1> SUFFICES /\ DOMAIN fd_table' = DOMAIN fd_table
             /\ \A i \in DOMAIN fd_table : fd_table'[i].valid = fd_table[i].valid
  BY <1>1 DEF ReuseClosedOnly
<1>3. ASSUME NEW fd, NEW n, WriteChunk(fd, n)
      PROVE  /\ DOMAIN fd_table' = DOMAIN fd_table
             /\ \A i \in DOMAIN fd_table : fd_table'[i].valid = fd_table[i].valid
  <2>1. PICK x, y : fd_table' = [fd_table EXCEPT ![fd].position = x, ![fd].size = y]
    BY Zenon, <1>3 DEF WriteChunk
  <2> QED
    BY <1>2, <2>1 DEF Fat16File
<1>4. ASSUME NEW fd, NextCluster(fd)
      PROVE  /\ DOMAIN fd_table' = DOMAIN fd_table
             /\ \A i \in DOMAIN fd_table : fd_table'[i].valid = fd_table[i].valid
  <2>1. PICK x : fd_table' = [fd_table EXCEPT ![fd].current_cluster = x]
    BY Zenon, <1>4 DEF NextCluster
  <2> QED
    BY <1>2, <2>1 DEF Fat16File
<1>5. \/ fd_table' = fd_table
      \/ \E fd, n : WriteChunk(fd, n)
      \/ \E fd : NextCluster(fd)
  BY Zenon DEF DoWrite, WriteFat, FreeCluster, WriteDirectory, UpdateSize
<1> QED
  BY <1>3, <1>4, <1>5

\* A block write preserves the invariant.
LEMMA DoWriteStep ==
  ASSUME FatInv, DoWrite
  PROVE  FatInv'
<1>1. TypeOK /\ ReuseClosedOnly /\ FatOK
  BY DEF FatInv
<1>2. todo # <<>> /\ torn' = torn
  BY <1>1, DoWriteFacts
<1>3. ~torn /\ DiskInv
  BY <1>2 DEF FatInv
<1>4. Allocated /\ (Tearing \/ Distinct) /\ DirsFilled /\ FilesOpen /\ TodoOK
  BY <1>3 DEF DiskInv
<1>5. \A p : op = {p} => Distinct
  BY <1>4 DEF Tearing, InRename
<1>6. op = {} => Distinct
  BY <1>4 DEF Tearing, InRename
<1>7. Len(todo) # 1 => Distinct
  BY <1>4 DEF Tearing
<1>8. TypeOK' /\ FatOK' /\ DiskInv'
  <2>1. ASSUME NEW p \in Path, NEW c \in Cluster, CreateLeft(p, c)
        PROVE  TypeOK' /\ FatOK' /\ DiskInv'
    <3>1. Distinct
      BY <1>5, <2>1 DEF CreateLeft
    <3> QED
      BY <1>1, <1>4, <2>1, <3>1, CreatePhase
  <2>2. ASSUME NEW p \in Path, NEW c \in Cluster, FreeLeft(p, c)
        PROVE  TypeOK' /\ FatOK' /\ DiskInv'
    <3>1. Distinct
      BY <1>5, <2>2 DEF FreeLeft
    <3> QED
      BY <1>1, <1>4, <2>2, <3>1, FreePhase
  <2>3. ASSUME NEW p \in Path, NEW d \in Dir, NEW s \in Slot, RemoveLeft(p, d, s)
        PROVE  TypeOK' /\ FatOK' /\ DiskInv'
    <3>1. Distinct
      BY <1>5, <2>3 DEF RemoveLeft
    <3> QED
      BY <1>1, <1>4, <2>3, <3>1, RemovePhase
  <2>4. ASSUME NEW p \in Path, NEW q \in Path, NEW d \in Dir, NEW s \in Slot,
               UnlinkLeft(p, q, d, s)
        PROVE  TypeOK' /\ FatOK' /\ DiskInv'
    BY <1>1, <1>4, <2>4, UnlinkPhase
  <2>5. ASSUME NEW p \in Path, NEW q \in Path, NEW d \in Dir, NEW s \in Slot,
               NEW a \in Dir, NEW b \in Slot, RenameLeft(p, q, d, s, a, b)
        PROVE  TypeOK' /\ FatOK' /\ DiskInv'
    <3>1. Len(todo) = 2
      BY <2>5 DEF RenameLeft
    <3> QED
      BY <1>1, <1>4, <1>7, <2>5, <3>1, RenamePhase
  <2>6. ASSUME NEW fd \in DOMAIN fd_table, WriteLeft(fd)
        PROVE  TypeOK' /\ FatOK' /\ DiskInv'
    <3>1. op = {} /\ fd_table[fd].valid /\ Distinct
      BY <1>6, <2>6 DEF WriteLeft
    <3>2. CASE \E n \in 1..MaxPosition : /\ todo = <<DataWrite(fd, n)>>
                                         /\ fd_table[fd].position + n <= MaxPosition
      BY <1>1, <1>4, <3>1, <3>2, DataPhase
    <3>3. CASE todo = <<SizeWrite(fd)>>
      BY <1>1, <1>4, <3>1, <3>3, SizePhase
    <3> QED
      BY <2>6, <3>2, <3>3 DEF WriteLeft
  <2> QED
    BY <1>2, <1>4, <2>1, <2>2, <2>3, <2>4, <2>5, <2>6 DEF TodoOK
<1>9. ReuseClosedOnly'
  BY <1>1, ReuseStep
<1> QED
  BY <1>2, <1>3, <1>8, <1>9 DEF FatInv
=============================================================================
