----------------------------- MODULE Fat16Proofs -----------------------------
(***************************************************************************)
(* The theorems about Fat16: the operations start with the block writes    *)
(* they should, so the inductive invariant holds after any I/O error or    *)
(* crash; and no operation changes what another path names.                *)
(***************************************************************************)
EXTENDS Fat16WriteProofs, SequenceTheorems
-----------------------------------------------------------------------------
(* The start of an operation                                               *)

\* Between two operations.
LEMMA IdleFacts ==
  ASSUME FatInv, todo = <<>>, ~torn
  PROVE  TypeOK /\ FatOK /\ Allocated /\ Distinct /\ DirsFilled /\ FilesOpen
<1>1. TypeOK /\ FatOK /\ DiskInv
  BY DEF FatInv
<1>2. ~Tearing
  <2>1. Len(todo) # 1
    OBVIOUS
  <2> QED
    BY <2>1 DEF Tearing
<1> QED
  BY <1>1, <1>2 DEF DiskInv

\* An operation that knows what it has to write begins.
LEMMA BeginStep ==
  ASSUME FatInv, NEW writes \in Seq(BlockWrite), NEW paths \in SUBSET Path,
         Begin(writes, paths), UNCHANGED descriptors, TodoOK'
  PROVE  FatInv'
<1>1. todo = <<>> /\ ~torn /\ ops < MaxOps /\ todo' = writes /\ op' = paths /\ ops' = ops + 1
      /\ result' = "" /\ torn' = torn /\ fat' = fat /\ fat2' = fat2 /\ content' = content
      /\ fd_table' = fd_table /\ reuse_fds' = reuse_fds
  BY Zenon DEF Begin, disk, descriptors
<1>2. TypeOK /\ FatOK /\ Allocated /\ Distinct /\ DirsFilled /\ FilesOpen
  BY Zenon, <1>1, IdleFacts
<1>3. TypeOK'
  <2>1. ops' \in 0..MaxOps
    <3>1. ops \in 0..MaxOps
      BY Zenon, <1>2 DEF TypeOK
    <3>2. ops < MaxOps /\ ops' = ops + 1
      BY Zenon, <1>1
    <3>3. MaxOps \in Nat
      BY BoundAssumption
    <3> QED
      BY <3>1, <3>2, <3>3
  <2> QED
    BY Zenon, <1>1, <1>2, <2>1 DEF TypeOK
<1>4. FatOK' /\ ReuseClosedOnly'
  BY Zenon, <1>1 DEF FatOK, ReuseClosedOnly, FatInv
<1>5. Distinct' /\ DirsFilled'
  BY Zenon, <1>1, <1>2, SameContent
<1>6. Allocated' /\ FilesOpen'
  BY Zenon, <1>1, <1>2 DEF Allocated, FilesOpen, FileOpen, Live, Start
<1> QED
  BY Zenon, <1>1, <1>3, <1>4, <1>5, <1>6 DEF FatInv, DiskInv

\* A free cluster is one that nothing names, and no open file's directory.
LEMMA AllocateFacts ==
  ASSUME TypeOK, Allocated, FilesOpen, free_clusters # {}
  PROVE  /\ allocate_cluster \in Cluster /\ fat[allocate_cluster] = FREE
         /\ Unnamed(allocate_cluster) /\ ~HasOpen(allocate_cluster)
<1>1. PICK c : c = allocate_cluster
  OBVIOUS
<1>2. c \in Cluster /\ fat[c] = FREE
  <2>1. free_clusters \in SUBSET Nat
    BY Zenon, SetFacts DEF free_clusters
  <2>2. Min(free_clusters) \in free_clusters
    BY <2>1, MinFacts
  <2> QED
    BY <1>1, <2>2 DEF allocate_cluster, free_clusters
<1>3. Unnamed(c)
  BY <1>2, SetFacts DEF Unnamed, Allocated
<1>4. ~HasOpen(c)
  <2> SUFFICES ASSUME NEW i \in DOMAIN fd_table, fd_table[i].valid, fd_table[i].dir = c
               PROVE  FALSE
    BY DEF HasOpen
  <2> QED
    BY Zenon, <1>2, SetFacts DEF FilesOpen, FileOpen
<1> QED
  BY <1>1, <1>2, <1>3, <1>4

\* The write of a new entry goes to the first usable slot of the directory that the
\* path leads to.
LEMMA EntryWritesFacts ==
  ASSUME TypeOK, NEW p \in Path, NEW e
  PROVE  \/ EntryWrites(p, e) = <<>>
         \/ /\ parent_cluster(p) # {}
            /\ \E d \in Dir, s \in Slot :
                 /\ EntryWrites(p, e) = <<EntryWrite(d, s, e)>>
                 /\ FirstUsable(d, s) /\ LeadsTo(p, d)
<1>1. CASE \E d \in parent_cluster(p) : write_dir_entry(d) # {}
  <2>1. PICK d \in parent_cluster(p) : write_dir_entry(d) # {}
    BY <1>1
  <2>2. d \in Dir /\ LeadsTo(p, d) /\ parent_cluster(p) = {d}
    BY ParentFacts
  <2>3. PICK s \in write_dir_entry(d) : TRUE
    BY <2>1
  <2>4. s \in Slot /\ FirstUsable(d, s) /\ write_dir_entry(d) = {s}
    BY <2>2, WriteDirEntryFacts
  <2>5. Min({s}) = s
    <3>1. s \in Nat
      BY <2>4, SetFacts
    <3>2. {s} \in SUBSET Nat /\ {s} # {}
      BY <3>1
    <3>3. Min({s}) \in {s}
      BY Zenon, <3>2, MinFacts
    <3> QED
      BY <3>3
  <2>6. (CHOOSE x \in parent_cluster(p) : TRUE) = d
    BY <2>2
  <2>7. EntryWrites(p, e) = <<EntryWrite(d, s, e)>>
    BY Zenon, <1>1, <2>4, <2>5, <2>6 DEF EntryWrites
  <2> QED
    BY <2>2, <2>4, <2>7
<1>2. CASE ~\E d \in parent_cluster(p) : write_dir_entry(d) # {}
  BY <1>2 DEF EntryWrites
<1> QED
  BY <1>1, <1>2

\* A sequence with one more element.
LEMMA Joined ==
  ASSUME NEW x, NEW y, NEW z, NEW w
  PROVE  /\ <<x, y>> \o <<>> = <<x, y>>
         /\ <<x, y>> \o <<z>> = <<x, y, z>>
         /\ <<x, y, z>> \o <<>> = <<x, y, z>>
         /\ <<x, y, z>> \o <<w>> = <<x, y, z, w>>
<1> DEFINE S == {x, y, z, w}
<1>1. x \in S /\ y \in S /\ z \in S /\ w \in S
  OBVIOUS
<1> HIDE DEF S
<1>2. <<x, y>> \in Seq(S) /\ <<z>> \in Seq(S) /\ <<x, y, z>> \in Seq(S)
      /\ <<w>> \in Seq(S) /\ <<x, y, z, w>> \in Seq(S)
  BY <1>1
<1>3. <<x, y>> \o <<z>> = <<x, y, z>>
  <2>1. /\ Len(<<x, y>> \o <<z>>) = 3 /\ <<x, y>> \o <<z>> \in Seq(S)
        /\ \A i \in 1..3 : (<<x, y>> \o <<z>>)[i] = <<x, y, z>>[i]
    BY <1>2, ConcatProperties
  <2> QED
    BY Zenon, <1>2, <2>1, SeqEqual
<1>4. <<x, y, z>> \o <<w>> = <<x, y, z, w>>
  <2>1. /\ Len(<<x, y, z>> \o <<w>>) = 4 /\ <<x, y, z>> \o <<w>> \in Seq(S)
        /\ \A i \in 1..4 : (<<x, y, z>> \o <<w>>)[i] = <<x, y, z, w>>[i]
    BY <1>2, ConcatProperties
  <2> QED
    BY Zenon, <1>2, <2>1, SeqEqual
<1>5. <<x, y>> \o <<>> = <<x, y>> /\ <<x, y, z>> \o <<>> = <<x, y, z>>
  BY <1>2, ConcatEmptySeq
<1> QED
  BY <1>3, <1>4, <1>5

\* The entry that is created.
LEMMA NewEntryFacts ==
  ASSUME NEW p \in Path, NEW k \in BOOLEAN, NEW c \in Cluster
  PROVE  LET e == NewEntry(Leaf(p), k, c)
         IN  /\ e \in DirEntry83 /\ e.name = Stored[Leaf(p)]
             /\ e.start_cluster = c /\ e.is_directory = k
<1>1. Stored[Leaf(p)] \in Name
  BY Zenon, PathFacts, NameAssumption
<1>2. 0 \in 0..MaxPosition
  BY BoundAssumption
<1> QED
  BY <1>1, <1>2 DEF NewEntry, DirEntry83

\* The writes of create_file and create_dir, with the directory emptied before it is
\* linked.
LEMMA CreateBegins ==
  ASSUME TypeOK, NEW p \in Path, NEW c \in Cluster, Unnamed(c), ~HasOpen(c),
         NEW k \in BOOLEAN, NEW e, e = NewEntry(Leaf(p), k, c),
         content' = content, fd_table' = fd_table, op' = {p},
         todo' \in Seq(BlockWrite), todo'[1] = FatWrite(c, END_OF_CHAIN), 1 < Len(todo'),
         \A i \in 1..Len(todo') :
           \/ todo'[i] \in {FatWrite(c, END_OF_CHAIN), Mirror, InitDirectory(c)}
           \/ /\ i = Len(todo')
              /\ \E d \in Dir, s \in Slot : /\ todo'[i] = EntryWrite(d, s, e)
                                            /\ FirstUsable(d, s) /\ LeadsTo(p, d)
              /\ k => \E j \in 1..i - 1 : todo'[j] = InitDirectory(c)
  PROVE  CreateLeft(p, c)'
<1>1. e \in DirEntry83 /\ e.name = Stored[Leaf(p)] /\ e.start_cluster = c /\ e.is_directory = k
  BY Zenon, NewEntryFacts
<1>2. Unnamed(c)' /\ ~HasOpen(c)'
  BY SameContent, SameFds, SetFacts
<1>3. ASSUME NEW i \in 1..Len(todo'), i = Len(todo'),
             NEW d \in Dir, NEW s \in Slot, todo'[i] = EntryWrite(d, s, e),
             FirstUsable(d, s), LeadsTo(p, d),
             k => \E j \in 1..i - 1 : todo'[j] = InitDirectory(c)
      PROVE  EntryLeft(p, c, i)'
  <2>1. FirstUsable(d, s)' /\ LeadsTo(p, d)'
    BY <1>3, SameContent
  <2>2. \E j \in 1..i - 1 : todo'[j] = FatWrite(c, END_OF_CHAIN)
    <3>1. 1 \in 1..i - 1
      BY <1>3
    <3> QED
      BY <3>1
  <2> QED
    BY Zenon, <1>1, <1>3, <2>1, <2>2 DEF EntryLeft
<1> QED
  BY <1>2, <1>3 DEF CreateLeft

\* create_file.
LEMMA CreateFileStep ==
  ASSUME FatInv, NEW p \in Path, CreateFile(p)
  PROVE  FatInv'
<1>1. PICK c : c = allocate_cluster
  OBVIOUS
<1>2. PICK e : e = NewEntry(Leaf(p), FALSE, c)
  BY Zenon
<1>3. PICK writes : writes = <<FatWrite(c, END_OF_CHAIN), Mirror>> \o EntryWrites(p, e)
  BY Zenon
<1>4. free_clusters # {} /\ Begin(writes, {p}) /\ UNCHANGED descriptors
  BY Zenon, <1>1, <1>2, <1>3 DEF CreateFile, AllocateWrites
<1>5. /\ todo = <<>> /\ ~torn /\ todo' = writes /\ op' = {p} /\ content' = content
      /\ fd_table' = fd_table
  BY Zenon, <1>4 DEF Begin, disk, descriptors
<1>6. TypeOK /\ FatOK /\ Allocated /\ Distinct /\ DirsFilled /\ FilesOpen
  BY <1>5, IdleFacts
<1>7. c \in Cluster /\ Unnamed(c) /\ ~HasOpen(c)
  BY <1>1, <1>4, <1>6, AllocateFacts
<1>8. e \in DirEntry83
  BY Zenon, <1>2, <1>7, NewEntryFacts
<1>9. FatWrite(c, END_OF_CHAIN) \in BlockWrite /\ Mirror \in BlockWrite
  BY Zenon, <1>7 DEF FatWrite, Mirror, BlockWrite, FatEntry
<1>10. CASE EntryWrites(p, e) = <<>>
  <2>1. writes = <<FatWrite(c, END_OF_CHAIN), Mirror>>
    BY <1>3, <1>10, Joined
  <2>2. writes \in Seq(BlockWrite) /\ Len(writes) = 2
    BY <1>9, <2>1
  <2>3. CreateLeft(p, c)'
    <3>1. \A i \in 1..Len(todo') : todo'[i] \in {FatWrite(c, END_OF_CHAIN), Mirror, InitDirectory(c)}
      BY <1>5, <2>1
    <3>2. todo' \in Seq(BlockWrite) /\ todo'[1] = FatWrite(c, END_OF_CHAIN) /\ 1 < Len(todo')
      BY <1>5, <2>1, <2>2
    <3> QED
      BY Zenon, <1>2, <1>5, <1>6, <1>7, <3>1, <3>2, CreateBegins
  <2>4. TodoOK'
    BY <1>7, <2>3 DEF TodoOK
  <2> QED
    BY <1>4, <2>2, <2>4, BeginStep
<1>11. CASE \E d \in Dir, s \in Slot : /\ EntryWrites(p, e) = <<EntryWrite(d, s, e)>>
                                       /\ FirstUsable(d, s) /\ LeadsTo(p, d)
  <2>1. PICK d \in Dir, s \in Slot : /\ EntryWrites(p, e) = <<EntryWrite(d, s, e)>>
                                     /\ FirstUsable(d, s) /\ LeadsTo(p, d)
    BY <1>11
  <2>2. writes = <<FatWrite(c, END_OF_CHAIN), Mirror, EntryWrite(d, s, e)>>
    BY <1>3, <2>1, Joined
  <2>3. EntryWrite(d, s, e) \in BlockWrite
    BY <1>8 DEF EntryWrite, BlockWrite
  <2>4. writes \in Seq(BlockWrite) /\ Len(writes) = 3
    BY <1>9, <2>2, <2>3
  <2>5. CreateLeft(p, c)'
    <3>1. \A i \in 1..Len(todo') :
            \/ todo'[i] \in {FatWrite(c, END_OF_CHAIN), Mirror, InitDirectory(c)}
            \/ i = Len(todo') /\ todo'[i] = EntryWrite(d, s, e)
      BY <1>5, <2>2
    <3>2. todo' \in Seq(BlockWrite) /\ todo'[1] = FatWrite(c, END_OF_CHAIN) /\ 1 < Len(todo')
      BY <1>5, <2>2, <2>4
    <3> QED
      BY Zenon, <1>2, <1>5, <1>6, <1>7, <2>1, <3>1, <3>2, CreateBegins
  <2>6. TodoOK'
    BY <1>7, <2>5 DEF TodoOK
  <2> QED
    BY <1>4, <2>4, <2>6, BeginStep
<1> QED
  BY <1>6, <1>10, <1>11, EntryWritesFacts

\* create_dir.
LEMMA CreateDirStep ==
  ASSUME FatInv, NEW p \in Path, CreateDir(p)
  PROVE  FatInv'
<1>1. PICK c : c = allocate_cluster
  OBVIOUS
<1>2. PICK e : e = NewEntry(Leaf(p), TRUE, c)
  BY Zenon
<1>3. PICK init : init = IF parent_cluster(p) = {} THEN <<>> ELSE <<InitDirectory(c)>>
  BY Zenon
<1>4. PICK writes :
        writes = <<FatWrite(c, END_OF_CHAIN), Mirror>> \o init \o EntryWrites(p, e)
  BY Zenon
<1>5. free_clusters # {} /\ Begin(writes, {p}) /\ UNCHANGED descriptors
  BY Zenon, <1>1, <1>2, <1>3, <1>4 DEF CreateDir, AllocateWrites
<1>6. /\ todo = <<>> /\ ~torn /\ todo' = writes /\ op' = {p} /\ content' = content
      /\ fd_table' = fd_table
  BY Zenon, <1>5 DEF Begin, disk, descriptors
<1>7. TypeOK /\ FatOK /\ Allocated /\ Distinct /\ DirsFilled /\ FilesOpen
  BY <1>6, IdleFacts
<1>8. c \in Cluster /\ Unnamed(c) /\ ~HasOpen(c)
  BY <1>1, <1>5, <1>7, AllocateFacts
<1>9. e \in DirEntry83
  BY Zenon, <1>2, <1>8, NewEntryFacts
<1>10. /\ FatWrite(c, END_OF_CHAIN) \in BlockWrite /\ Mirror \in BlockWrite
       /\ InitDirectory(c) \in BlockWrite
  BY <1>8 DEF FatWrite, Mirror, InitDirectory, BlockWrite, FatEntry
<1>11. CASE EntryWrites(p, e) = <<>>
  <2>1. \/ writes = <<FatWrite(c, END_OF_CHAIN), Mirror>>
        \/ writes = <<FatWrite(c, END_OF_CHAIN), Mirror, InitDirectory(c)>>
    <3>1. CASE init = <<>>
      BY <1>4, <1>11, <3>1, Joined
    <3>2. CASE init = <<InitDirectory(c)>>
      BY <1>4, <1>11, <3>2, Joined
    <3> QED
      BY <1>3, <3>1, <3>2
  <2>2. writes \in Seq(BlockWrite) /\ 1 < Len(writes)
    <3>1. CASE writes = <<FatWrite(c, END_OF_CHAIN), Mirror>>
      BY <1>10, <3>1
    <3>2. CASE writes = <<FatWrite(c, END_OF_CHAIN), Mirror, InitDirectory(c)>>
      BY <1>10, <3>2
    <3> QED
      BY <2>1, <3>1, <3>2
  <2>3. CreateLeft(p, c)'
    <3>1. \A i \in 1..Len(todo') : todo'[i] \in {FatWrite(c, END_OF_CHAIN), Mirror, InitDirectory(c)}
      BY <1>6, <2>1
    <3>2. todo' \in Seq(BlockWrite) /\ todo'[1] = FatWrite(c, END_OF_CHAIN) /\ 1 < Len(todo')
      BY <1>6, <2>1, <2>2
    <3> QED
      BY Zenon, <1>2, <1>6, <1>7, <1>8, <3>1, <3>2, CreateBegins
  <2>4. TodoOK'
    BY <1>8, <2>3 DEF TodoOK
  <2> QED
    BY <1>5, <2>2, <2>4, BeginStep
<1>12. CASE /\ parent_cluster(p) # {}
            /\ \E d \in Dir, s \in Slot : /\ EntryWrites(p, e) = <<EntryWrite(d, s, e)>>
                                          /\ FirstUsable(d, s) /\ LeadsTo(p, d)
  <2>1. PICK d \in Dir, s \in Slot : /\ EntryWrites(p, e) = <<EntryWrite(d, s, e)>>
                                     /\ FirstUsable(d, s) /\ LeadsTo(p, d)
    BY <1>12
  <2>2. init = <<InitDirectory(c)>>
    BY <1>3, <1>12
  <2>3. writes = <<FatWrite(c, END_OF_CHAIN), Mirror, InitDirectory(c), EntryWrite(d, s, e)>>
    BY Zenon, <1>4, <2>1, <2>2, Joined
  <2>4. EntryWrite(d, s, e) \in BlockWrite
    BY <1>9 DEF EntryWrite, BlockWrite
  <2>5. writes \in Seq(BlockWrite) /\ Len(writes) = 4
    BY <1>10, <2>3, <2>4
  <2>6. CreateLeft(p, c)'
    <3>1. \A i \in 1..Len(todo') :
            \/ todo'[i] \in {FatWrite(c, END_OF_CHAIN), Mirror, InitDirectory(c)}
            \/ /\ i = Len(todo') /\ todo'[i] = EntryWrite(d, s, e)
               /\ 3 \in 1..i - 1 /\ todo'[3] = InitDirectory(c)
      BY <1>6, <2>3
    <3>2. todo' \in Seq(BlockWrite) /\ todo'[1] = FatWrite(c, END_OF_CHAIN) /\ 1 < Len(todo')
      BY <1>6, <2>3, <2>5
    <3> QED
      BY Zenon, <1>2, <1>6, <1>7, <1>8, <2>1, <3>1, <3>2, CreateBegins
  <2>7. TodoOK'
    BY <1>8, <2>6 DEF TodoOK
  <2> QED
    BY <1>5, <2>5, <2>7, BeginStep
<1> QED
  BY <1>7, <1>11, <1>12, EntryWritesFacts
\* remove_entry begins, with an entry that no descriptor uses.
LEMMA RemoveBegins ==
  ASSUME FatInv, todo = <<>>, ~torn,
         NEW p \in Path, NEW d \in Dir, NEW s \in Slot, Names(p, d, s),
         ~IsOpen(<<d, s>>), ~HasOpen(Start(d, s)),
         Begin(<<EntryWrite(d, s, Deleted), FreeChain(Start(d, s))>>, {p}),
         UNCHANGED descriptors
  PROVE  FatInv'
<1>1. TypeOK
  BY IdleFacts
<1>2. PICK c \in Cluster : c = Start(d, s)
  BY Zenon, <1>1, ContentFacts DEF Names
<1>3. PICK writes : writes = <<EntryWrite(d, s, Deleted), FreeChain(c)>>
  BY Zenon
<1>4. Begin(writes, {p})
  BY <1>2, <1>3
<1>5. todo' = writes /\ op' = {p} /\ content' = content /\ fd_table' = fd_table
  BY Zenon, <1>4 DEF Begin, disk, descriptors
<1>6. writes \in Seq(BlockWrite)
  <2>1. EntryWrite(d, s, Deleted) \in BlockWrite /\ FreeChain(c) \in BlockWrite
    BY DEF EntryWrite, FreeChain, BlockWrite
  <2> QED
    BY <1>3, <2>1
<1>7. RemoveLeft(p, d, s)'
  <2>1. Names(p, d, s)' /\ ~IsOpen(<<d, s>>)'
    BY <1>5, SameContent, SameFds
  <2>2. content'[d][s].start_cluster = c
    BY <1>2, <1>5 DEF Start
  <2>3. ~HasOpen(c)'
    BY <1>2, <1>5 DEF HasOpen
  <2> QED
    BY Zenon, <1>3, <1>5, <2>1, <2>2, <2>3 DEF RemoveLeft, Start, HasOpen
<1>8. TodoOK'
  BY <1>7 DEF TodoOK
<1> QED
  BY <1>4, <1>6, <1>8, BeginStep

\* remove_file.
LEMMA RemoveFileStep ==
  ASSUME FatInv, NEW p \in Path, RemoveFile(p)
  PROVE  FatInv'
<1>1. /\ find_entry(p) # NotFound /\ ~At(find_entry(p)).is_directory /\ ~IsOpen(find_entry(p))
      /\ Begin(remove_entry(find_entry(p)), {p}) /\ UNCHANGED descriptors
  BY DEF RemoveFile
<1>2. todo = <<>> /\ ~torn
  BY Zenon, <1>1 DEF Begin
<1>3. TypeOK /\ FilesOpen
  BY <1>2, IdleFacts
<1>4. PICK d \in Dir, s \in Slot : find_entry(p) = <<d, s>> /\ Names(p, d, s)
  BY <1>1, <1>3, FindEntryFacts
<1>5. /\ ~content[d][s].is_directory /\ ~IsOpen(<<d, s>>)
      /\ Begin(<<EntryWrite(d, s, Deleted), FreeChain(Start(d, s))>>, {p})
  BY <1>1, <1>4 DEF At, remove_entry, Start
<1>6. ~HasOpen(Start(d, s))
  <2> SUFFICES ASSUME NEW i \in DOMAIN fd_table, fd_table[i].valid,
                      fd_table[i].dir = Start(d, s)
               PROVE  FALSE
    BY DEF HasOpen
  <2>1. Live(d, s) /\ Start(d, s) # Root
    BY <1>3, <1>4, ContentFacts, SetFacts DEF Names
  <2> QED
    BY Zenon, <1>3, <1>5, <2>1 DEF FilesOpen, FileOpen
<1> QED
  BY <1>1, <1>2, <1>4, <1>5, <1>6, RemoveBegins

\* remove_dir.
LEMMA RemoveDirStep ==
  ASSUME FatInv, NEW p \in Path, RemoveDir(p)
  PROVE  FatInv'
<1>1. /\ find_entry(p) # NotFound /\ At(find_entry(p)).is_directory
      /\ ~HasOpen(At(find_entry(p)).start_cluster)
      /\ Begin(remove_entry(find_entry(p)), {p}) /\ UNCHANGED descriptors
  BY DEF RemoveDir
<1>2. todo = <<>> /\ ~torn
  BY Zenon, <1>1 DEF Begin
<1>3. TypeOK /\ FilesOpen
  BY <1>2, IdleFacts
<1>4. PICK d \in Dir, s \in Slot : find_entry(p) = <<d, s>> /\ Names(p, d, s)
  BY <1>1, <1>3, FindEntryFacts
<1>5. /\ content[d][s].is_directory /\ ~HasOpen(Start(d, s))
      /\ Begin(<<EntryWrite(d, s, Deleted), FreeChain(Start(d, s))>>, {p})
  BY <1>1, <1>4 DEF At, remove_entry, Start
<1>6. ~IsOpen(<<d, s>>)
  BY Zenon, <1>3, <1>5 DEF IsOpen, FilesOpen, FileOpen
<1> QED
  BY <1>1, <1>2, <1>4, <1>5, <1>6, RemoveBegins

\* rename.
LEMMA RenameStep ==
  ASSUME FatInv, NEW p \in Path, NEW q \in Path, Rename(p, q)
  PROVE  FatInv'
<1>1. /\ find_entry(p) # NotFound /\ ~IsOpen(find_entry(p)) /\ find_entry(q) = NotFound
      /\ UNCHANGED descriptors
  BY DEF Rename
<1>2. PICK a \in parent_cluster(q) : \E b \in write_dir_entry(a) :
        Begin(<<EntryWrite(a, b, [At(find_entry(p)) EXCEPT !.name = Stored[Leaf(q)]]),
                EntryWrite(find_entry(p)[1], find_entry(p)[2], Deleted)>>, {p, q})
  BY Zenon DEF Rename
<1>3. PICK b \in write_dir_entry(a) :
        Begin(<<EntryWrite(a, b, [At(find_entry(p)) EXCEPT !.name = Stored[Leaf(q)]]),
                EntryWrite(find_entry(p)[1], find_entry(p)[2], Deleted)>>, {p, q})
  BY <1>2
<1>4. todo = <<>> /\ ~torn
  BY Zenon, <1>3 DEF Begin
<1>5. TypeOK
  BY <1>4, IdleFacts
<1>6. PICK d \in Dir, s \in Slot : find_entry(p) = <<d, s>> /\ Names(p, d, s)
  BY <1>1, <1>5, FindEntryFacts
<1>7. a \in Dir /\ LeadsTo(q, a)
  BY <1>5, ParentFacts
<1>8. b \in Slot /\ FirstUsable(a, b)
  BY <1>5, <1>7, WriteDirEntryFacts
<1>9. PICK e : e = [content[d][s] EXCEPT !.name = Stored[Leaf(q)]]
  BY Zenon
<1>10. e \in DirEntry83
  <2>1. content[d][s] \in DirEntry83
    BY Zenon, <1>5, <1>6, ContentFacts DEF Names
  <2>2. Stored[Leaf(q)] \in Name
    BY Zenon, PathFacts, NameAssumption
  <2> QED
    BY <1>9, <2>1, <2>2 DEF DirEntry83
<1>11. PICK writes : writes = <<EntryWrite(a, b, e), EntryWrite(d, s, Deleted)>>
  BY Zenon
<1>12. Begin(writes, {p, q})
  BY <1>3, <1>6, <1>9, <1>11 DEF At
<1>13. todo' = writes /\ op' = {p, q} /\ content' = content /\ fd_table' = fd_table
  BY Zenon, <1>1, <1>12 DEF Begin, disk, descriptors
<1>14. writes \in Seq(BlockWrite)
  <2>1. EntryWrite(a, b, e) \in BlockWrite /\ EntryWrite(d, s, Deleted) \in BlockWrite
    BY Zenon, <1>7, <1>8, <1>10 DEF EntryWrite, BlockWrite
  <2> QED
    BY <1>11, <2>1
<1>15. RenameLeft(p, q, d, s, a, b)'
  <2>1. /\ Names(p, d, s)' /\ ~IsOpen(<<d, s>>)' /\ LeadsTo(q, a)' /\ FirstUsable(a, b)'
    BY <1>1, <1>6, <1>7, <1>8, <1>13, SameContent, SameFds
  <2>2. p # q
    BY <1>1
  <2>3. e = [content'[d][s] EXCEPT !.name = Stored[Leaf(q)]]
    BY <1>9, <1>13
  <2> QED
    BY <1>11, <1>13, <2>1, <2>2, <2>3 DEF RenameLeft
<1>16. TodoOK'
  BY <1>7, <1>8, <1>15 DEF TodoOK
<1> QED
  BY <1>1, <1>12, <1>14, <1>16, BeginStep

\* write_file.
LEMMA WriteFileStep ==
  ASSUME FatInv, NEW fd, NEW n \in 1..Slots, WriteFile(fd, n)
  PROVE  FatInv'
<1>1. /\ fd \in DOMAIN fd_table /\ fd_table[fd].valid
      /\ fd_table[fd].position + n <= MaxPosition
      /\ Begin(<<DataWrite(fd, n)>>, {}) /\ UNCHANGED descriptors
  BY Zenon DEF WriteFile
<1>2. /\ todo = <<>> /\ ~torn /\ todo' = <<DataWrite(fd, n)>> /\ op' = {} /\ fd_table' = fd_table
  BY Zenon, <1>1 DEF Begin, descriptors
<1>3. TypeOK
  BY <1>2, IdleFacts
<1>4. fd \in 1..MaxFds /\ n \in 1..MaxPosition
  BY <1>1, <1>3, FdFacts, BoundAssumption
<1>5. <<DataWrite(fd, n)>> \in Seq(BlockWrite)
  <2>1. DataWrite(fd, n) \in BlockWrite
    BY <1>4 DEF DataWrite, BlockWrite
  <2> QED
    BY <2>1
<1>6. WriteLeft(fd)'
  BY <1>1, <1>2, <1>4 DEF WriteLeft
<1>7. TodoOK'
  BY Zenon, <1>1, <1>2, <1>6 DEF TodoOK
<1>8. {} \in SUBSET Path
  OBVIOUS
<1> QED
  BY Zenon, <1>1, <1>5, <1>7, <1>8, BeginStep
-----------------------------------------------------------------------------
(* Operations on descriptors, errors and crashes                           *)

\* Between two operations only the descriptors change.
LEMMA FdStep ==
  ASSUME FatInv, todo = <<>>, UNCHANGED <<disk, todo, op, torn, ops>>, result' = "",
         fd_table' \in Seq(Fat16File), Len(fd_table') <= MaxFds, ReuseClosedOnly',
         ~torn => \A i \in DOMAIN fd_table' : fd_table'[i].valid => FileOpen(fd_table'[i])
  PROVE  FatInv'
<1>1. TypeOK /\ FatOK
  BY Zenon DEF FatInv
<1>2. /\ fat' = fat /\ fat2' = fat2 /\ content' = content /\ todo' = todo /\ op' = op
      /\ torn' = torn /\ ops' = ops
  BY Zenon DEF disk
<1>3. reuse_fds' \subseteq DOMAIN fd_table'
  BY Zenon DEF ReuseClosedOnly
<1>4. TypeOK'
  BY Zenon, <1>1, <1>2, <1>3 DEF TypeOK
<1>5. FatOK'
  BY Zenon, <1>1, <1>2 DEF FatOK
<1>6. ASSUME ~torn PROVE DiskInv'
  <2>1. Allocated /\ Distinct /\ DirsFilled
    BY Zenon, <1>6, IdleFacts
  <2>2. Distinct' /\ DirsFilled' /\ Allocated'
    BY Zenon, <1>2, <2>1, SameContent DEF Allocated, Live, Start
  <2>3. FilesOpen'
    BY Zenon, <1>2, <1>6 DEF FilesOpen, FileOpen, Live, Start
  <2> QED
    BY Zenon, <1>2, <2>2, <2>3 DEF DiskInv, TodoOK
<1>7. CASE torn
  BY Zenon, <1>2, <1>4, <1>5, <1>7 DEF FatInv
<1>8. CASE ~torn
  BY Zenon, <1>2, <1>4, <1>5, <1>6, <1>8 DEF FatInv
<1> QED
  BY Zenon, <1>7, <1>8

\* One descriptor is replaced.
LEMMA SetFd ==
  ASSUME TypeOK, NEW fd \in DOMAIN fd_table, NEW g \in Fat16File,
         fd_table' = [fd_table EXCEPT ![fd] = g]
  PROVE  /\ fd_table' \in Seq(Fat16File) /\ Len(fd_table') <= MaxFds
         /\ DOMAIN fd_table' = DOMAIN fd_table
         /\ fd_table'[fd] = g
         /\ \A i \in DOMAIN fd_table : i # fd => fd_table'[i] = fd_table[i]
<1>1. fd_table \in Seq(Fat16File) /\ Len(fd_table) <= MaxFds
  BY Zenon DEF TypeOK
<1> QED
  BY <1>1

\* open_file.
LEMMA OpenFileStep ==
  ASSUME FatInv, NEW p \in Path, OpenFile(p)
  PROVE  FatInv'
<1>1. PICK file :
        file = [valid |-> TRUE, current_cluster |-> At(find_entry(p)).start_cluster,
                position |-> 0, size |-> At(find_entry(p)).file_size,
                dir |-> find_entry(p)[1], slot |-> find_entry(p)[2]]
  BY Zenon
<1>2. /\ todo = <<>> /\ ~torn /\ find_entry(p) # NotFound /\ ~At(find_entry(p)).is_directory
      /\ \/ /\ reuse_fds # {}
            /\ fd_table' = [fd_table EXCEPT ![Max(reuse_fds)] = file]
            /\ reuse_fds' = reuse_fds \ {Max(reuse_fds)}
         \/ /\ reuse_fds = {} /\ Len(fd_table) < MaxFds
            /\ fd_table' = Append(fd_table, file)
            /\ UNCHANGED reuse_fds
      /\ result' = "" /\ UNCHANGED <<disk, todo, op, torn, ops>>
  BY <1>1, Zenon DEF OpenFile
<1>3. TypeOK /\ Allocated /\ Distinct /\ DirsFilled /\ FilesOpen
  BY Zenon, <1>2, IdleFacts
<1>4. ReuseClosedOnly
  BY DEF FatInv
<1>5. PICK d \in Dir, s \in Slot :
        /\ find_entry(p) = <<d, s>> /\ Live(d, s)
        /\ \/ d = Root
           \/ \E r \in Slot : /\ Live(Root, r) /\ content[Root][r].is_directory
                              /\ Start(Root, r) = d
  BY Zenon, <1>2, <1>3, FindEntryFacts DEF Names
<1>6. /\ file.valid = TRUE /\ file.current_cluster = Start(d, s) /\ file.position = 0
      /\ file.size = content[d][s].file_size /\ file.dir = d /\ file.slot = s
      /\ ~content[d][s].is_directory
  <2>1. At(find_entry(p)) = content[d][s] /\ find_entry(p)[1] = d /\ find_entry(p)[2] = s
    BY <1>5 DEF At
  <2> QED
    BY Zenon, <1>1, <1>2, <2>1 DEF Start
<1>7. content[d][s].file_size \in 0..MaxPosition /\ Start(d, s) \in Cluster
  BY <1>3, <1>5, ContentFacts DEF DirEntry83
<1>8. file \in Fat16File
  <2>1. At(find_entry(p)).start_cluster = Start(d, s)
        /\ At(find_entry(p)).file_size = content[d][s].file_size
        /\ find_entry(p)[1] = d /\ find_entry(p)[2] = s
    BY <1>5 DEF At, Start
  <2>2. 0 \in 0..MaxPosition
    BY BoundAssumption
  <2> QED
    BY <1>1, <1>7, <2>1, <2>2 DEF Fat16File
<1>9. FileOpen(file)
  <2>1. file.position <= file.size
    BY <1>6, <1>7
  <2>2. d # Root =>
          /\ fat[d] = END_OF_CHAIN
          /\ \A x \in Dir, y \in Slot : Live(x, y) /\ Start(x, y) = d => content[x][y].is_directory
    <3> SUFFICES ASSUME d # Root
                 PROVE  /\ fat[d] = END_OF_CHAIN
                        /\ \A x \in Dir, y \in Slot :
                             Live(x, y) /\ Start(x, y) = d => content[x][y].is_directory
      OBVIOUS
    <3>1. PICK r \in Slot : /\ Live(Root, r) /\ content[Root][r].is_directory
                            /\ Start(Root, r) = d
      BY <1>5
    <3> QED
      BY <1>3, <3>1, SetFacts DEF Allocated, Distinct
  <2> QED
    BY <1>5, <1>6, <2>1, <2>2 DEF FileOpen
<1>10. fd_table \in Seq(Fat16File) /\ Len(fd_table) \in Nat /\ DOMAIN fd_table = 1..Len(fd_table)
  <2>1. fd_table \in Seq(Fat16File)
    BY Zenon, <1>3 DEF TypeOK
  <2> QED
    BY <2>1
<1>11. CASE /\ reuse_fds # {}
            /\ fd_table' = [fd_table EXCEPT ![Max(reuse_fds)] = file]
            /\ reuse_fds' = reuse_fds \ {Max(reuse_fds)}
  <2>1. PICK m : m = Max(reuse_fds)
    OBVIOUS
  <2>2. m \in reuse_fds /\ m \in DOMAIN fd_table
    <3>1. reuse_fds \in SUBSET (1..Len(fd_table))
      BY <1>4, <1>10 DEF ReuseClosedOnly
    <3>2. Max(reuse_fds) \in reuse_fds
      BY Zenon, <1>10, <1>11, <3>1, MaxFacts
    <3> QED
      BY Zenon, <1>10, <2>1, <3>1, <3>2
  <2>3. fd_table' = [fd_table EXCEPT ![m] = file] /\ reuse_fds' = reuse_fds \ {m}
    BY <1>11, <2>1
  <2>4. /\ fd_table' \in Seq(Fat16File) /\ Len(fd_table') <= MaxFds
        /\ DOMAIN fd_table' = DOMAIN fd_table /\ fd_table'[m] = file
        /\ \A i \in DOMAIN fd_table : i # m => fd_table'[i] = fd_table[i]
    BY Zenon, <1>3, <1>8, <2>2, <2>3, SetFd
  <2>5. ReuseClosedOnly'
    BY <1>4, <1>6, <2>3, <2>4 DEF ReuseClosedOnly
  <2>6. \A i \in DOMAIN fd_table' : fd_table'[i].valid => FileOpen(fd_table'[i])
    BY <1>3, <1>9, <2>4 DEF FilesOpen
  <2> QED
    BY Zenon, <1>2, <2>4, <2>5, <2>6, FdStep
<1>12. CASE /\ reuse_fds = {} /\ Len(fd_table) < MaxFds
            /\ fd_table' = Append(fd_table, file) /\ UNCHANGED reuse_fds
  <2>1. /\ fd_table' \in Seq(Fat16File) /\ Len(fd_table') = Len(fd_table) + 1
        /\ DOMAIN fd_table' = 1..Len(fd_table) + 1 /\ fd_table'[Len(fd_table) + 1] = file
        /\ \A i \in 1..Len(fd_table) : fd_table'[i] = fd_table[i]
    BY <1>8, <1>10, <1>12
  <2>2. Len(fd_table') <= MaxFds
    BY <1>10, <1>12, <2>1, BoundAssumption
  <2>3. \A i \in DOMAIN fd_table' : i = Len(fd_table) + 1 \/ i \in DOMAIN fd_table
    BY <1>10, <2>1
  <2>4. ReuseClosedOnly'
    BY <1>4, <1>6, <1>10, <1>12, <2>1, <2>3 DEF ReuseClosedOnly
  <2>5. \A i \in DOMAIN fd_table' : fd_table'[i].valid => FileOpen(fd_table'[i])
    BY <1>3, <1>9, <1>10, <2>1, <2>3 DEF FilesOpen
  <2> QED
    BY Zenon, <1>2, <2>1, <2>2, <2>4, <2>5, FdStep
<1> QED
  BY Zenon, <1>2, <1>11, <1>12

\* close_file.
LEMMA CloseFileStep ==
  ASSUME FatInv, NEW fd, CloseFile(fd)
  PROVE  FatInv'
<1>1. /\ todo = <<>> /\ fd \in DOMAIN fd_table /\ fd_table[fd].valid
      /\ fd_table' = [fd_table EXCEPT ![fd] = Closed] /\ reuse_fds' = reuse_fds \cup {fd}
      /\ result' = "" /\ UNCHANGED <<disk, todo, op, torn, ops>>
  BY Zenon DEF CloseFile
<1>2. TypeOK /\ ReuseClosedOnly
  BY DEF FatInv
<1>3. Closed \in Fat16File /\ Closed.valid = FALSE
  <2>1. 0 \in 0..MaxPosition
    BY BoundAssumption
  <2> QED
    BY <2>1, SetFacts DEF Closed, Fat16File
<1>4. /\ fd_table' \in Seq(Fat16File) /\ Len(fd_table') <= MaxFds
      /\ DOMAIN fd_table' = DOMAIN fd_table /\ fd_table'[fd] = Closed
      /\ \A i \in DOMAIN fd_table : i # fd => fd_table'[i] = fd_table[i]
  BY Zenon, <1>1, <1>2, <1>3, SetFd
<1>5. ReuseClosedOnly'
  BY Zenon, <1>1, <1>2, <1>3, <1>4 DEF ReuseClosedOnly
<1>6. ~torn => \A i \in DOMAIN fd_table' : fd_table'[i].valid => FileOpen(fd_table'[i])
  <2>1. ~torn => FilesOpen
    BY Zenon, <1>1, IdleFacts
  <2> QED
    BY <1>3, <1>4, <2>1 DEF FilesOpen
<1> QED
  BY Zenon, <1>1, <1>4, <1>5, <1>6, FdStep

\* The position of a descriptor changes, up to the size.
LEMMA MoveStep ==
  ASSUME FatInv, todo = <<>>, ~torn, NEW fd \in DOMAIN fd_table, fd_table[fd].valid,
         NEW n \in 0..MaxPosition, n <= fd_table[fd].size,
         fd_table' = [fd_table EXCEPT ![fd] = [fd_table[fd] EXCEPT !.position = n]],
         result' = "", UNCHANGED <<disk, reuse_fds, todo, op, torn, ops>>
  PROVE  FatInv'
<1>1. TypeOK /\ FilesOpen
  BY Zenon, IdleFacts
<1>2. PICK f \in Fat16File : f = fd_table[fd]
  BY Zenon, <1>1, FdFacts
<1>3. PICK g : g = [f EXCEPT !.position = n]
  BY Zenon
<1>4. /\ g \in Fat16File /\ g.valid = f.valid /\ g.dir = f.dir /\ g.slot = f.slot
      /\ g.current_cluster = f.current_cluster /\ g.position = n /\ g.size = f.size
  BY Zenon, <1>3 DEF Fat16File
<1>5. /\ fd_table' \in Seq(Fat16File) /\ Len(fd_table') <= MaxFds
      /\ DOMAIN fd_table' = DOMAIN fd_table /\ fd_table'[fd] = g
      /\ \A i \in DOMAIN fd_table : i # fd => fd_table'[i] = fd_table[i]
  BY Zenon, <1>1, <1>2, <1>3, <1>4, SetFd
<1>6. ReuseClosedOnly'
  BY Zenon, <1>2, <1>4, <1>5 DEF ReuseClosedOnly, FatInv
<1>7. FileOpen(g)
  <2>1. FileOpen(f)
    BY Zenon, <1>1, <1>2 DEF FilesOpen
  <2> QED
    BY Zenon, <1>2, <1>4, <2>1 DEF FileOpen
<1>8. \A i \in DOMAIN fd_table' : fd_table'[i].valid => FileOpen(fd_table'[i])
  BY Zenon, <1>1, <1>5, <1>7 DEF FilesOpen
<1> QED
  BY Zenon, <1>5, <1>6, <1>8, FdStep
\* seek_file.
LEMMA SeekFileStep ==
  ASSUME FatInv, NEW fd, NEW n \in 0..MaxPosition, SeekFile(fd, n)
  PROVE  FatInv'
<1>1. /\ todo = <<>> /\ ~torn /\ fd \in DOMAIN fd_table /\ fd_table[fd].valid
      /\ n <= fd_table[fd].size
      /\ fd_table' = [fd_table EXCEPT ![fd] = [fd_table[fd] EXCEPT !.position = n]]
      /\ result' = "" /\ UNCHANGED <<disk, reuse_fds, todo, op, torn, ops>>
  BY Zenon DEF SeekFile
<1> QED
  BY Zenon, <1>1, MoveStep

\* read_file: the chain has one cluster, so the current one stays.
LEMMA ReadFileStep ==
  ASSUME FatInv, NEW fd, NEW n \in 1..Slots, ReadFile(fd, n)
  PROVE  FatInv'
<1> DEFINE f == fd_table[fd]
           offset == f.position % Slots
           chunk == Min({Slots - offset, n, f.size - f.position})
           at_end == offset + chunk = Slots /\ fat[f.current_cluster] # END_OF_CHAIN
<1>1. /\ todo = <<>> /\ ~torn /\ fd \in DOMAIN fd_table /\ f.valid /\ f.position < f.size
      /\ fd_table' = [fd_table EXCEPT ![fd].position = @ + chunk,
                        ![fd].current_cluster = IF at_end THEN fat[@] ELSE @]
      /\ result' = "" /\ UNCHANGED <<disk, reuse_fds, todo, op, torn, ops>>
  BY Zenon DEF ReadFile
<1>2. TypeOK /\ Allocated /\ FilesOpen
  BY Zenon, <1>1, IdleFacts
<1>3. /\ f \in Fat16File /\ f.position \in Nat /\ f.size \in Nat /\ f.size <= MaxPosition
      /\ f.dir \in Dir
  <2>1. f \in Fat16File /\ f.position \in Nat /\ f.size \in Nat /\ f.size \in 0..MaxPosition
        /\ f.dir \in Dir
    BY Zenon, <1>1, <1>2, FdFacts
  <2> QED
    BY <2>1, BoundAssumption
<1>4. ~at_end
  <2>1. FileOpen(f)
    BY Zenon, <1>1, <1>2 DEF FilesOpen
  <2> QED
    BY <1>2, <1>3, <2>1 DEF FileOpen, Allocated
<1>5. chunk \in Nat /\ f.position + chunk <= f.size
  <2> DEFINE S == {Slots - offset, n, f.size - f.position}
  <2>1. offset \in 0..Slots - 1
    BY <1>3, BoundAssumption
  <2>2. S \in SUBSET Nat /\ S # {} /\ f.size - f.position \in S
    <3>1. f.size - f.position \in Nat
      <4>1. f.position < f.size
        BY Zenon, <1>1
      <4> QED
        BY <1>3, <4>1
    <3>2. Slots - offset \in Nat /\ n \in Nat
      BY <2>1, BoundAssumption
    <3> QED
      BY <3>1, <3>2
  <2>3. Min(S) \in Nat /\ Min(S) <= f.size - f.position
    <3> HIDE DEF S
    <3> QED
      BY Zenon, <2>2, MinFacts
  <2> QED
    BY <1>3, <2>3
<1> HIDE DEF chunk, at_end
<1>6. PICK m \in 0..MaxPosition : m = f.position + chunk /\ m <= f.size
  BY <1>3, <1>5, BoundAssumption
<1>7. fd_table' = [fd_table EXCEPT ![fd] = [f EXCEPT !.position = m]]
  <2>1. fd_table' = [fd_table EXCEPT ![fd] =
                       [[f EXCEPT !.position = m] EXCEPT !.current_cluster = @]]
    BY Zenon, <1>1, <1>4, <1>6
  <2>2. [[f EXCEPT !.position = m] EXCEPT !.current_cluster = @] = [f EXCEPT !.position = m]
    BY Zenon, <1>3 DEF Fat16File
  <2> QED
    BY Zenon, <2>1, <2>2
<1> QED
  BY Zenon, <1>1, <1>6, <1>7, MoveStep

\* An I/O error or a crash ends the operation; torn says whether a rename had one of
\* its two writes done.
LEMMA FailStep ==
  ASSUME FatInv, IoError \/ Crash
  PROVE  FatInv'
<1>1. /\ todo' = <<>> /\ torn' = (torn \/ Tearing) /\ fat' = fat /\ fat2' = fat2
      /\ content' = content /\ op' = op /\ ops' = ops /\ result' \in {result, ""}
      /\ \/ fd_table' = fd_table /\ reuse_fds' = reuse_fds
         \/ fd_table' = <<>> /\ reuse_fds' = {}
  BY Zenon DEF IoError, Crash, disk, descriptors
<1>2. TypeOK /\ ReuseClosedOnly /\ FatOK
  BY DEF FatInv
<1>3. torn \in BOOLEAN /\ torn' \in BOOLEAN
  BY Zenon, <1>1, <1>2 DEF TypeOK, Tearing, InRename
<1>4. TypeOK'
  <2>1. <<>> \in Seq(BlockWrite) /\ <<>> \in Seq(Fat16File) /\ Len(<<>>) = 0
    OBVIOUS
  <2>2. /\ fd_table' \in Seq(Fat16File) /\ Len(fd_table') <= MaxFds
        /\ reuse_fds' \subseteq DOMAIN fd_table'
    <3>1. CASE fd_table' = fd_table /\ reuse_fds' = reuse_fds
      BY Zenon, <1>2, <3>1 DEF TypeOK
    <3>2. CASE fd_table' = <<>> /\ reuse_fds' = {}
      BY <2>1, <3>2, BoundAssumption
    <3> QED
      BY Zenon, <1>1, <3>1, <3>2
  <2> QED
    BY Zenon, <1>1, <1>2, <1>3, <2>1, <2>2 DEF TypeOK
<1>5. FatOK' /\ ReuseClosedOnly'
  <2>1. DOMAIN <<>> = {}
    OBVIOUS
  <2> QED
    BY Zenon, <1>1, <1>2, <2>1 DEF FatOK, ReuseClosedOnly
<1>6. ASSUME ~torn' PROVE DiskInv'
  <2>1. ~torn /\ ~Tearing
    BY Zenon, <1>1, <1>3, <1>6
  <2>2. Allocated /\ Distinct /\ DirsFilled /\ FilesOpen
    BY <2>1 DEF FatInv, DiskInv
  <2>3. Allocated' /\ Distinct' /\ DirsFilled'
    BY Zenon, <1>1, <2>2, SameContent DEF Allocated, Live, Start
  <2>4. FilesOpen'
    <3>1. DOMAIN <<>> = {}
      OBVIOUS
    <3>2. CASE fd_table' = fd_table
      BY Zenon, <1>1, <2>2, <3>2 DEF FilesOpen, FileOpen, Live, Start
    <3>3. CASE fd_table' = <<>>
      BY <3>1, <3>3 DEF FilesOpen
    <3> QED
      BY Zenon, <1>1, <3>2, <3>3
  <2> QED
    BY Zenon, <1>1, <2>3, <2>4 DEF DiskInv, TodoOK
<1> QED
  BY Zenon, <1>1, <1>4, <1>5, <1>6 DEF FatInv

\* A step that changes nothing.
LEMMA StutterStep ==
  ASSUME FatInv, UNCHANGED vars
  PROVE  FatInv'
<1>1. /\ fat' = fat /\ fat2' = fat2 /\ content' = content /\ fd_table' = fd_table
      /\ reuse_fds' = reuse_fds /\ todo' = todo /\ op' = op /\ torn' = torn
      /\ result' = result /\ ops' = ops
  BY DEF vars
<1>2. TypeOK' /\ ReuseClosedOnly' /\ FatOK'
  BY Zenon, <1>1 DEF FatInv, TypeOK, ReuseClosedOnly, FatOK
<1>3. ASSUME DiskInv PROVE DiskInv'
  <2>1. Allocated' /\ FilesOpen' /\ DirsFilled' /\ (Distinct => Distinct') /\ (Tearing => Tearing')
    BY Zenon, <1>1, <1>3, SameContent
       DEF DiskInv, Allocated, FilesOpen, FileOpen, Live, Start, Tearing, InRename
  <2>2. ASSUME NEW p \in Path, NEW c \in Cluster, CreateLeft(p, c) PROVE CreateLeft(p, c)'
    <3>1. Unnamed(c)' /\ ~HasOpen(c)' /\ (Filled(c) => Filled(c)')
      BY <1>1, <2>2 DEF CreateLeft, Unnamed, HasOpen, Filled, Live, Start
    <3>2. \A d \in Dir, s \in Slot :
            FirstUsable(d, s) /\ LeadsTo(p, d) => FirstUsable(d, s)' /\ LeadsTo(p, d)'
      BY <1>1 DEF FirstUsable, LeadsTo, Live, Start
    <3>3. \A i \in 1..Len(todo) : EntryLeft(p, c, i) => EntryLeft(p, c, i)'
      BY Zenon, <1>1, <3>1, <3>2 DEF EntryLeft
    <3> QED
      BY <1>1, <2>2, <3>1, <3>3 DEF CreateLeft
  <2>3. ASSUME NEW p \in Path, NEW c \in Cluster, FreeLeft(p, c) PROVE FreeLeft(p, c)'
    BY <1>1, <2>3 DEF FreeLeft, Live, Start, Unnamed, HasOpen
  <2>4. ASSUME NEW p \in Path, NEW d \in Dir, NEW s \in Slot, RemoveLeft(p, d, s)
        PROVE  RemoveLeft(p, d, s)'
    BY Zenon, <1>1, <2>4 DEF RemoveLeft, Names, LeadsTo, Live, Start, IsOpen, HasOpen
  <2>5. ASSUME NEW p \in Path, NEW q \in Path, NEW d \in Dir, NEW s \in Slot,
               UnlinkLeft(p, q, d, s)
        PROVE  UnlinkLeft(p, q, d, s)'
    BY <1>1, <2>5 DEF UnlinkLeft, DistinctBut, Names, LeadsTo, Live, Start, IsOpen
  <2>6. ASSUME NEW p \in Path, NEW q \in Path, NEW d \in Dir, NEW s \in Slot,
               NEW a \in Dir, NEW b \in Slot, RenameLeft(p, q, d, s, a, b)
        PROVE  RenameLeft(p, q, d, s, a, b)'
    BY <1>1, <2>6 DEF RenameLeft, FirstUsable, Names, LeadsTo, Live, Start, IsOpen
  <2>7. ASSUME NEW fd \in DOMAIN fd_table, WriteLeft(fd) PROVE WriteLeft(fd)'
    BY <1>1, <2>7 DEF WriteLeft
  <2>8. TodoOK'
    BY <1>1, <1>3, <2>2, <2>3, <2>4, <2>5, <2>6, <2>7 DEF DiskInv, TodoOK
  <2> QED
    BY <1>3, <2>1, <2>8 DEF DiskInv
<1> QED
  BY <1>1, <1>2, <1>3 DEF FatInv

-----------------------------------------------------------------------------
(* The theorems                                                            *)

\* A formatted device.
LEMMA InitInv == Init => FatInv
<1> SUFFICES ASSUME Init PROVE FatInv
  OBVIOUS
<1>1. /\ fat = [c \in Cluster |-> FREE] /\ fat2 = fat /\ fd_table = <<>> /\ reuse_fds = {}
      /\ todo = <<>> /\ op = {} /\ torn = FALSE /\ result = "" /\ ops = 0
      /\ content = [d \in Dir |-> [s \in Slot |-> Unused]]
  BY Zenon DEF Init
<1>2. FatOK /\ fat \in [Cluster -> FatEntry]
  BY Zenon, <1>1 DEF FatOK, FatEntry
<1>3. \A d \in Dir, s \in Slot : content[d][s] = Unused /\ ~Live(d, s)
  BY Zenon, <1>1, EntryFacts DEF Live
<1>4. TypeOK
  <2>1. <<>> \in Seq(BlockWrite) /\ <<>> \in Seq(Fat16File) /\ Len(<<>>) = 0
    OBVIOUS
  <2>2. content \in [Dir -> [Slot -> DirEntry83 \cup {Unused, Deleted, Data}]]
    BY Zenon, <1>1
  <2>3. 0 \in 0..MaxOps /\ 0 <= MaxFds
    BY BoundAssumption
  <2> QED
    BY Zenon, <1>1, <1>2, <2>1, <2>2, <2>3 DEF TypeOK
<1>5. ReuseClosedOnly /\ FilesOpen
  <2>1. DOMAIN <<>> = {}
    OBVIOUS
  <2> QED
    BY Zenon, <1>1, <2>1 DEF ReuseClosedOnly, FilesOpen
<1>6. Allocated /\ Distinct
  BY <1>3 DEF Allocated, Distinct
<1>7. DirsFilled
  BY <1>3, SetFacts DEF DirsFilled, Filled
<1> QED
  BY Zenon, <1>1, <1>2, <1>4, <1>5, <1>6, <1>7 DEF FatInv, DiskInv, TodoOK

\* The invariant holds of every state the file system and its device can be in,
\* after every block write, error and crash.
THEOREM FatInvariant == Spec => []FatInv
<1>1. FatInv /\ [Next]_vars => FatInv'
  <2> SUFFICES ASSUME FatInv, [Next]_vars PROVE FatInv'
    OBVIOUS
  <2>1. ASSUME NEW p \in Path, CreateFile(p) PROVE FatInv'
    BY <2>1, CreateFileStep
  <2>2. ASSUME NEW p \in Path, CreateDir(p) PROVE FatInv'
    BY <2>2, CreateDirStep
  <2>3. ASSUME NEW p \in Path, RemoveFile(p) PROVE FatInv'
    BY <2>3, RemoveFileStep
  <2>4. ASSUME NEW p \in Path, RemoveDir(p) PROVE FatInv'
    BY <2>4, RemoveDirStep
  <2>5. ASSUME NEW p \in Path, OpenFile(p) PROVE FatInv'
    BY <2>5, OpenFileStep
  <2>6. ASSUME NEW p \in Path, NEW q \in Path, Rename(p, q) PROVE FatInv'
    BY <2>6, RenameStep
  <2>7. ASSUME NEW fd \in 1..MaxFds, CloseFile(fd) PROVE FatInv'
    BY <2>7, CloseFileStep
  <2>8. ASSUME NEW fd \in 1..MaxFds, NEW n \in 1..Slots, WriteFile(fd, n) PROVE FatInv'
    BY <2>8, WriteFileStep
  <2>9. ASSUME NEW fd \in 1..MaxFds, NEW n \in 1..Slots, ReadFile(fd, n) PROVE FatInv'
    BY <2>9, ReadFileStep
  <2>10. ASSUME NEW fd \in 1..MaxFds, NEW n \in 0..MaxPosition, SeekFile(fd, n) PROVE FatInv'
    BY <2>10, SeekFileStep
  <2>11. CASE DoWrite
    BY <2>11, DoWriteStep
  <2>12. CASE IoError \/ Crash
    BY <2>12, FailStep
  <2>13. CASE UNCHANGED vars
    BY <2>13, StutterStep
  <2> QED
    BY <2>1, <2>2, <2>3, <2>4, <2>5, <2>6, <2>7, <2>8, <2>9, <2>10, <2>11, <2>12, <2>13
       DEF Next
<1> QED
  BY <1>1, InitInv, PTL DEF Spec
\* The state has its type.
THEOREM TypeCorrect == Spec => []TypeOK
<1>1. FatInv => TypeOK
  BY DEF FatInv
<1> QED
  BY <1>1, FatInvariant, PTL

\* What a path leads to is allocated, after an I/O error or a crash at any block
\* write too: creating allocates before it links, removing unlinks before it frees.
THEOREM NothingLiveIsFree == Spec => []EntriesAllocated
<1>1. FatInv => EntriesAllocated
  <2> SUFFICES ASSUME FatInv, ~torn, NEW x \in LiveEntries
               PROVE  fat[At(x).start_cluster] # FREE
    BY DEF EntriesAllocated
  <2>1. PICK d \in Dir, s \in Slot : x = <<d, s>> /\ Live(d, s)
    BY DEF LiveEntries, Reached, At, Live
  <2>2. Allocated
    BY DEF FatInv, DiskInv
  <2> QED
    BY <2>1, <2>2, SetFacts DEF Allocated, At, Start
<1> QED
  BY <1>1, FatInvariant, PTL

\* No cluster belongs to two files or directories, except while a rename is between
\* its writes.
THEOREM ClustersNotShared == Spec => []NoCrossLink
<1>1. FatInv => NoCrossLink
  <2> SUFFICES ASSUME FatInv, ~torn, ~Tearing, NEW x \in LiveEntries, NEW y \in LiveEntries,
                      At(x).start_cluster = At(y).start_cluster
               PROVE  x = y
    BY DEF NoCrossLink
  <2>1. PICK d \in Dir, s \in Slot : x = <<d, s>> /\ Live(d, s)
    BY DEF LiveEntries, Reached, At, Live
  <2>2. PICK e \in Dir, t \in Slot : y = <<e, t>> /\ Live(e, t)
    BY DEF LiveEntries, Reached, At, Live
  <2>3. Distinct
    BY DEF FatInv, DiskInv
  <2> QED
    BY <2>1, <2>2, <2>3 DEF Distinct, At, Start
<1> QED
  BY <1>1, FatInvariant, PTL

\* An open descriptor has the place of a file's entry and a cluster of that file.
THEOREM OpenFilesStayLive == Spec => []OpenFilesLive
<1>1. FatInv => OpenFilesLive
  <2> SUFFICES ASSUME FatInv, ~torn, NEW i \in DOMAIN fd_table, fd_table[i].valid
               PROVE  LET f == fd_table[i]
                          e == content[f.dir][f.slot]
                      IN  /\ f.slot # 0 /\ is_live(e) /\ ~e.is_directory
                          /\ f.current_cluster = e.start_cluster
                          /\ f.position <= f.size
    BY DEF OpenFilesLive
  <2>1. FileOpen(fd_table[i])
    BY DEF FatInv, DiskInv, FilesOpen
  <2> QED
    BY <2>1, SetFacts DEF FileOpen, Live, Start
<1> QED
  BY <1>1, FatInvariant, PTL

\* The descriptors on reuse_fds are the closed ones.
THEOREM ReusedWereClosed == Spec => []ReuseClosedOnly
<1>1. FatInv => ReuseClosedOnly
  BY DEF FatInv
<1> QED
  BY <1>1, FatInvariant, PTL

-----------------------------------------------------------------------------
(* Other paths                                                             *)

\* Nothing that the look-up of path q reads of its names is changed.
Kept(q) ==
  /\ \A s \in Slot : content'[Root][s].name = q[1] <=> content[Root][s].name = q[1]
  /\ \A s \in Slot : content[Root][s].name = q[1] =>
       /\ content'[Root][s].is_directory = content[Root][s].is_directory
       /\ content'[Root][s].start_cluster = content[Root][s].start_cluster
  /\ Len(q) = 2 => \A r \in Slot :
       content[Root][r].name = q[1] /\ content[Root][r].is_directory =>
         \A s \in Slot :
           /\ content'[Start(Root, r)][s].name = q[2] <=> content[Start(Root, r)][s].name = q[2]
           /\ content[Start(Root, r)][s].name = q[2] =>
                content'[Start(Root, r)][s].start_cluster = content[Start(Root, r)][s].start_cluster
\* In a filled directory a name is found whatever is unused.
LEMMA FoundIn ==
  ASSUME NEW entries, NEW n \in Name,
         \A s, t \in Slot : s < t /\ entries[s] = Unused => entries[t] = Unused
  PROVE  {s \in Slot : /\ entries[s].name = n
                       /\ \A t \in Sector(s) : t < s => entries[t] # Unused}
           = {s \in Slot : entries[s].name = n}
<1>1. Unused.name # n
  BY Zenon, NameAssumption DEF Unused
<1>2. \A s \in Slot : Sector(s) \subseteq Slot
  BY DEF Sector
<1>3. \A s \in Slot : entries[s].name = n => \A t \in Sector(s) : t < s => entries[t] # Unused
  BY <1>1, <1>2
<1> QED
  BY <1>3

\* A directory that is filled and stays filled answers as before for a name that
\* the same slots have.
LEMMA LookUpKept ==
  ASSUME NEW d \in Dir, NEW n \in Name, Filled(d), Filled(d)',
         \A s \in Slot : content'[d][s].name = n <=> content[d][s].name = n
  PROVE  find_entry_in_dir(d, n)' = find_entry_in_dir(d, n)
<1> DEFINE old == {s \in Slot : content[d][s].name = n}
           new == {s \in Slot : content'[d][s].name = n}
<1>1. new = old
  OBVIOUS
<1>2. {s \in Slot : /\ content[d][s].name = n
                    /\ \A t \in Sector(s) : t < s => content[d][t] # Unused} = old
  BY FoundIn DEF Filled
<1>3. {s \in Slot : /\ content'[d][s].name = n
                    /\ \A t \in Sector(s) : t < s => content'[d][t] # Unused} = new
  BY FoundIn DEF Filled
<1>4. find_entry_in_dir(d, n) = IF old = {} THEN NotFound ELSE <<d, Min(old)>>
  BY Zenon, <1>2 DEF find_entry_in_dir
<1>5. find_entry_in_dir(d, n)' = IF new = {} THEN NotFound ELSE <<d, Min(new)>>
  BY Zenon, <1>3 DEF find_entry_in_dir, NotFound
<1> HIDE DEF old, new
<1> QED
  BY <1>1, <1>4, <1>5

\* A path names what it named when nothing that its look-up reads is changed.
LEMMA NamedKept ==
  ASSUME TypeOK, DirsFilled, DirsFilled', NEW q \in Path, Kept(q)
  PROVE  Named(q)' = Named(q)
<1>1. Root \in Dir /\ q[1] \in Name /\ Filled(Root) /\ Filled(Root)' /\ Len(q) \in {1, 2}
  BY SetFacts, PathFacts DEF DirsFilled
<1>2. find_entry_in_dir(Root, q[1])' = find_entry_in_dir(Root, q[1])
  BY <1>1, LookUpKept DEF Kept
<1>3. CASE Len(q) = 1
  <2>1. find_entry(q) = find_entry_in_dir(Root, q[1])
        /\ find_entry(q)' = find_entry_in_dir(Root, q[1])'
    BY <1>3 DEF find_entry
  <2>2. CASE find_entry_in_dir(Root, q[1]) = NotFound
    BY <1>2, <2>1, <2>2 DEF Named, NotFound
  <2>3. CASE find_entry_in_dir(Root, q[1]) # NotFound
    <3>1. PICK s \in Slot : /\ find_entry_in_dir(Root, q[1]) = <<Root, s>>
                            /\ content[Root][s].name = q[1]
      BY <1>1, <2>3, FindFacts
    <3>2. content'[Root][s].start_cluster = content[Root][s].start_cluster
      BY <3>1 DEF Kept
    <3> QED
      BY <1>2, <2>1, <2>3, <3>1, <3>2 DEF Named, At, NotFound
  <2> QED
    BY <2>2, <2>3
<1>4. CASE Len(q) = 2
  <2>1. q[2] \in Name
    BY <1>4, PathFacts
  <2>2. CASE find_entry_in_dir(Root, q[1]) = NotFound
    <3>1. find_entry(q) = NotFound /\ find_entry(q)' = NotFound
      BY <1>2, <1>4, <2>2 DEF find_entry, NotFound
    <3> QED
      BY <3>1 DEF Named, NotFound
  <2>3. CASE find_entry_in_dir(Root, q[1]) # NotFound
    <3>1. PICK r \in Slot : /\ find_entry_in_dir(Root, q[1]) = <<Root, r>> /\ Live(Root, r)
                            /\ content[Root][r].name = q[1]
      BY <1>1, <2>3, FindFacts
    <3>2. PICK x : x = content[Root][r].start_cluster
      OBVIOUS
    <3>3. /\ content'[Root][r].name = q[1]
          /\ content'[Root][r].is_directory = content[Root][r].is_directory
          /\ content'[Root][r].start_cluster = x
      BY <3>1, <3>2 DEF Kept
    <3>4. CASE ~content[Root][r].is_directory
      <4>1. find_entry(q) = NotFound /\ find_entry(q)' = NotFound
        BY <1>2, <1>4, <2>3, <3>1, <3>3, <3>4 DEF find_entry, NotFound, At
      <4> QED
        BY <4>1 DEF Named, NotFound
    <3>5. CASE content[Root][r].is_directory
      <4>1. x \in Dir /\ Filled(x)
        BY Zenon, <1>1, <3>1, <3>2, <3>5, ContentFacts, SetFacts DEF DirsFilled, Start
      <4>2. Filled(x)'
        <5>1. Live(Root, r)'
          BY <1>1, <3>3 DEF Live, is_live
        <5>2. Filled(Start(Root, r))'
          BY Zenon, <1>1, <3>3, <3>5, <5>1 DEF DirsFilled
        <5> QED
          BY <3>3, <5>2 DEF Start, Filled
      <4>3. \A s \in Slot : /\ content'[x][s].name = q[2] <=> content[x][s].name = q[2]
                            /\ content[x][s].name = q[2] =>
                                 content'[x][s].start_cluster = content[x][s].start_cluster
        BY Zenon, <1>4, <3>1, <3>2, <3>5 DEF Kept, Start
      <4>4. find_entry_in_dir(x, q[2])' = find_entry_in_dir(x, q[2])
        BY Zenon, <2>1, <4>1, <4>2, <4>3, LookUpKept
      <4>5. find_entry(q) = find_entry_in_dir(x, q[2])
        BY <1>4, <2>3, <3>1, <3>2, <3>5 DEF find_entry, At
      <4>6. find_entry(q)' = find_entry_in_dir(x, q[2])'
        <5>1. find_entry_in_dir(Root, q[1])' = <<Root, r>> /\ <<Root, r>> # NotFound
          BY <1>2, <2>3, <3>1
        <5>2. content'[Root][r].start_cluster = x /\ content'[Root][r].is_directory
          BY <3>3, <3>5
        <5>3. find_entry(q)' = find_entry_in_dir(content[Root][r].start_cluster, q[2])'
          BY <1>4, <5>1, <5>2 DEF find_entry, At, NotFound
        <5> QED
          BY <5>2, <5>3 DEF find_entry_in_dir
      <4>7. CASE find_entry_in_dir(x, q[2]) = NotFound
        BY <4>4, <4>5, <4>6, <4>7 DEF Named, NotFound
      <4>8. CASE find_entry_in_dir(x, q[2]) # NotFound
        <5>1. PICK s \in Slot : /\ find_entry_in_dir(x, q[2]) = <<x, s>>
                                /\ content[x][s].name = q[2]
          BY <2>1, <4>1, <4>8, FindFacts
        <5>2. content'[x][s].start_cluster = content[x][s].start_cluster
          BY <4>3, <5>1
        <5> QED
          BY <4>4, <4>5, <4>6, <4>8, <5>1, <5>2 DEF Named, At, NotFound
      <4> QED
        BY <4>7, <4>8
    <3> QED
      BY <3>4, <3>5
  <2> QED
    BY <2>2, <2>3
<1> QED
  BY <1>1, <1>3, <1>4
\* A path with its last name replaced by m is a prefix of the paths that go the same way.
LEMMA PrefixFacts ==
  ASSUME NEW p \in Path, NEW q \in Path, NEW m \in Name,
         ~Within([p EXCEPT ![Len(p)] = m], q)
  PROVE  /\ Len(p) = 1 => q[1] # m
         /\ Len(p) = 2 /\ Len(q) = 2 => q[1] # p[1] \/ q[2] # m
<1> DEFINE c == [p EXCEPT ![Len(p)] = m]
<1>1. p \in Seq(Name) /\ q \in Seq(Name) /\ Len(p) \in {1, 2} /\ Len(q) \in {1, 2}
  BY PathFacts
<1>2. c \in Seq(Name) /\ Len(c) = Len(p) /\ c[Len(p)] = m /\ (Len(p) = 2 => c[1] = p[1])
  BY <1>1
<1>3. ASSUME Len(p) <= Len(q), \A i \in 1..Len(p) : c[i] = q[i]
      PROVE  FALSE
  <2> HIDE DEF c
  <2>1. /\ SubSeq(c, 1, Len(c)) = [i \in 1..Len(p) |-> c[i]]
        /\ SubSeq(q, 1, Len(c)) = [i \in 1..Len(p) |-> q[i]]
    BY <1>1, <1>2, <1>3
  <2>2. Within(c, q)
    BY <1>1, <1>2, <1>3, <2>1 DEF Within
  <2> QED
    BY <2>2 DEF c
<1> HIDE DEF c
<1>4. ASSUME Len(p) = 1, q[1] = m PROVE FALSE
  BY <1>1, <1>2, <1>3, <1>4
<1>5. ASSUME Len(p) = 2, Len(q) = 2, q[1] = p[1], q[2] = m PROVE FALSE
  <2>1. \A i \in 1..2 : i = 1 \/ i = 2
    OBVIOUS
  <2> QED
    BY <1>1, <1>2, <1>3, <1>5, <2>1
<1> QED
  BY <1>4, <1>5

\* One entry changes, in the directory that p leads to, and name m is the only one that
\* it had or gets.
LEMMA EntryKept ==
  ASSUME TypeOK, NEW p \in Path, NEW a \in Dir, NEW b \in Slot, LeadsTo(p, a), DistinctBut(a, b),
         \A d \in Dir, s \in Slot : d # a \/ s # b => content'[d][s] = content[d][s],
         NEW m \in Name,
         \A n \in Name : n # m => content[a][b].name # n /\ content'[a][b].name # n,
         NEW q \in Path, NEW c, c = [p EXCEPT ![Len(p)] = m], ~Within(c, q)
  PROVE  Kept(q)
<1>1. \A d \in Dir, s \in Slot : d # a \/ s # b => content'[d][s] = content[d][s]
  BY Zenon
<1>2. \A n \in Name : n # m => content[a][b].name # n /\ content'[a][b].name # n
  OBVIOUS
<1>3. /\ Len(p) \in {1, 2} /\ Len(q) \in {1, 2} /\ q[1] \in Name /\ Root \in Dir
      /\ Len(q) = 2 => q[2] \in Name
  BY PathFacts, SetFacts
<1>4. /\ Len(p) = 1 => q[1] # m
      /\ Len(p) = 2 /\ Len(q) = 2 => q[1] # p[1] \/ q[2] # m
  BY Zenon, PrefixFacts
<1>5. a = Root <=> Len(p) = 1
  <2>1. ASSUME Len(p) = 2 PROVE a # Root
    <3>1. PICK r \in Slot : Live(Root, r) /\ Start(Root, r) = a
      BY <2>1 DEF LeadsTo
    <3> QED
      BY <1>3, <3>1, ContentFacts, SetFacts
  <2>2. ASSUME Len(p) = 1 PROVE a = Root
    BY <2>2 DEF LeadsTo
  <2> QED
    BY <1>3, <2>1, <2>2
<1>6. \A s \in Slot :
        /\ content'[Root][s].name = q[1] <=> content[Root][s].name = q[1]
        /\ content[Root][s].name = q[1] => content'[Root][s] = content[Root][s]
  BY <1>1, <1>2, <1>3, <1>4, <1>5
<1>7. ASSUME Len(q) = 2, NEW r \in Slot, content[Root][r].name = q[1],
             content[Root][r].is_directory, NEW s \in Slot
      PROVE  /\ content'[Start(Root, r)][s].name = q[2] <=> content[Start(Root, r)][s].name = q[2]
             /\ content[Start(Root, r)][s].name = q[2] =>
                  content'[Start(Root, r)][s] = content[Start(Root, r)][s]
  <2>1. PICK x : x = Start(Root, r)
    OBVIOUS
  <2>2. Live(Root, r) /\ x \in Dir /\ x # Root
    <3>1. Live(Root, r)
      BY <1>3, <1>7 DEF Live, is_live
    <3> QED
      BY Zenon, <1>3, <2>1, <3>1, ContentFacts, SetFacts
  <2>3. CASE x = a /\ s = b
    <3>1. PICK t \in Slot : Live(Root, t) /\ content[Root][t].name = p[1] /\ Start(Root, t) = a
      BY <1>3, <1>5, <2>2, <2>3 DEF LeadsTo
    <3>2. <<Root, t>> # <<a, b>> /\ <<Root, r>> # <<a, b>>
      BY <2>2, <2>3
    <3>3. r = t
      <4>1. Live(Root, r) /\ Live(Root, t) /\ Start(Root, r) = Start(Root, t) /\ Root \in Dir
        BY <1>3, <2>1, <2>2, <2>3, <3>1
      <4> QED
        BY <3>2, <4>1 DEF DistinctBut
    <3>4. q[2] # m
      BY <1>3, <1>4, <1>5, <1>7, <2>2, <2>3, <3>1, <3>3
    <3> QED
      BY <1>2, <1>3, <1>7, <2>1, <2>3, <3>4
  <2>4. CASE x # a \/ s # b
    BY <1>1, <2>1, <2>2, <2>4
  <2> QED
    BY Zenon, <2>3, <2>4
<1> QED
  BY Zenon, <1>6, <1>7 DEF Kept

\* Only directories that no path leads to change.
LEMMA ElsewhereKept ==
  ASSUME TypeOK, NEW k \in Cluster,
         \A r \in Slot : Live(Root, r) /\ content[Root][r].is_directory => Start(Root, r) # k,
         \A d \in Dir : d # k => content'[d] = content[d],
         NEW q \in Path
  PROVE  Kept(q)
<1>1. Root \in Dir /\ Root # k /\ q[1] \in Name
  BY SetFacts, PathFacts
<1>2. content'[Root] = content[Root]
  BY <1>1
<1>3. ASSUME NEW r \in Slot, content[Root][r].name = q[1], content[Root][r].is_directory
      PROVE  content'[Start(Root, r)] = content[Start(Root, r)]
  <2>1. Live(Root, r)
    BY <1>1, <1>3 DEF Live, is_live
  <2>2. Start(Root, r) \in Dir /\ Start(Root, r) # k
    BY Zenon, <1>1, <1>3, <2>1, ContentFacts, SetFacts
  <2> QED
    BY <2>2
<1> QED
  BY Zenon, <1>2, <1>3 DEF Kept
\* The two ways to write a path with its last name replaced.
LEMMA CutFacts ==
  ASSUME NEW p \in Path
  PROVE  /\ Cut(p) = [p EXCEPT ![Len(p)] = Stored[Leaf(p)]]
         /\ p = [p EXCEPT ![Len(p)] = Leaf(p)]
         /\ Leaf(p) \in Name /\ Stored[Leaf(p)] \in Name
<1>1. p \in Seq(Name) /\ Len(p) \in {1, 2} /\ Leaf(p) \in Name
  BY PathFacts
<1>2. Stored[Leaf(p)] \in Name
  BY Zenon, <1>1, NameAssumption
<1>3. Leaf(p) = p[Len(p)]
  BY DEF Leaf
<1> QED
  BY <1>1, <1>2, <1>3 DEF Cut

\* An entry that p names is deleted.
LEMMA DeleteKept ==
  ASSUME TypeOK, NEW p \in Path, NEW d \in Dir, NEW s \in Slot, Names(p, d, s),
         DistinctBut(d, s), content' = [content EXCEPT ![d][s] = Deleted],
         NEW q \in Path, ~Within(p, q)
  PROVE  Kept(q)
<1>1. PICK m \in Name : m = Leaf(p) /\ p = [p EXCEPT ![Len(p)] = m]
  BY CutFacts
<1>2. /\ content'[d][s] = Deleted
      /\ \A a \in Dir, b \in Slot : a # d \/ b # s => content'[a][b] = content[a][b]
  BY Zenon, EntryWritten
<1>3. \A n \in Name : n # m => content[d][s].name # n /\ content'[d][s].name # n
  <2>1. Deleted.name = "DELETED" /\ content[d][s].name = m
    BY Zenon, <1>1 DEF Unused, Deleted, Names
  <2> QED
    BY Zenon, <1>2, <2>1, NameAssumption
<1>4. LeadsTo(p, d)
  BY DEF Names
<1> QED
  BY <1>1, <1>2, <1>3, <1>4, EntryKept

\* An entry for p is written to a slot that has none.
LEMMA NewKept ==
  ASSUME TypeOK, NEW p \in Path, NEW d \in Dir, NEW s \in Slot, LeadsTo(p, d),
         FirstUsable(d, s), DistinctBut(d, s), NEW e \in DirEntry83,
         e.name = Stored[Leaf(p)], content' = [content EXCEPT ![d][s] = e],
         NEW q \in Path, ~Within(Cut(p), q)
  PROVE  Kept(q)
<1>1. PICK m \in Name : m = Stored[Leaf(p)] /\ Cut(p) = [p EXCEPT ![Len(p)] = m]
  BY CutFacts
<1>2. /\ content'[d][s] = e
      /\ \A a \in Dir, b \in Slot : a # d \/ b # s => content'[a][b] = content[a][b]
  BY Zenon, EntryWritten
<1>3. \A n \in Name : n # m => content[d][s].name # n /\ content'[d][s].name # n
  <2>1. Unused.name = "" /\ Deleted.name = "DELETED"
    BY DEF Unused, Deleted
  <2> QED
    BY Zenon, <1>1, <1>2, <2>1, NameAssumption DEF FirstUsable
<1>4. PICK c : c = Cut(p)
  OBVIOUS
<1>5. ~Within(c, q) /\ c = [p EXCEPT ![Len(p)] = m]
  BY <1>1, <1>4
<1> QED
  BY Zenon, <1>2, <1>3, <1>5, EntryKept

\* A block write keeps what the paths of other operations name.
LEMMA WriteKeeps ==
  ASSUME FatInv, FatInv', DoWrite, content' # content,
         NEW q \in Path, \A p \in op : ~Within(p, q) /\ ~Within(Cut(p), q)
  PROVE  Named(q)' = Named(q)
<1>1. TypeOK
  BY DEF FatInv
<1>2. todo # <<>> /\ torn' = torn
  BY <1>1, DoWriteFacts
<1>3. ~torn /\ DiskInv /\ DiskInv'
  BY <1>2 DEF FatInv
<1>4. Allocated /\ (Tearing \/ Distinct) /\ DirsFilled /\ DirsFilled' /\ FilesOpen /\ TodoOK
  BY <1>3 DEF DiskInv
<1>5. (\A p : op = {p} => Distinct) /\ (op = {} => Distinct) /\ (Len(todo) # 1 => Distinct)
  BY <1>4 DEF Tearing, InRename
<1>6. \A d \in Dir, s \in Slot : Distinct => DistinctBut(d, s)
  BY DEF Distinct, DistinctBut
<1> SUFFICES Kept(q)
  BY <1>1, <1>4, NamedKept
<1>7. ASSUME NEW p \in Path, NEW c \in Cluster, CreateLeft(p, c)
      PROVE  Kept(q)
  <2>1. op = {p} /\ Unnamed(c) /\ Distinct
    BY <1>5, <1>7 DEF CreateLeft
  <2>2. \/ todo[1] \in {FatWrite(c, END_OF_CHAIN), Mirror, InitDirectory(c)}
        \/ EntryLeft(p, c, 1)
    <3>1. 1 \in 1..Len(todo)
      BY <1>1, <1>2, TodoFacts
    <3> QED
      BY <1>7, <3>1 DEF CreateLeft
  <2>3. todo[1] # FatWrite(c, END_OF_CHAIN) /\ todo[1] # Mirror
    BY <1>1, DoWriteFacts DEF FatEntry
  <2>4. CASE todo[1] = InitDirectory(c)
    <3>1. content' = [content EXCEPT ![c] = [s \in Slot |-> Unused]]
      BY <1>1, <2>4, DoWriteFacts
    <3>2. \A d \in Dir : d # c => content'[d] = content[d]
      BY Zenon, <1>1, <3>1 DEF TypeOK
    <3>3. \A r \in Slot : Live(Root, r) /\ content[Root][r].is_directory => Start(Root, r) # c
      BY Zenon, <2>1, SetFacts DEF Unnamed
    <3> QED
      BY <1>1, <3>2, <3>3, ElsewhereKept
  <2>5. CASE EntryLeft(p, c, 1)
    <3>1. PICK d \in Dir, s \in Slot, e \in DirEntry83 :
                 /\ todo[1] = EntryWrite(d, s, e) /\ FirstUsable(d, s) /\ LeadsTo(p, d)
                 /\ e.name = Stored[Leaf(p)]
      BY Zenon, <2>5 DEF EntryLeft
    <3>2. content' = [content EXCEPT ![d][s] = e]
      BY <1>1, <3>1, DoWriteFacts
    <3>3. DistinctBut(d, s) /\ ~Within(Cut(p), q)
      BY <1>6, <2>1
    <3> QED
      BY Zenon, <1>1, <3>1, <3>2, <3>3, NewKept
  <2> QED
    BY <2>2, <2>3, <2>4, <2>5
<1>8. ASSUME NEW p \in Path, NEW c \in Cluster, FreeLeft(p, c)
      PROVE  Kept(q)
  <2>1. todo[1] = FreeChain(c)
    BY <1>8 DEF FreeLeft
  <2> QED
    BY Zenon, <1>1, <2>1, DoWriteFacts DEF FreeCluster
<1>9. ASSUME NEW p \in Path, NEW d \in Dir, NEW s \in Slot, RemoveLeft(p, d, s)
      PROVE  Kept(q)
  <2>1. op = {p} /\ Names(p, d, s) /\ todo[1] = EntryWrite(d, s, Deleted)
    BY <1>9 DEF RemoveLeft
  <2>2. content' = [content EXCEPT ![d][s] = Deleted]
    BY <1>1, <2>1, DoWriteFacts
  <2>3. DistinctBut(d, s) /\ ~Within(p, q)
    BY <1>5, <1>6, <2>1
  <2> QED
    BY Zenon, <1>1, <2>1, <2>2, <2>3, DeleteKept
<1>10. ASSUME NEW p \in Path, NEW t \in Path, NEW d \in Dir, NEW s \in Slot,
              UnlinkLeft(p, t, d, s)
       PROVE  Kept(q)
  <2>1. /\ p \in op /\ Names(p, d, s) /\ DistinctBut(d, s)
        /\ todo[1] = EntryWrite(d, s, Deleted)
    BY <1>10 DEF UnlinkLeft
  <2>2. content' = [content EXCEPT ![d][s] = Deleted]
    BY <1>1, <2>1, DoWriteFacts
  <2> QED
    BY Zenon, <1>1, <2>1, <2>2, DeleteKept
<1>11. ASSUME NEW p \in Path, NEW t \in Path, NEW d \in Dir, NEW s \in Slot,
              NEW a \in Dir, NEW b \in Slot, RenameLeft(p, t, d, s, a, b)
       PROVE  Kept(q)
  <2>1. PICK e : e = [content[d][s] EXCEPT !.name = Stored[Leaf(t)]]
    BY Zenon
  <2>2. /\ t \in op /\ LeadsTo(t, a) /\ FirstUsable(a, b) /\ Live(d, s)
        /\ todo[1] = EntryWrite(a, b, e) /\ Len(todo) = 2
    BY <1>11, <2>1 DEF RenameLeft, Names
  <2>3. e \in DirEntry83 /\ e.name = Stored[Leaf(t)]
    <3>1. content[d][s] \in DirEntry83 /\ Stored[Leaf(t)] \in Name
      BY Zenon, <1>1, <2>2, ContentFacts, CutFacts
    <3> QED
      BY <2>1, <3>1 DEF DirEntry83
  <2>4. content' = [content EXCEPT ![a][b] = e]
    BY <1>1, <2>2, <2>3, DoWriteFacts
  <2>5. DistinctBut(a, b)
    BY <1>5, <1>6, <2>2
  <2> QED
    BY Zenon, <1>1, <2>2, <2>3, <2>4, <2>5, NewKept
<1>12. ASSUME NEW fd \in DOMAIN fd_table, WriteLeft(fd)
       PROVE  Kept(q)
  <2>1. fd_table[fd].valid /\ Distinct
    BY <1>5, <1>12 DEF WriteLeft
  <2>2. PICK f \in Fat16File : f = fd_table[fd]
    BY <1>1, FdFacts
  <2>3. FileOpen(f) /\ f.dir \in Dir
    BY <1>1, <1>4, <2>1, <2>2, FdFacts DEF FilesOpen
  <2>4. CASE \E n \in 1..MaxPosition : /\ todo = <<DataWrite(fd, n)>>
                                       /\ fd_table[fd].position + n <= MaxPosition
    <3>1. PICK n \in 1..MaxPosition : /\ todo = <<DataWrite(fd, n)>>
                                      /\ fd_table[fd].position + n <= MaxPosition
      BY <2>4
    <3>2. WriteChunk(fd, n)
      <4>1. todo[1] = DataWrite(fd, n)
        BY <3>1
      <4> QED
        BY <1>1, <4>1, DoWriteFacts
    <3>3. PICK k : k = f.current_cluster
      OBVIOUS
    <3>4. PICK units : content' = [content EXCEPT ![fd_table[fd].current_cluster] =
                                    [s \in Slot |-> IF s \in units THEN Data ELSE @[s]]]
      BY Zenon, <1>1, <1>4, <2>1, <3>1, <3>2, ChunkStep
    <3>5. fd_table[fd].current_cluster = k
      BY <2>2, <3>3
    <3>6. \A d \in Dir : d # k => content'[d] = content[d]
      BY Zenon, <1>1, <3>4, <3>5 DEF TypeOK
    <3>7. k = Start(f.dir, f.slot) /\ Live(f.dir, f.slot) /\ f.slot \in Slot
          /\ ~content[f.dir][f.slot].is_directory
      BY <2>3, <3>3 DEF FileOpen
    <3>8. k \in Cluster
      BY Zenon, <1>1, <2>3, <3>7, ContentFacts
    <3>9. \A r \in Slot : Live(Root, r) /\ content[Root][r].is_directory => Start(Root, r) # k
      BY Zenon, <2>1, <2>3, <3>7, SetFacts DEF Distinct
    <3> QED
      BY <1>1, <3>6, <3>8, <3>9, ElsewhereKept
  <2>5. CASE todo = <<SizeWrite(fd)>>
    <3>1. UpdateSize(fd_table[fd])
      <4>1. todo[1] = SizeWrite(fd)
        BY <2>5
      <4> QED
        BY <1>1, <4>1, DoWriteFacts
    <3>2. PICK a \in Dir, b \in Slot, n \in 0..MaxPosition :
            /\ a = fd_table[fd].dir /\ b = fd_table[fd].slot /\ n = fd_table[fd].size
            /\ Live(a, b)
      BY Zenon, <1>1, <2>2, <2>3, FdFacts DEF FileOpen
    <3>3. /\ content' = [content EXCEPT ![a][b].file_size = n]
          /\ UNCHANGED <<fat, fd_table>>
      BY <3>1, <3>2 DEF UpdateSize
    <3>4. \A d \in Dir, s \in Slot :
            /\ content'[d][s].name = content[d][s].name
            /\ content'[d][s].is_directory = content[d][s].is_directory
            /\ content'[d][s].start_cluster = content[d][s].start_cluster
      BY Zenon, <1>1, <1>4, <2>1, <3>2, <3>3, SizeStep
    <3>5. Root \in Dir /\ q[1] \in Name
      BY SetFacts, PathFacts
    <3>6. \A r \in Slot : content[Root][r].name = q[1] => Start(Root, r) \in Dir
      BY Zenon, <1>1, <3>5, ContentFacts, SetFacts DEF Live, is_live
    <3> QED
      BY Zenon, <3>4, <3>5, <3>6 DEF Kept
  <2> QED
    BY Zenon, <1>12, <2>4, <2>5 DEF WriteLeft
<1> QED
  BY <1>2, <1>4, <1>7, <1>8, <1>9, <1>10, <1>11, <1>12 DEF TodoOK

\* An operation on one path leaves alone what every other path names, except for the
\* paths below it and the path that its last name is cut to; at every block write.
THEOREM OtherPathsKept == Spec => OthersKept
<1>1. FatInv /\ FatInv' /\ [Next]_vars =>
        [content' # content => \A q \in Path :
           (\A p \in op' : ~Within(p, q) /\ ~Within(Cut(p), q)) => Named(q)' = Named(q)]_vars
  <2> SUFFICES ASSUME FatInv, FatInv', Next, content' # content, NEW q \in Path,
                      \A p \in op' : ~Within(p, q) /\ ~Within(Cut(p), q)
               PROVE  Named(q)' = Named(q)
    OBVIOUS
  <2>1. DoWrite
    BY Zenon DEF Next, CreateFile, CreateDir, RemoveFile, RemoveDir, Rename, WriteFile, Begin,
       OpenFile, CloseFile, SeekFile, ReadFile, IoError, Crash, disk
  <2>2. op' = op
    BY <2>1, DoWriteFacts DEF FatInv
  <2> QED
    BY <2>1, <2>2, WriteKeeps
<1> QED
  BY <1>1, FatInvariant, PTL DEF Spec, OthersKept
=============================================================================
