------------------------------- MODULE Fat32 -------------------------------
(***************************************************************************)
(* The FAT32 volume builder of gpt/fat.c: createFAT32 formats a buffer,    *)
(* FAT32Copyin copies one host file into its root directory.  The buffer   *)
(* is a MAP_SHARED mapping of the target disk (gpt/installer.c), so every  *)
(* store is on the disk at once and survives the death of the process:     *)
(* FAT32Copyin is therefore one action per store, in the order of the      *)
(* code, and the process may end between any two of them.  A later process *)
(* works on the disk it finds.  Two groups of stores stay one action: those *)
(* of a directory entry, of which only its slot matters until the copy is  *)
(* complete, and those of createFAT32, which every tool runs from the start. *)
(***************************************************************************)
EXTENDS FatGeometry, Sequences

CONSTANTS
  Configs,  \* the FATConfig values createFAT32 is called with
  Files,    \* the host files FAT32Copyin is called with
  StSize,   \* st_size of each of them
  NoFile    \* owner of a cluster that holds no file data

ASSUME ConfigAssumption ==
  Configs \subseteq [nSector : 0..Word - 1, bytesPerSector : 0..Word - 1,
                     clusterSize : 0..Word - 1]
ASSUME FileAssumption == StSize \in [Files -> Nat] /\ NoFile \notin Files

VARIABLES
  bpb, bpb6,     \* BIOS parameter block, and its copy at sector 6
  info, info7,   \* FSInfo at sector 1, and its copy at sector 7
  fat,           \* the two file allocation tables
  root,          \* the used entries of the root directory, in slot order
  data,          \* what each data cluster holds: <<file, index in the file>>
  pc, op,        \* where the process is in FAT32Copyin, and its locals
  rc,            \* the last call that returned, and the value it returned
  stored,        \* history: the root slots whose FSInfo update was complete
  halfway        \* history: deaths inside the FSInfo update since the format,
                 \* counted up to two

disk == <<bpb, bpb6, info, info7, fat, root, data, stored, halfway>>
vars == <<disk, pc, op, rc>>

----------------------------------------------------------------------------
\* A first-cluster number is stored as two 16-bit halves.
EntryOf(f, c, size) ==
  [file |-> f, high |-> c \div Half, low |-> c % Half, fileSize |-> size]
FirstCluster(e) == e.high * Half + e.low

\* One store of FAT32SuperWriteEntry: the value of entry c in table t.
WriteEntry(tables, t, c, v) == [tables EXCEPT ![t] = [@ EXCEPT ![c] = v]]

\* The locals of a FAT32Copyin that is not running, and a returned value.
NoOp == [file |-> NoFile, size |-> 0, n |-> 0, i |-> 1, next |-> 0,
         free |-> 0, ret |-> 0]
Returned(call, f, value) == [call |-> call, file |-> f, value |-> value]

----------------------------------------------------------------------------
(* createFAT32.                                                            *)

InfoOfOneTable(c) ==    \* mutant: only the entries of one table are counted
  [freeCount |-> U32(FatEntries(BpbOf(c)) - 3), nextFree |-> 3]
InfoOf(c) == [freeCount |-> U32(2 * FatEntries(BpbOf(c)) - 3), nextFree |-> 3]

\* Entries 0 and 1 hold reserved values; the root directory is cluster 2.
FatOfShort(c) ==    \* mutant: the last entry of the tables is not cleared
  LET Table == [i \in 0..FatEntries(BpbOf(c)) - 2 |->
                  IF i < 2 THEN Word - 2 ELSE IF i = 2 THEN EOC ELSE 0]
  IN [t \in 1..2 |-> Table]
FatOf(c) ==
  LET Table == [i \in 0..FatEntries(BpbOf(c)) - 1 |->
                  IF i < 2 THEN Word - 2 ELSE IF i = 2 THEN EOC ELSE 0]
  IN [t \in 1..2 |-> Table]

Stale == <<NoFile, 0>>    \* contents no call of this history has written
DataOf(c) == [i \in 3..MaxCluster(BpbOf(c)) - 1 |-> Stale]

\* The tools call createFAT32 first, once, whatever the disk holds.
Format(c) ==
  /\ pc = "off"
  /\ Valid(c) /\ NumClusterOnDisk(c) > 2
  /\ bpb' = BpbOf(c) /\ bpb6' = BpbOf(c)
  /\ info' = InfoOf(c) /\ info7' = InfoOf(c)
  /\ fat' = FatOf(c) /\ root' = <<>> /\ data' = DataOf(c)
  /\ stored' = {} /\ halfway' = 0
  /\ pc' = "idle" /\ rc' = Returned("create", NoFile, 0)
  /\ UNCHANGED op

\* The configuration is refused; both callers ignore the result and go on.
Reject(c) ==
  /\ pc = "off"
  /\ ~ Valid(c)
  /\ pc' = "idle" /\ rc' = Returned("create", NoFile, 1)
  /\ UNCHANGED <<disk, op>>

\* assert(numClusterOnDisk > 2), before anything is written.
FormatDies(c) ==
  /\ pc = "off"
  /\ Valid(c) /\ NumClusterOnDisk(c) <= 2
  /\ pc' = "abort"
  /\ UNCHANGED <<disk, op, rc>>

----------------------------------------------------------------------------
(* FAT32Copyin(buf, fd, name, attr).                                       *)

FstatFails ==
  /\ pc = "idle"
  /\ rc' = Returned("copyin", NoFile, 0)
  /\ UNCHANGED <<disk, pc, op>>

\* A BPB of zeros makes FAT32SuperInit divide by zero; assert(maxCluster >=
\* nextFree) refuses a volume that is too small.
SuperSound == bpb.numSectorPerCluster > 0 /\ MaxCluster(bpb) >= info.nextFree

RefusedBySize(size) ==    \* mutant: a full root directory is not noticed
  MaxFileSize(bpb, info.nextFree) < size
RefusedByRoot(size) ==    \* mutant: the size is not checked
  Len(root) = NumRootEntry(bpb)
Refused(size) == \/ MaxFileSize(bpb, info.nextFree) < size
                 \/ Len(root) = NumRootEntry(bpb)

SuperDies ==
  /\ pc = "idle"
  /\ ~ SuperSound
  /\ pc' = "abort"
  /\ UNCHANGED <<disk, op, rc>>

\* EDQUOT: the file does not fit, or the root directory is full.
Refuse(f) ==
  /\ pc = "idle"
  /\ SuperSound /\ Refused(U32(StSize[f]))
  /\ op' = [NoOp EXCEPT !.file = f] /\ pc' = "sync"
  /\ UNCHANGED <<disk, rc>>

\* The extent is the AllocCluster clusters from nextFree on.  memset and read
\* write at the address FAT32SuperGetSector returns: if the offset wraps, that
\* is inside another part of the volume and nothing is known of it any more.
AllocCluster(size) == CDIV(size, BytesPerCluster(bpb))

Begin(f) ==
  LET size == U32(StSize[f])
      sector == ClusterSector(bpb, info.nextFree)
  IN /\ pc = "idle"
     /\ SuperSound /\ ~ Refused(size)
     /\ info.nextFree > 2              \* asserted; see AssertsHold
     /\ op' = [file |-> f, size |-> size, n |-> AllocCluster(size), i |-> 1,
               next |-> info.nextFree, free |-> info.freeCount, ret |-> sector]
     /\ pc' = IF AllocCluster(size) = 0 \/ SectorAddressable(bpb, sector)
              THEN "copy" ELSE "wild"
     /\ UNCHANGED <<disk, rc>>

\* memset clears the extent, then read fills its first j clusters.
Filled(j) == [c \in DOMAIN data |->
                IF c \in op.next..op.next + op.n - 1
                THEN IF c < op.next + j THEN <<op.file, c - op.next>> ELSE Stale
                ELSE data[c]]

Copy ==
  /\ pc = "copy"
  /\ data' = Filled(op.n) /\ pc' = "dirent"
  /\ UNCHANGED <<bpb, bpb6, info, info7, fat, root, stored, halfway, op, rc>>

\* lseek fails, or read delivers less than fobjSize bytes.
CopyFails ==
  /\ pc = "copy"
  /\ \E j \in 0..op.n : data' = Filled(j)
  /\ op' = [op EXCEPT !.ret = 0] /\ pc' = "sync"
  /\ UNCHANGED <<bpb, bpb6, info, info7, fat, root, stored, halfway, rc>>

DirentRounded ==    \* mutant: the entry holds the allocated size
  /\ pc = "dirent"
  /\ root' = Append(root, EntryOf(op.file, op.next, op.n * BytesPerCluster(bpb)))
  /\ pc' = "link"
  /\ UNCHANGED <<bpb, bpb6, info, info7, fat, data, stored, halfway, op, rc>>

Dirent ==
  /\ pc = "dirent"
  /\ root' = Append(root, EntryOf(op.file, op.next, op.size))
  /\ pc' = "link"
  /\ UNCHANGED <<bpb, bpb6, info, info7, fat, data, stored, halfway, op, rc>>

\* The loop over the extent, then the end-of-chain entry after it: the latter
\* is written for an empty file too.
LinkValueLate ==    \* mutant: the loop runs once too often
  IF op.i <= op.n THEN op.next + 1 ELSE EOC
LinkValue == IF op.i < op.n THEN op.next + 1 ELSE EOC

\* The store in the first table, then the one in its backup.
Link ==
  /\ pc = "link"
  /\ op.next < MaxCluster(bpb)
  /\ fat' = WriteEntry(fat, 1, op.next, LinkValue)
  /\ pc' = "link2"
  /\ UNCHANGED <<bpb, bpb6, info, info7, root, data, stored, halfway, op, rc>>

LinkBackupSkipped ==    \* mutant: the backup table is not written
  /\ pc = "link2"
  /\ op' = [op EXCEPT !.next = @ + 1, !.i = @ + 1]
  /\ pc' = IF op.i < op.n THEN "link" ELSE "info"
  /\ UNCHANGED <<disk, rc>>

LinkBackup ==
  /\ pc = "link2"
  /\ fat' = WriteEntry(fat, 2, op.next, LinkValue)
  /\ op' = [op EXCEPT !.next = @ + 1, !.i = @ + 1]
  /\ pc' = IF op.i < op.n THEN "link" ELSE "info"
  /\ UNCHANGED <<bpb, bpb6, info, info7, root, data, stored, halfway, rc>>

\* assert(cluster < sb->maxCluster && "write out of bound")
LinkDies ==
  /\ pc = "link"
  /\ op.next >= MaxCluster(bpb)
  /\ pc' = "abort"
  /\ UNCHANGED <<disk, op, rc>>

\* assert(freeCount >= allocCluster)
InfoDies ==
  /\ pc = "info"
  /\ op.free < op.n
  /\ pc' = "abort"
  /\ UNCHANGED <<disk, op, rc>>

\* The FSInfo update: freeCount first, then nextFree.
FsInfoCount ==
  /\ pc = "info"
  /\ op.free >= op.n
  /\ info' = [info EXCEPT !.freeCount = op.free - op.n]
  /\ pc' = "info2"
  /\ UNCHANGED <<bpb, bpb6, info7, fat, root, data, stored, halfway, op, rc>>

FsInfoNextEarly ==    \* mutant: nextFree is the last cluster of the file
  /\ pc = "info2"
  /\ info' = [info EXCEPT !.nextFree = op.next - 1]
  /\ stored' = stored \cup {Len(root)}
  /\ pc' = "sync"
  /\ UNCHANGED <<bpb, bpb6, info7, fat, root, data, halfway, op, rc>>

FsInfoNext ==
  /\ pc = "info2"
  /\ info' = [info EXCEPT !.nextFree = op.next]
  /\ stored' = stored \cup {Len(root)}
  /\ pc' = "sync"
  /\ UNCHANGED <<bpb, bpb6, info7, fat, root, data, halfway, op, rc>>

SyncBpbOnly ==    \* mutant: FSInfo is not copied to sector 7
  /\ pc = "sync"
  /\ bpb6' = bpb
  /\ pc' = "idle" /\ rc' = Returned("copyin", op.file, op.ret) /\ op' = NoOp
  /\ UNCHANGED <<bpb, info, info7, fat, root, data, stored, halfway>>

\* FAT32SuperFree, then the return.  No copy changes the BPB, so a death between
\* its two memcpy calls leaves what a death before them does.
Sync ==
  /\ pc = "sync"
  /\ bpb6' = bpb /\ info7' = info
  /\ pc' = "idle" /\ rc' = Returned("copyin", op.file, op.ret) /\ op' = NoOp
  /\ UNCHANGED <<bpb, info, fat, root, data, stored, halfway>>

\* The process exits, aborts or is killed; the disk keeps what it has.
ProcessEnds ==
  /\ pc \notin {"off", "wild"}
  /\ pc' = "off" /\ op' = NoOp /\ rc' = Returned("none", NoFile, 0)
  /\ halfway' = IF pc = "info2" /\ halfway < 2 THEN halfway + 1 ELSE halfway
  /\ UNCHANGED <<bpb, bpb6, info, info7, fat, root, data, stored>>

----------------------------------------------------------------------------
\* A disk of zeros.
ZeroBpb == [numSectors32 |-> 0, bytesPerSector |-> 0, numSectorPerCluster |-> 0,
            numReservedSectors |-> 0, numAllocTable |-> 0, fatSize32 |-> 0]
ZeroInfo == [freeCount |-> 0, nextFree |-> 0]

Init ==
  /\ bpb = ZeroBpb /\ bpb6 = ZeroBpb /\ info = ZeroInfo /\ info7 = ZeroInfo
  /\ fat = [t \in 1..2 |-> [c \in 0..-1 |-> 0]] /\ root = <<>>
  /\ data = [c \in 3..-1 |-> Stale] /\ stored = {} /\ halfway = 0
  /\ pc = "off" /\ op = NoOp /\ rc = Returned("none", NoFile, 0)

Next ==
  \/ \E c \in Configs : Format(c) \/ Reject(c) \/ FormatDies(c)
  \/ FstatFails \/ SuperDies
  \/ \E f \in Files : Refuse(f) \/ Begin(f)
  \/ Copy \/ CopyFails \/ Dirent \/ Link \/ LinkBackup \/ LinkDies
  \/ InfoDies \/ FsInfoCount \/ FsInfoNext \/ Sync \/ ProcessEnds

Spec == Init /\ [][Next]_vars
----------------------------------------------------------------------------
(* Properties.                                                             *)

Bpbs == [numSectors32 : Nat, bytesPerSector : Nat, numSectorPerCluster : Nat,
         numReservedSectors : Nat, numAllocTable : Nat, fatSize32 : Nat]

InfoType == [freeCount : 0..Word - 1, nextFree : 0..Word - 1]
EntryType == [file : Files, high : 0..Half - 1, low : 0..Half - 1,
              fileSize : 0..Word - 1]
OpType == [file : Files \cup {NoFile}, size : 0..Word - 1, n : Nat, i : Nat,
           next : 0..Word - 1, free : 0..Word - 1, ret : Nat]
RcType == [call : {"none", "create", "copyin"}, file : Files \cup {NoFile},
           value : Nat]

\* Every store of createFAT32 and FAT32Copyin keeps the structures of fat.c in
\* their types: the tables have one 32-bit entry per FAT slot.
TypeOK ==
  /\ bpb \in Bpbs /\ bpb6 \in Bpbs
  /\ info \in InfoType /\ info7 \in InfoType
  /\ fat \in [1..2 -> [0..FatEntries(bpb) - 1 -> 0..Word - 1]]
  /\ root \in Seq(EntryType) /\ stored \subseteq 1..Len(root) /\ halfway \in 0..2
  /\ pc \in {"off", "idle", "copy", "dirent", "link", "link2", "info", "info2",
             "sync", "abort", "wild"}
  /\ op \in OpType /\ rc \in RcType

Clusters(b, size) == (size + BytesPerCluster(b) - 1) \div BytesPerCluster(b)

\* The first cluster after the extent; an empty file owns one cluster.
ExtentEnd(b, e) ==
  FirstCluster(e) + (IF e.fileSize = 0 THEN 1 ELSE Clusters(b, e.fileSize))

\* A file is intact if both tables chain its extent in order, up to an
\* end-of-chain entry, and its clusters hold its own contents in order.
IntactIn(b, tables, d, e) ==
  /\ 3 <= FirstCluster(e) /\ ExtentEnd(b, e) <= MaxCluster(b)
  /\ \A t \in 1..2, c \in FirstCluster(e)..ExtentEnd(b, e) - 1 :
       tables[t][c] = IF c + 1 < ExtentEnd(b, e) THEN c + 1 ELSE EOC
  /\ e.fileSize > 0 =>
       \A c \in FirstCluster(e)..ExtentEnd(b, e) - 1 :
         d[c] = <<e.file, c - FirstCluster(e)>>
Intact(e) == IntactIn(bpb, fat, data, e)

\* fat.h promises a file "allocated in a continuous block".  Every file whose
\* copy completed the FSInfo update stays intact, whatever later copies succeed,
\* fail, abort or are killed half way, and no two such files share a cluster.
FilesIntact ==
  /\ \A s \in stored : Intact(root[s])
  /\ \A s, t \in stored : s < t => ExtentEnd(bpb, root[s]) <= FirstCluster(root[t])

\* FAT32Copyin allocates from nextFree without reading the table: that is
\* sound because no stored file reaches nextFree, even after a crash.
NextFreeUnused == \A s \in stored : ExtentEnd(bpb, root[s]) <= info.nextFree

\* FAT32SuperFree and the return value: when FAT32Copyin returns a sector, the
\* last root entry is a stored file starting at that sector, and the backup
\* BPB and FSInfo sectors (6 and 7) match the primary ones.
ReturnNamesFile ==
  pc = "idle" /\ rc.call = "copyin" /\ rc.value > 0 =>
    /\ Len(root) \in stored
    /\ root[Len(root)].file = rc.file
    /\ rc.value = ClusterSector(bpb, FirstCluster(root[Len(root)]))
    /\ bpb6 = bpb /\ info7 = info

\* The 32-byte entries of the root directory stay inside its cluster, which the
\* first file's data follows: a full directory is refused, not extended, and
\* the chain FAT32SuperInit follows from the root cluster stays one cluster.
RootFits == /\ Len(root) <= NumRootEntry(bpb)
            /\ bpb # ZeroBpb => fat[1][2] = EOC

\* FAT32SuperWriteEntry stores in one table after the other, and a process may
\* die between the two stores: the tables then differ, but only in clusters from
\* nextFree on, which no stored file owns and the next copy links again.
TablesAgree ==
  \A c \in DOMAIN fat[1] : fat[1][c] # fat[2][c] => c >= info.nextFree

\* The assertion nextFree > 2u of FAT32Copyin holds whenever it is reached.  The
\* assertion freeCount >= allocCluster does not: a process that dies between
\* the two stores of the FSInfo update has lowered freeCount and not moved
\* nextFree.  One such death since the format never makes it fail, because
\* createFAT32 counts the entries of both tables as free; two can.
AssertsHold ==
  /\ pc = "idle" /\ SuperSound => info.nextFree > 2
  /\ pc = "info" /\ op.free < op.n => halfway = 2

\* What aborts a tool: a disk never formatted, a volume too small to hold a
\* file, an empty file copied to a volume with no cluster left, or a freeCount
\* that two deaths inside the FSInfo update have made too low.
AbortsExplained ==
  pc = "abort" => \/ bpb = ZeroBpb
                  \/ MaxCluster(bpb) < 3
                  \/ op.n = 0 /\ op.next = MaxCluster(bpb)
                  \/ op.free < op.n /\ halfway = 2
                  \/ rc.call = "none"    \* in createFAT32, of a small volume

\* While volumes are no larger than the 32-bit offsets can address, file data
\* is never written through a wrapped FAT32SuperGetSector offset.
NeverWild == pc # "wild"
VolumesFit == \A c \in Configs : c.nSector * c.bytesPerSector <= Word

\* Reading a stored file: follow the first table from its first cluster.
Reading(e) ==
  LET Chain[k \in Nat] == IF k = 0 THEN FirstCluster(e) ELSE fat[1][Chain[k - 1]]
  IN [file |-> e.file, size |-> e.fileSize, first |-> FirstCluster(e),
      contents |-> [k \in 0..Clusters(bpb, e.fileSize) - 1 |-> data[Chain[k]]]]

\* FAT32Copyin is atomic at the store of nextFree: seen through the table, the
\* stored files change only as the abstract volume of Volume.tla allows.
Abstract == INSTANCE Volume WITH unit <- BytesPerCluster(bpb),
                                 store <- {Reading(root[s]) : s \in stored}
ImplementsVolume == Abstract!Spec
============================================================================
