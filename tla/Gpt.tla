-------------------------------- MODULE Gpt --------------------------------
(***************************************************************************)
(* GPTGenerate of gpt/gpt.c: lay out partitions on a disk and write the    *)
(* protective MBR, the partition entry array and both GPT headers.  The    *)
(* buffer is a mapping of the disk, so the order of the stores shows.      *)
(*                                                                         *)
(* Disk addresses are block numbers (LBA).  The entry array is a map from  *)
(* slots of 128 bytes to their contents, four to a block, counted from the *)
(* start of block 2 and running on past the array, because the code clears *)
(* memory there.  A CRC is taken to determine what it was computed from.   *)
(***************************************************************************)
EXTENDS GptLayout

CONSTANTS Disks,      \* values of config->volume, in blocks
          Layouts,    \* values of config->partitions: sequences of volumes
          UINT32_MAX  \* the largest size a partition record can hold

ASSUME GptAssumption == /\ Disks \subseteq Nat /\ Layouts \subseteq Seq(Nat)
                        /\ UINT32_MAX \in Nat

VARIABLES
  nBlock, volume,     \* config->volume, and each partition's volume
  pc, ret, start, remains,
  startLBA,           \* cp->startLBA of the partitions allocated so far
  i,                  \* index of the entry loop
  mbr,                \* sizeInLBA of the protective MBR
  slots,              \* 128-byte slots from block 2 on
  primary, backup     \* the headers at blocks 1 and nBlock - 1

vars == <<nBlock, volume, pc, ret, start, remains, startLBA, i, mbr, slots,
          primary, backup>>
config == <<nBlock, volume>>

NArray == NSectorForArray(Len(volume))

SizeInLBA == IF nBlock >= UINT32_MAX THEN UINT32_MAX ELSE nBlock - 1

TooSmall == nBlock < 4 + NArray \/ NArray = 0

\* Slot contents.
Old == [kind |-> "old", startLBA |-> 0, endLBA |-> 0]      \* before the call
Zero == [kind |-> "zero", startLBA |-> 0, endLBA |-> 0]
Entry(s, v) == [kind |-> "entry", startLBA |-> s, endLBA |-> s + v - 1]

Crc(x) == <<"crc", x>>
NoHeader == [thisLBA |-> 0, alternateLBA |-> 0, firstUsableLBA |-> 0,
             lastUsableLBA |-> 0, numEntries |-> 0, crcArray |-> Crc(<<>>),
             crc |-> Crc(<<>>)]

----------------------------------------------------------------------------
Init ==
  /\ nBlock \in Disks /\ volume \in Layouts
  /\ pc = "call" /\ ret = 0 /\ start = 0 /\ remains = 0 /\ startLBA = <<>>
  /\ i = 0 /\ mbr = 0 /\ slots = [s \in 0..2 * EntriesPerSector * NArray - 1 |-> Old]
  /\ primary = NoHeader /\ backup = NoHeader

Refuse ==
  /\ pc = "call" /\ TooSmall
  /\ pc' = "returned"
  /\ UNCHANGED <<config, ret, start, remains, startLBA, i, mbr, slots, primary, backup>>

ProtectOnly ==    \* mutant: partitions start where the entry array is
  /\ pc = "call" /\ ~ TooSmall
  /\ mbr' = SizeInLBA
  /\ start' = 2 /\ remains' = nBlock - 4 - NArray
  /\ pc' = "alloc"
  /\ UNCHANGED <<config, ret, startLBA, i, slots, primary, backup>>

\* createProtectGPT and the start of the allocation.
Protect ==
  /\ pc = "call" /\ ~ TooSmall
  /\ mbr' = SizeInLBA
  /\ start' = 2 + NArray /\ remains' = nBlock - 4 - NArray
  /\ pc' = "alloc"
  /\ UNCHANGED <<config, ret, startLBA, i, slots, primary, backup>>

FitsStrictly ==    \* mutant: a partition that fits exactly is dropped
  ret < Len(volume) /\ volume[ret + 1] < remains
Fits == ret < Len(volume) /\ volume[ret + 1] <= remains

Allocate ==
  /\ pc = "alloc" /\ Fits
  /\ startLBA' = Append(startLBA, start)
  /\ start' = start + volume[ret + 1] /\ remains' = remains - volume[ret + 1]
  /\ ret' = ret + 1
  /\ UNCHANGED <<config, pc, i, mbr, slots, primary, backup>>

\* Every partition is placed, or one does not fit and the rest is dropped.
AllocateEnds ==
  /\ pc = "alloc" /\ ~ Fits
  /\ pc' = "entries"
  /\ UNCHANGED <<config, ret, start, remains, startLBA, i, mbr, slots, primary, backup>>

ClearAll(k) ==    \* mutant: every round clears from the base of the array
  [s \in DOMAIN slots |->
     IF s \in 0..EntriesPerSector * NArray - 1 THEN Zero ELSE slots[s]]

\* memset clears the size of the whole array from entry i on, so it runs past
\* the array's end by i entries; then the entry is filled in.
ClearFrom(k) == [s \in DOMAIN slots |->
                   IF s \in k..k + EntriesPerSector * NArray - 1 THEN Zero ELSE slots[s]]

WriteEntry ==
  /\ pc = "entries" /\ i < ret
  /\ slots' = [ClearFrom(i) EXCEPT ![i] = Entry(startLBA[i + 1], volume[i + 1])]
  /\ i' = i + 1
  /\ UNCHANGED <<config, pc, ret, start, remains, startLBA, mbr, primary, backup>>

\* crc32 over the entries written, then all fields of the primary header.
ArrayNow == [k \in 1..ret |-> slots[k - 1]]

WritePrimary ==
  /\ pc = "entries" /\ i = ret
  /\ primary' = [NoHeader EXCEPT
       !.thisLBA = 1, !.alternateLBA = nBlock - 1, !.firstUsableLBA = start,
       !.lastUsableLBA = nBlock - 2, !.numEntries = ret, !.crcArray = Crc(ArrayNow)]
  /\ backup' = NoHeader
  /\ pc' = "backup"
  /\ UNCHANGED <<config, ret, start, remains, startLBA, i, mbr, slots>>

Mirror(h) == [h EXCEPT !.thisLBA = nBlock - 1, !.alternateLBA = 1]

WriteBackup ==
  /\ pc = "backup"
  /\ backup' = Mirror(primary)
  /\ pc' = "crc"
  /\ UNCHANGED <<config, ret, start, remains, startLBA, i, mbr, slots, primary>>

Sealed(h) == [h EXCEPT !.crc = Crc(h)]

SealOnce ==    \* mutant: the backup gets the primary header's CRC
  /\ pc = "crc"
  /\ primary' = Sealed(primary) /\ backup' = [backup EXCEPT !.crc = Crc(primary)]
  /\ pc' = "returned"
  /\ UNCHANGED <<config, ret, start, remains, startLBA, i, mbr, slots>>

Seal ==
  /\ pc = "crc"
  /\ primary' = Sealed(primary) /\ backup' = Sealed(backup)
  /\ pc' = "returned"
  /\ UNCHANGED <<config, ret, start, remains, startLBA, i, mbr, slots>>

Done == pc = "returned" /\ UNCHANGED vars

Next == \/ Refuse \/ Protect \/ Allocate \/ AllocateEnds \/ WriteEntry
        \/ WritePrimary \/ WriteBackup \/ Seal \/ Done

Spec == Init /\ [][Next]_vars

----------------------------------------------------------------------------
(* Properties.                                                             *)

\* The allocation loop: partitions lie one after another, after the entry array
\* (blocks 2 to 1 + NArray) and before the reserved block and backup header (the
\* last two), whatever subset of the requested partitions fits; the protective
\* record of the MBR covers them unless its 32-bit size is too small.
PartitionsFit ==
  /\ \A k \in 1..ret : /\ 2 + NArray <= startLBA[k]
                       /\ startLBA[k] + volume[k] <= nBlock - 2
                       /\ startLBA[k] + volume[k] <= mbr + 1 \/ mbr = UINT32_MAX
  /\ \A j, k \in 1..ret : j < k => startLBA[j] + volume[j] <= startLBA[k]

\* The allocation loop stops at the first partition that does not fit: it places
\* the longest prefix of the request that fits, each partition right after the
\* one before it, as GptLayout says.
PlacesPrefix ==
  pc \notin {"call", "alloc"} =>
    /\ ret = Placed(nBlock, volume)
    /\ \A k \in 1..ret : startLBA[k] = StartOf(volume, k)

\* The entry loop clears memory in every round: entries written before are not
\* cleared again, the array ends up with exactly the allocated partitions, and
\* what is cleared behind it is an entry less than the partitions written.
EntriesKept ==
  /\ \A k \in 1..i : slots[k - 1] = Entry(startLBA[k], volume[k])
  /\ i > 0 => \A s \in i..EntriesPerSector * NArray - 1 : slots[s] = Zero
  /\ \A s \in DOMAIN slots :
       s >= EntriesPerSector * NArray + (IF i = 0 THEN 0 ELSE i - 1) => slots[s] = Old

\* Both headers are consistent when the function returns: each CRC is that of
\* the header with a zero CRC field, the array CRC is that of the array on disk,
\* and the two headers name each other.
HeadersConsistent ==
  pc = "returned" /\ ~ TooSmall =>
    /\ \A h \in {primary, backup} :
         /\ h.crc = Crc([h EXCEPT !.crc = NoHeader.crc])
         /\ h.crcArray = Crc([k \in 1..h.numEntries |-> slots[k - 1]])
    /\ primary.thisLBA = backup.alternateLBA /\ backup.thisLBA = primary.alternateLBA
    /\ primary.numEntries = backup.numEntries
=============================================================================
