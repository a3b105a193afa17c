----------------------------- MODULE Installer -----------------------------
(***************************************************************************)
(* The two tools that build a bootable disk: gpt/installer.c, driven by    *)
(* options, and gpt/mkgpt.c, with a fixed layout.  Both partition the disk *)
(* (GptLayout), format the first partition (FatGeometry), copy four files  *)
(* into it and write the boot code.  Fat32 and Gpt model these calls step  *)
(* by step; here each is one step, with what those modules show it does.   *)
(*                                                                         *)
(* Numbers are the real ones: a sector has 512 bytes, a cluster eight      *)
(* sectors.  NULL is -2; -1 stands for a path that cannot be opened, or a  *)
(* negative number after -s.                                               *)
(***************************************************************************)
EXTENDS GptLayout, FatGeometry, FiniteSets

CONSTANTS
  CommandLines,   \* argv of the installer: sequences of [opt, val]
  Inputs          \* sizes of the files that have fixed names: [FileNames -> Int]

NULL == -2
NoFile == -1
Order == <<"loader", "kernel", "busybox", "init">>
Copied == {Order[k] : k \in 1..4}
FileNames == Copied \cup {"mbr"}
Options == {"-k", "-d", "-s", "-busybox"}

ASSUME InstallerAssumption ==
  /\ Inputs \subseteq [FileNames -> Int]
  /\ CommandLines \subseteq Seq([opt : STRING, val : Int])

VARIABLES
  tool,     \* "installer" or "mkgpt"
  pc, why,  \* why: what a failed exit printed
  args,     \* options not parsed yet
  opts,     \* path_bzimage, dst, boot_size, path_busybox
  file,     \* size of each file to install
  sectors,  \* disk_size / GPT_SECTOR_SIZE
  parts,    \* volumes of the two partitions
  fat,      \* [bpb, next, entries]: parameters, nextFree, used root entries
  copying,  \* the file copied next, in Order
  at,       \* what FAT32Copyin returned for each file, 0 for none
  mbr       \* bytes of boot code written

vars == <<tool, pc, why, args, opts, file, sectors, parts, fat, copying, at, mbr>>

ZeroBpb == [numSectors32 |-> 0, bytesPerSector |-> 0, numSectorPerCluster |-> 0,
            numReservedSectors |-> 0, numAllocTable |-> 0, fatSize32 |-> 0]
Blank == [bpb |-> ZeroBpb, next |-> 0, entries |-> 0]

Init ==
  /\ file \in Inputs
  /\ \/ tool = "installer" /\ pc = "args" /\ args \in CommandLines
     \/ tool = "mkgpt" /\ pc = "open" /\ args = <<>>
  /\ opts = [o \in Options |-> IF o = "-s" THEN 64 ELSE NULL]
  /\ why = "none" /\ sectors = 0 /\ parts = <<>> /\ fat = Blank
  /\ copying = 1 /\ at = [f \in Copied |-> 0] /\ mbr = 0

Fail(reason) == pc' = "exit1" /\ why' = reason

----------------------------------------------------------------------------
(* installer.c: options                                                    *)

Help ==
  /\ pc = "args" /\ args # <<>> /\ Head(args).opt = "-h"
  /\ pc' = "help"
  /\ UNCHANGED <<tool, why, args, opts, file, sectors, parts, fat, copying, at, mbr>>

\* An option that is none of the known ones: i is never advanced.
Spin ==
  /\ pc = "args" /\ args # <<>> /\ Head(args).opt \notin Options \cup {"-h"}
  /\ UNCHANGED vars

RestStuck ==    \* mutant: no i += 2 after -k
  IF Head(args).opt = "-k" THEN args ELSE Tail(args)
Rest == Tail(args)

\* atoi(NULL) crashes; a path is NULL when its option comes last.
ParseOption ==
  /\ pc = "args" /\ args # <<>> /\ Head(args).opt \in Options
  /\ LET a == Head(args) IN
       IF a = [opt |-> "-s", val |-> NULL]
         THEN pc' = "abort" /\ UNCHANGED <<args, opts>>
         ELSE /\ opts' = [opts EXCEPT ![a.opt] = a.val] /\ args' = Rest
              /\ UNCHANGED pc
  /\ UNCHANGED <<tool, why, file, sectors, parts, fat, copying, at, mbr>>

CheckOptions ==
  /\ pc = "args" /\ args = <<>>
  /\ IF \E o \in Options \ {"-s"} : opts[o] = NULL
       THEN Fail("usage") ELSE pc' = "open" /\ UNCHANGED why
  /\ file' = [file EXCEPT !["kernel"] = opts["-k"], !["busybox"] = opts["-busybox"]]
  /\ UNCHANGED <<tool, args, opts, sectors, parts, fat, copying, at, mbr>>

----------------------------------------------------------------------------
(* Both tools: the disk, its partitions and its file system                *)

DiskBytes == IF tool = "mkgpt" THEN 268435456 ELSE opts["-d"]

\* open, fdsize and mmap (which refuses a length of zero); whole pages only.
OpenDisk ==
  /\ pc = "open"
  /\ IF DiskBytes < 4096
       THEN Fail("disk") /\ UNCHANGED sectors
       ELSE sectors' = 8 * (DiskBytes \div 4096) /\ pc' = "layout" /\ UNCHANGED why
  /\ UNCHANGED <<tool, args, opts, file, parts, fat, copying, at, mbr>>

OpenFails ==
  /\ pc = "open"
  /\ Fail("disk")
  /\ UNCHANGED <<tool, args, opts, file, sectors, parts, fat, copying, at, mbr>>

BootVolume == IF tool = "mkgpt" THEN 262140 ELSE 2048 * opts["-s"]
BootTooLarge == tool = "installer" /\ (opts["-s"] < 0 \/ BootVolume + 64 > sectors)
VolumesWithoutArray ==    \* mutant: the block of the entry array is forgotten
  <<BootVolume, sectors - 4 - BootVolume>>
Volumes == <<BootVolume, sectors - 5 - BootVolume>>

\* mkpart: GPTGenerate must place both partitions.
MkPart ==
  /\ pc = "layout"
  /\ IF BootTooLarge THEN Fail("boot partition too large") /\ UNCHANGED parts
     ELSE IF Placed(sectors, Volumes) # 2 THEN Fail("gpt") /\ UNCHANGED parts
     ELSE parts' = Volumes /\ pc' = "format" /\ UNCHANGED why
  /\ UNCHANGED <<tool, args, opts, file, sectors, fat, copying, at, mbr>>

FatConfig == [nSector |-> parts[1], bytesPerSector |-> 512, clusterSize |-> 8]

\* createFAT32, whose result is not looked at.  A refused configuration leaves the
\* sector as GPTGenerate did, which has just cleared its first 128 bytes.
CreateFat ==
  /\ pc = "format"
  /\ fat' = IF Valid(FatConfig)
              THEN [bpb |-> BpbOf(FatConfig), next |-> 3, entries |-> 0] ELSE Blank
  /\ pc' = "copy"
  /\ UNCHANGED <<tool, why, args, opts, file, sectors, parts, copying, at, mbr>>

----------------------------------------------------------------------------
(* Both tools: copying a file in                                           *)

Name == Order[copying]
Opens == file[Name] >= 0

\* uint32_t fobjSize = st.st_size: of a file of 2^32 bytes or more only so many bytes
\* are stored.
Stored(f) == U32(file[f])
Size == Stored(Name)
Clusters(size) == CDIV(size, BytesPerCluster(fat.bpb))

\* FAT32SuperInit divides by the cluster size of a volume that was not formatted.
SuperDies ==
  /\ pc = "copy" /\ Opens /\ fat.bpb = ZeroBpb
  /\ pc' = "abort"
  /\ UNCHANGED <<tool, why, args, opts, file, sectors, parts, fat, copying, at, mbr>>

\* An empty file passes the size check on a full volume, but its table entry does not
\* exist: the assertion of FAT32SuperWriteEntry.
LinkDies ==
  /\ pc = "copy" /\ Opens /\ Size = 0 /\ fat.bpb # ZeroBpb
  /\ fat.next = MaxCluster(fat.bpb) /\ fat.entries < NumRootEntry(fat.bpb)
  /\ pc' = "abort"
  /\ UNCHANGED <<tool, why, args, opts, file, sectors, parts, fat, copying, at, mbr>>

\* After the last file comes the boot code.
Advance == /\ copying' = IF copying = Len(Order) THEN copying ELSE copying + 1
           /\ pc' = IF copying = Len(Order) THEN "mbr" ELSE "copy"

CopyFits ==
  /\ fat.bpb # ZeroBpb /\ fat.entries < NumRootEntry(fat.bpb)
  /\ Size <= MaxFileSize(fat.bpb, fat.next)
  /\ Size = 0 => fat.next < MaxCluster(fat.bpb)

\* Success: the file follows the last one; an empty file takes a cluster, too.
Copyin ==
  /\ pc = "copy" /\ Opens /\ CopyFits
  /\ at' = [at EXCEPT ![Name] = ClusterSector(fat.bpb, fat.next)]
  /\ fat' = [fat EXCEPT !.next = @ + (IF Size = 0 THEN 1 ELSE Clusters(Size)),
                        !.entries = @ + 1]
  /\ Advance
  /\ UNCHANGED <<tool, why, args, opts, file, sectors, parts, mbr>>

CopyFailsQuietly ==    \* mutant: the installer goes on like mkgpt
  /\ pc = "copy"
  /\ ~Opens \/ fat.bpb # ZeroBpb
  /\ Advance /\ UNCHANGED why
  /\ UNCHANGED <<tool, args, opts, file, sectors, parts, fat, at, mbr>>

\* The file cannot be opened or read, or does not fit: FAT32Copyin returns 0.  The
\* installer gives up; mkgpt prints 0 as the file's sector and goes on.
CopyFails ==
  /\ pc = "copy"
  /\ ~Opens \/ fat.bpb # ZeroBpb
  /\ IF tool = "installer" THEN Fail("copyin") /\ UNCHANGED copying
                           ELSE Advance /\ UNCHANGED why
  /\ UNCHANGED <<tool, args, opts, file, sectors, parts, fat, at, mbr>>

----------------------------------------------------------------------------
(* Both tools: the boot code and the end                                   *)

MbrCode(size) == IF size > 440 THEN 440 ELSE size

\* mkgpt does not notice a missing mbr.img.
WriteMbr ==
  /\ pc = "mbr"
  /\ IF file["mbr"] >= 0 THEN mbr' = MbrCode(file["mbr"]) ELSE UNCHANGED mbr
  /\ IF file["mbr"] < 0 /\ tool = "installer" THEN Fail("read mbr.img")
     ELSE pc' = (IF tool = "mkgpt" THEN "write" ELSE "exit0") /\ UNCHANGED why
  /\ UNCHANGED <<tool, args, opts, file, sectors, parts, fat, copying, at>>

\* mkgpt writes its buffer to a.img.
WriteImage ==
  /\ pc = "write"
  /\ pc' = "exit0"
  /\ UNCHANGED <<tool, why, args, opts, file, sectors, parts, fat, copying, at, mbr>>

WriteFails ==
  /\ pc = "write"
  /\ Fail("write")
  /\ UNCHANGED <<tool, args, opts, file, sectors, parts, fat, copying, at, mbr>>

Ended == pc \in {"help", "exit0", "exit1", "abort"}
Stopped == Ended /\ UNCHANGED vars

Tool == \/ Help \/ Spin \/ ParseOption \/ CheckOptions \/ OpenDisk \/ OpenFails
        \/ MkPart \/ CreateFat \/ SuperDies \/ LinkDies \/ Copyin \/ CopyFails
        \/ WriteMbr \/ WriteImage \/ WriteFails
Next == Tool \/ Stopped

\* The tools run alone and wait for nobody.
Spec == Init /\ [][Next]_vars /\ WF_vars(Tool)

----------------------------------------------------------------------------
(* Properties.                                                             *)

FirstPartition == StartOf(parts, 1)
FirstSector(f) == FirstPartition + at[f]
LastSector(f) == FirstSector(f) + 8 * (IF Stored(f) = 0 THEN 1 ELSE Clusters(Stored(f))) - 1

\* mkpart, GPTGenerate and createFAT32 agree on the disk.  The five blocks mkpart
\* sets aside are what GPTGenerate needs: once the boot partition is not too large
\* both partitions are placed, and they use up the disk but for the tables in front
\* and the two last blocks.  Every file copied in lies inside the first partition,
\* behind its tables and root directory, and apart from the others.
DiskLaidOut ==
  /\ why # "gpt"
  /\ parts # <<>> => /\ FirstPartition = 3
                     /\ StartOf(parts, 2) + parts[2] = sectors - 2
  /\ \A f \in Copied : at[f] # 0 =>
       /\ FirstSector(f) >= FirstPartition + DataStart(fat.bpb) + 8
       /\ LastSector(f) < FirstPartition + parts[1]
       /\ \A g \in Copied \ {f} : at[g] # 0 =>
            LastSector(f) < FirstSector(g) \/ LastSector(g) < FirstSector(f)

\* An installer that exits with 0 without printing its usage has stored the boot code
\* and all four files, each in room enough for all of it if it is smaller than 2^32
\* bytes (a larger one is cut off without notice): no failed call of copyin or read
\* goes unnoticed.  What the boot code takes never reaches the disk signature behind
\* its 440 bytes.
ExitZeroMeansInstalled ==
  /\ mbr <= 440
  /\ tool = "installer" /\ pc = "exit0" =>
       /\ file["mbr"] >= 0 /\ mbr = MbrCode(file["mbr"])
       /\ \A f \in Copied :
            /\ at[f] # 0 /\ file[f] >= 0
            /\ file[f] < Word => file[f] <= 512 * (LastSector(f) - FirstSector(f) + 1)

KnownOptions == \A k \in DOMAIN args : args[k].opt \in Options \cup {"-h"}

\* Both tools end, the installer if it knows all options: no failure on the way
\* makes them retry or wait.
ToolEnds == (pc = "open" \/ (pc = "args" /\ KnownOptions)) ~> Ended
=============================================================================
