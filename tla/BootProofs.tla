----------------------------- MODULE BootProofs -----------------------------
(***************************************************************************)
(* Proofs about the image tools, the boot chain and getpayload together,   *)
(* for command lines, files and kernels of any size.                       *)
(*                                                                         *)
(* ToolInv says what each tool has done by the time it is at each place;   *)
(* ChainInv adds, for each stage of the boot chain, exactly what has been  *)
(* read into memory.                                                       *)
(***************************************************************************)
EXTENDS Payload, TLAPS

\* The boot partition has at most 2^32 bytes: FAT32SuperGetSector addresses bytes with
\* 32 bits, and Fat32 shows createFAT32 and FAT32Copyin right up to there.
BytesFit(mib) == 1048576 * mib <= Word
DisksFit ==
  /\ BytesFit(128)
  /\ \A a \in CommandLines : \A k \in 1..Len(a) :
       a[k].opt = "-s" => BytesFit(a[k].val)

\* The first element of a sequence and the rest.
LEMMA HeadTail ==
  ASSUME NEW S, NEW s \in Seq(S), s # <<>>
  PROVE  /\ Head(s) \in S /\ Head(s) = s[1] /\ 1 \in 1..Len(s)
         /\ Tail(s) \in Seq(S) /\ Len(Tail(s)) = Len(s) - 1
         /\ \A k \in 1..Len(Tail(s)) : Tail(s)[k] = s[k + 1] /\ k + 1 \in 1..Len(s)
OBVIOUS

----------------------------------------------------------------------------
(* Partitions and clusters.                                                *)

\* The four files.
LEMMA CopiedIs == Copied = {"loader", "kernel", "busybox", "init"}
<1>1. 1..4 = {1, 2, 3, 4}
  OBVIOUS
<1> QED BY <1>1 DEF Copied, Order

\* Where GPTGenerate puts two partitions.
LEMMA TwoPartitions ==
  ASSUME NEW x \in Nat, NEW y \in Nat, NEW v, v = <<x, y>>
  PROVE  /\ Taken(v, 0) = 0 /\ Taken(v, 1) = x /\ Taken(v, 2) = x + y
         /\ StartOf(v, 1) = 3 /\ StartOf(v, 2) = 3 + x
<1> DEFINE Sums(s) == s = [j \in 0..Len(v) |-> IF j = 0 THEN 0 ELSE s[j - 1] + v[j]]
           S == CHOOSE s : Sums(s)
           t == [j \in 0..2 |-> IF j = 0 THEN 0 ELSE IF j = 1 THEN x ELSE x + y]
<1>1. Len(v) = 2 /\ v[1] = x /\ v[2] = y
  OBVIOUS
<1>2. Sums(t)
  <2>1. t = [j \in 0..2 |-> IF j = 0 THEN 0 ELSE t[j - 1] + v[j]]
    <3>1. \A j \in 0..2 : t[j] = IF j = 0 THEN 0 ELSE t[j - 1] + v[j]
      <4> SUFFICES ASSUME NEW j \in 0..2 PROVE t[j] = IF j = 0 THEN 0 ELSE t[j - 1] + v[j]
        OBVIOUS
      <4>1. t[0] = 0 /\ t[1] = x /\ t[2] = x + y
        OBVIOUS
      <4>2. j = 0 \/ j = 1 \/ j = 2
        OBVIOUS
      <4> QED BY <1>1, <4>1, <4>2
    <3> QED BY <3>1
  <2> QED BY <1>1, <2>1
<1>3. Sums(S)
  <2> HIDE DEF t, Sums
  <2> QED BY <1>2
<1>4. \A k : Taken(v, k) = S[k]
  BY DEF Taken
<1> HIDE DEF S
<1>5. S[0] = 0 /\ S[1] = S[0] + x /\ S[2] = S[1] + y
  BY <1>1, <1>3
<1>6. Taken(v, 0) = 0 /\ Taken(v, 1) = x /\ Taken(v, 2) = x + y
  BY <1>4, <1>5
<1>7. FirstBlock(v) = 3
  BY <1>1 DEF FirstBlock, NSectorForArray, EntriesPerSector
<1>8. StartOf(v, 1) = 3 + Taken(v, 0) /\ StartOf(v, 2) = 3 + Taken(v, 1)
  BY <1>7 DEF StartOf
<1> QED BY <1>6, <1>8

\* The five blocks mkpart sets aside are the ones GPTGenerate needs.
LEMMA BothPlaced ==
  ASSUME NEW n \in Nat, NEW x \in Nat, NEW y \in Nat, NEW v, v = <<x, y>>, x + y = n - 5
  PROVE  Placed(n, v) = 2
<1>1. Taken(v, 0) = 0 /\ Taken(v, 1) = x /\ Taken(v, 2) = x + y
  BY TwoPartitions
<1>2. Len(v) = 2 /\ v # <<>>
  OBVIOUS
<1>3. Room(n, v) = n - 5
  BY <1>2 DEF Room, FirstBlock, NSectorForArray, EntriesPerSector
<1>4. ~ Refused(n, v)
  BY <1>2, <1>3 DEF Refused
<1> DEFINE Longest(k) == /\ Taken(v, k) <= Room(n, v)
                         /\ k = Len(v) \/ Taken(v, k + 1) > Room(n, v)
<1>5. Longest(2) /\ 2 \in 0..Len(v)
  BY <1>1, <1>2, <1>3
<1>6. ASSUME NEW k \in 0..Len(v), Longest(k) PROVE k = 2
  <2>1. k = 0 \/ k = 1 \/ k = 2
    BY <1>2
  <2>2. ~ (Taken(v, 1) > Room(n, v)) /\ ~ (Taken(v, 2) > Room(n, v))
    BY <1>1, <1>3
  <2>3. k # 0
    BY <1>2, <1>6, <2>2
  <2>4. k # 1
    BY <1>2, <1>6, <2>2
  <2> QED BY <2>1, <2>3, <2>4
<1>7. Placed(n, v) = CHOOSE k \in 0..Len(v) : Longest(k)
  BY <1>4 DEF Placed
<1> HIDE DEF Longest
<1> QED BY <1>5, <1>6, <1>7

Config(n) == [nSector |-> n, bytesPerSector |-> 512, clusterSize |-> 8]

\* b describes a volume of n sectors whose clusters start at d and end before m.
VolumeShape(b, n, d, m) ==
  /\ b # ZeroBpb /\ BytesPerCluster(b) = 4096 /\ d \in Nat /\ d >= 10
  /\ m \in Nat /\ m >= 4 /\ d + 8 * m <= n
  /\ \A c \in Nat : ClusterSector(b, c) = (c - 2) * 8 + d
  /\ \A c \in Nat : MaxFileSize(b, c) = U32(4096 * (m - c))
  /\ d = 8 + 2 * (((n \div 8) + 127) \div 128)

\* The parameters of a volume of n sectors.
LEMMA Geometry ==
  ASSUME NEW n \in Nat, n >= 2048, 512 * n <= Word, NEW b, b = BpbOf(Config(n)),
         NEW d, d = DataStart(b), NEW m, m = MaxCluster(b)
  PROVE  VolumeShape(b, n, d, m)
<1>1. Word \in Nat
  BY WordAssumption
<1> DEFINE q == n \div 8
           f == (q + 127) \div 128
<1>2. q \in Nat /\ 8 * q <= n /\ q + 127 < Word
  BY <1>1
<1>3. f \in Nat /\ 128 * f <= q + 127
  BY <1>2
<1>4. U32(q + 127) = q + 127
  BY <1>1, <1>2 DEF U32
<1>5. /\ b.numSectors32 = n /\ b.bytesPerSector = 512 /\ b.numSectorPerCluster = 8
      /\ b.numReservedSectors = 8 /\ b.numAllocTable = 2 /\ b.fatSize32 = f
  BY <1>2, <1>4 DEF BpbOf, Config, CDIV, NumClusterOnDisk
<1>6. d = 8 + 2 * f /\ BytesPerCluster(b) = 4096
  BY <1>3, <1>5 DEF DataStart, BytesPerCluster
<1> HIDE DEF f, q
<1>7. n - d \in Nat /\ n - d >= 32 /\ n - d < Word /\ d >= 10
  <2>1. f >= 1
    BY <1>2 DEF f, q
  <2> QED BY <1>1, <1>2, <1>3, <1>6, <2>1
<1>8. U32(n - d) = n - d
  BY <1>1, <1>7 DEF U32
<1>9. m = (n - d) \div 8
  BY <1>5, <1>8 DEF MaxCluster
<1>10. m \in Nat /\ m >= 4 /\ d + 8 * m <= n
  BY <1>7, <1>9, <1>6, <1>3
<1>11. b # ZeroBpb
  BY <1>5 DEF ZeroBpb
<1>12. \A c \in Nat : ClusterSector(b, c) = (c - 2) * 8 + d
  BY <1>5 DEF ClusterSector
<1>13. \A c \in Nat : MaxFileSize(b, c) = U32(4096 * (m - c))
  BY <1>6 DEF MaxFileSize
<1> QED BY <1>3, <1>6, <1>7, <1>10, <1>11, <1>12, <1>13 DEF f, q, VolumeShape

\* The clusters of a file of that size.
UsedBy(size) == IF size = 0 THEN 1 ELSE CDIV(size, 4096)

\* A file that FAT32Copyin accepts ends inside the volume.
LEMMA FileFits ==
  ASSUME NEW m \in Nat, 4096 * m <= Word, NEW c \in Nat, 3 <= c, c <= m, NEW size \in Nat,
         size <= U32(4096 * (m - c)), size = 0 => c < m, NEW u, u = UsedBy(size)
  PROVE  u \in Nat \ {0} /\ c + u <= m /\ size <= 4096 * u
<1>1. Word \in Nat
  BY WordAssumption
<1>2. U32(4096 * (m - c)) = 4096 * (m - c)
  BY <1>1 DEF U32
<1>3. CASE size = 0
  BY <1>3 DEF UsedBy
<1>4. CASE size # 0
  <2>1. size + 4096 - 1 = size + 4095 /\ size + 4095 < Word
    BY <1>1, <1>2
  <2>2. U32(size + 4095) = size + 4095
    BY <1>1, <2>1 DEF U32
  <2>3. u = (size + 4095) \div 4096
    BY <1>4, <2>1, <2>2 DEF UsedBy, CDIV
  <2> QED BY <1>2, <1>4, <2>3
<1> QED BY <1>3, <1>4

----------------------------------------------------------------------------
(* The tools.                                                              *)

MkgptSectors == 524288    \* of an image of 256 MiB

ToolTypes ==
  /\ tool \in {"installer", "mkgpt"}
  /\ pc \in {"args", "open", "layout", "format", "copy", "mbr", "write",
             "help", "exit0", "exit1", "abort"}
  /\ why \in {"none", "usage", "disk", "boot partition too large", "copyin",
              "read mbr.img", "write"}
  /\ args \in Seq([opt : STRING, val : Int])
  /\ opts \in [Options -> Int] /\ file \in [FileNames -> Int] /\ sectors \in Nat
  /\ copying \in 1..4 /\ at \in [Copied -> Nat] /\ mbr \in 0..440
  /\ BytesFit(opts["-s"])
  /\ \A k \in 1..Len(args) : args[k].opt = "-s" => BytesFit(args[k].val)

\* Both partitions, as mkpart computes them, fill the disk.
PartsInv ==
  /\ pc \in {"args", "open", "layout"} => parts = <<>>
  /\ pc \in {"format", "copy", "mbr", "write", "exit0"} => parts # <<>>
  /\ parts # <<>> =>
       \E x, y \in Nat : /\ parts = <<x, y>> /\ x = BootVolume /\ x + y = sectors - 5
  /\ (tool = "mkgpt" /\ pc = "layout") => sectors = MkgptSectors

\* The file system, once there is one.
FatInv ==
  /\ fat = [bpb |-> fat.bpb, next |-> fat.next, entries |-> fat.entries]
  /\ pc \in {"args", "open", "layout", "format"} => fat = Blank /\ copying = 1
  /\ fat.bpb = ZeroBpb => \A f \in Copied : at[f] = 0
  /\ fat.bpb # ZeroBpb =>
       /\ parts # <<>> /\ parts[1] >= 2048 /\ 512 * parts[1] <= Word
       /\ fat.bpb = BpbOf(Config(parts[1]))
       /\ fat.next \in Nat /\ 3 <= fat.next /\ fat.next <= MaxCluster(fat.bpb)

\* What has been copied in, as sectors of the volume.
FilesInv ==
  \A f \in Copied : at[f] # 0 =>
    /\ file[f] >= 0 /\ UsedBy(Stored(f)) \in Nat \ {0} /\ at[f] >= DataStart(fat.bpb) + 8
    /\ Stored(f) <= 4096 * UsedBy(Stored(f))
    /\ at[f] + 8 * UsedBy(Stored(f)) <= ClusterSector(fat.bpb, fat.next)
    /\ \A g \in Copied \ {f} : at[g] # 0 =>
         at[f] + 8 * UsedBy(Stored(f)) <= at[g] \/ at[g] + 8 * UsedBy(Stored(g)) <= at[f]

\* The loader comes first and the kernel behind it.
OrderInv ==
  /\ copying = 1 => /\ \A f \in Copied : at[f] = 0
                    /\ fat.bpb # ZeroBpb => fat.next = 3
  /\ copying = 2 => /\ at["kernel"] = 0
                    /\ at["loader"] # 0 => fat.next = 3 + UsedBy(Stored("loader"))
  /\ at["loader"] # 0 => at["loader"] = ClusterSector(fat.bpb, 3)
  /\ at["loader"] # 0 /\ at["kernel"] # 0 =>
       at["kernel"] = ClusterSector(fat.bpb, 3 + UsedBy(Stored("loader")))

\* The installer goes on only after a success.
DoneInv ==
  /\ (tool = "installer" /\ pc = "copy") =>
       \A k \in 1..4 : k < copying => at[Order[k]] # 0
  /\ (tool = "installer" /\ pc \in {"mbr", "exit0"}) => \A f \in Copied : at[f] # 0
  /\ (tool = "installer" /\ pc = "exit0") => file["mbr"] >= 0
  /\ pc \in {"write", "exit0"} => (file["mbr"] >= 0 => mbr = MbrCode(file["mbr"]))
  /\ pc = "write" => tool = "mkgpt"

ToolInv == ToolTypes /\ PartsInv /\ FatInv /\ FilesInv /\ OrderInv /\ DoneInv

\* The numbers behind the options.
LEMMA OptionTypes ==
  ASSUME ToolTypes
  PROVE  opts["-s"] \in Int /\ opts["-d"] \in Int /\ opts["-k"] \in Int
         /\ opts["-busybox"] \in Int
<1>1. opts \in [{"-k", "-d", "-s", "-busybox"} -> Int]
  BY DEF ToolTypes, Options
<1> QED BY <1>1

\* The tools begin with nothing done.
LEMMA ToolInit == DisksFit /\ Init => ToolInv
<1> SUFFICES ASSUME DisksFit, Init PROVE ToolInv
  OBVIOUS
<1>1. /\ file \in [FileNames -> Int] /\ parts = <<>> /\ fat = Blank /\ copying = 1 /\ mbr = 0
      /\ at = [f \in Copied |-> 0] /\ sectors = 0 /\ why = "none"
      /\ opts = [o \in Options |-> IF o = "-s" THEN 64 ELSE NULL]
      /\ tool \in {"installer", "mkgpt"} /\ pc \in {"args", "open"}
      /\ (tool = "mkgpt" => pc = "open")
  BY InstallerAssumption DEF Init
<1>2. /\ args \in Seq([opt : STRING, val : Int])
      /\ \A k \in 1..Len(args) : args[k].opt = "-s" => BytesFit(args[k].val)
  <2>1. CASE args \in CommandLines
    BY <2>1, InstallerAssumption DEF DisksFit
  <2>2. CASE args = <<>>
    BY <2>2
  <2> QED BY <2>1, <2>2 DEF Init
<1>3. opts \in [Options -> Int] /\ opts["-s"] = 64
  BY <1>1 DEF Options, NULL
<1>4. ToolTypes
  <2>1. BytesFit(opts["-s"])
    BY <1>3, WordAssumption, SMT DEF DisksFit, BytesFit
  <2>2. at \in [Copied -> Nat]
    BY <1>1
  <2> QED BY <1>1, <1>2, <1>3, <2>1, <2>2 DEF ToolTypes
<1>5. PartsInv
  BY <1>1 DEF PartsInv
<1>6. FatInv
  BY <1>1 DEF FatInv, Blank
<1>7. FilesInv /\ OrderInv
  <2>1. \A f \in Copied : at[f] = 0
    BY <1>1
  <2>2. at["loader"] = 0 /\ at["kernel"] = 0
    BY <2>1, CopiedIs
  <2> QED BY <1>1, <2>1, <2>2 DEF FilesInv, OrderInv, Blank
<1>8. DoneInv
  BY <1>1 DEF DoneInv
<1> QED BY <1>4, <1>5, <1>6, <1>7, <1>8 DEF ToolInv

\* A step that only ends the run, or goes on without touching the disk.
DiskKept == UNCHANGED <<tool, args, opts, file, sectors, parts, fat, copying, at, mbr>>
Ends ==
  \/ pc' = pc /\ why' = why
  \/ pc' \in {"help", "exit1", "abort"}
     /\ why' \in {why, "usage", "disk", "boot partition too large", "copyin",
                  "read mbr.img", "write"}
  \/ pc = "write" /\ pc' = "exit0" /\ why' = why

\* A step that writes nothing to the disk and may only end the tool keeps ToolInv.
LEMMA NothingWritten ==
  ASSUME ToolInv, DiskKept, Ends
  PROVE  ToolInv'
<1>1. ToolTypes /\ PartsInv /\ FatInv /\ FilesInv /\ OrderInv /\ DoneInv
  BY DEF ToolInv
<1>2. /\ tool' = tool /\ args' = args /\ opts' = opts /\ file' = file /\ sectors' = sectors
      /\ parts' = parts /\ fat' = fat /\ copying' = copying /\ at' = at /\ mbr' = mbr
  BY DEF DiskKept
<1>3. BootVolume' = BootVolume
  BY <1>2 DEF BootVolume
<1>4. pc' = pc \/ pc' \in {"help", "exit1", "abort"} \/ (pc = "write" /\ pc' = "exit0")
  BY DEF Ends
<1>5. ToolTypes'
  <2>1. why' \in {"none", "usage", "disk", "boot partition too large", "copyin",
                  "read mbr.img", "write"}
    BY <1>1, ZenonT(60) DEF ToolTypes, Ends
  <2> QED BY <1>1, <1>2, <1>4, <2>1 DEF ToolTypes
<1>6. PartsInv'
  BY <1>1, <1>2, <1>3, <1>4 DEF PartsInv
<1>7. FatInv'
  BY <1>1, <1>2, <1>4 DEF FatInv
<1>8. FilesInv' /\ OrderInv'
  BY <1>1, <1>2 DEF FilesInv, OrderInv, Stored
<1>9. DoneInv'
  BY <1>1, <1>2, <1>4 DEF DoneInv
<1> QED BY <1>5, <1>6, <1>7, <1>8, <1>9 DEF ToolInv

\* Reading the options.
LEMMA OptionsKeep ==
  ASSUME ToolInv, ParseOption \/ CheckOptions
  PROVE  ToolInv'
<1>1. ToolTypes /\ PartsInv /\ FatInv /\ FilesInv /\ OrderInv /\ DoneInv
  BY DEF ToolInv
<1>2. /\ pc = "args" /\ UNCHANGED <<tool, sectors, parts, fat, copying, at, mbr>>
      /\ pc' \in {"args", "abort", "exit1", "open"} /\ why' \in {why, "usage"}
  BY DEF ParseOption, CheckOptions, Fail
<1>3. parts = <<>> /\ fat = Blank /\ \A f \in Copied : at[f] = 0
  BY <1>1, <1>2 DEF PartsInv, FatInv, Blank
<1>4. /\ args' \in Seq([opt : STRING, val : Int]) /\ opts' \in [Options -> Int]
      /\ file' \in [FileNames -> Int] /\ BytesFit(opts'["-s"])
      /\ \A k \in 1..Len(args') : args'[k].opt = "-s" => BytesFit(args'[k].val)
  <2>1. CASE ParseOption
    <3> DEFINE a == Head(args)
               r == Tail(args)
    <3>1. /\ args # <<>> /\ a.opt \in Options /\ file' = file
          /\ \/ args' = args /\ opts' = opts
             \/ args' = r /\ opts' = [opts EXCEPT ![a.opt] = a.val]
      BY <2>1 DEF ParseOption, Rest
    <3>2. /\ args \in Seq([opt : STRING, val : Int]) /\ opts \in [Options -> Int]
          /\ \A k \in 1..Len(args) : args[k].opt = "-s" => BytesFit(args[k].val)
          /\ BytesFit(opts["-s"]) /\ file \in [FileNames -> Int] /\ "-s" \in Options
      BY <1>1 DEF ToolTypes, Options
    <3>3. /\ a \in [opt : STRING, val : Int] /\ a = args[1] /\ 1 \in 1..Len(args)
          /\ r \in Seq([opt : STRING, val : Int]) /\ Len(r) = Len(args) - 1
          /\ \A k \in 1..Len(r) : r[k] = args[k + 1] /\ k + 1 \in 1..Len(args)
      BY <3>1, <3>2, HeadTail
    <3> HIDE DEF a, r
    <3>4. a.val \in Int /\ (a.opt = "-s" => BytesFit(a.val))
      BY <3>2, <3>3
    <3>5. CASE args' = args /\ opts' = opts
      BY <3>1, <3>2, <3>5
    <3>6. CASE args' = r /\ opts' = [opts EXCEPT ![a.opt] = a.val]
      <4>1. opts' \in [Options -> Int] /\ BytesFit(opts'["-s"])
        BY <3>1, <3>2, <3>4, <3>6
      <4>2. \A k \in 1..Len(r) : r[k].opt = "-s" => BytesFit(r[k].val)
        BY <3>2, <3>3
      <4> QED BY <3>1, <3>2, <3>3, <3>6, <4>1, <4>2
    <3> QED BY <3>1, <3>5, <3>6
  <2>2. CASE CheckOptions
    <3>1. /\ UNCHANGED <<args, opts>>
          /\ file' = [file EXCEPT !["kernel"] = opts["-k"], !["busybox"] = opts["-busybox"]]
      BY <2>2 DEF CheckOptions
    <3>2. opts["-k"] \in Int /\ opts["-busybox"] \in Int /\ file \in [FileNames -> Int]
      BY <1>1 DEF ToolTypes, Options
    <3>3. file' \in [FileNames -> Int]
      BY <3>1, <3>2
    <3> QED BY <1>1, <3>1, <3>3 DEF ToolTypes
  <2> QED BY <2>1, <2>2
<1>5. ToolTypes'
  BY <1>1, <1>2, <1>4 DEF ToolTypes
<1>6. PartsInv'
  BY <1>2, <1>3 DEF PartsInv
<1>7. FatInv'
  BY <1>1, <1>2, <1>3 DEF FatInv, Blank
<1>8. FilesInv' /\ OrderInv'
  <2>1. at["loader"] = 0 /\ at["kernel"] = 0
    BY <1>3, CopiedIs
  <2> QED BY <1>2, <1>3, <2>1 DEF FilesInv, OrderInv, Blank
<1>9. DoneInv'
  BY <1>2 DEF DoneInv
<1> QED BY <1>5, <1>6, <1>7, <1>8, <1>9 DEF ToolInv

\* Opening the disk.
LEMMA OpenKeeps ==
  ASSUME ToolInv, OpenDisk
  PROVE  ToolInv'
<1>1. ToolTypes /\ PartsInv /\ FatInv /\ FilesInv /\ OrderInv /\ DoneInv
  BY DEF ToolInv
<1>2. CASE DiskBytes < 4096
  <2>1. DiskKept /\ Ends
    BY <1>2 DEF OpenDisk, Fail, DiskKept, Ends
  <2> QED BY <2>1, NothingWritten
<1>3. CASE ~ (DiskBytes < 4096)
  <2>1. /\ pc = "open" /\ pc' = "layout" /\ sectors' = 8 * (DiskBytes \div 4096) /\ why' = why
        /\ UNCHANGED <<tool, args, opts, file, parts, fat, copying, at, mbr>>
    BY <1>3 DEF OpenDisk
  <2>2. DiskBytes \in Int /\ (tool = "mkgpt" => DiskBytes = 268435456)
    <3>1. opts["-d"] \in Int
      BY <1>1, OptionTypes
    <3> QED BY <3>1, SMT DEF DiskBytes
  <2>3. sectors' \in Nat /\ (tool = "mkgpt" => sectors' = MkgptSectors)
    <3> DEFINE d == DiskBytes
    <3>1. d \in Int /\ d >= 4096 /\ sectors' = 8 * (d \div 4096)
      BY <1>3, <2>1, <2>2, SMT
    <3>2. d = 268435456 => 8 * (d \div 4096) = MkgptSectors
      BY SMT DEF MkgptSectors
    <3> HIDE DEF d
    <3>3. 8 * (d \div 4096) \in Nat
      BY <3>1, SMT
    <3> QED BY <2>2, <3>1, <3>2, <3>3, SMT DEF d
  <2>4. /\ pc = "open" /\ pc' = "layout" /\ why' = why
        /\ UNCHANGED <<tool, args, opts, file, parts, fat, copying, at, mbr>>
    BY <2>1
  <2>5. ToolTypes'
    BY <1>1, <2>3, <2>4 DEF ToolTypes
  <2>6. PartsInv' /\ FatInv'
    BY <1>1, <2>3, <2>4 DEF PartsInv, FatInv
  <2>7. FilesInv' /\ OrderInv' /\ DoneInv'
    BY <1>1, <2>4 DEF FilesInv, OrderInv, DoneInv, Stored
  <2> QED BY <2>5, <2>6, <2>7 DEF ToolInv
<1> QED BY <1>2, <1>3

\* mkpart: GPTGenerate places both partitions whenever the boot partition fits.
LEMMA MkPartKeeps ==
  ASSUME ToolInv, MkPart
  PROVE  ToolInv'
<1>1. ToolTypes /\ PartsInv /\ FatInv /\ FilesInv /\ OrderInv /\ DoneInv
  BY DEF ToolInv
<1>2. CASE BootTooLarge
  <2>1. DiskKept /\ Ends
    BY <1>2 DEF MkPart, Fail, DiskKept, Ends
  <2> QED BY <2>1, NothingWritten
<1>3. CASE ~ BootTooLarge
  <2> DEFINE x == BootVolume
             y == sectors - 5 - BootVolume
  <2>1. pc = "layout" /\ sectors \in Nat /\ (tool = "mkgpt" => sectors = MkgptSectors)
    BY <1>1 DEF MkPart, ToolTypes, PartsInv
  <2>2. x \in Nat /\ y \in Nat /\ x + y = sectors - 5
    <3>1. opts["-s"] \in Int /\ tool \in {"installer", "mkgpt"}
      BY <1>1, OptionTypes DEF ToolTypes
    <3>2. CASE tool = "mkgpt"
      BY <2>1, <3>2, SMT DEF BootVolume, MkgptSectors
    <3>3. CASE tool = "installer"
      BY <1>3, <2>1, <3>1, <3>3, SMT DEF BootTooLarge, BootVolume
    <3> QED BY <3>1, <3>2, <3>3
  <2>3. Volumes = <<x, y>>
    BY DEF Volumes
  <2> HIDE DEF x, y
  <2>4. Placed(sectors, Volumes) = 2
    BY <2>1, <2>2, <2>3, BothPlaced
  <2>5. /\ parts' = <<x, y>> /\ pc' = "format" /\ why' = why
        /\ UNCHANGED <<tool, args, opts, file, sectors, fat, copying, at, mbr>>
    BY <1>3, <2>3, <2>4 DEF MkPart
  <2>6. ToolTypes'
    BY <1>1, <2>5 DEF ToolTypes
  <2>7. PartsInv'
    <3>1. BootVolume' = x
      BY <2>5 DEF BootVolume, x
    <3> QED BY <2>1, <2>2, <2>5, <3>1 DEF PartsInv
  <2>8. FatInv'
    BY <1>1, <2>1, <2>5 DEF FatInv, Blank
  <2>9. FilesInv' /\ OrderInv' /\ DoneInv'
    BY <1>1, <2>1, <2>5 DEF FilesInv, OrderInv, DoneInv, Stored
  <2> QED BY <2>6, <2>7, <2>8, <2>9 DEF ToolInv
<1> QED BY <1>2, <1>3

\* The size of the boot partition, whichever tool made it.
LEMMA BootVolumeIs ==
  ASSUME DisksFit, ToolTypes, BootVolume >= 16
  PROVE  BootVolume \in Nat /\ BootVolume >= 2048 /\ 512 * BootVolume <= Word
<1>1. Word \in Nat
  BY WordAssumption
<1>2. CASE tool = "mkgpt"
  <2>1. BootVolume = 262140 /\ 1048576 * 128 <= Word
    BY <1>2, SMT DEF BootVolume, DisksFit, BytesFit
  <2> QED BY <1>1, <2>1, SMT
<1>3. CASE tool = "installer"
  <2> DEFINE s == opts["-s"]
  <2>1. s \in Int /\ BytesFit(s)
    BY OptionTypes DEF ToolTypes
  <2>2. BootVolume = 2048 * s
    BY <1>3 DEF BootVolume
  <2> HIDE DEF s
  <2>3. 1048576 * s <= Word /\ s >= 1
    BY <2>1, <2>2, SMT DEF BytesFit
  <2> QED BY <1>1, <2>1, <2>2, <2>3, SMT
<1> QED BY <1>2, <1>3 DEF ToolTypes

\* createFAT32: a volume it refuses stays blank.
LEMMA CreateFatKeeps ==
  ASSUME DisksFit, ToolInv, CreateFat
  PROVE  ToolInv'
<1>1. ToolTypes /\ PartsInv /\ FatInv /\ FilesInv /\ OrderInv /\ DoneInv
  BY DEF ToolInv
<1>2. /\ pc = "format" /\ pc' = "copy"
      /\ fat' = (IF Valid(FatConfig)
                   THEN [bpb |-> BpbOf(FatConfig), next |-> 3, entries |-> 0] ELSE Blank)
      /\ UNCHANGED <<tool, why, args, opts, file, sectors, parts, copying, at, mbr>>
  BY DEF CreateFat
<1>3. parts # <<>> /\ copying = 1 /\ \A f \in Copied : at[f] = 0
  BY <1>1, <1>2 DEF PartsInv, FatInv, OrderInv
<1>4. PICK x \in Nat, y \in Nat : parts = <<x, y>> /\ x = BootVolume /\ x + y = sectors - 5
  BY <1>1, <1>3 DEF PartsInv
<1>5. parts[1] = x /\ FatConfig = Config(x)
  BY <1>4 DEF FatConfig, Config
<1>6. ToolTypes'
  BY <1>1, <1>2 DEF ToolTypes
<1>7. PartsInv'
  BY <1>1, <1>2 DEF PartsInv, BootVolume
<1>8. at["loader"] = 0 /\ at["kernel"] = 0
  BY <1>3, CopiedIs
<1>9. DoneInv'
  <2>1. \A k \in 1..4 : ~ (k < 1)
    OBVIOUS
  <2> QED BY <1>2, <1>3, <2>1 DEF DoneInv
<1>10. CASE Valid(FatConfig)
  <2> DEFINE b == BpbOf(Config(x))
  <2>1. x >= 2048 /\ 512 * x <= Word
    <3>1. x >= 16
      BY <1>5, <1>10 DEF Valid, Config
    <3> QED BY <1>1, <1>4, <3>1, BootVolumeIs
  <2>2. b # ZeroBpb /\ 3 <= MaxCluster(b)
    <3> DEFINE d == DataStart(b)
               m == MaxCluster(b)
    <3>1. VolumeShape(b, x, d, m)
      BY <2>1, Geometry
    <3> HIDE DEF b, d, m
    <3>2. b # ZeroBpb /\ 3 <= m
      BY <3>1 DEF VolumeShape
    <3> QED BY <3>2 DEF m
  <2>3. fat' = [bpb |-> b, next |-> 3, entries |-> 0]
    BY <1>2, <1>5, <1>10
  <2> HIDE DEF b
  <2>4. fat'.bpb = b /\ fat'.next = 3
    BY <2>3
  <2>5. FatInv'
    <3>1. parts' = parts /\ pc' = "copy"
      BY <1>2
    <3>2. fat'.bpb = BpbOf(Config(parts'[1]))
      BY <1>5, <2>4, <3>1 DEF b
    <3> QED BY <1>3, <1>5, <2>1, <2>2, <2>3, <2>4, <3>1, <3>2 DEF FatInv
  <2>6. FilesInv' /\ OrderInv'
    BY <1>2, <1>3, <1>8, <2>4 DEF FilesInv, OrderInv
  <2> QED BY <1>6, <1>7, <1>9, <2>5, <2>6 DEF ToolInv
<1>11. CASE ~ Valid(FatConfig)
  <2>1. fat' = Blank
    BY <1>2, <1>11
  <2>2. FatInv'
    BY <1>2, <1>3, <2>1 DEF FatInv, Blank
  <2>3. FilesInv' /\ OrderInv'
    BY <1>2, <1>3, <1>8, <2>1 DEF FilesInv, OrderInv, Blank
  <2> QED BY <1>6, <1>7, <1>9, <2>2, <2>3 DEF ToolInv
<1> QED BY <1>10, <1>11

\* The names in their order.
LEMMA OrderIs ==
  /\ Order[1] = "loader" /\ Order[2] = "kernel" /\ Order[3] = "busybox" /\ Order[4] = "init"
  /\ Len(Order) = 4 /\ \A k \in 1..4 : Order[k] \in Copied
  /\ \A f \in Copied : \E k \in 1..4 : f = Order[k]
<1>1. /\ Order[1] = "loader" /\ Order[2] = "kernel" /\ Order[3] = "busybox" /\ Order[4] = "init"
      /\ Len(Order) = 4
  BY DEF Order
<1>2. (\A k \in 1..4 : Order[k] \in Copied) /\ \A f \in Copied : \E k \in 1..4 : f = Order[k]
  BY DEF Copied
<1> QED BY <1>1, <1>2

\* FAT32Copyin: the new file lies behind the others and inside the volume.
LEMMA CopyinKeeps ==
  ASSUME ToolInv, Copyin
  PROVE  ToolInv'
<1>1. ToolTypes /\ PartsInv /\ FatInv /\ FilesInv /\ OrderInv /\ DoneInv
  BY DEF ToolInv
<1> DEFINE b == fat.bpb
           n == parts[1]
           d == DataStart(b)
           m == MaxCluster(b)
           c == fat.next
           N == Name
           z == Stored(N)
           u == UsedBy(z)
           S == (c - 2) * 8 + d
           u1 == IF z = 0 THEN 1 ELSE Clusters(z)
<1>2. /\ pc = "copy" /\ file[N] >= 0 /\ b # ZeroBpb /\ z <= MaxFileSize(b, c)
      /\ (z = 0 => c < m) /\ Advance
      /\ at' = [at EXCEPT ![N] = ClusterSector(b, c)]
      /\ fat' = [fat EXCEPT !.next = @ + u1, !.entries = @ + 1]
      /\ UNCHANGED <<tool, why, args, opts, file, sectors, parts, mbr>>
  BY DEF Copyin, CopyFits, Size, Opens
<1>3. /\ n >= 2048 /\ 512 * n <= Word /\ b = BpbOf(Config(n)) /\ c \in Nat /\ 3 <= c /\ c <= m
      /\ parts # <<>> /\ fat = [bpb |-> fat.bpb, next |-> fat.next, entries |-> fat.entries]
  BY <1>1, <1>2 DEF FatInv
<1>4. n \in Nat
  <2>1. PICK x \in Nat, y \in Nat : parts = <<x, y>>
    BY <1>1, <1>3 DEF PartsInv
  <2> QED BY <2>1
<1>5. N \in Copied /\ N \in FileNames /\ z \in Nat
  <2>1. N \in Copied
    BY <1>1, OrderIs DEF Name, ToolTypes
  <2>2. file[N] \in Int
    BY <1>1, <2>1 DEF ToolTypes, FileNames
  <2>3. z \in Nat
    BY <2>2, WordAssumption DEF Stored, U32
  <2> QED BY <2>1, <2>3 DEF FileNames
<1> HIDE DEF n, b
<1>6. /\ BytesPerCluster(b) = 4096 /\ d \in Nat /\ d >= 10 /\ m \in Nat /\ d + 8 * m <= n
      /\ \A k \in Nat : ClusterSector(b, k) = (k - 2) * 8 + d
      /\ \A k \in Nat : MaxFileSize(b, k) = U32(4096 * (m - k))
  <2>1. n >= 2048 /\ 512 * n <= Word /\ b = BpbOf(Config(n))
    BY <1>3
  <2>2. VolumeShape(b, n, d, m)
    BY <1>4, <2>1, Geometry
  <2> HIDE DEF d, m
  <2> QED BY <2>2 DEF VolumeShape
<1> HIDE DEF d, m, N
<1>7. u1 = u
  BY <1>6 DEF UsedBy, Clusters, b
<1> HIDE DEF c, z, u1
<1>8. u \in Nat \ {0} /\ c + u <= m /\ z <= 4096 * u
  <2>1. 4096 * m <= Word
    <3>1. Word \in Nat
      BY WordAssumption
    <3>2. 512 * n <= Word
      BY <1>3
    <3>3. d + 8 * m <= n /\ d \in Nat /\ m \in Nat
      BY <1>6
    <3> QED BY <1>4, <3>1, <3>2, <3>3
  <2>2. z <= U32(4096 * (m - c))
    <3>1. MaxFileSize(b, c) = U32(4096 * (m - c))
      BY <1>3, <1>6
    <3> QED BY <1>2, <3>1
  <2>3. c \in Nat /\ 3 <= c /\ c <= m /\ z \in Nat /\ m \in Nat /\ (z = 0 => c < m)
    BY <1>2, <1>3, <1>5, <1>6
  <2> QED BY <2>1, <2>2, <2>3, FileFits
<1> HIDE DEF u
<1>9. ClusterSector(b, c) = S /\ ClusterSector(b, c + u) = S + 8 * u /\ S \in Nat
      /\ S >= d + 8 /\ S # 0
  <2>1. c + u \in Nat
    BY <1>3, <1>8
  <2>2. ClusterSector(b, c + u) = ((c + u) - 2) * 8 + d /\ ClusterSector(b, c) = S
    <3>1. c \in Nat
      BY <1>3
    <3> DEFINE k == c + u
    <3>2. k \in Nat
      BY <2>1
    <3> HIDE DEF k
    <3>3. ClusterSector(b, k) = (k - 2) * 8 + d /\ ClusterSector(b, c) = S
      BY <1>6, <3>1, <3>2
    <3> QED BY <3>3 DEF k
  <2>3. c \in Nat /\ 3 <= c /\ d \in Nat /\ u \in Nat
    BY <1>3, <1>6, <1>8
  <2> QED BY <2>2, <2>3
<1> HIDE DEF S
<1>10. /\ fat'.bpb = b /\ fat'.next = c + u
       /\ fat' = [bpb |-> fat'.bpb, next |-> fat'.next, entries |-> fat'.entries]
  <2> DEFINE e == fat.entries
  <2>1. fat = [bpb |-> b, next |-> c, entries |-> e]
    BY <1>3 DEF b, c
  <2>2. fat' = [fat EXCEPT !.next = @ + u, !.entries = @ + 1]
    BY <1>2, <1>7
  <2> HIDE DEF e
  <2>3. fat' = [bpb |-> b, next |-> c + u, entries |-> e + 1]
    BY <2>1, <2>2
  <2> QED BY <2>3
<1>11. /\ at' \in [Copied -> Nat] /\ at'[N] = S
       /\ \A f \in Copied : f # N => at'[f] = at[f]
       /\ at \in [Copied -> Nat]
  <2>1. at \in [Copied -> Nat] /\ at' = [at EXCEPT ![N] = S]
    BY <1>1, <1>2, <1>9 DEF ToolTypes
  <2> QED BY <1>5, <1>9, <2>1
<1>12. /\ copying \in 1..4 /\ copying' \in 1..4 /\ pc' \in {"copy", "mbr"}
       /\ copying' = (IF copying = 4 THEN 4 ELSE copying + 1)
       /\ pc' = (IF copying = 4 THEN "mbr" ELSE "copy")
  <2>1. copying \in 1..4
    BY <1>1 DEF ToolTypes
  <2>2. /\ copying' = (IF copying = 4 THEN 4 ELSE copying + 1)
        /\ pc' = (IF copying = 4 THEN "mbr" ELSE "copy")
    BY <1>2, OrderIs DEF Advance
  <2> QED BY <2>1, <2>2
<1>13. /\ tool' = tool /\ why' = why /\ args' = args /\ opts' = opts /\ file' = file
       /\ sectors' = sectors /\ parts' = parts /\ mbr' = mbr
  BY <1>2
<1>14. ToolTypes'
  BY <1>1, <1>11, <1>12, <1>13 DEF ToolTypes
<1>15. PartsInv'
  BY <1>1, <1>2, <1>12, <1>13 DEF PartsInv, BootVolume
<1>16. FatInv'
  <2>1. fat'.bpb # ZeroBpb /\ fat'.bpb = BpbOf(Config(parts'[1])) /\ parts' # <<>>
        /\ parts'[1] >= 2048 /\ 512 * parts'[1] <= Word
    BY <1>2, <1>3, <1>10, <1>13 DEF n
  <2>2. fat'.next \in Nat /\ 3 <= fat'.next /\ fat'.next <= MaxCluster(fat'.bpb)
    BY <1>3, <1>8, <1>10 DEF m
  <2> QED BY <1>10, <1>12, <2>1, <2>2 DEF FatInv
<1>17. FilesInv'
  <2>1. ASSUME NEW f \in Copied, f # N, at[f] # 0
        PROVE  /\ file[f] >= 0 /\ UsedBy(Stored(f)) \in Nat \ {0} /\ at[f] >= d + 8
               /\ Stored(f) <= 4096 * UsedBy(Stored(f))
               /\ at[f] + 8 * UsedBy(Stored(f)) <= S
               /\ \A g \in Copied \ {f} : at[g] # 0 =>
                    at[f] + 8 * UsedBy(Stored(f)) <= at[g] \/ at[g] + 8 * UsedBy(Stored(g)) <= at[f]
    BY <1>1, <1>9, <2>1 DEF FilesInv, b, c, d
  <2> SUFFICES ASSUME NEW f \in Copied, at'[f] # 0
               PROVE  /\ file[f] >= 0 /\ UsedBy(Stored(f)) \in Nat \ {0} /\ at'[f] >= d + 8
                      /\ Stored(f) <= 4096 * UsedBy(Stored(f))
                      /\ at'[f] + 8 * UsedBy(Stored(f)) <= S + 8 * u
                      /\ \A g \in Copied \ {f} : at'[g] # 0 =>
                           \/ at'[f] + 8 * UsedBy(Stored(f)) <= at'[g]
                           \/ at'[g] + 8 * UsedBy(Stored(g)) <= at'[f]
    BY <1>9, <1>10, <1>13 DEF FilesInv, Stored, d
  <2>2. UsedBy(Stored(N)) = u /\ Stored(N) <= 4096 * u /\ file[N] >= 0
    BY <1>2, <1>8 DEF u, z
  <2>3. CASE f = N
    BY <1>8, <1>9, <1>11, <2>1, <2>2, <2>3
  <2>4. CASE f # N
    <3>1. at'[f] = at[f] /\ at[f] \in Nat
      BY <1>11, <2>4
    <3>2. at[f] + 8 * UsedBy(Stored(f)) <= S /\ UsedBy(Stored(f)) \in Nat
      BY <2>1, <2>4, <3>1
    <3>3. at[f] + 8 * UsedBy(Stored(f)) <= S + 8 * u
      BY <1>8, <1>9, <3>1, <3>2
    <3> QED BY <1>11, <2>1, <2>4, <3>1, <3>2, <3>3
  <2> QED BY <2>3, <2>4
<1>18. OrderInv'
  <2>1. \A f \in Copied : f # N => at'[f] = at[f]
    BY <1>11
  <2>2. CASE copying = 1
    <3>1. N = "loader" /\ "kernel" \in Copied /\ "kernel" # N
      BY <2>2, OrderIs, CopiedIs DEF N, Name
    <3>2. c = 3 /\ at["kernel"] = 0
      BY <1>1, <1>2, <2>2, <3>1 DEF OrderInv, b, c
    <3>3. at'["kernel"] = 0 /\ at'["loader"] = ClusterSector(b, 3) /\ copying' = 2
      BY <1>9, <1>11, <1>12, <2>2, <3>1, <3>2
    <3>4. u = UsedBy(Stored("loader"))
      BY <3>1 DEF u, z
    <3> QED BY <1>10, <1>13, <3>2, <3>3, <3>4 DEF OrderInv, Stored
  <2>3. CASE copying = 2
    <3>1. N = "kernel" /\ "loader" \in Copied /\ "loader" # N
      BY <2>3, OrderIs, CopiedIs DEF N, Name
    <3>2. at'["loader"] = at["loader"] /\ at'["kernel"] = ClusterSector(b, c) /\ copying' = 3
      BY <1>9, <1>11, <1>12, <2>3, <3>1
    <3>3. /\ at["loader"] # 0 => c = 3 + UsedBy(Stored("loader"))
          /\ at["loader"] # 0 => at["loader"] = ClusterSector(b, 3)
      BY <1>1, <2>3 DEF OrderInv, b, c
    <3> QED BY <1>10, <1>13, <3>2, <3>3 DEF OrderInv, Stored
  <2>4. CASE copying \in {3, 4}
    <3>1. N \in {"busybox", "init"} /\ "loader" \in Copied /\ "kernel" \in Copied
      BY <2>4, OrderIs, CopiedIs DEF N, Name
    <3>2. at'["loader"] = at["loader"] /\ at'["kernel"] = at["kernel"] /\ copying' = 4
      BY <1>11, <1>12, <2>4, <3>1
    <3> QED BY <1>1, <1>10, <1>13, <3>2 DEF OrderInv, Stored, b
  <2> QED BY <1>12, <2>2, <2>3, <2>4
<1>19. DoneInv'
  <2>1. ASSUME NEW k \in 1..4, tool = "installer", k <= copying PROVE at'[Order[k]] # 0
    <3>1. CASE k = copying
      BY <1>9, <1>11, <3>1 DEF N, Name
    <3>2. CASE k < copying
      <4>1. at[Order[k]] # 0 /\ Order[k] \in Copied
        BY <1>1, <1>2, <2>1, <3>2, OrderIs DEF DoneInv
      <4> QED BY <1>9, <1>11, <4>1
    <3> QED BY <1>12, <2>1, <3>1, <3>2
  <2>2. tool = "installer" /\ pc' = "copy" => \A k \in 1..4 : k < copying' => at'[Order[k]] # 0
    <3>1. \A k \in 1..4 : pc' = "copy" /\ k < copying' => k <= copying
      BY <1>12
    <3> QED BY <2>1, <3>1
  <2>3. tool = "installer" /\ pc' = "mbr" => \A f \in Copied : at'[f] # 0
    <3>1. pc' = "mbr" => \A k \in 1..4 : k <= copying
      BY <1>12
    <3> QED BY <2>1, <3>1, OrderIs
  <2> QED BY <1>12, <1>13, <2>2, <2>3 DEF DoneInv
<1> QED BY <1>14, <1>15, <1>16, <1>17, <1>18, <1>19 DEF ToolInv

\* A file that could not be copied leaves the volume alone; mkgpt goes on to the next.
LEMMA CopyFailsKeeps ==
  ASSUME ToolInv, CopyFails
  PROVE  ToolInv'
<1>1. ToolTypes /\ PartsInv /\ FatInv /\ FilesInv /\ OrderInv /\ DoneInv
  BY DEF ToolInv
<1>2. CASE tool = "installer"
  <2>1. DiskKept /\ Ends
    BY <1>2 DEF CopyFails, Fail, DiskKept, Ends
  <2> QED BY <2>1, NothingWritten
<1>3. CASE tool = "mkgpt"
  <2>1. /\ pc = "copy" /\ why' = why /\ Advance
        /\ UNCHANGED <<tool, args, opts, file, sectors, parts, fat, at, mbr>>
    BY <1>3 DEF CopyFails
  <2>2. /\ copying \in 1..4
        /\ copying' = (IF copying = 4 THEN 4 ELSE copying + 1)
        /\ pc' = (IF copying = 4 THEN "mbr" ELSE "copy")
    BY <1>1, <2>1, OrderIs DEF Advance, ToolTypes
  <2>3. copying' \in 1..4 /\ copying' # 1 /\ (copying' = 2 => copying = 1)
        /\ pc' \in {"copy", "mbr"}
    BY <2>2
  <2>4. /\ tool' = tool /\ args' = args /\ opts' = opts /\ file' = file /\ sectors' = sectors
        /\ parts' = parts /\ fat' = fat /\ at' = at /\ mbr' = mbr /\ why' = why
    BY <2>1
  <2>5. ToolTypes'
    BY <1>1, <2>3, <2>4 DEF ToolTypes
  <2>6. PartsInv'
    <3>1. BootVolume' = BootVolume
      BY <2>4, SMT DEF BootVolume
    <3> QED BY <1>1, <2>1, <2>3, <2>4, <3>1 DEF PartsInv
  <2>7. FatInv'
    BY <1>1, <2>3, <2>4 DEF FatInv
  <2>8. FilesInv'
    BY <1>1, <2>4 DEF FilesInv, Stored
  <2>9. OrderInv'
    <3>1. copying = 1 => at["loader"] = 0 /\ at["kernel"] = 0
      BY <1>1, CopiedIs DEF OrderInv
    <3> QED BY <1>1, <2>3, <2>4, <3>1 DEF OrderInv, Stored
  <2>10. DoneInv'
    BY <1>3, <2>3, <2>4 DEF DoneInv
  <2> QED BY <2>5, <2>6, <2>7, <2>8, <2>9, <2>10 DEF ToolInv
<1> QED BY <1>1, <1>2, <1>3 DEF ToolTypes

\* The boot code comes last.
LEMMA WriteMbrKeeps ==
  ASSUME ToolInv, WriteMbr
  PROVE  ToolInv'
<1>1. ToolTypes /\ PartsInv /\ FatInv /\ FilesInv /\ OrderInv /\ DoneInv
  BY DEF ToolInv
<1>2. /\ pc = "mbr"
      /\ tool' = tool /\ args' = args /\ opts' = opts /\ file' = file /\ sectors' = sectors
      /\ parts' = parts /\ fat' = fat /\ at' = at /\ copying' = copying
  BY DEF WriteMbr
<1>3. file["mbr"] \in Int /\ tool \in {"installer", "mkgpt"} /\ mbr \in 0..440
  BY <1>1 DEF ToolTypes, FileNames
<1>4. /\ file["mbr"] >= 0 => mbr' = MbrCode(file["mbr"])
      /\ ~ (file["mbr"] >= 0) => mbr' = mbr
  BY DEF WriteMbr
<1>5. mbr' \in 0..440
  BY <1>3, <1>4 DEF MbrCode
<1>6. \/ pc' = "exit1" /\ why' = "read mbr.img"
      \/ pc' = "write" /\ tool = "mkgpt" /\ why' = why
      \/ pc' = "exit0" /\ why' = why /\ (tool = "installer" => file["mbr"] >= 0)
  <2>1. CASE file["mbr"] < 0 /\ tool = "installer"
    BY <2>1 DEF WriteMbr, Fail
  <2>2. CASE ~ (file["mbr"] < 0 /\ tool = "installer")
    <3>1. why' = why /\ pc' = (IF tool = "mkgpt" THEN "write" ELSE "exit0")
      BY <2>2 DEF WriteMbr
    <3>2. tool = "installer" => file["mbr"] >= 0
      BY <1>3, <2>2
    <3> QED BY <3>1, <3>2
  <2> QED BY <2>1, <2>2
<1>7. why' \in {why, "read mbr.img"} /\ pc' \in {"exit0", "exit1", "write"}
  BY <1>6
<1>8. ToolTypes'
  BY <1>1, <1>2, <1>5, <1>7 DEF ToolTypes
<1>9. PartsInv'
  <2>1. BootVolume' = BootVolume
    BY <1>2, SMT DEF BootVolume
  <2> QED BY <1>1, <1>2, <1>7, <2>1 DEF PartsInv
<1>10. FatInv' /\ FilesInv' /\ OrderInv'
  <2>1. FatInv'
    <3>1. fat' = fat /\ parts' = parts /\ at' = at /\ copying' = copying
          /\ pc' \notin {"args", "open", "layout", "format"}
      BY <1>2, <1>7
    <3> QED BY <1>1, <3>1 DEF FatInv
  <2>2. FilesInv'
    BY <1>1, <1>2 DEF FilesInv, Stored
  <2>3. OrderInv'
    BY <1>1, <1>2 DEF OrderInv, Stored
  <2> QED BY <2>1, <2>2, <2>3
<1>11. DoneInv'
  BY <1>1, <1>2, <1>4, <1>6 DEF DoneInv
<1> QED BY <1>8, <1>9, <1>10, <1>11 DEF ToolInv

\* Nothing the tools do breaks ToolInv.
LEMMA ToolStep ==
  ASSUME DisksFit, ToolInv, [Next]_vars
  PROVE  ToolInv'
<1>1. CASE ParseOption \/ CheckOptions
  BY <1>1, OptionsKeep
<1>2. CASE OpenDisk
  BY <1>2, OpenKeeps
<1>3. CASE MkPart
  BY <1>3, MkPartKeeps
<1>4. CASE CreateFat
  BY <1>4, CreateFatKeeps
<1>5. CASE Copyin
  BY <1>5, CopyinKeeps
<1>6. CASE CopyFails
  BY <1>6, CopyFailsKeeps
<1>7. CASE WriteMbr
  BY <1>7, WriteMbrKeeps
<1>8. CASE Help \/ OpenFails \/ SuperDies \/ LinkDies \/ WriteImage \/ WriteFails
  <2>1. DiskKept /\ Ends
    BY <1>8 DEF Help, OpenFails, SuperDies, LinkDies, WriteImage, WriteFails, Fail, DiskKept, Ends
  <2> QED BY <2>1, NothingWritten
<1>9. CASE Spin \/ Stopped \/ UNCHANGED vars
  <2>1. DiskKept /\ Ends
    BY <1>9 DEF Spin, Stopped, vars, DiskKept, Ends
  <2> QED BY <2>1, NothingWritten
<1> QED BY <1>1, <1>2, <1>3, <1>4, <1>5, <1>6, <1>7, <1>8, <1>9 DEF Next, Tool

\* A step of the whole system leaves the tools alone or is one of theirs.
LEMMA PayloadStepIsToolStep ==
  ASSUME [PayloadNext]_pvars
  PROVE  [Next]_vars
BY DEF PayloadNext, BootNext, Booting, GetPayload, pvars, bvars, PowerOn, RunMbr, RunLoader,
   ReadHeader, ReadSetup, ReadKernel, Jump, RunCode16, PayloadOpen, PayloadCheck, PayloadWrite,
   PayloadWriteFails

\* ToolInv holds at every step of the tool, the chain and getpayload.
LEMMA ToolInvariant == ASSUME DisksFit PROVE PayloadSpec => []ToolInv
<1>1. PayloadInit => ToolInv
  BY ToolInit DEF PayloadInit, BootInit
<1>2. ToolInv /\ [PayloadNext]_pvars => ToolInv'
  BY ToolStep, PayloadStepIsToolStep
<1> QED BY <1>1, <1>2, PTL DEF PayloadSpec
----------------------------------------------------------------------------
(* What the tools promise.                                                 *)

\* The shape of the formatted boot partition.
LEMMA VolumeIs ==
  ASSUME ToolInv, fat.bpb # ZeroBpb
  PROVE  VolumeShape(fat.bpb, parts[1], DataStart(fat.bpb), MaxCluster(fat.bpb))
         /\ parts[1] \in Nat
<1>1. /\ parts # <<>> /\ parts[1] >= 2048 /\ 512 * parts[1] <= Word
      /\ fat.bpb = BpbOf(Config(parts[1]))
  BY DEF ToolInv, FatInv
<1>2. parts[1] \in Nat
  BY <1>1 DEF ToolInv, PartsInv
<1> QED BY <1>1, <1>2, Geometry

\* The sectors of a file that was copied in, in clusters.
LEMMA RoomIs ==
  ASSUME ToolInv, NEW f \in Copied, at[f] # 0
  PROVE  LastSector(f) = FirstSector(f) + 8 * UsedBy(Stored(f)) - 1
<1>1. fat.bpb # ZeroBpb
  BY DEF ToolInv, FatInv
<1>2. BytesPerCluster(fat.bpb) = 4096
  BY <1>1, VolumeIs DEF VolumeShape
<1> QED BY <1>2, SMT DEF LastSector, UsedBy, Clusters

\* ToolInv implies the layout.
LEMMA LaidOut ==
  ASSUME ToolInv
  PROVE  DiskLaidOut
<1>1. ToolTypes /\ PartsInv /\ FatInv /\ FilesInv
  BY DEF ToolInv
<1>2. why # "gpt"
  BY <1>1 DEF ToolTypes
<1>3. ASSUME parts # <<>>
      PROVE  FirstPartition = 3 /\ StartOf(parts, 2) + parts[2] = sectors - 2
  <2>1. PICK x \in Nat, y \in Nat : parts = <<x, y>> /\ x + y = sectors - 5
    BY <1>1, <1>3 DEF PartsInv
  <2>2. StartOf(parts, 1) = 3 /\ StartOf(parts, 2) = 3 + x
    BY <2>1, TwoPartitions
  <2>3. parts[2] = y /\ sectors \in Nat
    BY <1>1, <2>1 DEF ToolTypes
  <2> QED BY <2>1, <2>2, <2>3 DEF FirstPartition
<1>4. ASSUME NEW f \in Copied, at[f] # 0
      PROVE  /\ FirstSector(f) >= FirstPartition + DataStart(fat.bpb) + 8
             /\ LastSector(f) < FirstPartition + parts[1]
             /\ \A g \in Copied \ {f} : at[g] # 0 =>
                  LastSector(f) < FirstSector(g) \/ LastSector(g) < FirstSector(f)
  <2> DEFINE d == DataStart(fat.bpb)
             m == MaxCluster(fat.bpb)
             c == fat.next
  <2>1. fat.bpb # ZeroBpb
    BY <1>1, <1>4 DEF FatInv
  <2>2. FirstPartition = 3
    BY <1>1, <1>3, <2>1 DEF FatInv
  <2>3. VolumeShape(fat.bpb, parts[1], d, m) /\ parts[1] \in Nat
    BY <2>1, VolumeIs
  <2>4. /\ BytesPerCluster(fat.bpb) = 4096 /\ d \in Nat /\ m \in Nat /\ d + 8 * m <= parts[1]
        /\ \A k \in Nat : ClusterSector(fat.bpb, k) = (k - 2) * 8 + d
    BY <2>3 DEF VolumeShape
  <2>5. c \in Nat /\ 3 <= c /\ c <= m
    BY <1>1, <2>1 DEF FatInv
  <2>6. ClusterSector(fat.bpb, c) = (c - 2) * 8 + d
    BY <2>4, <2>5
  <2>7. \A g \in Copied : LastSector(g) = FirstSector(g) + 8 * UsedBy(Stored(g)) - 1
    BY <2>4, SMT DEF LastSector, UsedBy, Clusters
  <2>8. \A g \in Copied : FirstSector(g) = 3 + at[g] /\ at[g] \in Nat
    BY <1>1, <2>2 DEF FirstSector, ToolTypes
  <2>9. \A g \in Copied : at[g] # 0 =>
          /\ UsedBy(Stored(g)) \in Nat \ {0} /\ at[g] >= d + 8
          /\ at[g] + 8 * UsedBy(Stored(g)) <= (c - 2) * 8 + d
          /\ \A h \in Copied \ {g} : at[h] # 0 =>
               at[g] + 8 * UsedBy(Stored(g)) <= at[h] \/ at[h] + 8 * UsedBy(Stored(h)) <= at[g]
    BY <1>1, <2>6 DEF FilesInv
  <2> HIDE DEF d, m, c
  <2>10. FirstSector(f) >= 3 + d + 8
    BY <1>4, <2>4, <2>8, <2>9
  <2>11. LastSector(f) < 3 + parts[1]
    <3>1. at[f] + 8 * UsedBy(Stored(f)) <= (c - 2) * 8 + d /\ UsedBy(Stored(f)) \in Nat
      BY <1>4, <2>9
    <3>2. LastSector(f) = 3 + at[f] + 8 * UsedBy(Stored(f)) - 1 /\ at[f] \in Nat
      BY <1>4, <2>7, <2>8
    <3> QED BY <2>3, <2>4, <2>5, <3>1, <3>2
  <2>12. ASSUME NEW g \in Copied \ {f}, at[g] # 0
         PROVE  LastSector(f) < FirstSector(g) \/ LastSector(g) < FirstSector(f)
    <3>1. /\ UsedBy(Stored(f)) \in Nat /\ UsedBy(Stored(g)) \in Nat
          /\ at[f] + 8 * UsedBy(Stored(f)) <= at[g] \/ at[g] + 8 * UsedBy(Stored(g)) <= at[f]
      BY <1>4, <2>9, <2>12
    <3>2. /\ LastSector(f) = 3 + at[f] + 8 * UsedBy(Stored(f)) - 1 /\ at[f] \in Nat
          /\ LastSector(g) = 3 + at[g] + 8 * UsedBy(Stored(g)) - 1 /\ at[g] \in Nat
          /\ FirstSector(f) = 3 + at[f] /\ FirstSector(g) = 3 + at[g]
      BY <1>4, <2>7, <2>8, <2>12
    <3> QED BY <3>1, <3>2
  <2> QED BY <2>2, <2>10, <2>11, <2>12 DEF d
<1> QED BY <1>2, <1>3, <1>4 DEF DiskLaidOut

\* mkpart, GPTGenerate, createFAT32 and FAT32Copyin agree on the disk for every disk,
\* every boot partition of up to 2^32 bytes and files of every size: both partitions
\* are placed, and every file lies in the first one, behind its tables and apart from
\* the others.
THEOREM DiskIsLaidOut == ASSUME DisksFit PROVE PayloadSpec => []DiskLaidOut
<1>1. PayloadSpec => []ToolInv
  BY ToolInvariant
<1>2. ToolInv => DiskLaidOut
  BY LaidOut
<1> QED BY <1>1, <1>2, PTL

\* Exit code 0 of the installer means that the boot code and all four files are on the
\* disk, each with room for all of its bytes if they are fewer than 2^32, whatever the
\* files' sizes and the order of the options.
THEOREM ExitZeroInstalls == ASSUME DisksFit PROVE PayloadSpec => []ExitZeroMeansInstalled
<1>1. PayloadSpec => []ToolInv
  BY ToolInvariant
<1>2. ToolInv => ExitZeroMeansInstalled
  <2> SUFFICES ASSUME ToolInv PROVE ExitZeroMeansInstalled
    OBVIOUS
  <2>1. mbr \in 0..440
    BY DEF ToolInv, ToolTypes
  <2>2. tool = "installer" /\ pc = "exit0" =>
          /\ file["mbr"] >= 0 /\ mbr = MbrCode(file["mbr"])
          /\ \A f \in Copied : at[f] # 0 /\ file[f] >= 0
    BY DEF ToolInv, DoneInv, FilesInv
  <2>3. ASSUME NEW f \in Copied, at[f] # 0, file[f] >= 0, file[f] < Word
        PROVE  file[f] <= 512 * (LastSector(f) - FirstSector(f) + 1)
    <3> DEFINE u == UsedBy(Stored(f))
    <3>1. u \in Nat /\ Stored(f) <= 4096 * u
      BY <2>3 DEF ToolInv, FilesInv
    <3>2. file[f] \in Int /\ FirstPartition = 3 /\ at[f] \in Nat
      <4>1. file[f] \in Int /\ at[f] \in Nat
        BY DEF ToolInv, ToolTypes, FileNames
      <4>2. parts # <<>>
        BY <2>3 DEF ToolInv, FatInv
      <4> QED BY <4>1, <4>2, LaidOut DEF DiskLaidOut
    <3>3. Stored(f) = file[f]
      BY <2>3, <3>2, WordAssumption DEF Stored, U32
    <3>4. LastSector(f) = FirstSector(f) + 8 * u - 1 /\ FirstSector(f) \in Nat
      BY <2>3, <3>2, RoomIs DEF FirstSector
    <3> HIDE DEF u
    <3> QED BY <3>1, <3>2, <3>3, <3>4
  <2> QED BY <2>1, <2>2, <2>3 DEF ExitZeroMeansInstalled
<1> QED BY <1>1, <1>2, PTL
----------------------------------------------------------------------------
(* Memory.                                                                 *)

Reads == [addr : Nat, sector : Nat, n : Nat]
ReadOf(addr, sector, n) == [addr |-> addr, sector |-> sector, n |-> n]

BootRead == ReadOf(\h7C00, 0, 1)
LoaderRead == ReadOf(LoaderAddr, LoaderSector, 1)
SecondRead == ReadOf(LoaderAddr + 512, LoaderSector + 1, 1)
HeaderRead == ReadOf(SetupAddr, KernelSector, 2)
SetupRead(h) == ReadOf(SetupAddr + 1024, KernelSector + 2, SetupSects(h) - 2)
KernelSectors(h) == ImageSize(h) \div 512 - SetupSects(h)
KernelRead(h) == ReadOf(KernelAddr, KernelSector + SetupSects(h), KernelSectors(h))

\* What has been read when each stage of the chain is reached.
MbrMem == <<BootRead>>
LoaderMem == Append(MbrMem, LoaderRead)
HeaderMem == Append(LoaderMem, SecondRead)
SetupMem == Append(HeaderMem, HeaderRead)
KernelMem(h) == IF SetupSects(h) > 2 THEN Append(SetupMem, SetupRead(h)) ELSE SetupMem
FullMem(h) == IF KernelSectors(h) > 0 THEN Append(KernelMem(h), KernelRead(h)) ELSE KernelMem(h)

\* Read k covers address a.
Covers(m, k, a) == m[k].addr <= a /\ a < m[k].addr + 512 * m[k].n
LastOver(m, k, a) == Covers(m, k, a) /\ \A j \in DOMAIN m : j > k => ~ Covers(m, j, a)

\* The last read that covers an address decides what is there.
LEMMA SectorOfRead ==
  ASSUME NEW m, NEW a, DOMAIN m \subseteq Nat, NEW k \in DOMAIN m, LastOver(m, k, a)
  PROVE  SectorAt(m, a) = m[k].sector + (a - m[k].addr) \div 512
<1> DEFINE over == {j \in DOMAIN m : m[j].addr <= a /\ a < m[j].addr + 512 * m[j].n}
           top == CHOOSE j \in over : \A i \in over : i <= j
<1>1. k \in over /\ \A i \in over : i <= k
  BY DEF LastOver, Covers
<1>2. over \subseteq Nat
  OBVIOUS
<1>3. SectorAt(m, a) = m[top].sector + (a - m[top].addr) \div 512
  BY <1>1 DEF SectorAt
<1> HIDE DEF over
<1>4. top \in over /\ \A i \in over : i <= top
  BY <1>1
<1>5. top = k
  BY <1>1, <1>2, <1>4
<1> HIDE DEF top
<1> QED BY <1>3, <1>5

\* The counts of a header.
LEMMA HeaderCounts ==
  ASSUME NEW h \in Headers
  PROVE  /\ SetupSects(h) \in 0..255 /\ KernelSectors(h) \in Int
         /\ FileSize(h) < Word =>
              KernelSectors(h) = h.syssize \div 32 /\ h.syssize \div 32 \in Nat
         /\ h.setup_sects <= 62 => SetupSects(h) <= 63 /\ SetupSects(h) = RealModeSectors(h)
         /\ h.setup_sects < 255 => SetupSects(h) = RealModeSectors(h)
<1>1. h.setup_sects \in 0..255 /\ h.syssize \in Nat
  BY BootAssumption
<1>2. SetupSects(h) \in 0..255
  BY <1>1 DEF SetupSects
<1>3. KernelSectors(h) = U32(512 * SetupSects(h) + 16 * h.syssize) \div 512 - SetupSects(h)
  BY DEF KernelSectors, ImageSize
<1>4. ASSUME NEW s \in Nat, NEW z \in Nat
      PROVE  (512 * s + 16 * z) \div 512 - s = z \div 32 /\ z \div 32 \in Nat
  OBVIOUS
<1>5. ASSUME FileSize(h) < Word
      PROVE  KernelSectors(h) = h.syssize \div 32 /\ h.syssize \div 32 \in Nat
  <2> DEFINE i == 512 * SetupSects(h) + 16 * h.syssize
  <2>1. i \in Nat /\ i <= FileSize(h) /\ FileSize(h) \in Nat
    <3>1. SetupSects(h) <= RealModeSectors(h) /\ RealModeSectors(h) \in Nat
      BY <1>1 DEF SetupSects, RealModeSectors
    <3> QED BY <1>1, <1>2, <3>1 DEF FileSize
  <2>2. U32(i) = i
    <3> HIDE DEF i
    <3> QED BY <1>5, <2>1, WordAssumption DEF U32
  <2> QED BY <1>1, <1>2, <1>3, <1>4, <2>2
<1>6. h.setup_sects < 255 => SetupSects(h) = RealModeSectors(h)
  BY <1>1 DEF SetupSects, RealModeSectors
<1>7. h.setup_sects <= 62 => SetupSects(h) <= 63
  BY <1>1 DEF SetupSects
<1>8. KernelSectors(h) \in Int
  <2> DEFINE i == 512 * SetupSects(h) + 16 * h.syssize
  <2>1. i \in Nat
    BY <1>1, <1>2
  <2> HIDE DEF i
  <2>2. U32(i) \in Nat
    BY <2>1, WordAssumption DEF U32
  <2>3. KernelSectors(h) = U32(i) \div 512 - SetupSects(h)
    BY <1>3 DEF i
  <2> QED BY <1>2, <2>2, <2>3
<1> QED BY <1>1, <1>2, <1>5, <1>6, <1>7, <1>8

\* The reads of the chain in their order, as far as it has come.
MemShape(m, h) ==
  /\ m \in Seq(Reads) /\ Len(m) <= 6
  /\ \A k \in 1..Len(m) :
       \/ k = 1 /\ m[k] = BootRead
       \/ k = 2 /\ m[k] = LoaderRead
       \/ k = 3 /\ m[k] = SecondRead
       \/ k = 4 /\ m[k] = HeaderRead
       \/ k = 5 /\ m[k] = SetupRead(h) /\ SetupSects(h) > 2
       \/ k = Len(m) /\ k > 4 /\ m[k] = KernelRead(h) /\ KernelSectors(h) > 0
\* One more read at the end.
LEMMA AppendIs ==
  ASSUME NEW m \in Seq(Reads), NEW e \in Reads, NEW q, q = Append(m, e)
  PROVE  /\ q \in Seq(Reads) /\ Len(q) = Len(m) + 1 /\ q[Len(m) + 1] = e
         /\ \A k \in 1..Len(m) : q[k] = m[k]
OBVIOUS

\* Every read has an address, a sector and a number of sectors.
LEMMA ReadTypes ==
  ASSUME NEW h \in Headers
  PROVE  /\ BootRead \in Reads /\ LoaderRead \in Reads /\ SecondRead \in Reads
         /\ HeaderRead \in Reads
         /\ SetupSects(h) > 2 => SetupRead(h) \in Reads
         /\ KernelSectors(h) > 0 => KernelRead(h) \in Reads
<1>1. BootRead \in Reads /\ LoaderRead \in Reads /\ SecondRead \in Reads /\ HeaderRead \in Reads
  BY DEF BootRead, LoaderRead, SecondRead, HeaderRead, ReadOf, Reads, LoaderAddr,
     LoaderSector, SetupAddr, KernelSector
<1>2. SetupSects(h) > 2 => SetupRead(h) \in Reads
  BY HeaderCounts DEF SetupRead, ReadOf, Reads, SetupAddr, KernelSector
<1>3. KernelSectors(h) > 0 => KernelRead(h) \in Reads
  BY HeaderCounts, SMT DEF KernelRead, ReadOf, Reads, KernelAddr, KernelSector
<1> QED BY <1>1, <1>2, <1>3

\* The reads before the real-mode code.
LEMMA EarlyShape ==
  ASSUME NEW h \in Headers
  PROVE  /\ MemShape(<<>>, h) /\ MemShape(MbrMem, h)
         /\ MemShape(LoaderMem, h) /\ Len(LoaderMem) = 2
         /\ MemShape(HeaderMem, h) /\ Len(HeaderMem) = 3
         /\ MemShape(SetupMem, h) /\ Len(SetupMem) = 4
<1>1. BootRead \in Reads /\ LoaderRead \in Reads /\ SecondRead \in Reads /\ HeaderRead \in Reads
  BY ReadTypes
<1>2. MemShape(<<>>, h)
  BY DEF MemShape
<1>3. MbrMem \in Seq(Reads) /\ Len(MbrMem) = 1 /\ MbrMem[1] = BootRead
  BY <1>1 DEF MbrMem
<1>4. /\ LoaderMem \in Seq(Reads) /\ Len(LoaderMem) = 2 /\ LoaderMem[1] = BootRead
      /\ LoaderMem[2] = LoaderRead
  <2>1. /\ LoaderMem \in Seq(Reads) /\ Len(LoaderMem) = 1 + 1 /\ LoaderMem[1 + 1] = LoaderRead
        /\ \A k \in 1..1 : LoaderMem[k] = MbrMem[k]
    <3>1. LoaderMem = Append(MbrMem, LoaderRead)
      BY DEF LoaderMem
    <3>2. MbrMem \in Seq(Reads) /\ Len(MbrMem) = 1
      BY <1>3
    <3> QED BY <1>1, <3>1, <3>2, AppendIs
  <2> QED BY <1>3, <2>1
<1>5. /\ HeaderMem \in Seq(Reads) /\ Len(HeaderMem) = 3 /\ HeaderMem[1] = BootRead
      /\ HeaderMem[2] = LoaderRead /\ HeaderMem[3] = SecondRead
  <2>1. /\ HeaderMem \in Seq(Reads) /\ Len(HeaderMem) = 2 + 1 /\ HeaderMem[2 + 1] = SecondRead
        /\ \A k \in 1..2 : HeaderMem[k] = LoaderMem[k]
    <3>1. HeaderMem = Append(LoaderMem, SecondRead)
      BY DEF HeaderMem
    <3>2. LoaderMem \in Seq(Reads) /\ Len(LoaderMem) = 2
      BY <1>4
    <3> QED BY <1>1, <3>1, <3>2, AppendIs
  <2> QED BY <1>4, <2>1
<1>6. /\ SetupMem \in Seq(Reads) /\ Len(SetupMem) = 4 /\ SetupMem[1] = BootRead
      /\ SetupMem[2] = LoaderRead /\ SetupMem[3] = SecondRead /\ SetupMem[4] = HeaderRead
  <2>1. /\ SetupMem \in Seq(Reads) /\ Len(SetupMem) = 3 + 1 /\ SetupMem[3 + 1] = HeaderRead
        /\ \A k \in 1..3 : SetupMem[k] = HeaderMem[k]
    <3>1. SetupMem = Append(HeaderMem, HeaderRead)
      BY DEF SetupMem
    <3>2. HeaderMem \in Seq(Reads) /\ Len(HeaderMem) = 3
      BY <1>5
    <3> QED BY <1>1, <3>1, <3>2, AppendIs
  <2> QED BY <1>5, <2>1
<1>7. MemShape(MbrMem, h)
  BY <1>3 DEF MemShape
<1>8. MemShape(LoaderMem, h)
  BY <1>4 DEF MemShape
<1>9. MemShape(HeaderMem, h)
  BY <1>5 DEF MemShape
<1>10. MemShape(SetupMem, h)
  BY <1>6 DEF MemShape
<1> QED BY <1>2, <1>4, <1>5, <1>6, <1>7, <1>8, <1>9, <1>10

\* The reads with the rest of the real-mode code.
LEMMA KernelShape ==
  ASSUME NEW h \in Headers, NEW m, m = KernelMem(h)
  PROVE  /\ MemShape(m, h) /\ Len(m) \in 4..5
         /\ SetupSects(h) > 2 => Len(m) = 5 /\ m[5] = SetupRead(h)
<1>1. MemShape(SetupMem, h) /\ Len(SetupMem) = 4
  BY EarlyShape
<1>2. CASE SetupSects(h) > 2
  <2>1. m = Append(SetupMem, SetupRead(h)) /\ SetupRead(h) \in Reads /\ SetupMem \in Seq(Reads)
    BY <1>1, <1>2, ReadTypes DEF KernelMem, MemShape
  <2>2. /\ m \in Seq(Reads) /\ Len(m) = 5 /\ m[5] = SetupRead(h)
        /\ \A k \in 1..4 : m[k] = SetupMem[k]
    BY <1>1, <2>1, AppendIs
  <2> QED BY <1>1, <1>2, <2>2 DEF MemShape
<1>3. CASE ~ (SetupSects(h) > 2)
  BY <1>1, <1>3 DEF KernelMem
<1> QED BY <1>2, <1>3

\* All reads.
LEMMA FullShape ==
  ASSUME NEW h \in Headers, NEW m, m = FullMem(h)
  PROVE  /\ MemShape(m, h) /\ Len(m) \in 4..6
         /\ SetupSects(h) > 2 => Len(m) >= 5 /\ m[5] = SetupRead(h)
         /\ KernelSectors(h) > 0 => Len(m) >= 5 /\ m[Len(m)] = KernelRead(h)
<1> DEFINE w == KernelMem(h)
<1>1. /\ MemShape(w, h) /\ Len(w) \in 4..5
      /\ SetupSects(h) > 2 => Len(w) = 5 /\ w[5] = SetupRead(h)
  BY KernelShape
<1>2. CASE KernelSectors(h) > 0
  <2>1. m = Append(w, KernelRead(h)) /\ KernelRead(h) \in Reads /\ w \in Seq(Reads)
    BY <1>1, <1>2, ReadTypes DEF FullMem, MemShape
  <2> HIDE DEF w
  <2>2. /\ m \in Seq(Reads) /\ Len(m) = Len(w) + 1 /\ m[Len(w) + 1] = KernelRead(h)
        /\ \A k \in 1..Len(w) : m[k] = w[k]
    BY <2>1, AppendIs
  <2>3. ASSUME NEW k \in 1..Len(w)
        PROVE  \/ k = 1 /\ w[k] = BootRead
               \/ k = 2 /\ w[k] = LoaderRead
               \/ k = 3 /\ w[k] = SecondRead
               \/ k = 4 /\ w[k] = HeaderRead
               \/ k = 5 /\ w[k] = SetupRead(h) /\ SetupSects(h) > 2
    <3>1. k = 5 => w[5] = SetupRead(h) /\ SetupSects(h) > 2
      <4>1. CASE SetupSects(h) > 2
        BY <1>1, <4>1
      <4>2. CASE ~ (SetupSects(h) > 2)
        <5>1. Len(w) = 4
          BY <4>2, EarlyShape DEF w, KernelMem
        <5> QED BY <5>1
      <4> QED BY <4>1, <4>2
    <3> QED BY <1>1, <3>1 DEF MemShape
  <2> QED BY <1>1, <1>2, <2>2, <2>3 DEF MemShape
<1>3. CASE ~ (KernelSectors(h) > 0)
  BY <1>1, <1>3 DEF FullMem
<1> QED BY <1>2, <1>3
\* The fields of a read.
LEMMA ReadFields ==
  ASSUME NEW h, NEW m, MemShape(m, h), NEW k \in 1..Len(m)
  PROVE  m[k].addr \in Nat /\ m[k].n \in Nat /\ m[k].sector \in Nat
<1>1. m \in Seq(Reads)
  BY DEF MemShape
<1>2. m[k] \in Reads
  BY <1>1
<1> QED BY <1>2 DEF Reads

\* A kernel with few enough sectors of setup code.
LEMMA ShortSetup ==
  ASSUME NEW h \in Headers, h.setup_sects <= 62
  PROVE  SetupSects(h) \in Nat /\ SetupSects(h) <= 63 /\ KernelSectors(h) \in Int
<1>1. SetupSects(h) \in 0..255 /\ KernelSectors(h) \in Int /\ SetupSects(h) <= 63
  BY HeaderCounts
<1>2. \A s \in 0..255 : s \in Nat
  OBVIOUS
<1> QED BY <1>1, <1>2

\* Where read i of n lies: from a up to b.
Span(i, a, b, n) ==
  \/ i = 2 /\ a = \h1200 /\ b = \h1400
  \/ i = 3 /\ a = \h1400 /\ b = \h1600
  \/ i = 4 /\ a = \h2000 /\ b = \h2400
  \/ i = 5 /\ a = \h2400 /\ b > \h2400 /\ b <= \h9E00
  \/ i = n /\ i > 4 /\ a = \h100000 /\ b > \h100000

\* The span of each read but the first.
LEMMA SpanIs ==
  ASSUME NEW h \in Headers, NEW m, MemShape(m, h), h.setup_sects <= 62, NEW i \in 2..Len(m)
  PROVE  Span(i, m[i].addr, m[i].addr + 512 * m[i].n, Len(m))
<1> DEFINE From(r) == r.addr
           To(r) == r.addr + 512 * r.n
           s == SetupSects(h)
           z == KernelSectors(h)
<1>1. s \in Nat /\ s <= 63 /\ z \in Int
  <2> HIDE DEF s, z
  <2> QED BY ShortSetup DEF s, z
<1>2. /\ From(LoaderRead) = \h1200 /\ To(LoaderRead) = \h1400
      /\ From(SecondRead) = \h1400 /\ To(SecondRead) = \h1600
      /\ From(HeaderRead) = \h2000 /\ To(HeaderRead) = \h2400
      /\ From(SetupRead(h)) = \h2400 /\ To(SetupRead(h)) = \h2400 + 512 * (s - 2)
      /\ From(KernelRead(h)) = \h100000 /\ To(KernelRead(h)) = \h100000 + 512 * z
  BY SMT DEF LoaderRead, SecondRead, HeaderRead, SetupRead, KernelRead, ReadOf, LoaderAddr,
     SetupAddr, KernelAddr
<1>3. \/ i = 2 /\ m[i] = LoaderRead
      \/ i = 3 /\ m[i] = SecondRead
      \/ i = 4 /\ m[i] = HeaderRead
      \/ i = 5 /\ m[i] = SetupRead(h) /\ s > 2
      \/ i = Len(m) /\ i > 4 /\ m[i] = KernelRead(h) /\ z > 0
  BY DEF MemShape
<1> SUFFICES Span(i, From(m[i]), To(m[i]), Len(m))
  OBVIOUS
<1> HIDE DEF From, To, s, z
<1> QED BY <1>1, <1>2, <1>3, SMT DEF Span

\* Reads 2 and later lie apart from each other and from what the loader has elsewhere.
LEMMA ShapeApart ==
  ASSUME NEW h \in Headers, NEW m, MemShape(m, h), h.setup_sects <= 62,
         NEW j \in 2..Len(m), NEW k \in 2..Len(m)
  PROVE  /\ j # k => ~ Overlap(m[j].addr, 512 * m[j].n, m[k].addr, 512 * m[k].n)
         /\ \A o \in Own : ~ Overlap(m[j].addr, 512 * m[j].n, o.addr, o.size)
<1> DEFINE From(i) == m[i].addr
           To(i) == m[i].addr + 512 * m[i].n
<1>1. Span(j, From(j), To(j), Len(m)) /\ Span(k, From(k), To(k), Len(m))
  BY SpanIs
<1>2. From(j) \in Nat /\ To(j) \in Nat /\ From(k) \in Nat /\ To(k) \in Nat
  BY ReadFields, SMTT(60)
<1>3. Len(m) \in Nat /\ j \in Nat /\ k \in Nat
  <2>1. m \in Seq(Reads)
    BY DEF MemShape
  <2>2. Len(m) \in Nat
    BY <2>1
  <2> QED BY <2>2
<1> SUFFICES /\ j # k => ~ (From(j) < To(k) /\ From(k) < To(j))
             /\ \A o \in Own : ~ (From(j) < o.addr + o.size /\ o.addr < To(j))
  BY DEF Overlap
<1> HIDE DEF From, To
<1>4. /\ j # k => ~ (From(j) < To(k) /\ From(k) < To(j))
      /\ ~ (From(j) < \h9E00 + 512 /\ \h9E00 < To(j))
      /\ ~ (From(j) < \hA000 + 18 /\ \hA000 < To(j))
      /\ ~ (From(j) < \h12000 + 73 /\ \h12000 < To(j))
  <2> DEFINE a == From(j)
             b == To(j)
             c == From(k)
             d == To(k)
             n == Len(m)
  <2> SUFFICES /\ j # k => ~ (a < d /\ c < b)
               /\ ~ (a < \h9E00 + 512 /\ \h9E00 < b)
               /\ ~ (a < \hA000 + 18 /\ \hA000 < b)
               /\ ~ (a < \h12000 + 73 /\ \h12000 < b)
    OBVIOUS
  <2>1. /\ Span(j, a, b, n) /\ Span(k, c, d, n) /\ a \in Nat /\ b \in Nat /\ c \in Nat
        /\ d \in Nat /\ n \in Nat /\ j \in Nat /\ k \in Nat
    BY <1>1, <1>2, <1>3
  <2> HIDE DEF a, b, c, d, n
  <2> QED BY <2>1, SMT DEF Span
<1>5. ASSUME NEW o \in Own
      PROVE  \/ o.addr = \h9E00 /\ o.size = 512
             \/ o.addr = \hA000 /\ o.size = 18
             \/ o.addr = \h12000 /\ o.size = 73
  BY <1>5, SMT DEF Own, StackTop, Code16Addr, CmdLineAddr, SetupAddr
<1> QED BY <1>4, <1>5, SMT

\* The first sector of the loader stays where it was read to.
LEMMA LoaderStays ==
  ASSUME NEW h \in Headers, NEW m, MemShape(m, h), Len(m) >= 2
  PROVE  SectorAt(m, LoaderAddr) = LoaderSector
<1>1. m \in Seq(Reads) /\ DOMAIN m = 1..Len(m) /\ Len(m) \in Nat
  BY DEF MemShape
<1>2. m[2] = LoaderRead
  BY DEF MemShape
<1>3. LoaderRead.addr = LoaderAddr /\ LoaderRead.n = 1 /\ LoaderRead.sector = LoaderSector
      /\ LoaderAddr = \h1200 /\ LoaderSector = 531
  BY SMT DEF LoaderRead, ReadOf, LoaderAddr, LoaderSector
<1>4. ASSUME NEW j \in DOMAIN m, j > 2 PROVE m[j].addr > \h1200
  <2>1. m[j] \in {SecondRead, HeaderRead, SetupRead(h), KernelRead(h)}
    <3>1. j \in 1..Len(m) /\ j # 1 /\ j # 2
      BY <1>1, <1>4
    <3> QED BY <3>1 DEF MemShape
  <2> QED BY <2>1, SMT DEF SecondRead, HeaderRead, SetupRead, KernelRead, ReadOf, LoaderAddr,
       SetupAddr, KernelAddr
<1>5. \A j \in DOMAIN m : m[j].addr \in Nat
  BY <1>1, ReadFields
<1>6. LastOver(m, 2, LoaderAddr)
  BY <1>1, <1>2, <1>3, <1>4, <1>5, SMT DEF LastOver, Covers
<1>7. SectorAt(m, LoaderAddr) = m[2].sector + (LoaderAddr - m[2].addr) \div 512
  BY <1>1, <1>6, SectorOfRead
<1> QED BY <1>2, <1>3, <1>7, SMT
----------------------------------------------------------------------------
(* The boot chain.                                                         *)

\* Where the chain is, what it has read and where control is.
ChainInv ==
  /\ stage \in {"off", "mbr", "loader", "header", "setup", "kernel", "jump", "code16",
                "running", "lost", "die"}
  /\ stage = "off" => mem = <<>> /\ khdr = NoHeader
  /\ stage # "off" => pc = "exit0" /\ khdr \in Headers
  /\ stage = "mbr" => mem = MbrMem /\ ip = \h7C00
  /\ stage = "loader" => mem = LoaderMem /\ ip = LoaderAddr
  /\ stage = "header" => mem = HeaderMem /\ ip = LoaderAddr
  /\ stage = "setup" => mem = SetupMem /\ ip = LoaderAddr /\ HeaderFound
  /\ stage = "kernel" => mem = KernelMem(khdr) /\ ip = LoaderAddr /\ HeaderFound
  /\ stage \in {"jump", "code16", "running"} => mem = FullMem(khdr) /\ HeaderFound
  /\ stage = "jump" => ip = LoaderAddr
  /\ stage = "code16" => ip = Code16Addr
  /\ stage = "running" => ip = SetupAddr + 512
  /\ stage = "die" => mem \in {SetupMem, KernelMem(khdr)} /\ ip = LoaderAddr
  /\ stage = "lost" => \/ mem = MbrMem /\ ip = \h7C00
                       \/ mem \in {LoaderMem, HeaderMem, KernelMem(khdr)} /\ ip = LoaderAddr

\* A tool that is done stays done.
LEMMA DoneStays ==
  ASSUME pc = "exit0", [Next]_vars
  PROVE  vars' = vars
BY DEF Next, Tool, vars, Stopped, Help, Spin, ParseOption, CheckOptions, OpenDisk, OpenFails,
   MkPart, CreateFat, SuperDies, LinkDies, Copyin, CopyFails, WriteMbr, WriteImage, WriteFails

\* What a switched-off machine and a stage of the chain keep.
LEMMA ChainInit == BootInit => ChainInv
BY SMT DEF BootInit, ChainInv

\* A step of a tool, of getpayload, or none.
LEMMA ChainIdle ==
  ASSUME ChainInv, [Next]_vars, boot' = boot
  PROVE  ChainInv'
<1>1. khdr' = khdr /\ stage' = stage /\ mem' = mem /\ ip' = ip
  BY DEF boot
<1>2. CASE stage = "off"
  BY <1>1, <1>2 DEF ChainInv
<1>3. CASE stage # "off"
  <2>1. vars' = vars
    BY <1>3, DoneStays DEF ChainInv
  <2>2. at' = at /\ parts' = parts /\ pc' = pc
    BY <2>1 DEF vars
  <2>3. HeaderFound' = HeaderFound
    BY <1>1, <2>2 DEF HeaderFound, FirstSector, FirstPartition
  <2> QED BY <1>1, <2>2, <2>3 DEF ChainInv
<1> QED BY <1>2, <1>3

\* The steps of the chain.
LEMMA ChainMoves ==
  ASSUME ChainInv, Booting
  PROVE  ChainInv'
<1>1. vars' = vars
  BY DEF Booting, PowerOn, RunMbr, RunLoader, ReadHeader, ReadSetup, ReadKernel, Jump,
     RunCode16, vars
<1>2. at' = at /\ parts' = parts /\ pc' = pc
  BY <1>1 DEF vars
<1>3. CASE PowerOn
  <2>1. /\ khdr' \in Headers /\ pc = "exit0" /\ ip' = \h7C00 /\ stage' = "mbr"
        /\ stage = "off" /\ mem' = Append(mem, BootRead)
    BY <1>3 DEF PowerOn, Read, BootRead, ReadOf
  <2>2. mem = <<>>
    BY <2>1 DEF ChainInv
  <2>3. mem' = MbrMem
    BY <2>1, <2>2 DEF MbrMem
  <2> QED BY <1>2, <2>1, <2>3 DEF ChainInv
<1>4. CASE RunMbr
  <2>1. stage = "mbr" /\ khdr' = khdr
    BY <1>4 DEF RunMbr
  <2>2. mem = MbrMem /\ ip = \h7C00 /\ pc = "exit0" /\ khdr \in Headers
    BY <2>1 DEF ChainInv
  <2>3. \/ mem' = Append(mem, LoaderRead) /\ ip' = LoaderAddr /\ stage' = "loader"
        \/ mem' = mem /\ ip' = ip /\ stage' = "lost"
    BY <1>4 DEF RunMbr, Read, LoaderRead, ReadOf
  <2>4. Append(MbrMem, LoaderRead) = LoaderMem
    BY DEF LoaderMem
  <2> QED BY <1>2, <2>1, <2>2, <2>3, <2>4 DEF ChainInv
<1>5. CASE RunLoader
  <2>1. stage = "loader" /\ khdr' = khdr /\ ip' = ip
    BY <1>5 DEF RunLoader
  <2>2. mem = LoaderMem /\ ip = LoaderAddr /\ pc = "exit0" /\ khdr \in Headers
    BY <2>1 DEF ChainInv
  <2>3. \/ mem' = Append(mem, SecondRead) /\ stage' \in {"header", "lost"}
        \/ mem' = mem /\ stage' = "lost"
    BY <1>5 DEF RunLoader, Read, SecondRead, ReadOf
  <2>4. Append(LoaderMem, SecondRead) = HeaderMem
    BY DEF HeaderMem
  <2> QED BY <1>2, <2>1, <2>2, <2>3, <2>4 DEF ChainInv
<1>6. CASE ReadHeader
  <2>1. stage = "header" /\ khdr' = khdr /\ ip' = ip
    BY <1>6 DEF ReadHeader
  <2>2. mem = HeaderMem /\ ip = LoaderAddr /\ pc = "exit0" /\ khdr \in Headers
    BY <2>1 DEF ChainInv
  <2>3. mem' = Append(mem, HeaderRead) /\ stage' \in {"setup", "die"}
        /\ (stage' = "setup" => HeaderFound)
    BY <1>6 DEF ReadHeader, Read, HeaderRead, ReadOf
  <2>4. Append(HeaderMem, HeaderRead) = SetupMem
    BY DEF SetupMem
  <2>5. HeaderFound' = HeaderFound
    BY <1>2, <2>1 DEF HeaderFound, FirstSector, FirstPartition
  <2> QED BY <1>2, <2>1, <2>2, <2>3, <2>4, <2>5 DEF ChainInv
<1>7. CASE ReadSetup
  <2>1. stage = "setup" /\ khdr' = khdr /\ ip' = ip /\ stage' \in {"kernel", "die", "lost"}
    BY <1>7 DEF ReadSetup
  <2>2. mem = SetupMem /\ ip = LoaderAddr /\ pc = "exit0" /\ khdr \in Headers /\ HeaderFound
    BY <2>1 DEF ChainInv
  <2>3. mem' = IF SetupSects(khdr) > 2 THEN Append(mem, SetupRead(khdr)) ELSE mem
    BY <1>7, SMT DEF ReadSetup, Read, SetupRead, ReadOf
  <2>4. mem' = KernelMem(khdr)
    BY <2>2, <2>3 DEF KernelMem
  <2>5. HeaderFound' = HeaderFound
    BY <1>2, <2>1 DEF HeaderFound, FirstSector, FirstPartition
  <2>6. mem' = KernelMem(khdr') /\ pc' = "exit0" /\ khdr' \in Headers /\ ip' = LoaderAddr
        /\ HeaderFound'
    BY <1>2, <2>1, <2>2, <2>4, <2>5
  <2> QED BY <2>1, <2>6 DEF ChainInv
<1>8. CASE ReadKernel
  <2>1. stage = "kernel" /\ khdr' = khdr /\ ip' = ip /\ stage' = "jump"
    BY <1>8 DEF ReadKernel
  <2>2. mem = KernelMem(khdr) /\ ip = LoaderAddr /\ pc = "exit0" /\ khdr \in Headers
        /\ HeaderFound
    BY <2>1 DEF ChainInv
  <2>3. mem' = IF ImageSize(khdr) \div 512 > SetupSects(khdr)
                 THEN Append(mem, KernelRead(khdr)) ELSE mem
    BY <1>8, SMT DEF ReadKernel, Read, KernelRead, KernelSectors, ReadOf
  <2>4. (ImageSize(khdr) \div 512 > SetupSects(khdr)) <=> (KernelSectors(khdr) > 0)
    <3>1. SetupSects(khdr) \in Int /\ KernelSectors(khdr) \in Int
      BY <2>2, HeaderCounts
    <3>2. ImageSize(khdr) \div 512 \in Int
      <4>1. khdr.syssize \in Nat
        BY <2>2, BootAssumption
      <4>2. ImageSize(khdr) \in Int
        BY <3>1, <4>1, WordAssumption DEF ImageSize, U32
      <4> QED BY <4>2
    <3> QED BY <3>1, <3>2 DEF KernelSectors
  <2>5. mem' = FullMem(khdr)
    BY <2>2, <2>3, <2>4 DEF FullMem
  <2>6. HeaderFound' = HeaderFound
    BY <1>2, <2>1 DEF HeaderFound, FirstSector, FirstPartition
  <2>7. mem' = FullMem(khdr') /\ pc' = "exit0" /\ khdr' \in Headers /\ ip' = LoaderAddr
        /\ HeaderFound'
    BY <1>2, <2>1, <2>2, <2>5, <2>6
  <2> QED BY <2>1, <2>7 DEF ChainInv
<1>9. CASE Jump \/ RunCode16
  <2>1. /\ stage \in {"jump", "code16"} /\ khdr' = khdr /\ mem' = mem
        /\ \/ stage' = "code16" /\ ip' = 16 * \h220 + (\hA000 - \h2200)
           \/ stage' = "running" /\ ip' = 16 * \h220
    BY <1>9 DEF Jump, RunCode16
  <2>2. mem = FullMem(khdr) /\ pc = "exit0" /\ khdr \in Headers /\ HeaderFound
    BY <2>1 DEF ChainInv
  <2>3. HeaderFound' = HeaderFound
    BY <1>2, <2>1 DEF HeaderFound, FirstSector, FirstPartition
  <2>4. Code16Addr = 16 * \h220 + (\hA000 - \h2200) /\ SetupAddr + 512 = 16 * \h220
    BY SMT DEF Code16Addr, SetupAddr
  <2>5. \/ stage' = "code16" /\ ip' = Code16Addr
        \/ stage' = "running" /\ ip' = SetupAddr + 512
    BY <2>1, <2>4
  <2>6. mem' = FullMem(khdr') /\ pc' = "exit0" /\ khdr' \in Headers /\ HeaderFound'
    BY <1>2, <2>1, <2>2, <2>3
  <2> QED BY <2>5, <2>6 DEF ChainInv
<1> QED BY <1>3, <1>4, <1>5, <1>6, <1>7, <1>8, <1>9 DEF Booting
\* A step of the whole system is one of the chain or leaves it alone.
LEMMA ChainStep ==
  ASSUME ChainInv, [PayloadNext]_pvars
  PROVE  ChainInv'
<1>1. CASE Booting
  BY <1>1, ChainMoves
<1>2. CASE ~ Booting
  <2>1. [Next]_vars /\ boot' = boot
    BY <1>2 DEF PayloadNext, BootNext, GetPayload, pvars, bvars, PayloadOpen, PayloadCheck,
       PayloadWrite, PayloadWriteFails
  <2> QED BY <2>1, ChainIdle
<1> QED BY <1>1, <1>2

\* ChainInv holds always.
LEMMA ChainInvariant == PayloadSpec => []ChainInv
<1>1. PayloadInit => ChainInv
  BY ChainInit DEF PayloadInit
<1>2. ChainInv /\ [PayloadNext]_pvars => ChainInv'
  BY ChainStep
<1> QED BY <1>1, <1>2, PTL DEF PayloadSpec

\* The shape of memory at any stage.
LEMMA ChainShape ==
  ASSUME ChainInv, stage # "off"
  PROVE  /\ khdr \in Headers /\ MemShape(mem, khdr)
         /\ ip = LoaderAddr => Len(mem) >= 2
<1>1. khdr \in Headers
  BY DEF ChainInv
<1>2. \/ mem = MbrMem /\ ip = \h7C00
      \/ mem \in {LoaderMem, HeaderMem, SetupMem, KernelMem(khdr), FullMem(khdr)}
  BY DEF ChainInv
<1>3. ip = \h7C00 => ip # LoaderAddr
  BY SMT DEF LoaderAddr
<1>4. MemShape(MbrMem, khdr) /\ MemShape(LoaderMem, khdr) /\ Len(LoaderMem) = 2
      /\ MemShape(HeaderMem, khdr) /\ Len(HeaderMem) = 3
      /\ MemShape(SetupMem, khdr) /\ Len(SetupMem) = 4
  BY <1>1, EarlyShape
<1>5. MemShape(KernelMem(khdr), khdr) /\ Len(KernelMem(khdr)) \in 4..5
  BY <1>1, KernelShape
<1>6. MemShape(FullMem(khdr), khdr) /\ Len(FullMem(khdr)) \in 4..6
  BY <1>1, FullShape
<1>7. Len(KernelMem(khdr)) >= 2 /\ Len(FullMem(khdr)) >= 2
  <2>1. (\A n \in 4..5 : n >= 2) /\ (\A n \in 4..6 : n >= 2)
    OBVIOUS
  <2> QED BY <1>5, <1>6, <2>1
<1>8. MemShape(mem, khdr)
  BY <1>2, <1>4, <1>5, <1>6
<1>9. ip = LoaderAddr => Len(mem) >= 2
  <2>1. CASE mem \in {LoaderMem, HeaderMem, SetupMem}
    <3>1. Len(LoaderMem) >= 2 /\ Len(HeaderMem) >= 2 /\ Len(SetupMem) >= 2
      BY <1>4
    <3> QED BY <2>1, <3>1
  <2>2. CASE mem \in {KernelMem(khdr), FullMem(khdr)}
    BY <1>7, <2>2
  <2> QED BY <1>2, <1>3, <2>1, <2>2
<1> QED BY <1>1, <1>8, <1>9

\* The first two sectors of the kernel stay where they were read to.
LEMMA HeaderStays ==
  ASSUME NEW h \in Headers, NEW m, MemShape(m, h), Len(m) >= 4, NEW k \in 0..1
  PROVE  SectorAt(m, SetupAddr + 512 * k) = KernelSector + k
<1> DEFINE a == SetupAddr + 512 * k
<1>1. m \in Seq(Reads)
  BY DEF MemShape
<1>2. DOMAIN m = 1..Len(m) /\ Len(m) \in Nat
  BY <1>1
<1>3. m[4] = HeaderRead
  <2>1. 4 \in 1..Len(m)
    BY <1>2
  <2> QED BY <2>1 DEF MemShape
<1>4. HeaderRead.addr = \h2000 /\ HeaderRead.n = 2 /\ HeaderRead.sector = KernelSector
      /\ KernelSector = 539 /\ a = \h2000 + 512 * k
  BY SMT DEF HeaderRead, ReadOf, SetupAddr, KernelSector
<1> HIDE DEF a
<1>5. ASSUME NEW j \in DOMAIN m, j > 4 PROVE m[j].addr >= \h2400
  <2>1. m[j] \in {SetupRead(h), KernelRead(h)}
    <3>1. j \in 1..Len(m) /\ j # 1 /\ j # 2 /\ j # 3 /\ j # 4
      BY <1>2, <1>5
    <3> QED BY <3>1 DEF MemShape
  <2> QED BY <2>1, SMT DEF SetupRead, KernelRead, ReadOf, SetupAddr, KernelAddr
<1>6. \A j \in DOMAIN m : m[j].addr \in Nat
  BY <1>2, ReadFields
<1>7. 4 \in DOMAIN m /\ LastOver(m, 4, a)
  <2>1. 4 \in DOMAIN m
    BY <1>2
  <2>2. k = 0 \/ k = 1
    OBVIOUS
  <2>3. a >= \h2000 /\ a < \h2400 /\ a \in Nat
    BY <1>4, <2>2, SMT
  <2>4. \A j \in DOMAIN m : j > 4 => ~ Covers(m, j, a)
    BY <1>5, <1>6, <2>3, SMT DEF Covers
  <2>5. Covers(m, 4, a)
    BY <1>3, <1>4, <2>3, SMT DEF Covers
  <2> QED BY <2>1, <2>4, <2>5 DEF LastOver
<1>8. SectorAt(m, a) = m[4].sector + (a - m[4].addr) \div 512
  BY <1>2, <1>7, SectorOfRead
<1>9. (a - \h2000) \div 512 = k
  BY <1>4, SMT
<1> QED BY <1>3, <1>4, <1>8, <1>9, SMT DEF a

\* Nothing the chain reads lands on code it still runs, for kernels of every size with
\* at most 62 sectors of setup code, and control is always at an address something was
\* put at, whatever the disk looks like.
THEOREM MemoryStaysApart == PayloadSpec => []MemoryApart
<1>1. PayloadSpec => []ChainInv
  BY ChainInvariant
<1>2. ChainInv => MemoryApart
  <2> SUFFICES ASSUME ChainInv PROVE MemoryApart
    OBVIOUS
  <2>1. CASE stage = "off"
    <3>1. Len(mem) = 0
      BY <2>1 DEF ChainInv
    <3>2. 2..Len(mem) = {}
      BY <3>1
    <3> QED BY <2>1, <3>2 DEF MemoryApart
  <2>2. CASE stage # "off"
    <3>1. khdr \in Headers /\ MemShape(mem, khdr) /\ (ip = LoaderAddr => Len(mem) >= 2)
      BY <2>2, ChainShape
    <3>2. ASSUME khdr.setup_sects <= 62, NEW j \in 2..Len(mem), NEW k \in 2..Len(mem)
          PROVE  /\ j # k => ~ Overlap(mem[j].addr, 512 * mem[j].n, mem[k].addr, 512 * mem[k].n)
                 /\ \A o \in Own : ~ Overlap(mem[j].addr, 512 * mem[j].n, o.addr, o.size)
      BY <3>1, <3>2, ShapeApart
    <3>3. SectorAt(mem, ip) # 0 \/ ip \in {\h7C00, Code16Addr}
      <4>1. ip \in {LoaderAddr, \h7C00, Code16Addr} \/ stage = "running"
        BY <2>2 DEF ChainInv
      <4>2. CASE ip = LoaderAddr
        <5>1. SectorAt(mem, LoaderAddr) = LoaderSector
          BY <3>1, <4>2, LoaderStays
        <5>2. LoaderSector # 0
          BY SMT DEF LoaderSector
        <5> QED BY <4>2, <5>1, <5>2
      <4>3. CASE stage = "running"
        <5>1. mem = FullMem(khdr) /\ ip = SetupAddr + 512
          BY <4>3 DEF ChainInv
        <5>2. Len(mem) >= 4
          <6>1. Len(mem) \in 4..6
            BY <3>1, <5>1, FullShape
          <6> QED BY <6>1
        <5>3. SectorAt(mem, SetupAddr + 512 * 1) = KernelSector + 1
          <6>1. 1 \in 0..1
            OBVIOUS
          <6> QED BY <3>1, <5>2, <6>1, HeaderStays
        <5>4. KernelSector + 1 # 0 /\ 512 * 1 = 512
          BY SMT DEF KernelSector
        <5> QED BY <5>1, <5>3, <5>4
      <4> QED BY <4>1, <4>2, <4>3
    <3> QED BY <3>2, <3>3 DEF MemoryApart
  <2> QED BY <2>1, <2>2
<1> QED BY <1>1, <1>2, PTL
----------------------------------------------------------------------------
(* The tools and the chain together.                                       *)

\* The sectors in the boot code and the loader are those of a boot partition of 128
\* MiB, or of mkgpt's, which is four sectors shorter.
LEMMA SectorsMatch ==
  ASSUME DisksFit, ToolInv, pc = "exit0", Sane, Matching
  PROVE  /\ FirstSector("loader") = LoaderSector /\ FirstSector("kernel") = KernelSector
         /\ mbr = file["mbr"] /\ mbr > 0
<1> DEFINE d == DataStart(fat.bpb)
           n == parts[1]
<1>1. ToolTypes /\ PartsInv /\ FatInv /\ OrderInv /\ DoneInv
  BY DEF ToolInv
<1>2. at["loader"] # 0 /\ at["kernel"] # 0 /\ "loader" \in Copied
  BY CopiedIs DEF Sane
<1>3. fat.bpb # ZeroBpb
  BY <1>1, <1>2 DEF FatInv
<1>4. n = 262140 \/ n = 262144
  <2>1. n = BootVolume
    BY <1>1 DEF PartsInv
  <2> QED BY <2>1, SMT DEF BootVolume, Matching
<1>5. /\ d = 8 + 2 * (((n \div 8) + 127) \div 128)
      /\ \A k \in Nat : ClusterSector(fat.bpb, k) = (k - 2) * 8 + d
  BY <1>3, VolumeIs DEF VolumeShape
<1> HIDE DEF n, d
<1>6. d = 520
  BY <1>4, <1>5, SMT
<1>7. ClusterSector(fat.bpb, 3) = 528 /\ ClusterSector(fat.bpb, 4) = 536
  BY <1>5, <1>6, SMT
<1>8. UsedBy(Stored("loader")) = 1
  <2> DEFINE z == file["loader"]
  <2>1. z \in 1..1024
    BY DEF Sane
  <2>2. 1048576 * 128 <= Word /\ Word \in Nat
    BY WordAssumption, SMT DEF DisksFit, BytesFit
  <2> HIDE DEF z
  <2>5. U32(z) = z
    BY <2>1, <2>2, SMT DEF U32
  <2>3. U32(z + 4096 - 1) = z + 4095
    BY <2>1, <2>2, SMT DEF U32
  <2>4. UsedBy(z) = 1
    BY <2>1, <2>3, SMT DEF UsedBy, CDIV
  <2> QED BY <2>4, <2>5 DEF z, Stored
<1>9. at["loader"] = 528 /\ at["kernel"] = 536
  <2>1. at["loader"] = ClusterSector(fat.bpb, 3)
    BY <1>1, <1>2 DEF OrderInv, Stored
  <2>2. at["kernel"] = ClusterSector(fat.bpb, 3 + 1)
    BY <1>1, <1>2, <1>8 DEF OrderInv
  <2>3. 3 + 1 = 4
    OBVIOUS
  <2> QED BY <1>7, <2>1, <2>2, <2>3
<1>10. FirstPartition = 3
  BY <1>1, <1>3, LaidOut DEF FatInv, DiskLaidOut
<1>11. FirstSector("loader") = LoaderSector /\ FirstSector("kernel") = KernelSector
  BY <1>9, <1>10, SMT DEF FirstSector, LoaderSector, KernelSector
<1>12. file["mbr"] \in 1..440
  BY DEF Sane
<1>13. mbr = MbrCode(file["mbr"])
  <2>1. file["mbr"] >= 0
    BY <1>12
  <2> QED BY <1>1, <2>1 DEF DoneInv
<1>14. mbr = file["mbr"] /\ mbr > 0
  BY <1>12, <1>13, SMT DEF MbrCode
<1> QED BY <1>11, <1>14

\* With them, and with files in order, the chain goes on.
NotLost == Sane /\ Matching => stage \notin {"lost", "die"}

\* No step of a chain whose files are in order and whose constants match ends it.
LEMMA StaysOnTrack ==
  ASSUME DisksFit, ToolInv, ChainInv, NotLost, [PayloadNext]_pvars
  PROVE  NotLost'
<1> SUFFICES ASSUME Sane', Matching', stage' \in {"lost", "die"} PROVE FALSE
  BY DEF NotLost
<1>1. CASE stage' = stage
  <2>1. stage # "off"
    BY <1>1
  <2>2. pc = "exit0"
    BY <2>1 DEF ChainInv
  <2>3. [Next]_vars
    BY PayloadStepIsToolStep
  <2>4. vars' = vars
    BY <2>2, <2>3, DoneStays
  <2>5. khdr' = khdr
    BY <2>1 DEF PayloadNext, BootNext, Booting, GetPayload, pvars, bvars, boot, PowerOn, RunMbr,
       RunLoader, ReadHeader, ReadSetup, ReadKernel, Jump, RunCode16, PayloadOpen, PayloadCheck,
       PayloadWrite, PayloadWriteFails
  <2>6. file' = file /\ at' = at /\ tool' = tool /\ opts' = opts
    BY <2>4 DEF vars
  <2>7. Sane /\ Matching
    BY <2>5, <2>6 DEF Sane, Matching
  <2> QED BY <1>1, <2>7 DEF NotLost
<1>2. CASE stage' # stage
  <2>1. Booting
    BY <1>2 DEF PayloadNext, BootNext, GetPayload, pvars, bvars, boot, PayloadOpen, PayloadCheck,
       PayloadWrite, PayloadWriteFails
  <2>2. RunMbr \/ RunLoader \/ ReadHeader \/ ReadSetup
    BY <2>1 DEF Booting, PowerOn, ReadKernel, Jump, RunCode16
  <2>3. /\ khdr' = khdr /\ file' = file /\ at' = at /\ tool' = tool /\ opts' = opts
        /\ stage \in {"mbr", "loader", "header", "setup"}
    BY <2>2 DEF RunMbr, RunLoader, ReadHeader, ReadSetup, vars
  <2>4. Sane /\ Matching
    BY <2>3 DEF Sane, Matching
  <2>5. pc = "exit0" /\ khdr \in Headers
    BY <2>3 DEF ChainInv
  <2>6. /\ FirstSector("loader") = LoaderSector /\ FirstSector("kernel") = KernelSector
        /\ mbr = file["mbr"] /\ mbr > 0
    BY <2>4, <2>5, SectorsMatch
  <2>7. CASE RunMbr
    BY <2>6, <2>7 DEF RunMbr
  <2>8. CASE RunLoader
    <3>1. stage = "loader"
      BY <2>8 DEF RunLoader
    <3>2. ip = LoaderAddr /\ MemShape(mem, khdr) /\ Len(mem) >= 2
      BY <3>1, ChainShape DEF ChainInv
    <3>3. SectorAt(mem, ip) = FirstSector("loader")
      BY <2>5, <2>6, <3>2, LoaderStays
    <3>4. at["loader"] # 0 /\ file["loader"] > 0 /\ ~ LoaderCutShort
      <4>1. file["loader"] \in 1..1024 /\ at["loader"] # 0
        BY <2>4 DEF Sane
      <4> QED BY <4>1, SMTT(60) DEF LoaderCutShort
    <3> QED BY <2>8, <3>3, <3>4 DEF RunLoader
  <2>9. CASE ReadHeader
    <3>1. HeaderFound
      BY <2>4, <2>6 DEF HeaderFound, Sane
    <3> QED BY <2>9, <3>1 DEF ReadHeader
  <2>10. CASE ReadSetup
    <3>1. SetupSects(khdr) \in Nat /\ SetupSects(khdr) <= 63
      <4>1. khdr.setup_sects <= 62
        BY <2>4 DEF Sane
      <4> QED BY <2>5, <4>1, ShortSetup
    <3>2. ~ HitsStack(khdr)
      BY <3>1, SMT DEF HitsStack, SetupAddr, StackTop
    <3>3. khdr.high
      BY <2>4 DEF Sane
    <3> QED BY <2>10, <3>2, <3>3 DEF ReadSetup
  <2> QED BY <2>2, <2>7, <2>8, <2>9, <2>10
<1> QED BY <1>1, <1>2
\* What the chain needs to know of the disk.
LEMMA OnTrack == ASSUME DisksFit PROVE PayloadSpec => []NotLost
<1>1. PayloadSpec => []ToolInv
  BY ToolInvariant
<1>2. PayloadSpec => []ChainInv
  BY ChainInvariant
<1>3. PayloadInit => NotLost
  BY DEF PayloadInit, BootInit, NotLost
<1>4. ToolInv /\ ChainInv /\ NotLost /\ [PayloadNext]_pvars => NotLost'
  BY StaysOnTrack
<1> QED BY <1>1, <1>2, <1>3, <1>4, PTL DEF PayloadSpec

\* The rest of the real-mode code stays where it was read to.
LEMMA SetupInPlace ==
  ASSUME NEW h \in Headers, NEW m, m = FullMem(h), h.setup_sects <= 62,
         NEW k \in Nat, 2 <= k, k < SetupSects(h)
  PROVE  SectorAt(m, SetupAddr + 512 * k) = KernelSector + k
<1> DEFINE a == SetupAddr + 512 * k
           s == SetupSects(h)
<1>1. s \in Nat /\ s <= 63 /\ s > 2
  <2>1. SetupSects(h) \in Nat /\ SetupSects(h) <= 63
    BY ShortSetup
  <2> QED BY <2>1
<1>2. MemShape(m, h) /\ Len(m) >= 5 /\ m[5] = SetupRead(h) /\ Len(m) \in 4..6
  BY <1>1, FullShape
<1>3. m \in Seq(Reads)
  BY <1>2 DEF MemShape
<1>4. DOMAIN m = 1..Len(m) /\ Len(m) \in Nat
  BY <1>3
<1>5. /\ SetupRead(h).addr = \h2400 /\ SetupRead(h).n = s - 2 /\ SetupRead(h).sector = 541
      /\ KernelSector = 539 /\ a = \h2000 + 512 * k
  BY SMT DEF SetupRead, ReadOf, SetupAddr, KernelSector
<1>6. ASSUME NEW j \in DOMAIN m, j > 5 PROVE m[j].addr = \h100000
  <2>1. m[j] = KernelRead(h)
    <3>1. j \in 1..Len(m) /\ j # 1 /\ j # 2 /\ j # 3 /\ j # 4 /\ j # 5
      BY <1>4, <1>6
    <3> QED BY <1>2, <3>1 DEF MemShape
  <2> QED BY <2>1, SMT DEF KernelRead, ReadOf, KernelAddr
<1>7. k < s
  OBVIOUS
<1> HIDE DEF a, s
<1>8. a \in Nat /\ a >= \h2400 /\ a < \h2400 + 512 * (s - 2) /\ a < \h100000
      /\ (a - \h2400) \div 512 = k - 2
  BY <1>1, <1>5, <1>7, SMT
<1>9. 5 \in DOMAIN m /\ LastOver(m, 5, a)
  <2>1. 5 \in DOMAIN m
    BY <1>2, <1>4
  <2>2. \A j \in DOMAIN m : j > 5 => ~ Covers(m, j, a)
    BY <1>6, <1>8, SMT DEF Covers
  <2>3. Covers(m, 5, a)
    BY <1>2, <1>5, <1>8, SMT DEF Covers
  <2> QED BY <2>1, <2>2, <2>3 DEF LastOver
<1>10. SectorAt(m, a) = m[5].sector + (a - m[5].addr) \div 512
  BY <1>4, <1>9, SectorOfRead
<1>11. SectorAt(m, a) = 541 + (k - 2)
  BY <1>2, <1>5, <1>8, <1>10
<1> QED BY <1>5, <1>11, SMT DEF a

\* Byte x of the kernel stays where it was read to.
LEMMA KernelInPlace ==
  ASSUME NEW h \in Headers, NEW m, m = FullMem(h), NEW x \in Nat, x < 512 * KernelSectors(h)
  PROVE  SectorAt(m, KernelAddr + x) = KernelSector + SetupSects(h) + x \div 512
<1> DEFINE a == KernelAddr + x
           s == SetupSects(h)
           z == KernelSectors(h)
           l == Len(m)
<1>1. s \in 0..255 /\ z \in Nat
  <2>1. s \in 0..255 /\ z \in Int
    BY HeaderCounts
  <2>2. x < 512 * z
    OBVIOUS
  <2> HIDE DEF z, s
  <2> QED BY <2>1, <2>2
<1>2. s \in Nat
  BY <1>1
<1>3. z > 0
  <2>1. x < 512 * z
    OBVIOUS
  <2> HIDE DEF z
  <2> QED BY <1>1, <2>1
<1>4. MemShape(m, h) /\ l >= 5 /\ m[l] = KernelRead(h) /\ l \in 4..6
  BY <1>3, FullShape
<1>5. m \in Seq(Reads)
  BY <1>4 DEF MemShape
<1>6. DOMAIN m = 1..l /\ l \in Nat
  BY <1>5
<1>7. /\ KernelRead(h).addr = \h100000 /\ KernelRead(h).n = z
      /\ KernelRead(h).sector = KernelSector + s
      /\ KernelSector = 539 /\ a = \h100000 + x /\ KernelAddr = \h100000
  BY SMT DEF KernelRead, ReadOf, KernelAddr, KernelSector
<1>8. x < 512 * z
  OBVIOUS
<1> SUFFICES SectorAt(m, a) = 539 + s + x \div 512
  BY <1>7
<1> HIDE DEF a, s, z, l
<1>9. l \in DOMAIN m /\ LastOver(m, l, a)
  <2>1. l \in DOMAIN m
    BY <1>4, <1>6
  <2>2. \A j \in DOMAIN m : ~ (j > l)
    BY <1>6
  <2>3. Covers(m, l, a)
    BY <1>1, <1>4, <1>7, <1>8, SMT DEF Covers
  <2> QED BY <2>1, <2>2, <2>3 DEF LastOver
<1>10. SectorAt(m, a) = m[l].sector + (a - m[l].addr) \div 512
  BY <1>6, <1>9, SectorOfRead
<1>11. (a - \h100000) = x
  BY <1>7, SMT
<1> QED BY <1>2, <1>4, <1>7, <1>10, <1>11
\* The sectors of a running kernel.
LEMMA RunsInPlace ==
  ASSUME ChainInv, stage = "running", khdr.setup_sects <= 62, FileSize(khdr) < Word
  PROVE  /\ InPlace(SetupAddr, 0, RealModeSectors(khdr))
         /\ InPlace(KernelAddr, RealModeSectors(khdr), khdr.syssize \div 32)
         /\ SectorAt(mem, ip) = KernelSector + 1
<1>1. /\ mem = FullMem(khdr) /\ khdr \in Headers /\ ip = SetupAddr + 512
      /\ FirstSector("kernel") = KernelSector
  BY DEF ChainInv, HeaderFound
<1>2. MemShape(mem, khdr)
  BY ChainShape
<1>3. Len(mem) >= 4
  <2>1. Len(mem) \in 4..6
    BY <1>1, FullShape
  <2>2. \A n \in 4..6 : n >= 4
    OBVIOUS
  <2> QED BY <2>1, <2>2
<1>4. KernelSector \in Nat
  BY SMT DEF KernelSector
<1> DEFINE s == RealModeSectors(khdr)
           z == khdr.syssize \div 32
<1>5. s = SetupSects(khdr) /\ z = KernelSectors(khdr)
  BY <1>1, HeaderCounts
<1>6. s \in Nat /\ z \in Nat
  <2>1. SetupSects(khdr) \in Nat
    BY <1>1, ShortSetup
  <2> QED BY <1>1, <1>5, <2>1, HeaderCounts
<1> HIDE DEF s, z
<1>7. ASSUME NEW k \in 0..s - 1
      PROVE  SectorAt(mem, SetupAddr + 512 * k) = FirstSector("kernel") + 0 + k
  <2>1. SectorAt(mem, SetupAddr + 512 * k) = KernelSector + k
    <3>1. CASE k < 2
      <4>1. k \in 0..1
        BY <1>6, <3>1
      <4> QED BY <1>1, <1>2, <1>3, <4>1, HeaderStays
    <3>2. CASE ~ (k < 2)
      <4>1. k \in Nat /\ 2 <= k /\ k < SetupSects(khdr)
        BY <1>5, <1>6, <3>2
      <4> QED BY <1>1, <4>1, SetupInPlace
    <3> QED BY <3>1, <3>2
  <2>2. KernelSector + k = KernelSector + 0 + k
    BY <1>4
  <2> QED BY <1>1, <2>1, <2>2
<1>8. ASSUME NEW k \in 0..z - 1
      PROVE  SectorAt(mem, KernelAddr + 512 * k) = FirstSector("kernel") + s + k
  <2> DEFINE x == 512 * k
  <2>1. x \in Nat /\ x < 512 * z /\ x \div 512 = k
    BY <1>6
  <2> HIDE DEF x
  <2>2. x < 512 * KernelSectors(khdr)
    BY <1>5, <2>1
  <2>3. SectorAt(mem, KernelAddr + x) = KernelSector + SetupSects(khdr) + x \div 512
    BY <1>1, <2>1, <2>2, KernelInPlace
  <2>4. SectorAt(mem, KernelAddr + x) = FirstSector("kernel") + s + k
    BY <1>1, <1>5, <2>1, <2>3
  <2> QED BY <2>4 DEF x
<1>9. SectorAt(mem, ip) = KernelSector + 1
  <2>1. 1 \in 0..1 /\ 512 * 1 = 512
    OBVIOUS
  <2>2. SectorAt(mem, SetupAddr + 512 * 1) = KernelSector + 1
    BY <1>1, <1>2, <1>3, <2>1, HeaderStays
  <2> QED BY <1>1, <2>1, <2>2
<1>10. InPlace(SetupAddr, 0, s) /\ InPlace(KernelAddr, s, z)
  BY <1>7, <1>8 DEF InPlace
<1> QED BY <1>9, <1>10 DEF s, z

\* mkgpt, createFAT32, FAT32Copyin, mbr.c, bzimage.S and bzimage.c agree on where the
\* loader and the kernel are, for every kernel of less than 2^32 bytes: the
\* chain is never lost and every full sector of the kernel is in its place.
THEOREM ChainFindsKernel == ASSUME DisksFit PROVE PayloadSpec => []BootFindsKernel
<1>1. PayloadSpec => []ChainInv
  BY ChainInvariant
<1>2. PayloadSpec => []NotLost
  BY OnTrack
<1>3. ChainInv /\ NotLost => BootFindsKernel
  <2> SUFFICES ASSUME ChainInv, NotLost, Sane, Matching
               PROVE  /\ stage \notin {"lost", "die"}
                      /\ stage = "running" =>
                           /\ InPlace(SetupAddr, 0, RealModeSectors(khdr))
                           /\ InPlace(KernelAddr, RealModeSectors(khdr), khdr.syssize \div 32)
                           /\ SectorAt(mem, ip) = KernelSector + 1
    BY DEF BootFindsKernel
  <2>1. stage \notin {"lost", "die"}
    BY DEF NotLost
  <2>2. khdr.setup_sects <= 62 /\ FileSize(khdr) < Word
    BY DEF Sane
  <2> QED BY <2>1, <2>2, RunsInPlace
<1> QED BY <1>1, <1>2, <1>3, PTL

----------------------------------------------------------------------------
(* getpayload.                                                             *)

\* What getpayload has written.
PayloadInv ==
  /\ ppc \in {"idle", "check", "write", "exit0", "exit1"}
  /\ ppc # "idle" => stage \in {"running", "die"}
  /\ ppc = "exit0" => pout = [off |-> PayloadOffset(khdr), len |-> khdr.plen]

\* getpayload runs on a kernel that does not change any more.
LEMMA PayloadStep ==
  ASSUME ChainInv, PayloadInv, [PayloadNext]_pvars
  PROVE  PayloadInv'
<1>1. CASE GetPayload
  <2>1. khdr' = khdr /\ stage' = stage
    BY <1>1 DEF GetPayload, PayloadOpen, PayloadCheck, PayloadWrite, PayloadWriteFails, bvars, boot
  <2>2. CASE PayloadOpen \/ PayloadCheck \/ PayloadWriteFails
    BY <2>1, <2>2 DEF PayloadInv, PayloadOpen, PayloadCheck, PayloadWriteFails
  <2>3. CASE PayloadWrite
    BY <2>1, <2>3 DEF PayloadInv, PayloadWrite
  <2> QED BY <1>1, <2>2, <2>3 DEF GetPayload
<1>2. CASE ~ GetPayload
  <2>1. ppc' = ppc /\ pout' = pout
    BY <1>2 DEF PayloadNext, pvars, payload
  <2>2. ppc # "idle" => khdr' = khdr /\ stage' = stage
    <3> SUFFICES ASSUME ppc # "idle" PROVE khdr' = khdr /\ stage' = stage
      OBVIOUS
    <3>1. stage \in {"running", "die"}
      BY DEF PayloadInv
    <3> QED BY <1>2, <3>1 DEF PayloadNext, BootNext, Booting, pvars, bvars, boot, PowerOn, RunMbr,
         RunLoader, ReadHeader, ReadSetup, ReadKernel, Jump, RunCode16
  <2>3. CASE ppc = "idle"
    BY <2>1, <2>3 DEF PayloadInv
  <2>4. CASE ppc # "idle"
    BY <2>1, <2>2, <2>4 DEF PayloadInv
  <2> QED BY <2>3, <2>4
<1> QED BY <1>1, <1>2

\* ChainInv and PayloadInv imply the property.
LEMMA WhereLoaded ==
  ASSUME ChainInv, PayloadInv, ppc = "exit0"
  PROVE  /\ stage = "running" /\ pout.len > 0 =>
              \A k \in {0, pout.len \div 2, pout.len - 1} :
                pout.off + k < 512 * (ImageSize(khdr) \div 512) =>
                  Holds(KernelAddr + khdr.poff + k, pout.off + k)
         /\ khdr.setup_sects < 255 => pout.off = 512 * RealModeSectors(khdr) + khdr.poff
         /\ pout.len = khdr.plen
<1> DEFINE p == khdr.poff
           q == khdr.plen
           s == SetupSects(khdr)
<1>1. khdr \in Headers
  BY DEF ChainInv, PayloadInv
<1>2. p \in Nat /\ q \in Nat /\ khdr.setup_sects \in 0..255 /\ khdr.syssize \in Nat
  BY <1>1, BootAssumption
<1>3. s \in 0..255 /\ KernelSectors(khdr) \in Int
      /\ (khdr.setup_sects < 255 => s = RealModeSectors(khdr))
  BY <1>1, HeaderCounts
<1>4. s \in Nat
  BY <1>3
<1>5. PayloadOffset(khdr) = p + 512 * s
  <2>1. SkipSects(khdr) = s
    BY <1>2 DEF SkipSects, SetupSects
  <2> QED BY <2>1 DEF PayloadOffset
<1>6. pout.off = p + 512 * s /\ pout.len = q
  BY <1>5 DEF PayloadInv
<1>7. ASSUME stage = "running", q > 0, NEW k \in {0, q \div 2, q - 1},
             p + 512 * s + k < 512 * (ImageSize(khdr) \div 512)
      PROVE  Holds(KernelAddr + p + k, p + 512 * s + k)
  <2> DEFINE x == p + k
  <2>1. k \in Nat
    BY <1>2, <1>7
  <2>2. ImageSize(khdr) \div 512 = KernelSectors(khdr) + s
    <3> DEFINE i == ImageSize(khdr) \div 512
    <3>1. ImageSize(khdr) \in Int
      BY <1>2, <1>4, WordAssumption DEF ImageSize, U32
    <3>2. i \in Int
      BY <3>1
    <3>3. KernelSectors(khdr) = i - s
      BY DEF KernelSectors
    <3> HIDE DEF i, s
    <3>4. i = KernelSectors(khdr) + s
      BY <1>4, <3>2, <3>3
    <3> QED BY <3>4 DEF i
  <2>3. x \in Nat /\ x < 512 * KernelSectors(khdr)
    <3> HIDE DEF p, s
    <3> QED BY <1>2, <1>3, <1>4, <1>7, <2>1, <2>2
  <2>4. mem = FullMem(khdr) /\ FirstSector("kernel") = KernelSector
    BY <1>7 DEF ChainInv, HeaderFound
  <2>5. KernelAddr = \h100000 /\ KernelSector \in Nat
    BY SMT DEF KernelAddr, KernelSector
  <2> HIDE DEF s, p
  <2>6. KernelAddr + p + k = KernelAddr + x /\ p + 512 * s + k = 512 * s + x
    BY <1>2, <1>4, <2>1, <2>5
  <2> HIDE DEF x
  <2>7. SectorAt(mem, KernelAddr + x) = KernelSector + SetupSects(khdr) + x \div 512
    BY <1>1, <2>3, <2>4, KernelInPlace
  <2>8. (512 * s + x) \div 512 = s + x \div 512 /\ (512 * s + x) % 512 = x % 512
    BY <1>4, <2>3
  <2>9. (KernelAddr + x) - KernelAddr = x
    BY <2>3, <2>5
  <2>10. KernelSector + s + x \div 512 = KernelSector + (s + x \div 512)
    BY <1>4, <2>3, <2>5
  <2>11. Holds(KernelAddr + x, 512 * s + x)
    BY <2>4, <2>7, <2>8, <2>9, <2>10 DEF Holds, s
  <2> QED BY <2>6, <2>11
<1>8. khdr.setup_sects < 255 => pout.off = 512 * RealModeSectors(khdr) + p
  BY <1>2, <1>3, <1>4, <1>6
<1> HIDE DEF s
<1> QED BY <1>6, <1>7, <1>8

\* bzimage.c and getpayload.c agree on where the payload of every kernel is, for the
\* part of it the loader has read and any number of setup sectors.
THEOREM PayloadFound == PayloadSpec => []PayloadWhereLoaded
<1>1. PayloadSpec => []ChainInv
  BY ChainInvariant
<1>2. PayloadInit => PayloadInv
  BY DEF PayloadInit, PayloadInv
<1>3. ChainInv /\ PayloadInv /\ [PayloadNext]_pvars => PayloadInv'
  BY PayloadStep
<1>4. ChainInv /\ PayloadInv => PayloadWhereLoaded
  BY WhereLoaded DEF PayloadWhereLoaded
<1> QED BY <1>1, <1>2, <1>3, <1>4, PTL DEF PayloadSpec
=============================================================================
