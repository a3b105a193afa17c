---------------------------- MODULE Fat32Proofs ----------------------------
(***************************************************************************)
(* Proofs about Fat32, for volumes that 32-bit offsets can address         *)
(* (VolumesFit).                                                           *)
(***************************************************************************)
EXTENDS Fat32, Induction

----------------------------------------------------------------------------
(* Arithmetic.                                                             *)

\* Euclidean division by a variable divisor.
LEMMA DivMod ==
  ASSUME NEW n \in Nat, NEW d \in Nat \ {0}
  PROVE  /\ n \div d \in Nat
         /\ n % d \in 0..d - 1
         /\ n = (n \div d) * d + (n % d)
  BY SMT

\* Products of natural numbers; the provers do not see this by themselves.
LEMMA Product ==
  ASSUME NEW m \in Nat, NEW n \in Nat
  PROVE  m * n \in Nat
  BY SMT

\* Multiplication is monotone.
LEMMA MulMono ==
  ASSUME NEW m \in Nat, NEW n \in Nat, NEW k \in Nat, m <= n
  PROVE  m * k <= n * k
  BY SMT

\* A number that fits in uint32_t is not changed by truncation to it.
LEMMA U32Small ==
  ASSUME NEW n \in 0..Word - 1
  PROVE  U32(n) = n
  BY WordAssumption, SMT DEF U32
----------------------------------------------------------------------------
(* The geometry createFAT32 gives a volume.                                *)

Formatted(b) ==
  \E c \in Configs : Valid(c) /\ NumClusterOnDisk(c) > 2 /\ b = BpbOf(c)

\* Division by a valid cluster size or FAT sector capacity.
LEMMA DivCluster ==
  ASSUME NEW n \in Nat, NEW d \in {1, 2, 4, 8, 16, 32, 64, 128}
  PROVE  n \div d \in Nat /\ (n \div d) * d <= n /\ n \div d <= n
  BY SMT

\* CDIV rounds up: enough table sectors for n clusters, and less than one too many.
LEMMA CeilEntries ==
  ASSUME NEW n \in Nat, NEW d \in {128, 256, 512, 1024}
  PROVE  LET q == (n + d - 1) \div d
         IN q \in Nat /\ n <= q * d /\ q * d <= n + d - 1 /\ (n > 0 => q > 0)
  BY SMT

\* fatSize32 is not affected by 32-bit wrap: the tables have an entry for every
\* cluster, and at most one sector of entries more.
LEMMA FatSize ==
  ASSUME VolumesFit, NEW c \in Configs, Valid(c), NumClusterOnDisk(c) > 2
  PROVE  LET b == BpbOf(c) eps == c.bytesPerSector \div 4
         IN /\ eps \in {128, 256, 512, 1024} /\ 4 * eps = c.bytesPerSector
            /\ c.nSector \in Nat /\ c.nSector * c.bytesPerSector <= Word
            /\ c.nSector + eps < Word
            /\ NumClusterOnDisk(c) \in Nat /\ NumClusterOnDisk(c) <= c.nSector
            /\ b.fatSize32 \in Nat
            /\ b.fatSize32 * eps \in NumClusterOnDisk(c)..NumClusterOnDisk(c) + eps - 1
  <1> DEFINE eps == c.bytesPerSector \div 4
             nC == NumClusterOnDisk(c)
  <1>1. eps \in {128, 256, 512, 1024} /\ 4 * eps = c.bytesPerSector
    BY SMT DEF Valid
  <1>2. c.nSector \in Nat /\ c.nSector * c.bytesPerSector <= Word /\ Word \in Nat
    BY ConfigAssumption, WordAssumption, Product, SMT DEF VolumesFit
  <1>3. c.nSector + eps < Word
    BY <1>1, <1>2, SMT DEF Valid
  <1>4. nC \in Nat /\ nC <= c.nSector
    BY <1>2, DivCluster DEF Valid, NumClusterOnDisk
  <1>5. U32(nC + eps - 1) = nC + eps - 1
    <2>1. nC + eps - 1 \in 0..Word - 1
      BY <1>1, <1>2, <1>3, <1>4, SMT
    <2> QED BY <2>1, U32Small
  <1>6. BpbOf(c).fatSize32 = (nC + eps - 1) \div eps
    BY <1>5 DEF BpbOf, CDIV
  <1>7. BpbOf(c).fatSize32 \in Nat /\ BpbOf(c).fatSize32 * eps \in nC..nC + eps - 1
    <2> HIDE DEF eps, nC
    <2> QED BY <1>1, <1>4, <1>6, CeilEntries, SMT
  <1> QED BY <1>1, <1>2, <1>3, <1>4, <1>7

\* DataStart does not pass the end of the volume, and a cluster number below
\* MaxCluster is inside the tables.
LEMMA DataRegion ==
  ASSUME VolumesFit, NEW c \in Configs, Valid(c), NumClusterOnDisk(c) > 2
  PROVE  LET b == BpbOf(c)
         IN /\ DataStart(b) \in 10..c.nSector
            /\ MaxCluster(b) \in Nat
            /\ MaxCluster(b) * c.clusterSize <= c.nSector - DataStart(b)
            /\ FatEntries(b) \in Nat
            /\ MaxCluster(b) <= FatEntries(b)
            /\ 2 * FatEntries(b) - 3 \in 3..Word - 1
  <1> DEFINE eps == c.bytesPerSector \div 4
             nC == NumClusterOnDisk(c)
             b == BpbOf(c)
             fs == b.fatSize32
             free == c.nSector - DataStart(b)
  <1>0. Word \in Nat
    BY WordAssumption, Product
  <1>1. /\ eps \in {128, 256, 512, 1024} /\ 4 * eps = c.bytesPerSector
        /\ c.nSector \in Nat /\ c.nSector * c.bytesPerSector <= Word
        /\ c.nSector + eps < Word
        /\ nC \in Nat /\ nC <= c.nSector
        /\ fs \in Nat /\ fs * eps \in nC..nC + eps - 1
    BY FatSize
  <1>2. c.nSector >= 16 /\ nC > 2
    BY DEF Valid
  <1>3. DataStart(b) = 8 + fs * 2
    BY DEF DataStart, BpbOf
  <1>4. FatEntries(b) = fs * eps
    BY DEF FatEntries, BpbOf
  <1>5. fs > 0 /\ 8 + fs * 2 <= c.nSector
    <2> HIDE DEF eps, nC, b, fs
    <2> QED BY <1>1, <1>2, SMT
  <1>6. DataStart(b) \in 10..c.nSector
    BY <1>1, <1>3, <1>5, SMT
  <1>7. free \in 0..Word - 1
    BY <1>0, <1>1, <1>6, SMT
  <1>8. MaxCluster(b) = free \div c.clusterSize
    BY <1>7, U32Small DEF MaxCluster, BpbOf
  <1>9. MaxCluster(b) \in Nat /\ MaxCluster(b) * c.clusterSize <= free
    BY <1>7, <1>8, DivCluster DEF Valid
  <1>10. MaxCluster(b) <= nC
    <2>1. c.clusterSize \in {1, 2, 4, 8, 16, 32, 64, 128}
      BY DEF Valid
    <2>2. free <= c.nSector
      BY <1>1, <1>6, SMT
    <2>3. \A m, n \in Nat : m <= n => m \div c.clusterSize <= n \div c.clusterSize
      BY <2>1, SMT
    <2> QED BY <1>1, <1>7, <1>8, <2>2, <2>3, SMT DEF NumClusterOnDisk
  <1>11. 2 * FatEntries(b) - 3 \in 3..Word - 1
    <2> HIDE DEF eps, nC, b, fs, free
    <2> QED BY <1>0, <1>1, <1>2, <1>4, SMT
  <1> QED BY <1>1, <1>4, <1>6, <1>9, <1>10, <1>11, SMT

\* What createFAT32 guarantees of a volume within 2^32 bytes: no product of
\* FAT32SuperInit wraps, and every cluster has an entry in the tables.
LEMMA Geometry ==
  ASSUME VolumesFit, NEW b, Formatted(b)
  PROVE  LET bpc == BytesPerCluster(b) M == MaxCluster(b)
         IN /\ b \in Bpbs /\ b.numSectorPerCluster > 0
            /\ bpc \in Nat \ {0} /\ M \in Nat /\ M < Word /\ M * bpc < Word
            /\ FatEntries(b) \in Nat /\ M <= FatEntries(b)
            /\ 2 * FatEntries(b) - 3 \in 3..Word - 1
            /\ \A k \in 2..M : ClusterSector(b, k) \in Nat \ {0}
            /\ \A k \in 2..M - 1 : SectorAddressable(b, ClusterSector(b, k))
  <1> PICK c \in Configs : Valid(c) /\ NumClusterOnDisk(c) > 2 /\ b = BpbOf(c)
    BY DEF Formatted
  <1> DEFINE ns == c.nSector
             bps == c.bytesPerSector
             spc == c.clusterSize
             D == DataStart(b)
             M == MaxCluster(b)
  <1>1. /\ D \in 10..ns /\ M \in Nat /\ M * spc <= ns - D
        /\ FatEntries(b) \in Nat /\ M <= FatEntries(b)
        /\ 2 * FatEntries(b) - 3 \in 3..Word - 1
    BY DataRegion
  <1>2. /\ ns \in Nat /\ ns * bps <= Word /\ Word \in Nat /\ b.fatSize32 \in Nat
    BY FatSize, WordAssumption, Product
  <1>3. /\ bps \in {512, 1024, 2048, 4096}
        /\ spc \in {1, 2, 4, 8, 16, 32, 64, 128}
    BY DEF Valid
  <1>4. /\ b.numSectors32 = ns /\ b.bytesPerSector = bps
        /\ b.numSectorPerCluster = spc
    BY DEF BpbOf
  <1>5. b \in Bpbs
    BY <1>2, <1>3, SMT DEF BpbOf, Bpbs
  <1>6. BytesPerCluster(b) = spc * bps /\ BytesPerCluster(b) \in Nat \ {0}
    BY <1>3, <1>4, SMT DEF BytesPerCluster
  <1>7. M < Word
    <2> HIDE DEF ns, bps, spc, D, M
    <2> QED BY <1>1, <1>2, <1>3, SMT
  <1>8. M * BytesPerCluster(b) < Word
    <2> HIDE DEF ns, bps, spc, D, M
    <2>1. M * (spc * bps) = (M * spc) * bps /\ M * spc \in Nat
      BY <1>1, <1>3, SMT
    <2>2. (M * spc) * bps <= (ns - D) * bps
      BY <1>1, <1>2, <1>3, <2>1, MulMono, SMT
    <2>3. (ns - D) * bps < ns * bps
      BY <1>1, <1>2, <1>3, SMT
    <2> QED BY <1>1, <1>2, <1>3, <1>6, <2>1, <2>2, <2>3, SMT
  <1>9. ASSUME NEW k \in 2..M
        PROVE  ClusterSector(b, k) \in Nat \ {0}
    <2>1. (k - 2) * spc \in Nat
      BY <1>1, <1>3, SMT
    <2> QED BY <1>1, <1>4, <2>1, SMT DEF ClusterSector
  <1>10. ASSUME NEW k \in 2..M - 1
         PROVE  SectorAddressable(b, ClusterSector(b, k))
    <2> DEFINE s == (k - 2) * spc + D
    <2>1. s \in Nat /\ s < ns
      <3> HIDE DEF ns, bps, spc, D, M
      <3>1. (k - 2) * spc \in Nat /\ (k - 2) * spc < M * spc /\ M * spc \in Nat
        BY <1>1, <1>3, SMT
      <3> QED BY <1>1, <1>2, <3>1, SMT
    <2>2. s * bps \in 0..Word - 1
      <3> HIDE DEF ns, bps, spc, D, M, s
      <3> QED BY <1>2, <1>3, <2>1, SMT
    <2>3. U32(s * bps) = s * bps
      BY <2>2, U32Small
    <2> QED BY <1>4, <2>1, <2>3 DEF SectorAddressable, SectorOffset, ClusterSector
  <1> QED BY <1>1, <1>3, <1>4, <1>5, <1>6, <1>7, <1>8, <1>9, <1>10, SMT

\* maxFileSize and allocCluster are exact, so an accepted file fits between
\* nextFree and the end of the volume.
LEMMA Allocation ==
  ASSUME VolumesFit, NEW b, Formatted(b),
         NEW next \in 3..MaxCluster(b), NEW size \in 0..Word - 1,
         ~ (MaxFileSize(b, next) < size)
  PROVE  /\ CDIV(size, BytesPerCluster(b)) = Clusters(b, size)
         /\ Clusters(b, size) \in Nat
         /\ next + Clusters(b, size) <= MaxCluster(b)
         /\ (Clusters(b, size) = 0) = (size = 0)
  <1> DEFINE bpc == BytesPerCluster(b)
             M == MaxCluster(b)
             q == (size + bpc - 1) \div bpc
  <1>1. bpc \in Nat \ {0} /\ M \in Nat /\ M * bpc < Word /\ Word \in Nat
    BY Geometry, WordAssumption, Product
  <1> HIDE DEF bpc, M
  <1>2. M - next \in Nat /\ bpc * (M - next) \in Nat /\ bpc * (M - next) + bpc <= M * bpc
    <2>1. M - next \in Nat /\ M - next + 1 \in Nat /\ M - next + 1 <= M
      BY <1>1, SMT DEF M
    <2>2. (M - next + 1) * bpc <= M * bpc
      BY <1>1, <2>1, MulMono
    <2>3. (M - next + 1) * bpc = bpc * (M - next) + bpc
      BY <1>1, <2>1, SMT
    <2>4. bpc * (M - next) \in Nat
      BY <1>1, <2>1, Product
    <2> QED BY <2>1, <2>2, <2>3, <2>4
  <1>3. size <= bpc * (M - next)
    <2>1. U32(bpc * (M - next)) = bpc * (M - next)
      BY <1>1, <1>2, U32Small, MulMono, Product, SMT
    <2> QED BY <1>2, <2>1, SMT DEF MaxFileSize, bpc, M
  <1>4. U32(size + bpc - 1) = size + bpc - 1 /\ size + bpc - 1 \in Nat
    <2>1. M * bpc \in Nat
      BY <1>1, Product
    <2>2. size + bpc - 1 \in 0..Word - 1
      BY <1>1, <1>2, <1>3, <2>1, SMT
    <2> QED BY <2>2, U32Small
  <1>5. q \in Nat /\ q * bpc <= size + bpc - 1 /\ size <= q * bpc
    <2>1. q \in Nat /\ (size + bpc - 1) % bpc \in 0..bpc - 1
          /\ size + bpc - 1 = q * bpc + ((size + bpc - 1) % bpc)
      BY <1>1, <1>4, DivMod
    <2>2. q * bpc \in Nat
      BY <1>1, <2>1, Product
    <2> HIDE DEF q
    <2> QED BY <1>1, <2>1, <2>2, SMT
  <1> HIDE DEF q
  <1>6. q <= M - next
    <2> SUFFICES ASSUME q >= M - next + 1
                 PROVE  FALSE
      BY <1>2, <1>5, SMT
    <2>1. (M - next + 1) * bpc <= q * bpc
      BY <1>1, <1>2, <1>5, MulMono, SMT
    <2>2. (M - next + 1) * bpc = bpc * (M - next) + bpc
      BY <1>1, <1>2, SMT
    <2>3. (M - next + 1) * bpc \in Nat /\ q * bpc \in Nat
      BY <1>1, <1>2, <1>5, Product, SMT
    <2> QED BY <1>1, <1>2, <1>3, <1>5, <2>1, <2>2, <2>3, SMT
  <1>7. (q = 0) = (size = 0)
    <2>1. CASE size = 0
      <3> SUFFICES ASSUME q >= 1
                   PROVE  FALSE
        BY <1>5, <2>1, SMT
      <3>1. 1 * bpc <= q * bpc /\ 1 * bpc = bpc /\ q * bpc \in Nat
        BY <1>1, <1>5, MulMono, Product, SMT
      <3> QED BY <1>1, <1>5, <2>1, <3>1, SMT
    <2>2. CASE size # 0
      BY <1>1, <1>5, <2>2, SMT
    <2> QED BY <2>1, <2>2
  <1> QED BY <1>1, <1>2, <1>4, <1>5, <1>6, <1>7, SMT DEF CDIV, Clusters, q, bpc, M
----------------------------------------------------------------------------
(* The inductive invariant.  FilesIntact is not inductive: that a copy in  *)
(* progress will leave an intact file needs what it has written so far     *)
(* (DataInv, LinkInv, EntryInv), that it writes nothing below nextFree     *)
(* (OpInv, NextFreeUnused), and that it stays in the volume (VolumeInv).   *)

Copying == {"copy", "dirent", "link", "link2", "info", "info2"}
Linking == {"link", "link2", "info", "info2"}

\* createFAT32 counts the entries of both tables as free.  A death inside the
\* FSInfo update takes the clusters of one file off that count.
CountInv ==
  LET M == MaxCluster(bpb)
      F == FatEntries(bpb)
      lost == IF pc = "info2" THEN op.n ELSE 0
  IN /\ halfway = 0 => info.freeCount + lost + info.nextFree >= 2 * F
     /\ halfway = 1 => info.freeCount + lost + info.nextFree + M >= 2 * F

VolumeInv ==
  \/ /\ bpb = ZeroBpb /\ info = ZeroInfo /\ stored = {}
     /\ pc \in {"off", "idle", "abort"}
  \/ /\ Formatted(bpb)
     /\ info.nextFree >= 3
     /\ info.nextFree = 3 \/ info.nextFree <= MaxCluster(bpb)
     /\ DOMAIN data = 3..MaxCluster(bpb) - 1
     /\ CountInv

OpEnd == info.nextFree + (IF op.size = 0 THEN 1 ELSE op.n)

OpInv ==
  pc \in Copying =>
    /\ Formatted(bpb)
    /\ op.file \in Files
    /\ op.n = Clusters(bpb, op.size) /\ (op.n = 0) = (op.size = 0)
    /\ info.nextFree + op.n <= MaxCluster(bpb)
    /\ op.i >= 1 /\ op.next = info.nextFree + op.i - 1
    /\ pc # "info2" => op.free = info.freeCount
    /\ pc \in {"copy", "dirent"} => op.i = 1
    /\ pc \in {"link", "link2"} => op.i = 1 \/ op.i <= op.n
    /\ pc = "link2" => op.next < MaxCluster(bpb)
    /\ pc \in {"info", "info2"} => op.next = OpEnd /\ OpEnd <= MaxCluster(bpb)

DataInv ==
  pc \in {"dirent"} \cup Linking =>
    \A c \in info.nextFree..info.nextFree + op.n - 1 :
      data[c] = <<op.file, c - info.nextFree>>

LinkInv ==
  pc \in Linking =>
    /\ \A t \in 1..2, c \in info.nextFree..op.next - 1 :
         fat[t][c] = IF c + 1 < OpEnd THEN c + 1 ELSE EOC
    /\ pc = "link2" => fat[1][op.next] = LinkValue

EntryInv ==
  pc \in Linking =>
    /\ Len(root) > 0 /\ Len(root) \notin stored
    /\ root[Len(root)] = EntryOf(op.file, info.nextFree, op.size)

Inv == /\ TypeOK /\ NeverWild /\ VolumeInv /\ OpInv /\ DataInv /\ LinkInv
       /\ EntryInv /\ FilesIntact /\ NextFreeUnused
----------------------------------------------------------------------------
(* Facts about directory entries and the files they name.                  *)

\* Half, Word and the end-of-chain mark are in range.
LEMMA WordFacts == Half \in Nat /\ Word \in Nat /\ Word >= 4 /\ EOC \in 0..Word - 1
  BY WordAssumption, Product, SMT DEF EOC

\* The two 16-bit halves of an entry give back the cluster number.
LEMMA EntryFacts ==
  ASSUME NEW f \in Files, NEW c \in 0..Word - 1, NEW size \in 0..Word - 1
  PROVE  /\ EntryOf(f, c, size) \in EntryType
         /\ FirstCluster(EntryOf(f, c, size)) = c
         /\ EntryOf(f, c, size).file = f /\ EntryOf(f, c, size).fileSize = size
  <1>1. /\ c \in Nat /\ c < Half * Half /\ Half \in Nat \ {0}
    BY WordAssumption, WordFacts, SMT
  <1> DEFINE q == c \div Half
             r == c % Half
  <1>2. q \in Nat /\ r \in 0..Half - 1 /\ c = q * Half + r
    BY <1>1, DivMod
  <1> HIDE DEF q, r
  <1>3. q \in 0..Half - 1
    <2> SUFFICES ASSUME q >= Half
                 PROVE  FALSE
      BY <1>1, <1>2, SMT
    <2>1. Half * Half <= q * Half /\ q * Half \in Nat /\ Half * Half \in Nat
      BY <1>1, <1>2, MulMono, Product
    <2> QED BY <1>1, <1>2, <2>1, SMT
  <1> QED BY <1>2, <1>3, SMT DEF EntryOf, EntryType, FirstCluster, q, r

\* A directory entry names a run of clusters.
LEMMA ExtentFacts ==
  ASSUME VolumesFit, NEW b, Formatted(b), NEW e \in EntryType
  PROVE  FirstCluster(e) \in Nat /\ ExtentEnd(b, e) \in Nat
  <1>1. e.high * Half \in Nat /\ e.low \in Nat /\ e.fileSize \in Nat
    BY WordFacts, Product, SMT DEF EntryType
  <1>2. BytesPerCluster(b) \in Nat \ {0}
    BY Geometry
  <1>3. Clusters(b, e.fileSize) \in Nat
    <2>1. e.fileSize + BytesPerCluster(b) - 1 \in Nat
      BY <1>1, <1>2, SMT
    <2> QED BY <1>2, <2>1, DivMod DEF Clusters
  <1> QED BY <1>1, <1>3, SMT DEF FirstCluster, ExtentEnd

\* A step that changes nothing below nextFree keeps the stored files.
LEMMA StoredStable ==
  ASSUME VolumesFit, TypeOK, VolumeInv, FilesIntact, NextFreeUnused,
         bpb' = bpb, info'.nextFree = info.nextFree, stored' = stored,
         \A s \in stored : root'[s] = root[s],
         \A t \in 1..2, c \in 3..info.nextFree - 1 : fat'[t][c] = fat[t][c],
         \A c \in 3..info.nextFree - 1 : data'[c] = data[c]
  PROVE  FilesIntact' /\ NextFreeUnused'
  <1>1. CASE stored = {}
    BY <1>1 DEF FilesIntact, NextFreeUnused
  <1>2. CASE stored # {}
    <2>1. Formatted(bpb)
      BY <1>2 DEF VolumeInv
    <2>2. info.nextFree \in Nat
      BY WordFacts, SMT DEF TypeOK, InfoType
    <2>3. ASSUME NEW s \in stored
          PROVE  IntactIn(bpb, fat', data', root[s])
      <3> DEFINE e == root[s]
      <3>1. e \in EntryType
        BY SMT DEF TypeOK
      <3>2. FirstCluster(e) \in Nat /\ ExtentEnd(bpb, e) \in Nat
        BY <2>1, <3>1, ExtentFacts
      <3>3. IntactIn(bpb, fat, data, e) /\ ExtentEnd(bpb, e) <= info.nextFree
        BY DEF FilesIntact, NextFreeUnused, Intact
      <3>4. 3 <= FirstCluster(e)
        BY <3>3 DEF IntactIn
      <3>5. FirstCluster(e)..ExtentEnd(bpb, e) - 1 \subseteq 3..info.nextFree - 1
        BY <2>2, <3>2, <3>3, <3>4, SMT
      <3> HIDE DEF e
      <3> QED BY <3>3, <3>5 DEF IntactIn, e
    <2> QED BY <2>3 DEF FilesIntact, NextFreeUnused, Intact
  <1> QED BY <1>1, <1>2
----------------------------------------------------------------------------
(* The invariant is inductive.                                             *)

\* A process outside FAT32Copyin has well-typed locals.
LEMMA NoOpType == NoOp \in OpType
  BY WordFacts, SMT DEF NoOp, OpType

\* A call returns a well-typed result.
LEMMA ReturnedType ==
  ASSUME NEW call \in {"none", "create", "copyin"},
         NEW f \in Files \cup {NoFile}, NEW v \in Nat
  PROVE  Returned(call, f, v) \in RcType
  BY DEF Returned, RcType

\* The invariant holds of a disk that was never formatted.
LEMMA InitInv == Init => Inv
  <1> SUFFICES ASSUME Init
               PROVE  Inv
    OBVIOUS
  <1>1. bpb \in Bpbs /\ bpb6 \in Bpbs
    BY DEF Init, ZeroBpb, Bpbs
  <1>2. info \in InfoType /\ info7 \in InfoType
    BY WordFacts, SMT DEF Init, ZeroInfo, InfoType
  <1>3. fat \in [1..2 -> [0..FatEntries(bpb) - 1 -> 0..Word - 1]]
    <2>1. FatEntries(bpb) = 0
      BY SMT DEF Init, ZeroBpb, FatEntries
    <2> QED BY <2>1, SMT DEF Init
  <1>4. root \in Seq(EntryType) /\ stored \subseteq 1..Len(root) /\ halfway \in 0..2
    BY SMT DEF Init
  <1>5. op \in OpType /\ rc \in RcType
    BY NoOpType, ReturnedType DEF Init
  <1>6. TypeOK
    BY <1>1, <1>2, <1>3, <1>4, <1>5 DEF TypeOK, Init
  <1>7. VolumeInv
    BY DEF Init, VolumeInv
  <1>8. FilesIntact /\ NextFreeUnused
    BY DEF Init, FilesIntact, NextFreeUnused
  <1> QED BY <1>6, <1>7, <1>8
          DEF Inv, Init, NeverWild, OpInv, DataInv, LinkInv, EntryInv, Copying, Linking

\* Steps that leave the primary structures alone and do not enter a copy.
LEMMA Quiet ==
  ASSUME VolumesFit, Inv, UNCHANGED <<bpb, info, fat, root, data, stored, halfway>>,
         bpb6' \in Bpbs, info7' \in InfoType, op' \in OpType, rc' \in RcType,
         pc # "info2", pc' \in {"off", "idle", "abort", "sync"},
         bpb = ZeroBpb => pc' # "sync"
  PROVE  Inv'
  <1>1. TypeOK'
    BY DEF Inv, TypeOK
  <1>2. VolumeInv'
    BY DEF Inv, VolumeInv, CountInv
  <1>3. FilesIntact' /\ NextFreeUnused'
    BY StoredStable DEF Inv
  <1> QED BY <1>1, <1>2, <1>3
          DEF Inv, NeverWild, OpInv, DataInv, LinkInv, EntryInv, Copying, Linking

\* The process ends.  Inside the FSInfo update it leaves freeCount lowered by the
\* clusters of a file that is not stored, and there are at most MaxCluster.
LEMMA EndsInv ==
  ASSUME VolumesFit, Inv, ProcessEnds
  PROVE  Inv'
  <1>1. /\ pc' = "off" /\ op' = NoOp /\ rc' = Returned("none", NoFile, 0)
        /\ halfway' = IF pc = "info2" /\ halfway < 2 THEN halfway + 1 ELSE halfway
        /\ UNCHANGED <<bpb, bpb6, info, info7, fat, root, data, stored>>
    BY DEF ProcessEnds
  <1>2. op' \in OpType /\ rc' \in RcType /\ bpb6' \in Bpbs /\ info7' \in InfoType
    BY <1>1, NoOpType, ReturnedType DEF Inv, TypeOK
  <1>3. CASE pc # "info2"
    BY <1>1, <1>2, <1>3, Quiet
  <1>4. CASE pc = "info2"
    <2>1. halfway \in 0..2 /\ halfway' \in 0..2
      BY <1>1, SMT DEF Inv, TypeOK
    <2>2. TypeOK'
      BY <1>1, <1>2, <2>1 DEF Inv, TypeOK
    <2>3. Formatted(bpb) /\ info.nextFree + op.n <= MaxCluster(bpb)
      BY <1>4 DEF Inv, OpInv, Copying
    <2>4. /\ MaxCluster(bpb) \in Nat /\ FatEntries(bpb) \in Nat
          /\ info.nextFree \in Nat /\ info.freeCount \in Nat /\ op.n \in Nat
      BY <2>3, Geometry, WordFacts, SMT DEF Inv, TypeOK, InfoType, OpType
    <2>5. CountInv'
      <3>1. halfway = 0 => info.freeCount + op.n + info.nextFree >= 2 * FatEntries(bpb)
        BY <1>4 DEF Inv, VolumeInv, CountInv
      <3>2. halfway' = 0 => FALSE
        BY <1>1, <1>4, <2>1, SMT
      <3>3. halfway' = 1 => halfway = 0
        BY <1>1, <1>4, <2>1, SMT
      <3>4. halfway = 0 =>
              info.freeCount + 0 + info.nextFree + MaxCluster(bpb) >= 2 * FatEntries(bpb)
        BY <2>3, <2>4, <3>1, SMT
      <3> QED BY <1>1, <3>2, <3>3, <3>4 DEF CountInv
    <2>6. VolumeInv'
      BY <1>1, <1>4, <2>5 DEF Inv, VolumeInv
    <2>7. FilesIntact' /\ NextFreeUnused'
      BY <1>1, StoredStable DEF Inv
    <2> QED BY <1>1, <2>2, <2>6, <2>7
            DEF Inv, NeverWild, OpInv, DataInv, LinkInv, EntryInv, Copying, Linking
  <1> QED BY <1>3, <1>4

\* createFAT32 establishes the invariant, whatever the disk held.
LEMMA FormatInv ==
  ASSUME VolumesFit, Inv, NEW c \in Configs, Format(c)
  PROVE  Inv'
  <1> DEFINE b == BpbOf(c)
             F == FatEntries(b)
  <1>1. Formatted(b)
    BY DEF Formatted, Format
  <1>2. /\ b \in Bpbs /\ F \in Nat /\ MaxCluster(b) \in Nat
        /\ 2 * F - 3 \in 3..Word - 1
    BY <1>1, Geometry
  <1>3. InfoOf(c) = [freeCount |-> 2 * F - 3, nextFree |-> 3]
    <2>1. 2 * F - 3 \in 0..Word - 1
      BY <1>2, WordFacts, SMT
    <2> QED BY <2>1, U32Small DEF InfoOf
  <1>4. InfoOf(c) \in InfoType
    BY <1>2, <1>3, WordFacts, SMT DEF InfoType
  <1>5. FatOf(c) \in [1..2 -> [0..F - 1 -> 0..Word - 1]]
    BY WordFacts, <1>2, SMT DEF FatOf
  <1>6. TypeOK'
    <2>1. rc' \in RcType
      BY ReturnedType DEF Format
    <2>2. halfway' \in 0..2
      BY SMT DEF Format
    <2> QED BY <1>2, <1>4, <1>5, <2>1, <2>2 DEF Inv, TypeOK, Format
  <1>7. VolumeInv'
    <2>1. DOMAIN DataOf(c) = 3..MaxCluster(b) - 1
      BY DEF DataOf
    <2>2. info'.freeCount + 0 + info'.nextFree >= 2 * F /\ info'.nextFree = 3
      BY <1>2, <1>3, SMT DEF Format
    <2>3. CountInv'
      BY <2>2 DEF CountInv, Format
    <2> QED BY <1>1, <2>1, <2>2, <2>3, SMT DEF VolumeInv, Format
  <1>8. FilesIntact' /\ NextFreeUnused'
    BY DEF Format, FilesIntact, NextFreeUnused
  <1> QED BY <1>6, <1>7, <1>8
          DEF Inv, Format, NeverWild, OpInv, DataInv, LinkInv, EntryInv, Copying, Linking

\* FAT32SuperFree writes only the backup sectors and returns.
LEMMA SyncInv ==
  ASSUME VolumesFit, Inv, Sync
  PROVE  Inv'
  <1>1. rc' \in RcType
    BY ReturnedType DEF Inv, TypeOK, OpType, Sync
  <1> QED BY <1>1, NoOpType, Quiet DEF Inv, TypeOK, Sync
\* An accepted file: everything FAT32Copyin derives from the volume is exact.
LEMMA BeginInv ==
  ASSUME VolumesFit, Inv, NEW f \in Files, Begin(f)
  PROVE  Inv'
  <1> DEFINE size == U32(StSize[f])
             next == info.nextFree
             n == Clusters(bpb, size)
  <1>1. Formatted(bpb) /\ next <= MaxCluster(bpb)
    <2>1. bpb # ZeroBpb
      BY DEF Begin, SuperSound, ZeroBpb
    <2>2. MaxCluster(bpb) >= next
      BY DEF Begin, SuperSound
    <2>3. MaxCluster(bpb) \in Nat /\ next \in Nat
      BY <2>1, Geometry, WordFacts, SMT DEF Inv, VolumeInv, TypeOK, InfoType
    <2> QED BY <2>1, <2>2, <2>3, SMT DEF Inv, VolumeInv
  <1>2. /\ MaxCluster(bpb) \in Nat /\ MaxCluster(bpb) < Word
        /\ \A k \in 2..MaxCluster(bpb) : ClusterSector(bpb, k) \in Nat \ {0}
        /\ \A k \in 2..MaxCluster(bpb) - 1 : SectorAddressable(bpb, ClusterSector(bpb, k))
    BY <1>1, Geometry
  <1>3. next \in 3..MaxCluster(bpb)
    BY <1>1, <1>2, WordFacts, SMT DEF Inv, TypeOK, InfoType, Begin
  <1>4. size \in 0..Word - 1
    <2>1. StSize[f] \in Nat /\ Word \in Nat \ {0}
      BY FileAssumption, WordFacts, SMT
    <2> QED BY <2>1, DivMod DEF U32
  <1>5. /\ CDIV(size, BytesPerCluster(bpb)) = n /\ n \in Nat
        /\ next + n <= MaxCluster(bpb) /\ (n = 0) = (size = 0)
    BY <1>1, <1>3, <1>4, Allocation DEF Begin, Refused
  <1>6. op' = [file |-> f, size |-> size, n |-> n, i |-> 1, next |-> next,
               free |-> info.freeCount, ret |-> ClusterSector(bpb, next)]
    BY <1>5 DEF Begin, AllocCluster
  <1>7. pc' = "copy"
    <2>1. CASE n = 0
      BY <1>5, <2>1 DEF Begin, AllocCluster
    <2>2. CASE n # 0
      <3>1. next \in 2..MaxCluster(bpb) - 1
        BY <1>2, <1>3, <1>5, <2>2, SMT
      <3> QED BY <1>2, <3>1 DEF Begin
    <2> QED BY <2>1, <2>2
  <1>8. UNCHANGED <<disk, rc>>
    BY DEF Begin
  <1> HIDE DEF size, n
  <1>9. op' \in OpType
    <2>1. ClusterSector(bpb, next) \in Nat
      BY <1>2, <1>3, SMT
    <2>2. next \in 0..Word - 1 /\ info.freeCount \in 0..Word - 1
      BY DEF Inv, TypeOK, InfoType
    <2> QED BY <1>4, <1>5, <1>6, <2>1, <2>2 DEF OpType
  <1>10. TypeOK'
    BY <1>7, <1>8, <1>9 DEF Inv, TypeOK, disk
  <1>11. VolumeInv'
    BY <1>1, <1>7, <1>8 DEF Inv, VolumeInv, CountInv, disk, ZeroBpb, Begin, SuperSound
  <1>12. OpInv'
    <2>1. op'.next = next + 1 - 1
      BY <1>3, <1>6, SMT
    <2> QED BY <1>1, <1>5, <1>6, <1>7, <1>8, <2>1, SMT DEF OpInv, disk, n, size
  <1>13. FilesIntact' /\ NextFreeUnused'
    BY <1>8, StoredStable DEF Inv, disk
  <1> QED BY <1>7, <1>10, <1>11, <1>12, <1>13
          DEF Inv, NeverWild, DataInv, LinkInv, EntryInv, Linking

\* memset and read write the extent only.
LEMMA FilledFacts ==
  ASSUME VolumesFit, Inv, pc = "copy", NEW j \in Nat, data' = Filled(j)
  PROVE  /\ DOMAIN data' = DOMAIN data
         /\ \A c \in 3..info.nextFree - 1 : data'[c] = data[c]
         /\ j = op.n => \A c \in info.nextFree..info.nextFree + op.n - 1 :
                          data'[c] = <<op.file, c - info.nextFree>>
  <1>1. /\ Formatted(bpb) /\ op.i = 1 /\ op.next = info.nextFree + op.i - 1
        /\ info.nextFree + op.n <= MaxCluster(bpb)
    BY DEF Inv, OpInv, Copying
  <1>2. info.nextFree \in Nat /\ op.n \in Nat /\ MaxCluster(bpb) \in Nat
    BY <1>1, Geometry, WordFacts, SMT DEF Inv, TypeOK, InfoType, OpType
  <1>3. DOMAIN data = 3..MaxCluster(bpb) - 1 /\ info.nextFree >= 3
    BY DEF Inv, VolumeInv
  <1>4. op.next = info.nextFree
    BY <1>1, <1>2, SMT
  <1>5. DOMAIN data' = DOMAIN data
    BY DEF Filled
  <1>6. ASSUME NEW c \in 3..info.nextFree - 1
        PROVE  data'[c] = data[c]
    <2>1. c \notin op.next..op.next + op.n - 1
      BY <1>2, <1>4, SMT
    <2>2. CASE c \in DOMAIN data
      BY <2>1, <2>2 DEF Filled
    <2>3. CASE c \notin DOMAIN data
      <3>1. info.nextFree = 3 \/ info.nextFree <= MaxCluster(bpb)
        BY DEF Inv, VolumeInv
      <3> QED BY <1>2, <1>3, <2>3, <3>1, SMT
    <2> QED BY <2>2, <2>3
  <1>7. ASSUME j = op.n, NEW c \in info.nextFree..info.nextFree + op.n - 1
        PROVE  data'[c] = <<op.file, c - info.nextFree>>
    <2>1. c \in DOMAIN data /\ c \in op.next..op.next + op.n - 1 /\ c < op.next + j
      BY <1>1, <1>2, <1>3, <1>4, <1>7, SMT
    <2> QED BY <1>4, <2>1 DEF Filled
  <1> QED BY <1>5, <1>6, <1>7

\* memset and read write only clusters from nextFree on.
LEMMA CopyInv ==
  ASSUME VolumesFit, Inv, Copy
  PROVE  Inv'
  <1>1. /\ pc = "copy" /\ pc' = "dirent" /\ data' = Filled(op.n) /\ op.n \in Nat
        /\ UNCHANGED <<bpb, bpb6, info, info7, fat, root, stored, halfway, op, rc>>
    BY DEF Copy, Inv, TypeOK, OpType
  <1>2. /\ DOMAIN data' = DOMAIN data
        /\ \A c \in 3..info.nextFree - 1 : data'[c] = data[c]
        /\ \A c \in info.nextFree..info.nextFree + op.n - 1 :
             data'[c] = <<op.file, c - info.nextFree>>
    BY <1>1, FilledFacts
  <1>3. TypeOK'
    BY <1>1 DEF Inv, TypeOK
  <1>4. VolumeInv'
    BY <1>1, <1>2 DEF Inv, VolumeInv, CountInv
  <1>5. OpInv'
    BY <1>1 DEF Inv, OpInv, Copying, OpEnd
  <1>6. DataInv'
    BY <1>1, <1>2 DEF DataInv
  <1>7. FilesIntact' /\ NextFreeUnused'
    BY <1>1, <1>2, StoredStable DEF Inv
  <1> QED BY <1>1, <1>3, <1>4, <1>5, <1>6, <1>7
          DEF Inv, NeverWild, LinkInv, EntryInv, Linking

\* So does a read that fails halfway.
LEMMA CopyFailsInv ==
  ASSUME VolumesFit, Inv, CopyFails
  PROVE  Inv'
  <1> PICK j \in 0..op.n : data' = Filled(j)
    BY DEF CopyFails
  <1>1. /\ pc = "copy" /\ pc' = "sync" /\ op' = [op EXCEPT !.ret = 0]
        /\ j \in Nat
        /\ UNCHANGED <<bpb, bpb6, info, info7, fat, root, stored, halfway, rc>>
    BY DEF CopyFails
  <1>2. /\ DOMAIN data' = DOMAIN data
        /\ \A c \in 3..info.nextFree - 1 : data'[c] = data[c]
    BY <1>1, FilledFacts
  <1>3. TypeOK'
    <2>1. op' \in OpType
      BY <1>1 DEF Inv, TypeOK, OpType
    <2> QED BY <1>1, <2>1 DEF Inv, TypeOK
  <1>4. VolumeInv'
    BY <1>1, <1>2 DEF Inv, VolumeInv, CountInv
  <1>5. FilesIntact' /\ NextFreeUnused'
    BY <1>1, <1>2, StoredStable DEF Inv
  <1> QED BY <1>1, <1>3, <1>4, <1>5
          DEF Inv, NeverWild, OpInv, DataInv, LinkInv, EntryInv, Copying, Linking

\* The new directory entry names the extent being written and no stored file.
LEMMA DirentInv ==
  ASSUME VolumesFit, Inv, Dirent
  PROVE  Inv'
  <1> DEFINE e == EntryOf(op.file, op.next, op.size)
  <1>1. /\ pc = "dirent" /\ pc' = "link" /\ root' = Append(root, e)
        /\ UNCHANGED <<bpb, bpb6, info, info7, fat, data, stored, halfway, op, rc>>
    BY DEF Dirent
  <1>2. /\ op.file \in Files /\ op.i = 1 /\ op.next = info.nextFree + op.i - 1
    BY <1>1 DEF Inv, OpInv, Copying
  <1>3. /\ op.next \in 0..Word - 1 /\ op.size \in 0..Word - 1 /\ info.nextFree \in Nat
    BY WordFacts, SMT DEF Inv, TypeOK, OpType, InfoType
  <1>4. op.next = info.nextFree
    BY <1>2, <1>3, SMT
  <1>5. e \in EntryType
    BY <1>2, <1>3, EntryFacts
  <1> HIDE DEF e
  <1>6. root \in Seq(EntryType) /\ stored \subseteq 1..Len(root)
    BY DEF Inv, TypeOK
  <1>7. /\ root' \in Seq(EntryType) /\ Len(root') = Len(root) + 1 /\ Len(root) \in Nat
        /\ root'[Len(root')] = e
        /\ \A s \in 1..Len(root) : root'[s] = root[s]
    BY <1>1, <1>5, <1>6, SMT
  <1>8. stored' \subseteq 1..Len(root') /\ Len(root') \notin stored'
    BY <1>1, <1>6, <1>7, SMT
  <1>9. TypeOK'
    BY <1>1, <1>7, <1>8 DEF Inv, TypeOK
  <1>10. VolumeInv'
    BY <1>1 DEF Inv, VolumeInv, CountInv
  <1>11. OpInv'
    BY <1>1, <1>2 DEF Inv, OpInv, Copying, OpEnd
  <1>12. DataInv'
    BY <1>1 DEF Inv, DataInv, Linking
  <1>13. LinkInv'
    <2>1. info.nextFree..op.next - 1 = {}
      BY <1>3, <1>4, SMT
    <2> QED BY <1>1, <2>1 DEF LinkInv
  <1>14. EntryInv'
    BY <1>1, <1>4, <1>7, <1>8, SMT DEF EntryInv, e
  <1>15. FilesIntact' /\ NextFreeUnused'
    BY <1>1, <1>6, <1>7, StoredStable DEF Inv
  <1> QED BY <1>1, <1>9, <1>10, <1>11, <1>12, <1>13, <1>14, <1>15 DEF Inv, NeverWild

\* What is known of a copy that is linking its clusters.
LEMMA LinkFacts ==
  ASSUME VolumesFit, Inv, pc \in {"link", "link2"}
  PROVE  LET M == MaxCluster(bpb) F == FatEntries(bpb)
         IN /\ Formatted(bpb) /\ op.file \in Files
            /\ op.n = Clusters(bpb, op.size) /\ (op.n = 0) = (op.size = 0)
            /\ info.nextFree + op.n <= M
            /\ op.i >= 1 /\ op.next = info.nextFree + op.i - 1
            /\ op.free = info.freeCount /\ (op.i = 1 \/ op.i <= op.n)
            /\ M \in Nat /\ M < Word /\ F \in Nat /\ M <= F
            /\ op \in OpType /\ op.n \in Nat /\ op.i \in Nat /\ op.next \in Nat
            /\ info.nextFree \in Nat /\ info.nextFree >= 3
            /\ op.next >= info.nextFree
            /\ fat \in [1..2 -> [0..F - 1 -> 0..Word - 1]]
            /\ op.next < M => op.next \in 0..F - 1 /\ LinkValue \in 0..Word - 1
            /\ LinkValue = IF op.next + 1 < OpEnd THEN op.next + 1 ELSE EOC
  <1> DEFINE M == MaxCluster(bpb)
             F == FatEntries(bpb)
  <1>1. /\ Formatted(bpb) /\ op.file \in Files
        /\ op.n = Clusters(bpb, op.size) /\ (op.n = 0) = (op.size = 0)
        /\ info.nextFree + op.n <= M
        /\ op.i >= 1 /\ op.next = info.nextFree + op.i - 1
        /\ op.free = info.freeCount /\ (op.i = 1 \/ op.i <= op.n)
    BY DEF Inv, OpInv, Copying
  <1>2. M \in Nat /\ M < Word /\ F \in Nat /\ M <= F
    BY <1>1, Geometry
  <1>3. /\ op \in OpType /\ op.n \in Nat /\ op.i \in Nat /\ op.next \in Nat
        /\ info.nextFree \in Nat /\ info.nextFree >= 3
    <2>1. bpb # ZeroBpb
      BY <1>1, Geometry DEF ZeroBpb
    <2> QED BY <2>1, WordFacts, SMT DEF Inv, TypeOK, OpType, InfoType, VolumeInv
  <1>4. fat \in [1..2 -> [0..F - 1 -> 0..Word - 1]]
    BY DEF Inv, TypeOK
  <1> HIDE DEF M, F
  <1>5. op.next < M => op.next \in 0..F - 1 /\ LinkValue \in 0..Word - 1
    BY <1>2, <1>3, WordFacts, SMT DEF LinkValue
  <1>6. op.next >= info.nextFree
    BY <1>1, <1>3, SMT
  <1>7. LinkValue = IF op.next + 1 < OpEnd THEN op.next + 1 ELSE EOC
    BY <1>1, <1>3, SMT DEF LinkValue, OpEnd
  <1> QED BY <1>1, <1>2, <1>3, <1>4, <1>5, <1>6, <1>7 DEF M, F

\* The store in the first table is beyond every stored file.
LEMMA LinkFirstInv ==
  ASSUME VolumesFit, Inv, Link
  PROVE  Inv'
  <1> DEFINE M == MaxCluster(bpb)
             F == FatEntries(bpb)
  <1>1. /\ pc = "link" /\ pc' = "link2" /\ op.next < M
        /\ fat' = WriteEntry(fat, 1, op.next, LinkValue)
        /\ UNCHANGED <<bpb, bpb6, info, info7, root, data, stored, halfway, op, rc>>
    BY DEF Link
  <1>2. /\ M \in Nat /\ F \in Nat /\ M <= F /\ op.next \in Nat
        /\ info.nextFree \in Nat /\ info.nextFree >= 3 /\ op.next >= info.nextFree
        /\ fat \in [1..2 -> [0..F - 1 -> 0..Word - 1]]
        /\ op.next \in 0..F - 1 /\ LinkValue \in 0..Word - 1
    BY <1>1, LinkFacts
  <1>3. /\ fat' \in [1..2 -> [0..F - 1 -> 0..Word - 1]]
        /\ fat'[1][op.next] = LinkValue
        /\ \A u \in 1..2, k \in 0..F - 1 : u # 1 \/ k # op.next => fat'[u][k] = fat[u][k]
    <2> HIDE DEF F, M
    <2>1. 1 \in 1..2
      BY SMT
    <2>2. PICK v \in 0..Word - 1 : v = LinkValue
      BY <1>2
    <2>3. PICK c \in 0..F - 1 : c = op.next
      BY <1>2
    <2> QED BY <1>1, <1>2, <2>1, <2>2, <2>3 DEF WriteEntry
  <1>4. \A u \in 1..2, k \in 3..op.next - 1 : fat'[u][k] = fat[u][k]
    <2> HIDE DEF F, M
    <2>1. \A k \in 3..op.next - 1 : k \in 0..F - 1 /\ k # op.next
      BY <1>1, <1>2, SMT
    <2> QED BY <1>3, <2>1
  <1>5. TypeOK'
    BY <1>1, <1>3 DEF Inv, TypeOK
  <1>6. VolumeInv'
    BY <1>1 DEF Inv, VolumeInv, CountInv
  <1>7. OpInv'
    BY <1>1 DEF Inv, OpInv, Copying, OpEnd
  <1>8. DataInv' /\ EntryInv'
    BY <1>1 DEF Inv, DataInv, EntryInv, Linking
  <1>9. LinkInv'
    <2>1. \A t \in 1..2, c \in info.nextFree..op.next - 1 :
            fat[t][c] = IF c + 1 < OpEnd THEN c + 1 ELSE EOC
      BY <1>1 DEF Inv, LinkInv, Linking
    <2>2. \A c \in info.nextFree..op.next - 1 : c \in 3..op.next - 1
      BY <1>2, SMT
    <2>3. OpEnd' = OpEnd /\ LinkValue' = LinkValue
      BY <1>1 DEF OpEnd, LinkValue
    <2>4. \A t \in 1..2, c \in info.nextFree..op.next - 1 :
            fat'[t][c] = IF c + 1 < OpEnd THEN c + 1 ELSE EOC
      BY <1>4, <2>1, <2>2
    <2> QED BY <1>1, <1>3, <2>3, <2>4 DEF LinkInv
  <1>10. FilesIntact' /\ NextFreeUnused'
    <2>1. \A t \in 1..2, c \in 3..info.nextFree - 1 : fat'[t][c] = fat[t][c]
      <3>1. \A c \in 3..info.nextFree - 1 : c \in 3..op.next - 1
        BY <1>2, SMT
      <3> QED BY <1>4, <3>1
    <2> QED BY <1>1, <2>1, StoredStable DEF Inv
  <1> QED BY <1>1, <1>5, <1>6, <1>7, <1>8, <1>9, <1>10 DEF Inv, NeverWild

\* The store in the backup extends the chain by one cluster in both tables.
LEMMA LinkBackupInv ==
  ASSUME VolumesFit, Inv, LinkBackup
  PROVE  Inv'
  <1> DEFINE M == MaxCluster(bpb)
             F == FatEntries(bpb)
  <1>1. /\ pc = "link2"
        /\ fat' = WriteEntry(fat, 2, op.next, LinkValue)
        /\ op' = [op EXCEPT !.next = op.next + 1, !.i = op.i + 1]
        /\ pc' = IF op.i < op.n THEN "link" ELSE "info"
        /\ UNCHANGED <<bpb, bpb6, info, info7, root, data, stored, halfway, rc>>
    BY DEF LinkBackup
  <1>2. op.next < M
    BY <1>1 DEF Inv, OpInv, Copying
  <1>3. /\ Formatted(bpb) /\ op.file \in Files
        /\ op.n = Clusters(bpb, op.size) /\ (op.n = 0) = (op.size = 0)
        /\ info.nextFree + op.n <= M
        /\ op.i >= 1 /\ op.next = info.nextFree + op.i - 1
        /\ op.free = info.freeCount /\ (op.i = 1 \/ op.i <= op.n)
        /\ M \in Nat /\ M < Word /\ F \in Nat /\ M <= F
        /\ op \in OpType /\ op.n \in Nat /\ op.i \in Nat /\ op.next \in Nat
        /\ info.nextFree \in Nat /\ info.nextFree >= 3 /\ op.next >= info.nextFree
        /\ fat \in [1..2 -> [0..F - 1 -> 0..Word - 1]]
        /\ op.next \in 0..F - 1 /\ LinkValue \in 0..Word - 1
        /\ LinkValue = IF op.next + 1 < OpEnd THEN op.next + 1 ELSE EOC
    BY <1>1, <1>2, LinkFacts
  <1>4. /\ info.nextFree + op.n <= M /\ (op.n = 0) = (op.size = 0)
        /\ op.i >= 1 /\ op.next = info.nextFree + op.i - 1
        /\ (op.i = 1 \/ op.i <= op.n) /\ M \in Nat /\ M < Word
        /\ op.n \in Nat /\ op.i \in Nat /\ op.next \in Nat
        /\ info.nextFree \in Nat /\ info.nextFree >= 3
    BY <1>3
  <1>5. /\ op'.next = op.next + 1 /\ op'.i = op.i + 1
        /\ op'.file = op.file /\ op'.size = op.size /\ op'.n = op.n
        /\ op'.free = op.free /\ op'.ret = op.ret
    BY <1>1, <1>3 DEF OpType
  <1>6. op' \in OpType
    <2>1. op.next + 1 \in 0..Word - 1 /\ op.i + 1 \in Nat
      <3> HIDE DEF M, F
      <3> QED BY <1>2, <1>4, WordFacts, SMT
    <2> QED BY <1>1, <1>3, <2>1 DEF OpType
  <1>7. TypeOK
    BY DEF Inv
  <1> HIDE DEF M, F
  <1>8. /\ fat' \in [1..2 -> [0..F - 1 -> 0..Word - 1]]
        /\ fat'[2][op.next] = LinkValue
        /\ \A u \in 1..2, k \in 0..F - 1 : u # 2 \/ k # op.next => fat'[u][k] = fat[u][k]
    <2>1. 2 \in 1..2
      BY SMT
    <2>2. PICK v \in 0..Word - 1 : v = LinkValue
      BY <1>3
    <2>3. PICK c \in 0..F - 1 : c = op.next
      BY <1>3
    <2> QED BY <1>1, <1>3, <2>1, <2>2, <2>3 DEF WriteEntry
  <1>9. /\ \A t \in 1..2 : fat'[t][op.next] = LinkValue
        /\ \A t \in 1..2, c \in 3..op.next - 1 : fat'[t][c] = fat[t][c]
    <2>1. fat[1][op.next] = LinkValue
      BY <1>1 DEF Inv, LinkInv, Linking
    <2>2. \A t \in 1..2 : t = 1 \/ t = 2
      BY SMT
    <2>3. fat'[1][op.next] = LinkValue
      <3>1. 1 \in 1..2 /\ 1 # 2
        BY SMT
      <3> QED BY <1>3, <1>8, <2>1, <3>1
    <2>4. \A k \in 3..op.next - 1 : k \in 0..F - 1 /\ k # op.next
      BY <1>3, SMT
    <2> QED BY <1>8, <2>2, <2>3, <2>4
  <1>10. TypeOK'
    <2>1. pc' \in {"link", "info"}
      BY <1>1
    <2> QED BY <1>1, <1>6, <1>7, <1>8, <2>1 DEF TypeOK, F
  <1>11. VolumeInv'
    BY <1>1, <1>3 DEF Inv, VolumeInv, CountInv
  <1>12. OpInv'
    <2>1. op'.next = info.nextFree + op'.i - 1 /\ op'.i >= 1
      BY <1>4, <1>5, SMT
    <2>2. pc' = "link" => op'.i <= op'.n
      BY <1>1, <1>4, <1>5, SMT
    <2>3. pc' = "info" => op'.next = OpEnd' /\ OpEnd' <= M
      <3> SUFFICES ASSUME pc' = "info"
                   PROVE  op'.next = OpEnd' /\ OpEnd' <= M
        OBVIOUS
      <3>1. ~ (op.i < op.n)
        BY <1>1
      <3>2. OpEnd' = info.nextFree + (IF op.size = 0 THEN 1 ELSE op.n)
        BY <1>1, <1>5 DEF OpEnd
      <3> QED BY <1>2, <1>4, <1>5, <3>1, <3>2, SMT
    <2> QED BY <1>1, <1>3, <1>5, <2>1, <2>2, <2>3 DEF OpInv, M
  <1>13. DataInv' /\ EntryInv'
    BY <1>1, <1>5 DEF Inv, DataInv, EntryInv, Linking
  <1>14. LinkInv'
    <2>1. OpEnd' = OpEnd
      BY <1>1, <1>5 DEF OpEnd
    <2>3. ASSUME NEW t \in 1..2, NEW c \in info.nextFree..op'.next - 1
          PROVE  fat'[t][c] = IF c + 1 < OpEnd THEN c + 1 ELSE EOC
      <3>1. CASE c = op.next
        BY <1>3, <1>9, <3>1
      <3>2. CASE c # op.next
        <4>1. c \in info.nextFree..op.next - 1 /\ c \in 3..op.next - 1
          BY <1>4, <1>5, <3>2, SMT
        <4>2. fat[t][c] = IF c + 1 < OpEnd THEN c + 1 ELSE EOC
          BY <1>1, <4>1 DEF Inv, LinkInv, Linking
        <4> QED BY <1>9, <4>1, <4>2
      <3> QED BY <3>1, <3>2
    <2>4. pc' # "link2"
      BY <1>1
    <2> QED BY <1>1, <2>1, <2>3, <2>4 DEF LinkInv
  <1>16. FilesIntact' /\ NextFreeUnused'
    <2>1. \A t \in 1..2, c \in 3..info.nextFree - 1 : fat'[t][c] = fat[t][c]
      <3>1. \A c \in 3..info.nextFree - 1 : c \in 3..op.next - 1
        BY <1>3, SMT
      <3> QED BY <1>9, <3>1
    <2> QED BY <1>1, <2>1, StoredStable DEF Inv
  <1>17. NeverWild'
    BY <1>1 DEF NeverWild
  <1> QED BY <1>10, <1>11, <1>12, <1>13, <1>14, <1>16, <1>17 DEF Inv

\* The first half of the FSInfo update: freeCount is lowered.
LEMMA FsInfoCountInv ==
  ASSUME VolumesFit, Inv, FsInfoCount
  PROVE  Inv'
  <1>1. /\ pc = "info" /\ pc' = "info2" /\ op.free >= op.n
        /\ info' = [info EXCEPT !.freeCount = op.free - op.n]
        /\ UNCHANGED <<bpb, bpb6, info7, fat, root, data, stored, halfway, op, rc>>
    BY DEF FsInfoCount
  <1>2. Formatted(bpb) /\ op.free = info.freeCount
    BY <1>1 DEF Inv, OpInv, Copying
  <1>3. /\ info \in InfoType /\ op.n \in Nat /\ op.free \in 0..Word - 1
        /\ info.freeCount \in Nat /\ info.nextFree \in Nat
        /\ MaxCluster(bpb) \in Nat /\ FatEntries(bpb) \in Nat
    BY <1>2, Geometry, WordFacts, SMT DEF Inv, TypeOK, OpType, InfoType
  <1>4. info'.freeCount = info.freeCount - op.n /\ info'.nextFree = info.nextFree
    BY <1>1, <1>2, <1>3 DEF InfoType
  <1>5. info' \in InfoType
    <2>1. op.free - op.n \in 0..Word - 1
      BY <1>1, <1>3, WordFacts, SMT
    <2> QED BY <1>1, <1>3, <2>1 DEF InfoType
  <1>6. TypeOK'
    BY <1>1, <1>5 DEF Inv, TypeOK
  <1>7. VolumeInv'
    <2>1. info'.freeCount + op.n + info'.nextFree = info.freeCount + 0 + info.nextFree
      BY <1>3, <1>4, SMT
    <2>2. /\ halfway = 0 => info.freeCount + 0 + info.nextFree >= 2 * FatEntries(bpb)
          /\ halfway = 1 => info.freeCount + 0 + info.nextFree + MaxCluster(bpb)
                              >= 2 * FatEntries(bpb)
      BY <1>1 DEF Inv, VolumeInv, CountInv
    <2>3. CountInv'
      BY <1>1, <2>1, <2>2 DEF CountInv
    <2> QED BY <1>1, <1>4, <2>3 DEF Inv, VolumeInv
  <1>8. OpInv'
    BY <1>1, <1>4 DEF Inv, OpInv, Copying, OpEnd
  <1>9. DataInv' /\ EntryInv'
    BY <1>1, <1>4 DEF Inv, DataInv, EntryInv, Linking
  <1>10. LinkInv'
    BY <1>1, <1>4 DEF Inv, LinkInv, Linking, OpEnd
  <1>11. FilesIntact' /\ NextFreeUnused'
    BY <1>1, <1>4, StoredStable DEF Inv
  <1> QED BY <1>1, <1>6, <1>7, <1>8, <1>9, <1>10, <1>11 DEF Inv, NeverWild

\* The commit point: what the copy wrote is an intact file that ends where
\* nextFree now points.
LEMMA FsInfoNextInv ==
  ASSUME VolumesFit, Inv, FsInfoNext
  PROVE  Inv'
  <1> DEFINE M == MaxCluster(bpb)
             F == FatEntries(bpb)
             e == root[Len(root)]
  <1>1. /\ pc = "info2" /\ pc' = "sync"
        /\ info' = [info EXCEPT !.nextFree = op.next]
        /\ stored' = stored \cup {Len(root)}
        /\ UNCHANGED <<bpb, bpb6, info7, fat, root, data, halfway, op, rc>>
    BY DEF FsInfoNext
  <1>2. /\ Formatted(bpb) /\ op.file \in Files
        /\ op.n = Clusters(bpb, op.size) /\ (op.n = 0) = (op.size = 0)
        /\ op.next = OpEnd /\ OpEnd <= M
    BY <1>1 DEF Inv, OpInv, Copying
  <1>3. M \in Nat /\ M < Word /\ F \in Nat
    BY <1>2, Geometry
  <1>4. /\ op.n \in Nat /\ op.next \in 0..Word - 1
        /\ op.size \in 0..Word - 1 /\ info.nextFree \in 0..Word - 1
        /\ info.nextFree >= 3 /\ DOMAIN data = 3..M - 1
        /\ info.freeCount \in Nat /\ info \in InfoType
    <2>1. bpb # ZeroBpb
      BY <1>2, Geometry DEF ZeroBpb
    <2> QED BY <2>1, WordFacts, SMT DEF Inv, TypeOK, OpType, InfoType, VolumeInv
  <1>5. e = EntryOf(op.file, info.nextFree, op.size) /\ Len(root) > 0
    BY <1>1 DEF Inv, EntryInv, Linking
  <1>6. FirstCluster(e) = info.nextFree /\ e.file = op.file /\ e.fileSize = op.size
    BY <1>2, <1>4, <1>5, EntryFacts
  <1>7. ExtentEnd(bpb, e) = OpEnd
    BY <1>2, <1>6 DEF ExtentEnd, OpEnd
  <1> HIDE DEF M, F, e
  <1>8. OpEnd \in Nat /\ OpEnd >= info.nextFree + op.n /\ OpEnd > info.nextFree
    BY <1>2, <1>4, WordFacts, SMT DEF OpEnd
  <1>9. IntactIn(bpb, fat, data, e)
    <2>1. ASSUME NEW t \in 1..2, NEW c \in info.nextFree..OpEnd - 1
          PROVE  fat[t][c] = IF c + 1 < OpEnd THEN c + 1 ELSE EOC
      BY <1>1, <1>2 DEF Inv, LinkInv, Linking
    <2>2. ASSUME op.size > 0, NEW c \in info.nextFree..OpEnd - 1
          PROVE  data[c] = <<op.file, c - info.nextFree>>
      <3>1. OpEnd = info.nextFree + op.n
        BY <1>4, <2>2, SMT DEF OpEnd
      <3>2. \A k \in info.nextFree..info.nextFree + op.n - 1 :
              data[k] = <<op.file, k - info.nextFree>>
        BY <1>1 DEF Inv, DataInv, Linking
      <3>3. c \in info.nextFree..info.nextFree + op.n - 1
        BY <1>4, <3>1, WordFacts, SMT
      <3> QED BY <3>2, <3>3
    <2> QED BY <1>2, <1>4, <1>6, <1>7, <2>1, <2>2 DEF IntactIn, M
  <1>10. root \in Seq(EntryType) /\ stored \subseteq 1..Len(root) /\ Len(root) \in Nat
    BY SMT DEF Inv, TypeOK
  <1>11. /\ info' \in InfoType
         /\ info'.nextFree = OpEnd /\ info'.freeCount = info.freeCount
    BY <1>1, <1>2, <1>4 DEF InfoType
  <1>12. TypeOK'
    <2>2. stored' \subseteq 1..Len(root)
      <3>1. Len(root) \in 1..Len(root)
        BY <1>5, <1>10, SMT
      <3> QED BY <1>1, <1>10, <3>1
    <2> QED BY <1>1, <1>11, <2>2 DEF Inv, TypeOK
  <1>13. VolumeInv'
    <2>1. OpEnd >= 3
      BY <1>4, <1>8, WordFacts, SMT
    <2>2. /\ halfway = 0 => info.freeCount + op.n + info.nextFree >= 2 * F
          /\ halfway = 1 => info.freeCount + op.n + info.nextFree + M >= 2 * F
      BY <1>1 DEF Inv, VolumeInv, CountInv, M, F
    <2>3. /\ halfway = 0 => info.freeCount + 0 + OpEnd >= 2 * F
          /\ halfway = 1 => info.freeCount + 0 + OpEnd + M >= 2 * F
      BY <1>3, <1>4, <1>8, <2>2, WordFacts, SMT
    <2>4. CountInv'
      BY <1>1, <1>11, <2>3 DEF CountInv, M, F
    <2> QED BY <1>1, <1>2, <1>4, <1>11, <2>1, <2>4 DEF VolumeInv, M, F
  <1>14. \A s \in stored : /\ IntactIn(bpb, fat, data, root[s])
                           /\ ExtentEnd(bpb, root[s]) <= info.nextFree
                           /\ ExtentEnd(bpb, root[s]) \in Nat
    <2>1. \A s \in stored : root[s] \in EntryType
      BY <1>10, SMT
    <2>2. \A s \in stored : ExtentEnd(bpb, root[s]) \in Nat
      BY <1>2, <2>1, ExtentFacts
    <2> QED BY <2>2 DEF Inv, FilesIntact, Intact, NextFreeUnused
  <1>15. FilesIntact'
    <2>1. \A s \in stored' : IntactIn(bpb, fat, data, root[s])
      BY <1>1, <1>9, <1>14 DEF e
    <2>2. ASSUME NEW s \in stored', NEW t \in stored', s < t
          PROVE  ExtentEnd(bpb, root[s]) <= FirstCluster(root[t])
      <3>1. s \in stored
        BY <1>1, <1>10, <2>2, SMT
      <3>2. CASE t \in stored
        BY <2>2, <3>1, <3>2 DEF Inv, FilesIntact
      <3>3. CASE t = Len(root)
        BY <1>6, <1>14, <3>1, <3>3 DEF e
      <3> QED BY <1>1, <3>2, <3>3
    <2> QED BY <1>1, <2>1, <2>2 DEF FilesIntact, Intact
  <1>16. NextFreeUnused'
    <2>1. ASSUME NEW s \in stored'
          PROVE  ExtentEnd(bpb, root[s]) <= OpEnd
      <3>1. CASE s \in stored
        BY <1>4, <1>8, <1>14, <3>1, WordFacts, SMT
      <3>2. CASE s = Len(root)
        BY <1>7, <1>8, <3>2, SMT DEF e
      <3> QED BY <1>1, <3>1, <3>2
    <2> QED BY <1>1, <1>11, <2>1 DEF NextFreeUnused
  <1> QED BY <1>1, <1>12, <1>13, <1>15, <1>16
          DEF Inv, NeverWild, OpInv, DataInv, LinkInv, EntryInv, Copying, Linking

\* Every step of the specification preserves the invariant.
LEMMA StepInv == ASSUME VolumesFit, Inv, [Next]_vars PROVE Inv'
  <1>0. /\ bpb6 \in Bpbs /\ info7 \in InfoType /\ op \in OpType /\ rc \in RcType
    BY DEF Inv, TypeOK
  <1>1. ASSUME NEW c \in Configs, Format(c)
        PROVE  Inv'
    BY <1>1, FormatInv
  <1>2. ASSUME NEW c \in Configs, Reject(c)
        PROVE  Inv'
    <2>1. rc' \in RcType
      BY <1>2, ReturnedType DEF Reject
    <2> QED BY <1>0, <1>2, <2>1, Quiet DEF Reject, disk
  <1>3. ASSUME NEW c \in Configs, FormatDies(c)
        PROVE  Inv'
    BY <1>0, <1>3, Quiet DEF FormatDies, disk
  <1>4. CASE FstatFails
    <2>1. rc' \in RcType
      BY <1>4, ReturnedType DEF FstatFails
    <2> QED BY <1>0, <1>4, <2>1, Quiet DEF FstatFails, disk
  <1>5. CASE SuperDies
    BY <1>0, <1>5, Quiet DEF SuperDies, disk
  <1>6. ASSUME NEW f \in Files, Refuse(f)
        PROVE  Inv'
    <2>1. op' \in OpType
      BY <1>6, NoOpType DEF Refuse, OpType
    <2>2. bpb # ZeroBpb
      BY <1>6 DEF Refuse, SuperSound, ZeroBpb
    <2> QED BY <1>0, <1>6, <2>1, <2>2, Quiet DEF Refuse, disk
  <1>7. ASSUME NEW f \in Files, Begin(f)
        PROVE  Inv'
    BY <1>7, BeginInv
  <1>8. CASE Copy
    BY <1>8, CopyInv
  <1>9. CASE CopyFails
    BY <1>9, CopyFailsInv
  <1>10. CASE Dirent
    BY <1>10, DirentInv
  <1>11. CASE Link \/ LinkBackup
    BY <1>11, LinkFirstInv, LinkBackupInv
  <1>12. CASE LinkDies \/ InfoDies
    <2>1. bpb = ZeroBpb => pc' # "sync"
      BY <1>12 DEF LinkDies, InfoDies
    <2> QED BY <1>0, <1>12, <2>1, Quiet DEF LinkDies, InfoDies, disk
  <1>13. CASE FsInfoCount \/ FsInfoNext
    BY <1>13, FsInfoCountInv, FsInfoNextInv
  <1>14. CASE Sync
    BY <1>14, SyncInv
  <1>15. CASE ProcessEnds
    BY <1>15, EndsInv
  <1>16. CASE UNCHANGED vars
    <2>1. UNCHANGED <<bpb, bpb6, info, info7, fat, root, data, stored, halfway, pc, op, rc>>
      BY <1>16 DEF vars, disk
    <2>2. TypeOK' /\ NeverWild' /\ VolumeInv' /\ OpInv'
      BY <2>1 DEF Inv, TypeOK, NeverWild, VolumeInv, CountInv, OpInv, OpEnd
    <2>3. DataInv' /\ LinkInv' /\ EntryInv'
      BY <2>1 DEF Inv, DataInv, LinkInv, LinkValue, EntryInv, OpEnd
    <2>4. FilesIntact' /\ NextFreeUnused'
      BY <2>1, StoredStable DEF Inv
    <2> QED BY <2>2, <2>3, <2>4 DEF Inv
  <1> QED BY <1>1, <1>2, <1>3, <1>4, <1>5, <1>6, <1>7, <1>8, <1>9, <1>10, <1>11,
             <1>12, <1>13, <1>14, <1>15, <1>16 DEF Next

\* freeCount starts with the entries of both tables and a volume has no more
\* clusters than one of them: one file counted and not stored is not missed.
LEMMA FreeCountEnough ==
  ASSUME VolumesFit, Inv, pc = "info", halfway # 2
  PROVE  ~ (op.free < op.n)
  <1>1. /\ Formatted(bpb) /\ op.free = info.freeCount
        /\ info.nextFree + op.n <= MaxCluster(bpb)
    BY DEF Inv, OpInv, Copying
  <1>2. /\ halfway = 0 => info.freeCount + 0 + info.nextFree >= 2 * FatEntries(bpb)
        /\ halfway = 1 => info.freeCount + 0 + info.nextFree + MaxCluster(bpb)
                            >= 2 * FatEntries(bpb)
    BY DEF Inv, VolumeInv, CountInv
  <1>3. /\ MaxCluster(bpb) \in Nat /\ FatEntries(bpb) \in Nat
        /\ MaxCluster(bpb) <= FatEntries(bpb)
    BY <1>1, Geometry
  <1>4. /\ info.freeCount \in Nat /\ info.nextFree \in Nat /\ op.n \in Nat
        /\ halfway \in 0..2
    BY WordFacts, SMT DEF Inv, TypeOK, InfoType, OpType
  <1> QED BY <1>1, <1>2, <1>3, <1>4, SMT

----------------------------------------------------------------------------
(* The theorems.                                                           *)

\* The invariant holds in every behaviour.
LEMMA InvHolds == ASSUME VolumesFit PROVE Spec => []Inv
  <1>1. Inv /\ [Next]_vars => Inv'
    BY StepInv
  <1> QED BY InitInv, <1>1, PTL DEF Spec

\* Every store of createFAT32 and FAT32Copyin respects the types of the on-disk
\* structures, whatever the sizes of volumes and files.
THEOREM TypeCorrect == ASSUME VolumesFit PROVE Spec => []TypeOK
  <1>1. Inv => TypeOK
    BY DEF Inv
  <1> QED BY InvHolds, <1>1, PTL

\* Files stored by FAT32Copyin stay intact and disjoint for ever after, through
\* any number of copies, failures, aborts and kills.
THEOREM StoredFilesStayIntact == ASSUME VolumesFit PROVE Spec => []FilesIntact
  <1>1. Inv => FilesIntact
    BY DEF Inv
  <1> QED BY InvHolds, <1>1, PTL

\* FAT32Copyin may allocate from nextFree on without looking at the table.
THEOREM NextFreeIsFree == ASSUME VolumesFit PROVE Spec => []NextFreeUnused
  <1>1. Inv => NextFreeUnused
    BY DEF Inv
  <1> QED BY InvHolds, <1>1, PTL

\* 32-bit sector offsets never wrap on volumes of at most 2^32 bytes.
THEOREM OffsetsNeverWrap == ASSUME VolumesFit PROVE Spec => []NeverWild
  <1>1. Inv => NeverWild
    BY DEF Inv
  <1> QED BY InvHolds, <1>1, PTL

\* The assertion on nextFree in FAT32Copyin never fires, and the one on freeCount
\* only after two deaths inside the FSInfo update.
THEOREM AssertionsHold == ASSUME VolumesFit PROVE Spec => []AssertsHold
  <1>1. ASSUME Inv
        PROVE  AssertsHold
    <2>1. ASSUME pc = "idle", SuperSound
          PROVE  info.nextFree > 2
      <3>1. bpb # ZeroBpb
        BY <2>1 DEF SuperSound, ZeroBpb
      <3> QED BY <1>1, <3>1, WordFacts, SMT DEF Inv, VolumeInv, TypeOK, InfoType
    <2>2. ASSUME pc = "info", halfway # 2
          PROVE  ~ (op.free < op.n)
      BY <1>1, <2>2, FreeCountEnough
    <2> QED BY <2>1, <2>2 DEF AssertsHold
  <1> QED BY InvHolds, <1>1, PTL

----------------------------------------------------------------------------
(* What a caller of createFAT32 and FAT32Copyin observes: the directory,   *)
(* the two tables, the returned sector, the reasons of an abort, and that  *)
(* the builder implements the abstract volume of Volume.tla.               *)

\* The directory has room for the entry of the copy in progress, and the
\* chain of the root directory is the one that createFAT32 wrote.
RootInv ==
  /\ bpb = ZeroBpb => root = <<>>
  /\ Len(root) <= NumRootEntry(bpb)
  /\ pc \in {"copy", "dirent"} => Len(root) < NumRootEntry(bpb)
  /\ Formatted(bpb) => fat[1][2] = EOC

\* The sector a copy will return: the one of its first cluster, from the
\* choice of the extent to the end of the call.
ReturnInv ==
  /\ pc = "off" => rc.call = "none"
  /\ pc \in Copying => op.ret = ClusterSector(bpb, info.nextFree)
  /\ pc = "sync" /\ op.ret > 0 =>
       /\ Len(root) \in stored
       /\ root[Len(root)].file = op.file
       /\ op.ret = ClusterSector(bpb, FirstCluster(root[Len(root)]))

CallInv == /\ RootInv /\ ReturnInv /\ TablesAgree
           /\ ReturnNamesFile /\ AbortsExplained

----------------------------------------------------------------------------
(* CallInv is preserved by every step from a state that satisfies Inv.     *)

\* A root directory of a formatted volume has a natural number of entries.
LEMMA RootEntryNat ==
  ASSUME VolumesFit, NEW b, Formatted(b)
  PROVE  NumRootEntry(b) \in Nat
  <1>1. BytesPerCluster(b) \in Nat
    BY Geometry
  <1> QED BY <1>1, SMT DEF NumRootEntry

\* Steps outside the copy itself that leave the volume as it is.
LEMMA RootQuiet ==
  ASSUME CallInv, UNCHANGED <<bpb, fat, root>>, info'.nextFree = info.nextFree,
         pc' \notin {"copy", "dirent"}
  PROVE  RootInv' /\ TablesAgree'
  BY DEF CallInv, RootInv, TablesAgree

\* The invariant holds of a disk that was never formatted.
LEMMA InitCall == ASSUME VolumesFit PROVE Init => CallInv
  <1> SUFFICES ASSUME Init
               PROVE  CallInv
    OBVIOUS
  <1>1. bpb = ZeroBpb /\ root = <<>> /\ pc = "off" /\ rc = Returned("none", NoFile, 0)
        /\ fat = [t \in 1..2 |-> [c \in 0..-1 |-> 0]]
    BY DEF Init
  <1>2. NumRootEntry(bpb) = 0
    BY <1>1, SMT DEF NumRootEntry, BytesPerCluster, ZeroBpb
  <1>3. ~ Formatted(bpb)
    BY <1>1, Geometry DEF ZeroBpb
  <1>4. RootInv
    BY <1>1, <1>2, <1>3, SMT DEF RootInv
  <1>5. ReturnInv
    BY <1>1 DEF ReturnInv, Returned, Copying
  <1>6. TablesAgree
    <2>1. fat[1] = fat[2]
      BY <1>1, SMT
    <2> QED BY <2>1 DEF TablesAgree
  <1> QED BY <1>1, <1>4, <1>5, <1>6 DEF CallInv, ReturnNamesFile, AbortsExplained

\* createFAT32 writes both tables alike, an empty directory and its chain.
LEMMA FormatCall ==
  ASSUME VolumesFit, Inv, CallInv, NEW c \in Configs, Format(c)
  PROVE  CallInv'
  <1>1. Formatted(BpbOf(c))
    BY DEF Format, Formatted
  <1>2. /\ bpb' = BpbOf(c) /\ fat' = FatOf(c) /\ root' = <<>> /\ pc' = "idle"
        /\ rc' = Returned("create", NoFile, 0)
    BY DEF Format
  <1>3. FatEntries(BpbOf(c)) \in Nat /\ 2 * FatEntries(BpbOf(c)) - 3 >= 3
    BY <1>1, Geometry, WordFacts, SMT
  <1>4. fat'[1] = fat'[2] /\ fat'[1][2] = EOC
    <2>1. 2 \in 0..FatEntries(BpbOf(c)) - 1
      BY <1>3, SMT
    <2> QED BY <1>2, <2>1, SMT DEF FatOf
  <1>5. BpbOf(c) # ZeroBpb
    BY <1>1, Geometry DEF ZeroBpb
  <1>6. RootInv'
    BY <1>1, <1>2, <1>4, <1>5, RootEntryNat, SMT DEF RootInv
  <1>7. ReturnInv'
    BY <1>2 DEF ReturnInv, Copying
  <1> QED BY <1>2, <1>4, <1>6, <1>7
          DEF CallInv, TablesAgree, ReturnNamesFile, AbortsExplained, Returned

\* FAT32SuperInit refuses a volume only if it was never formatted or is too
\* small: nextFree never passes the end of one that holds a file.
LEMMA SuperDiesCall ==
  ASSUME VolumesFit, Inv, CallInv, SuperDies
  PROVE  CallInv'
  <1>1. /\ pc' = "abort" /\ UNCHANGED <<disk, op, rc>> /\ ~ SuperSound
    BY DEF SuperDies
  <1>2. bpb = ZeroBpb \/ MaxCluster(bpb) < 3
    <2> SUFFICES ASSUME bpb # ZeroBpb
                 PROVE  MaxCluster(bpb) < 3
      OBVIOUS
    <2>1. /\ Formatted(bpb)
          /\ info.nextFree = 3 \/ info.nextFree <= MaxCluster(bpb)
      BY DEF Inv, VolumeInv
    <2>2. bpb.numSectorPerCluster > 0 /\ MaxCluster(bpb) \in Nat /\ info.nextFree \in Nat
      BY <2>1, Geometry, WordFacts, SMT DEF Inv, TypeOK, InfoType
    <2> QED BY <1>1, <2>1, <2>2, SMT DEF SuperSound
  <1>3. RootInv' /\ TablesAgree'
    BY <1>1, RootQuiet DEF disk
  <1>4. ReturnInv'
    BY <1>1 DEF ReturnInv, Copying
  <1> QED BY <1>1, <1>2, <1>3, <1>4 DEF CallInv, ReturnNamesFile, AbortsExplained, disk

\* An accepted file has a free slot in the directory, and the call will return
\* the sector of its first cluster.
LEMMA BeginCall ==
  ASSUME VolumesFit, Inv, Inv', CallInv, NEW f \in Files, Begin(f)
  PROVE  CallInv'
  <1>1. UNCHANGED <<disk, rc>> /\ pc' \in {"copy", "wild"}
        /\ op'.ret = ClusterSector(bpb, info.nextFree)
    BY DEF Begin
  <1>2. pc' = "copy"
    BY <1>1 DEF Inv, NeverWild
  <1>3. Len(root) <= NumRootEntry(bpb) /\ Len(root) # NumRootEntry(bpb)
    BY DEF CallInv, RootInv, Begin, Refused
  <1>4. Formatted(bpb)
    BY <1>1, <1>2 DEF Inv, OpInv, Copying, disk
  <1>5. Len(root) < NumRootEntry(bpb)
    BY <1>3, <1>4, RootEntryNat, SMT DEF Inv, TypeOK
  <1>6. RootInv'
    BY <1>1, <1>2, <1>5 DEF CallInv, RootInv, disk
  <1>7. ReturnInv'
    BY <1>1, <1>2 DEF ReturnInv, disk
  <1> QED BY <1>1, <1>2, <1>6, <1>7
          DEF CallInv, TablesAgree, ReturnNamesFile, AbortsExplained, disk

\* The new entry takes the free slot.
LEMMA DirentCall ==
  ASSUME VolumesFit, Inv, CallInv, Dirent
  PROVE  CallInv'
  <1>1. /\ pc = "dirent" /\ pc' = "link" /\ Len(root') = Len(root) + 1
        /\ Len(root) \in Nat
        /\ UNCHANGED <<bpb, bpb6, info, info7, fat, data, stored, halfway, op, rc>>
    BY DEF Dirent, Inv, TypeOK
  <1>2. Formatted(bpb)
    BY <1>1 DEF Inv, OpInv, Copying
  <1>3. Len(root) < NumRootEntry(bpb) /\ NumRootEntry(bpb) \in Nat
    BY <1>1, <1>2, RootEntryNat DEF CallInv, RootInv
  <1>4. bpb # ZeroBpb
    BY <1>2, Geometry DEF ZeroBpb
  <1>5. RootInv'
    BY <1>1, <1>3, <1>4, SMT DEF CallInv, RootInv
  <1>6. ReturnInv'
    BY <1>1 DEF CallInv, ReturnInv, Copying
  <1> QED BY <1>1, <1>5, <1>6 DEF CallInv, TablesAgree, ReturnNamesFile, AbortsExplained

\* FAT32SuperWriteEntry stores above the root directory and above every cluster
\* below nextFree.
LEMMA LinkCall ==
  ASSUME VolumesFit, Inv, Inv', CallInv, Link \/ LinkBackup
  PROVE  CallInv'
  <1> DEFINE F == FatEntries(bpb)
  <1>1. PICK t \in 1..2 : fat' = WriteEntry(fat, t, op.next, LinkValue)
    <2>1. 1 \in 1..2 /\ 2 \in 1..2
      BY SMT
    <2> QED BY <2>1 DEF Link, LinkBackup
  <1>2. /\ pc \in {"link", "link2"} /\ pc' \in {"link", "link2", "info"}
        /\ UNCHANGED <<bpb, bpb6, info, info7, root, data, stored, rc>>
    BY DEF Link, LinkBackup
  <1>3. op'.ret = op.ret
    BY DEF Link, LinkBackup, Inv, TypeOK, OpType
  <1>4. op.next < MaxCluster(bpb)
    BY DEF Link, LinkBackup, Inv, OpInv, Copying
  <1>5. /\ Formatted(bpb) /\ F \in Nat /\ op.next \in Nat
        /\ info.nextFree \in Nat /\ info.nextFree >= 3 /\ op.next >= info.nextFree
        /\ fat \in [1..2 -> [0..F - 1 -> 0..Word - 1]]
        /\ op.next \in 0..F - 1 /\ LinkValue \in 0..Word - 1
    BY <1>2, <1>4, LinkFacts
  <1> HIDE DEF F
  <1>6. /\ fat' \in [1..2 -> [0..F - 1 -> 0..Word - 1]]
        /\ \A u \in 1..2, k \in 0..F - 1 : k # op.next => fat'[u][k] = fat[u][k]
    <2>1. PICK v \in 0..Word - 1 : v = LinkValue
      BY <1>5
    <2>2. PICK c \in 0..F - 1 : c = op.next
      BY <1>5
    <2> QED BY <1>1, <1>5, <2>1, <2>2 DEF WriteEntry
  <1>7. 1 \in 1..2 /\ 2 \in 1..2
    BY SMT
  <1>8. fat'[1][2] = fat[1][2]
    <2>1. 2 \in 0..F - 1 /\ 2 # op.next
      BY <1>5, SMT
    <2> QED BY <1>6, <1>7, <2>1
  <1>9. TablesAgree'
    <2> SUFFICES ASSUME NEW k \in DOMAIN fat'[1], fat'[1][k] # fat'[2][k]
                 PROVE  k >= info.nextFree
      BY <1>2 DEF TablesAgree
    <2>1. k \in 0..F - 1 /\ DOMAIN fat[1] = 0..F - 1
      BY <1>5, <1>6, <1>7
    <2>2. CASE k = op.next
      BY <1>5, <2>2
    <2>3. CASE k # op.next
      <3>1. fat[1][k] # fat[2][k]
        BY <1>6, <1>7, <2>1, <2>3
      <3> QED BY <2>1, <3>1 DEF CallInv, TablesAgree
    <2> QED BY <2>2, <2>3
  <1>10. RootInv'
    BY <1>2, <1>8 DEF CallInv, RootInv
  <1>11. ReturnInv'
    BY <1>2, <1>3 DEF CallInv, ReturnInv, Copying
  <1> QED BY <1>2, <1>9, <1>10, <1>11 DEF CallInv, ReturnNamesFile, AbortsExplained

\* "write out of bound" aborts only the copy of an empty file to a full volume:
\* the clusters of any other file are below MaxCluster.
LEMMA LinkDiesCall ==
  ASSUME VolumesFit, Inv, CallInv, LinkDies
  PROVE  CallInv'
  <1>1. pc = "link" /\ pc' = "abort" /\ op.next >= MaxCluster(bpb) /\ UNCHANGED <<disk, op, rc>>
    BY DEF LinkDies
  <1>2. /\ Formatted(bpb) /\ info.nextFree + op.n <= MaxCluster(bpb)
        /\ op.i >= 1 /\ op.next = info.nextFree + op.i - 1 /\ (op.i = 1 \/ op.i <= op.n)
    BY <1>1 DEF Inv, OpInv, Copying
  <1>3. MaxCluster(bpb) \in Nat /\ info.nextFree \in Nat /\ op.i \in Nat /\ op.n \in Nat
    BY <1>2, Geometry, WordFacts, SMT DEF Inv, TypeOK, OpType, InfoType
  <1>4. op.n = 0 /\ op.next = MaxCluster(bpb)
    BY <1>1, <1>2, <1>3, SMT
  <1>5. RootInv' /\ TablesAgree'
    BY <1>1, RootQuiet DEF disk
  <1>6. ReturnInv'
    BY <1>1 DEF ReturnInv, Copying
  <1> QED BY <1>1, <1>4, <1>5, <1>6 DEF CallInv, ReturnNamesFile, AbortsExplained, disk

\* "freeCount >= allocCluster" aborts only after two deaths in the FSInfo update.
LEMMA InfoDiesCall ==
  ASSUME VolumesFit, Inv, CallInv, InfoDies
  PROVE  CallInv'
  <1>1. pc = "info" /\ pc' = "abort" /\ op.free < op.n /\ UNCHANGED <<disk, op, rc>>
    BY DEF InfoDies
  <1>2. halfway = 2
    BY <1>1, FreeCountEnough
  <1>3. RootInv' /\ TablesAgree'
    BY <1>1, RootQuiet DEF disk
  <1>4. ReturnInv'
    BY <1>1 DEF ReturnInv, Copying
  <1> QED BY <1>1, <1>2, <1>3, <1>4 DEF CallInv, ReturnNamesFile, AbortsExplained, disk

\* The store of freeCount moves nothing.
LEMMA FsInfoCountCall ==
  ASSUME VolumesFit, Inv, CallInv, FsInfoCount
  PROVE  CallInv'
  <1>1. /\ pc = "info" /\ pc' = "info2"
        /\ info' = [info EXCEPT !.freeCount = op.free - op.n]
        /\ UNCHANGED <<bpb, bpb6, info7, fat, root, data, stored, halfway, op, rc>>
    BY DEF FsInfoCount
  <1>2. info'.nextFree = info.nextFree
    BY <1>1 DEF Inv, TypeOK, InfoType
  <1>3. RootInv' /\ TablesAgree'
    BY <1>1, <1>2, RootQuiet
  <1>4. ReturnInv'
    BY <1>1, <1>2 DEF CallInv, ReturnInv, Copying
  <1> QED BY <1>1, <1>3, <1>4 DEF CallInv, ReturnNamesFile, AbortsExplained

\* The store of nextFree makes the last entry a stored file, the one whose sector
\* the call is about to return; both tables chain its clusters.
LEMMA FsInfoNextCall ==
  ASSUME VolumesFit, Inv, CallInv, FsInfoNext
  PROVE  CallInv'
  <1>1. /\ pc = "info2" /\ pc' = "sync" /\ stored' = stored \cup {Len(root)}
        /\ info' = [info EXCEPT !.nextFree = op.next]
        /\ UNCHANGED <<bpb, bpb6, info7, fat, root, data, op, rc>>
    BY DEF FsInfoNext
  <1>2. op.file \in Files /\ op.ret = ClusterSector(bpb, info.nextFree)
        /\ Formatted(bpb) /\ op.next = OpEnd
    BY <1>1 DEF Inv, OpInv, CallInv, ReturnInv, Copying
  <1>3. root[Len(root)] = EntryOf(op.file, info.nextFree, op.size)
    BY <1>1 DEF Inv, EntryInv, Linking
  <1>4. info.nextFree \in 0..Word - 1 /\ op.size \in 0..Word - 1
    BY DEF Inv, TypeOK, InfoType, OpType
  <1>5. FirstCluster(root[Len(root)]) = info.nextFree /\ root[Len(root)].file = op.file
    BY <1>2, <1>3, <1>4, EntryFacts
  <1>6. RootInv'
    BY <1>1 DEF CallInv, RootInv
  <1>7. TablesAgree'
    <2>1. info'.nextFree = op.next
      BY <1>1 DEF Inv, TypeOK, InfoType
    <2> SUFFICES ASSUME NEW k \in DOMAIN fat[1], fat[1][k] # fat[2][k]
                 PROVE  k >= op.next
      BY <1>1, <2>1 DEF TablesAgree
    <2>2. k >= info.nextFree
      BY DEF CallInv, TablesAgree
    <2>3. k \in Nat /\ op.next \in Nat /\ info.nextFree \in Nat
      <3>1. fat \in [1..2 -> [0..FatEntries(bpb) - 1 -> 0..Word - 1]] /\ 1 \in 1..2
        BY SMT DEF Inv, TypeOK
      <3>2. k \in 0..FatEntries(bpb) - 1 /\ FatEntries(bpb) \in Nat
        BY <1>2, <3>1, Geometry
      <3> QED BY <1>4, <3>2, WordFacts, SMT DEF Inv, TypeOK, OpType
    <2>4. ASSUME k < op.next
          PROVE  fat[1][k] = fat[2][k]
      <3>1. k \in info.nextFree..op.next - 1 /\ 1 \in 1..2 /\ 2 \in 1..2
        BY <2>2, <2>3, <2>4, SMT
      <3> QED BY <1>1, <3>1 DEF Inv, LinkInv, Linking
    <2> QED BY <2>3, <2>4, SMT
  <1>8. ReturnInv'
    BY <1>1, <1>2, <1>5 DEF ReturnInv, Copying
  <1> QED BY <1>1, <1>6, <1>7, <1>8 DEF CallInv, ReturnNamesFile, AbortsExplained

\* FAT32SuperFree refreshes the backup sectors before the value is returned.
LEMMA SyncCall ==
  ASSUME VolumesFit, Inv, CallInv, Sync
  PROVE  CallInv'
  <1>1. /\ pc = "sync" /\ pc' = "idle" /\ bpb6' = bpb /\ info7' = info
        /\ rc' = Returned("copyin", op.file, op.ret)
        /\ UNCHANGED <<bpb, info, fat, root, data, stored>>
    BY DEF Sync
  <1>2. RootInv' /\ TablesAgree'
    BY <1>1, RootQuiet
  <1>3. ReturnInv'
    BY <1>1 DEF ReturnInv, Copying
  <1>4. ReturnNamesFile'
    BY <1>1 DEF CallInv, ReturnInv, ReturnNamesFile, Returned
  <1> QED BY <1>1, <1>2, <1>3, <1>4 DEF CallInv, AbortsExplained

\* Every step of the specification preserves the invariant.
LEMMA StepCall == ASSUME VolumesFit, Inv, Inv', CallInv, [Next]_vars PROVE CallInv'
  <1>1. ASSUME NEW c \in Configs, Format(c)
        PROVE  CallInv'
    BY <1>1, FormatCall
  <1>2. ASSUME NEW c \in Configs, Reject(c)
        PROVE  CallInv'
    <2>1. RootInv' /\ TablesAgree'
      BY <1>2, RootQuiet DEF Reject, disk
    <2> QED BY <1>2, <2>1 DEF Reject, CallInv, ReturnInv, Copying, ReturnNamesFile,
                              AbortsExplained, Returned
  <1>3. ASSUME NEW c \in Configs, FormatDies(c)
        PROVE  CallInv'
    <2>1. RootInv' /\ TablesAgree'
      BY <1>3, RootQuiet DEF FormatDies, disk
    <2> QED BY <1>3, <2>1 DEF FormatDies, CallInv, ReturnInv, Copying, ReturnNamesFile,
                              AbortsExplained
  <1>4. CASE FstatFails
    <2>1. RootInv' /\ TablesAgree'
      BY <1>4, RootQuiet DEF FstatFails, disk
    <2> QED BY <1>4, <2>1 DEF FstatFails, CallInv, ReturnInv, Copying, ReturnNamesFile,
                              AbortsExplained, Returned
  <1>5. CASE SuperDies
    BY <1>5, SuperDiesCall
  <1>6. ASSUME NEW f \in Files, Refuse(f)
        PROVE  CallInv'
    <2>1. RootInv' /\ TablesAgree'
      BY <1>6, RootQuiet DEF Refuse, disk
    <2>2. op'.ret = 0
      BY <1>6 DEF Refuse, NoOp
    <2> QED BY <1>6, <2>1, <2>2 DEF Refuse, CallInv, ReturnInv, Copying, ReturnNamesFile,
                                    AbortsExplained
  <1>7. ASSUME NEW f \in Files, Begin(f)
        PROVE  CallInv'
    BY <1>7, BeginCall
  <1>8. CASE Copy
    BY <1>8 DEF Copy, CallInv, RootInv, TablesAgree, ReturnInv, Copying, ReturnNamesFile,
                AbortsExplained
  <1>9. CASE CopyFails
    <2>1. op'.ret = 0
      BY <1>9 DEF CopyFails, Inv, TypeOK, OpType
    <2> QED BY <1>9, <2>1 DEF CopyFails, CallInv, RootInv, TablesAgree, ReturnInv, Copying,
                              ReturnNamesFile, AbortsExplained
  <1>10. CASE Dirent
    BY <1>10, DirentCall
  <1>11. CASE Link \/ LinkBackup
    BY <1>11, LinkCall
  <1>12. CASE LinkDies \/ InfoDies
    BY <1>12, LinkDiesCall, InfoDiesCall
  <1>13. CASE FsInfoCount \/ FsInfoNext
    BY <1>13, FsInfoCountCall, FsInfoNextCall
  <1>14. CASE Sync
    BY <1>14, SyncCall
  <1>15. CASE ProcessEnds
    <2>1. RootInv' /\ TablesAgree'
      BY <1>15, RootQuiet DEF ProcessEnds
    <2> QED BY <1>15, <2>1 DEF ProcessEnds, CallInv, ReturnInv, Copying, ReturnNamesFile,
                               AbortsExplained, Returned
  <1>16. CASE UNCHANGED vars
    <2>1. UNCHANGED <<bpb, bpb6, info, info7, fat, root, data, stored, halfway, pc, op, rc>>
      BY <1>16 DEF vars, disk
    <2>2. RootInv' /\ ReturnInv' /\ TablesAgree'
      BY <2>1 DEF CallInv, RootInv, ReturnInv, TablesAgree
    <2>3. ReturnNamesFile' /\ AbortsExplained'
      BY <2>1 DEF CallInv, ReturnNamesFile, AbortsExplained
    <2> QED BY <2>2, <2>3 DEF CallInv
  <1> QED BY <1>1, <1>2, <1>3, <1>4, <1>5, <1>6, <1>7, <1>8, <1>9, <1>10, <1>11,
             <1>12, <1>13, <1>14, <1>15, <1>16 DEF Next

----------------------------------------------------------------------------
(* The theorems.                                                           *)

\* The invariant holds in every behaviour.
LEMMA CallHolds == ASSUME VolumesFit PROVE Spec => []CallInv
  <1>1. Inv /\ Inv' /\ CallInv /\ [Next]_vars => CallInv'
    BY StepCall
  <1> QED BY InitCall, InvHolds, <1>1, PTL DEF Spec

\* A sector returned by FAT32Copyin is where the stored file starts, and the
\* backup sectors are up to date when it returns.
THEOREM ReturnedSectorNamesFile == ASSUME VolumesFit PROVE Spec => []ReturnNamesFile
  <1>1. CallInv => ReturnNamesFile
    BY DEF CallInv
  <1> QED BY CallHolds, <1>1, PTL

\* After any death the two tables still agree on every cluster below nextFree,
\* which are the clusters of the stored files.
THEOREM TablesAgreeOnFiles == ASSUME VolumesFit PROVE Spec => []TablesAgree
  <1>1. CallInv => TablesAgree
    BY DEF CallInv
  <1> QED BY CallHolds, <1>1, PTL

\* The root directory never outgrows its one cluster, even when killed copies
\* leave entries behind.
THEOREM RootStaysInItsCluster == ASSUME VolumesFit PROVE Spec => []RootFits
  <1>1. ASSUME Inv, CallInv
        PROVE  RootFits
    BY <1>1 DEF CallInv, RootInv, RootFits, Inv, VolumeInv
  <1> QED BY InvHolds, CallHolds, <1>1, PTL

\* The five reasons of AbortsExplained are the only ones why a tool aborts.
THEOREM AbortsAreExplained == ASSUME VolumesFit PROVE Spec => []AbortsExplained
  <1>1. CallInv => AbortsExplained
    BY DEF CallInv
  <1> QED BY CallHolds, <1>1, PTL
----------------------------------------------------------------------------
(* Refinement.  Reading a stored file follows the table, a recursion: that *)
(* the chain visits the extent in order is an induction along the chain.   *)

\* ch follows the table tab from the cluster first.
IsChain(ch, tab, first) ==
  ch = [k \in Nat |-> IF k = 0 THEN first ELSE tab[ch[k - 1]]]

\* The table links the n clusters from first on in order.
Contiguous(tab, first, n) ==
  \A c \in first..first + n - 1 : c + 1 < first + n => tab[c] = c + 1

\* The chain of an intact file, followed through the first table, visits its
\* extent in order.
LEMMA ChainInOrder ==
  ASSUME NEW tab, NEW first \in Nat, NEW n \in Nat,
         Contiguous(tab, first, n), NEW ch, IsChain(ch, tab, first)
  PROVE  \A k \in 0..n - 1 : ch[k] = first + k
  <1> DEFINE S == {k \in Nat : k < n => ch[k] = first + k}
  <1>1. 0 \in S
    BY SMT DEF IsChain
  <1>2. ASSUME NEW k \in Nat, k \in S
        PROVE  k + 1 \in S
    <2> SUFFICES ASSUME k + 1 < n
                 PROVE  ch[k + 1] = first + (k + 1)
      OBVIOUS
    <2>1. ch[k] = first + k
      BY <1>2, SMT
    <2>2. ch[k + 1] = tab[ch[k]]
      <3>1. k + 1 \in Nat /\ k + 1 # 0 /\ (k + 1) - 1 = k
        BY SMT
      <3> QED BY <3>1 DEF IsChain
    <2>3. first + k \in first..first + n - 1 /\ (first + k) + 1 < first + n
      BY SMT
    <2>4. tab[first + k] = (first + k) + 1
      BY <2>3 DEF Contiguous
    <2> QED BY <2>1, <2>2, <2>4, SMT
  <1>3. \A k \in Nat : k \in S
    <2> HIDE DEF S
    <2> QED BY <1>1, <1>2, SetInduction
  <1> QED BY <1>3, SMT

\* Following a table from a first cluster is a function, whatever it holds.
LEMMA ChainExists ==
  ASSUME NEW tab, NEW first
  PROVE  \E ch : IsChain(ch, tab, first)
  <1> DEFINE h == [k \in Nat |-> tab]
  <1>1. PICK g : DefinedBy(g, first, h)
    <2> HIDE DEF h
    <2> QED BY RecursionExists
  <1>2. g = [k \in Nat |-> IF k = 0 THEN first ELSE tab[g[k - 1]]]
    BY <1>1 DEF DefinedBy
  <1> QED BY <1>2 DEF IsChain

\* What reading a stored file through the table gives: the contents that
\* FAT32Copyin read from the host file, in order.
StoredFile(e) ==
  [file |-> e.file, size |-> e.fileSize, first |-> FirstCluster(e),
   contents |-> [k \in 0..Clusters(bpb, e.fileSize) - 1 |-> <<e.file, k>>]]

\* Following the table from the directory entry of an intact file reads back
\* exactly what was stored.
LEMMA ReadingOfIntact ==
  ASSUME VolumesFit, Formatted(bpb), NEW e \in EntryType, Intact(e)
  PROVE  Reading(e) = StoredFile(e)
  <1> DEFINE first == FirstCluster(e)
             n == Clusters(bpb, e.fileSize)
             tab == fat[1]
             ch == CHOOSE c : c = [k \in Nat |-> IF k = 0 THEN first ELSE tab[c[k - 1]]]
  <1>1. IsChain(ch, tab, first)
    <2> HIDE DEF first, tab
    <2>1. \E c : IsChain(c, tab, first)
      BY ChainExists
    <2> QED BY <2>1 DEF IsChain
  <1>2. Reading(e) = [file |-> e.file, size |-> e.fileSize, first |-> first,
                      contents |-> [k \in 0..n - 1 |-> data[ch[k]]]]
    BY DEF Reading
  <1>3. first \in Nat /\ ExtentEnd(bpb, e) \in Nat /\ e.fileSize \in Nat
    BY ExtentFacts, WordFacts, SMT DEF EntryType
  <1>4. n \in Nat /\ (e.fileSize = 0 => n = 0)
    <2>1. BytesPerCluster(bpb) \in Nat \ {0}
      BY Geometry
    <2>2. e.fileSize + BytesPerCluster(bpb) - 1 \in Nat
      BY <1>3, <2>1, SMT
    <2>3. n \in Nat
      BY <2>1, <2>2, DivMod DEF Clusters
    <2>4. ASSUME NEW b \in Nat \ {0}
          PROVE  (0 + b - 1) \div b = 0
      BY SMT
    <2>5. e.fileSize = 0 => n = 0
      BY <2>1, <2>4 DEF Clusters
    <2> QED BY <2>3, <2>5
  <1>5. CASE n = 0
    <2>1. 0..n - 1 = {}
      BY <1>5, SMT
    <2> QED BY <1>2, <2>1 DEF StoredFile
  <1>6. CASE n > 0
    <2>1. ExtentEnd(bpb, e) = first + n /\ e.fileSize > 0
      BY <1>3, <1>4, <1>6, SMT DEF ExtentEnd
    <2>2. ASSUME NEW c \in first..first + n - 1
          PROVE  /\ c + 1 < first + n => tab[c] = c + 1
                 /\ data[c] = <<e.file, c - first>>
      <3> HIDE DEF n, ch
      <3>1. c \in FirstCluster(e)..ExtentEnd(bpb, e) - 1
        BY <1>3, <1>4, <2>1, SMT
      <3>2. 1 \in 1..2
        BY SMT
      <3>3. fat[1][c] = IF c + 1 < ExtentEnd(bpb, e) THEN c + 1 ELSE EOC
        BY <3>1, <3>2 DEF Intact, IntactIn
      <3>4. data[c] = <<e.file, c - FirstCluster(e)>>
        BY <2>1, <3>1 DEF Intact, IntactIn
      <3> QED BY <2>1, <3>3, <3>4
    <2> HIDE DEF ch, n, first, tab
    <2>3. Contiguous(tab, first, n)
      BY <2>2 DEF Contiguous
    <2>4. \A k \in 0..n - 1 : ch[k] = first + k
      BY <1>1, <1>3, <1>4, <2>3, ChainInOrder
    <2>5. ASSUME NEW k \in 0..n - 1
          PROVE  data[ch[k]] = <<e.file, k>>
      <3>1. first + k \in first..first + n - 1 /\ (first + k) - first = k
        BY <1>3, <1>4, SMT
      <3> QED BY <2>2, <2>4, <3>1
    <2> QED BY <1>2, <2>5 DEF StoredFile, n, first
  <1> QED BY <1>4, <1>5, <1>6, SMT

\* The size of the copy in progress is the size of the host file, in 32 bits.
SizeInv == pc \in Copying => op.size = U32(StSize[op.file])

\* No step between the choice of the extent and the FSInfo update changes it.
LEMMA SizeHolds == ASSUME VolumesFit PROVE Spec => []SizeInv
  <1>1. Init => SizeInv
    BY DEF Init, SizeInv, Copying
  <1>2. ASSUME TypeOK, SizeInv, [Next]_vars
        PROVE  SizeInv'
    <2>1. CASE UNCHANGED <<pc, op>>
      BY <1>2, <2>1 DEF SizeInv
    <2>2. ASSUME NEW f \in Files, Begin(f)
          PROVE  SizeInv'
      BY <2>2 DEF Begin, SizeInv
    <2>3. CASE LinkBackup
      <3>1. pc = "link2" /\ op'.size = op.size /\ op'.file = op.file
        BY <1>2, <2>3 DEF LinkBackup, TypeOK, OpType
      <3> QED BY <1>2, <3>1 DEF SizeInv, Copying
    <2>4. CASE Copy \/ Dirent \/ Link \/ FsInfoCount
      BY <1>2, <2>4 DEF Copy, Dirent, Link, FsInfoCount, SizeInv, Copying
    <2>5. CASE pc' \notin Copying
      BY <2>5 DEF SizeInv
    <2> QED BY <1>2, <2>1, <2>2, <2>3, <2>4, <2>5
            DEF Next, vars, Format, Reject, FormatDies, FstatFails, SuperDies, Refuse,
                CopyFails, LinkDies, InfoDies, FsInfoNext, Sync, ProcessEnds, Copying
  <1> QED BY <1>1, <1>2, TypeCorrect, PTL DEF Spec

\* Seen through the table, the stored files are what FAT32Copyin stored.
StoreInv == \A s \in stored : /\ root[s] \in EntryType
                              /\ Formatted(bpb)
                              /\ Reading(root[s]) = StoredFile(root[s])

\* Stored files are intact, so that reading them gives what was stored.
LEMMA StoreFacts == ASSUME VolumesFit, Inv PROVE StoreInv
  <1> SUFFICES ASSUME NEW s \in stored
               PROVE  /\ root[s] \in EntryType
                      /\ Formatted(bpb)
                      /\ Reading(root[s]) = StoredFile(root[s])
    BY DEF StoreInv
  <1>1. root[s] \in EntryType
    BY SMT DEF Inv, TypeOK
  <1>2. Formatted(bpb)
    BY DEF Inv, VolumeInv
  <1>3. Intact(root[s])
    BY DEF Inv, FilesIntact
  <1> QED BY <1>1, <1>2, <1>3, ReadingOfIntact

\* Steps that store no file and do not format are invisible to the callers.
LEMMA Invisible ==
  ASSUME StoreInv, StoreInv', bpb' = bpb, stored' = stored,
         \A s \in stored : root'[s] = root[s]
  PROVE  UNCHANGED Abstract!vvars
  <1>1. ASSUME NEW s \in stored
        PROVE  Reading(root[s])' = Reading(root[s])
    <2>1. Reading(root[s]) = StoredFile(root[s])
      BY DEF StoreInv
    <2>2. Reading(root[s])' = StoredFile(root[s])'
      BY DEF StoreInv
    <2>3. StoredFile(root[s])' = StoredFile(root[s])
      BY DEF StoredFile
    <2> QED BY <2>1, <2>2, <2>3
  <1>2. {Reading(root[s]) : s \in stored}' = {Reading(root[s]) : s \in stored}
    BY <1>1
  <1> QED BY <1>2 DEF Abstract!vvars

\* An entry and the record that reading it gives occupy the same clusters.
LEMMA ExtentOfStored ==
  ASSUME VolumesFit, Formatted(bpb), NEW e \in EntryType
  PROVE  Abstract!Extent(StoredFile(e)) = FirstCluster(e)..ExtentEnd(bpb, e) - 1
  <1>1. /\ StoredFile(e).first = FirstCluster(e) /\ StoredFile(e).size = e.fileSize
    BY DEF StoredFile
  <1>2. Abstract!Clusters(e.fileSize) = Clusters(bpb, e.fileSize)
    BY DEF Abstract!Clusters, Clusters
  <1>3. FirstCluster(e) \in Nat /\ ExtentEnd(bpb, e) \in Nat
    BY ExtentFacts
  <1>4. Abstract!Extent(StoredFile(e)) =
          FirstCluster(e)..FirstCluster(e)
            + (IF e.fileSize = 0 THEN 0 ELSE Clusters(bpb, e.fileSize) - 1)
    BY <1>1, <1>2 DEF Abstract!Extent
  <1>5. CASE e.fileSize = 0
    BY <1>3, <1>4, <1>5, SMT DEF ExtentEnd
  <1>6. CASE e.fileSize # 0
    <2>1. ExtentEnd(bpb, e) = FirstCluster(e) + Clusters(bpb, e.fileSize)
      BY <1>6 DEF ExtentEnd
    <2>2. Clusters(bpb, e.fileSize) \in Int
      <3>1. BytesPerCluster(bpb) \in Nat \ {0} /\ e.fileSize \in Nat
        BY Geometry, WordFacts, SMT DEF EntryType
      <3>2. e.fileSize + BytesPerCluster(bpb) - 1 \in Nat
        BY <3>1, SMT
      <3> QED BY <3>1, <3>2, DivMod DEF Clusters
    <2> QED BY <1>3, <1>4, <1>6, <2>1, <2>2, SMT
  <1> QED BY <1>5, <1>6

\* The store of nextFree stores one file: atomically, in clusters of no other file,
\* with the size and the contents of the host file.
LEMMA FsInfoNextStores ==
  ASSUME VolumesFit, Inv, Inv', SizeInv, StoreInv, StoreInv', FsInfoNext
  PROVE  Abstract!Next
  <1> DEFINE e == root[Len(root)]
             store == {Reading(root[s]) : s \in stored}
             r == StoredFile(e)
  <1>1. /\ pc = "info2" /\ stored' = stored \cup {Len(root)}
        /\ UNCHANGED <<bpb, fat, root, data>>
    BY DEF FsInfoNext
  <1>2. /\ Formatted(bpb) /\ op.file \in Files /\ op.size = U32(StSize[op.file])
    BY <1>1 DEF Inv, OpInv, SizeInv, Copying
  <1>3. e = EntryOf(op.file, info.nextFree, op.size) /\ Len(root) > 0
    BY <1>1 DEF Inv, EntryInv, Linking
  <1>4. info.nextFree \in 0..Word - 1 /\ op.size \in 0..Word - 1
    BY DEF Inv, TypeOK, InfoType, OpType
  <1>5. /\ e \in EntryType /\ FirstCluster(e) = info.nextFree
        /\ e.file = op.file /\ e.fileSize = op.size
    BY <1>2, <1>3, <1>4, EntryFacts
  <1>6. \A s \in stored : Reading(root[s]) = StoredFile(root[s])
    BY DEF StoreInv
  <1>7. \A s \in stored' : Reading(root[s])' = StoredFile(root[s])
    <2>1. \A s \in stored' : Reading(root[s])' = StoredFile(root[s])'
      BY DEF StoreInv
    <2> QED BY <1>1, <2>1 DEF StoredFile
  <1>8. store' = store \cup {r}
    BY <1>1, <1>6, <1>7
  <1>9. ASSUME NEW s \in stored
        PROVE  /\ FirstCluster(root[s]) # FirstCluster(e)
               /\ Abstract!Extent(StoredFile(root[s])) \cap Abstract!Extent(r) = {}
    <2>1. root[s] \in EntryType /\ IntactIn(bpb, fat, data, root[s])
          /\ ExtentEnd(bpb, root[s]) <= info.nextFree
      BY DEF StoreInv, Inv, FilesIntact, Intact, NextFreeUnused
    <2>2. /\ FirstCluster(root[s]) \in Nat /\ ExtentEnd(bpb, root[s]) \in Nat
          /\ info.nextFree \in Nat /\ ExtentEnd(bpb, e) \in Nat
      BY <1>2, <1>4, <1>5, <2>1, ExtentFacts, WordFacts, SMT
    <2>3. FirstCluster(root[s]) < ExtentEnd(bpb, root[s])
      <3>1. /\ BytesPerCluster(bpb) \in Nat \ {0} /\ root[s].fileSize \in Nat
        BY <1>2, <2>1, Geometry, WordFacts, SMT DEF EntryType
      <3>2. CASE root[s].fileSize = 0
        BY <2>2, <3>2, SMT DEF ExtentEnd
      <3>3. CASE root[s].fileSize # 0
        <4>1. Clusters(bpb, root[s].fileSize) \in Nat \ {0}
          <5>1. ASSUME NEW z \in Nat \ {0}, NEW b \in Nat \ {0}
                PROVE  (z + b - 1) \div b \in Nat \ {0}
            BY SMT
          <5> QED BY <3>1, <3>3, <5>1 DEF Clusters
        <4> QED BY <2>2, <3>3, <4>1, SMT DEF ExtentEnd
      <3> QED BY <3>2, <3>3
    <2>4. /\ Abstract!Extent(StoredFile(root[s]))
               = FirstCluster(root[s])..ExtentEnd(bpb, root[s]) - 1
          /\ Abstract!Extent(r) = FirstCluster(e)..ExtentEnd(bpb, e) - 1
      BY <1>2, <1>5, <2>1, ExtentOfStored
    <2> HIDE DEF e, r
    <2> QED BY <1>5, <2>1, <2>2, <2>3, <2>4, SMT
  <1>10. r \notin store
    <2>1. \A s \in stored : StoredFile(root[s]) # r
      <3>1. \A x : StoredFile(x).first = FirstCluster(x)
        BY DEF StoredFile
      <3> QED BY <1>9, <3>1
    <2> QED BY <1>6, <2>1
  <1>11. /\ r.file = op.file /\ r.size = StSize[op.file] % Word
         /\ r.contents = [k \in 0..Abstract!Clusters(r.size) - 1 |-> <<op.file, k>>]
    <2>1. Abstract!Clusters(op.size) = Clusters(bpb, op.size)
      BY DEF Abstract!Clusters, Clusters
    <2>2. r = [file |-> op.file, size |-> op.size, first |-> FirstCluster(e),
               contents |-> [k \in 0..Clusters(bpb, op.size) - 1 |-> <<op.file, k>>]]
      BY <1>5 DEF StoredFile
    <2> QED BY <1>2, <2>1, <2>2 DEF U32
  <1>12. \A x \in store : Abstract!Extent(x) \cap Abstract!Extent(r) = {}
    BY <1>6, <1>9
  <1>13. BytesPerCluster(bpb)' = BytesPerCluster(bpb)
    BY <1>1
  <1> HIDE DEF e, r
  <1>14. Abstract!Store(op.file)
    BY <1>8, <1>10, <1>11, <1>12, <1>13 DEF Abstract!Store
  <1> QED BY <1>2, <1>14 DEF Abstract!Next

\* Every step of the builder is a step of the abstract volume, or invisible.
LEMMA StepRefines ==
  ASSUME VolumesFit, Inv, Inv', SizeInv, StoreInv, StoreInv', [Next]_vars
  PROVE  [Abstract!Next]_(Abstract!vvars)
  <1>1. ASSUME NEW c \in Configs, Format(c)
        PROVE  Abstract!Next
    <2>1. {Reading(root[s]) : s \in stored}' = {}
      BY <1>1 DEF Format
    <2> QED BY <2>1 DEF Abstract!Next, Abstract!Format
  <1>2. CASE FsInfoNext
    BY <1>2, FsInfoNextStores
  <1>3. CASE Dirent
    <2>1. \A s \in stored : root'[s] = root[s]
      <3>1. PICK e : root' = Append(root, e)
        BY <1>3 DEF Dirent
      <3>2. root \in Seq(EntryType) /\ stored \subseteq 1..Len(root)
        BY DEF Inv, TypeOK
      <3> QED BY <3>1, <3>2, SMT
    <2> QED BY <1>3, <2>1, Invisible DEF Dirent
  <1>4. CASE UNCHANGED <<bpb, stored, root>>
    BY <1>4, Invisible
  <1> QED BY <1>1, <1>2, <1>3, <1>4
          DEF Next, vars, disk, Reject, FormatDies, FstatFails, SuperDies, Refuse, Begin,
              Copy, CopyFails, Link, LinkBackup, LinkDies, InfoDies, FsInfoCount,
              Sync, ProcessEnds

\* FAT32Copyin is atomic at the store of nextFree: for any volume that 32-bit
\* offsets address and any files, each interleaving of stores and kills
\* implements the abstract volume.
THEOREM BuilderImplementsVolume == ASSUME VolumesFit PROVE Spec => ImplementsVolume
  <1>1. Init => Abstract!Init
    <2> SUFFICES ASSUME Init
                 PROVE  {Reading(root[s]) : s \in stored} = {}
      BY DEF Abstract!Init
    <2> QED BY DEF Init
  <1>2. Inv => StoreInv
    BY StoreFacts
  <1>3. Inv /\ Inv' /\ SizeInv /\ StoreInv /\ StoreInv' /\ [Next]_vars
          => [Abstract!Next]_(Abstract!vvars)
    BY StepRefines
  <1> QED BY <1>1, <1>2, <1>3, InvHolds, SizeHolds, PTL
          DEF Spec, ImplementsVolume, Abstract!Spec
=============================================================================
