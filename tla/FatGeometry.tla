---------------------------- MODULE FatGeometry ----------------------------
(***************************************************************************)
(* The arithmetic of gpt/fat.c: which configurations createFAT32 accepts,  *)
(* the BIOS parameter block it writes for them, and the quantities that    *)
(* FAT32SuperInit and FAT32Copyin derive from it.  uint32_t arithmetic is  *)
(* arithmetic modulo Word (2^32 in the build).                             *)
(***************************************************************************)
EXTENDS Integers

CONSTANTS
  Half,     \* 2^16, the range of the uint16_t halves of a cluster number
  Word      \* 2^32, the range of uint32_t

ASSUME WordAssumption == Half \in Nat \ {0, 1} /\ Word = Half * Half

U32(n) == n % Word
CDIV(a, b) == U32(a + b - 1) \div b
EOC == Word - 1

BytesPerCluster(b) == b.numSectorPerCluster * b.bytesPerSector
DataStart(b) == b.numReservedSectors + b.fatSize32 * b.numAllocTable
MaxClusterOfVolume(b) ==    \* mutant: the reserved and FAT sectors are not subtracted
  b.numSectors32 \div b.numSectorPerCluster
MaxCluster(b) == U32(b.numSectors32 - DataStart(b)) \div b.numSectorPerCluster
NumRootEntry(b) == BytesPerCluster(b) \div 32
FatEntries(b) == b.fatSize32 * (b.bytesPerSector \div 4)
ClusterSector(b, c) == (c - 2) * b.numSectorPerCluster + DataStart(b)
MaxFileSize(b, next) == U32(BytesPerCluster(b) * (MaxCluster(b) - next))

\* FAT32SuperGetSector computes sector * bytesPerSector in 32 bits.
SectorOffset(b, s) == U32(s * b.bytesPerSector)
SectorAddressable(b, s) ==
  s < b.numSectors32 /\ SectorOffset(b, s) = s * b.bytesPerSector

----------------------------------------------------------------------------
(* createFAT32: accepted configurations and the parameter block.           *)

Valid(c) == /\ c.nSector >= 16
            /\ c.bytesPerSector \in {512, 1024, 2048, 4096}
            /\ c.clusterSize \in {1, 2, 4, 8, 16, 32, 64, 128}

NumClusterOnDisk(c) == c.nSector \div c.clusterSize

BpbOf(c) ==
  [numSectors32 |-> c.nSector, bytesPerSector |-> c.bytesPerSector,
   numSectorPerCluster |-> c.clusterSize, numReservedSectors |-> 8,
   numAllocTable |-> 2,
   fatSize32 |-> CDIV(NumClusterOnDisk(c), c.bytesPerSector \div 4)]
=============================================================================
