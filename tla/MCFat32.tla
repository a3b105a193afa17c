------------------------------ MODULE MCFat32 ------------------------------
(* Small volumes for TLC: 16-bit halves become 8-bit ones, so that Word is *)
(* 65536 bytes, the size of a volume of 128 sectors of 512 bytes.          *)
EXTENDS Fat32

CONSTANTS a, b, c, d, z    \* files

Config(n, bps, cs) == [nSector |-> n, bytesPerSector |-> bps, clusterSize |-> cs]

\* A volume with three data clusters, one with four two-sector clusters, one
\* that has no room for a file, one that is too small to format, and a
\* rejected configuration.
SmallConfigs == {Config(16, 512, 1), Config(24, 512, 2), Config(24, 512, 8),
                 Config(16, 512, 8), Config(8, 512, 1)}

\* One with more clusters than the root directory has entries, and the largest
\* volume the offsets can address, which has nearly as many clusters as a table
\* has entries.
RootSectors == 32
LargeSectors == 128
MCConfigs == SmallConfigs \cup {Config(RootSectors, 512, 1), Config(LargeSectors, 512, 1)}

\* An empty file, one whose size is over Word and leaves 600 bytes, one of two small
\* clusters, one of seven, and one that fills the large volume.
MCFiles == {a, b, c, d, z}
MCStSize == [f \in MCFiles |-> CASE f = z -> 0 [] f = a -> Word + 600 [] f = b -> 1024
                                 [] f = c -> 3400 [] f = d -> 58880]

\* A killed copy leaves its root entry behind: bound the entries, and so the
\* number of crashes, that a behaviour on a small volume explores; b is copied
\* first or not at all.
MaxEntries == 3
FewEntries == /\ Len(root) <= MaxEntries /\ op.file \notin {c, d}
              /\ op.file = b => Len(root) <= 1

\* On the volume with the full directory, one process from format to exit, which
\* copies c and z, and in which a failed read delivers nothing.
OneProcess ==
  /\ pc = "off" => root = <<>>
  /\ pc = "idle" => \A k \in DOMAIN data : k >= info.nextFree => data[k] = Stale
  /\ op.file \notin {a, b, d}

\* On the large volume, processes that copy d and die only in the FSInfo update.
DiesInUpdate ==
  /\ pc = "off" => Len(root) = halfway
  /\ pc = "sync" => op.ret > 0
  /\ op.file \in {d, NoFile}

Explored == CASE bpb.numSectors32 = RootSectors -> OneProcess
              [] bpb.numSectors32 = LargeSectors -> DiesInUpdate
              [] OTHER -> FewEntries

----------------------------------------------------------------------------
(* What an assertion of fat.c says, and the code does not keep.            *)

\* FAT32SuperWriteEntry asserts "write out of bound" never happens.
NoWriteOutOfBound == pc = "link" => op.next < MaxCluster(bpb)
=============================================================================
