CONSTANTS
  Disks <- MCDisks
  UINT32_MAX = 8
SPECIFICATION Spec
CONSTANT Layouts <- MCLayouts
INVARIANTS
  PartitionsFit
  PlacesPrefix
  EntriesKept
  HeadersConsistent
