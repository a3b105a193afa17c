CONSTANTS
  Half = 32768
  Word = 1073741824
  CommandLines <- MCCommandLines
  Inputs <- MCInputs
  Headers <- MCHeaders
SPECIFICATION PayloadSpec
INVARIANTS
  DiskLaidOut
  ExitZeroMeansInstalled
  BootFindsKernel
  MemoryApart
  PayloadWhereLoaded
PROPERTY ToolEnds
