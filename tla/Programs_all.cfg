CONSTANTS
  EvalSessions <- MCEvalSessions
  EvalBuf = 13
  EvalHalf = 128
  WcStreams <- MCWcStreams
  WcPool = 3
  WcWord = 4
  MkdirArgs <- MCMkdirArgs
  MkdirBuf = 6
  MkdirTrees <- MCMkdirTrees
  MkdirOthers <- MCMkdirOthers
  Jobs <- MCJobs
  IntMax = 7
  CatBuf = 2
  PrintfBuf = 4
  ZeroBuf = 2
  Counts = {0, 1, 2, 3, 5}
  Buffers = {0, 2, 3, 6}
  MaxInserts = 2
  MaxPos = 8
  SECTSIZE = 8
  PhdrSize <- MCPhdrSize
  EhdrSize <- MCEhdrSize
  FieldEnd <- MCFieldEnd
  StackBytes = {0, 3}
  SectorStart = 20
  ElfKernels <- MCElfKernels
  ElfPrograms <- MCElfPrograms
  ElfMemory <- MCElfMemory
SPECIFICATION ProgramsSpec
INVARIANTS
  LeftToRight
  StaysInLine
  WcCounts
  MkdirDelivers
  UtilitiesAsTold
  DeviceCalls
  KernelLoaded
  TextExtracted
PROPERTY
  ProgramsEnd
