CONSTANTS
  Half = 256
  Word = 65536
  Configs <- SmallConfigs
  Files <- MCFiles
  StSize <- MCStSize
  NoFile = NoFile
  a = a
  b = b
  c = c
  d = d
  z = z
CONSTRAINT Explored
SPECIFICATION Spec
INVARIANT NoWriteOutOfBound
