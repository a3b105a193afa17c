CONSTANTS
  Half = 256
  Word = 65536
  Configs <- MCConfigs
  Files <- MCFiles
  StSize <- MCStSize
  NoFile = NoFile
  a = a
  b = b
  c = c
  d = d
  z = z
CONSTRAINT Explored
SPECIFICATION Spec
INVARIANTS
  TypeOK
  FilesIntact
  NextFreeUnused
  ReturnNamesFile
  TablesAgree
  AbortsExplained
  RootFits
  AssertsHold
  NeverWild
PROPERTY
  ImplementsVolume
