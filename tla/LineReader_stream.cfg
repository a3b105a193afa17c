CONSTANTS
  Size = 3
  DstSize = 4
  NUL = NUL
  NL = NL
  x = x
  y = y
  Bytes <- MCBytes
  Streams <- MCStreams
SPECIFICATION Spec
INVARIANTS
  StreamPreserved
  LinesKeptApart
PROPERTY
  ReadsToEof
