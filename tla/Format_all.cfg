CONSTANTS
  IntHalf = 16
  LongHalf = 64
  DstLen = 12
  Formats <- MCFormats
  Arguments <- MCArguments
SPECIFICATION FormatSpec
INVARIANTS
  ConversionsReadBack
  TextKept
