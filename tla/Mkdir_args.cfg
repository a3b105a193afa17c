CONSTANTS
  MkdirArgs <- MCArgs
  MkdirBuf = 6
  MkdirTrees <- Empty
  MkdirOthers = {}
SPECIFICATION MkdirSpec
INVARIANT MkdirMakesArguments
