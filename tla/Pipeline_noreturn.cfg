CONSTANTS
  Cnt = 2
  Cap = 1
  Depth = 1
  Items = 1
  Redirections <- Plain
  Faults = {"exec"}
SPECIFICATION Spec
INVARIANT NoRunaway
