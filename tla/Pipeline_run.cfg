CONSTANTS
  Cnt = 3
  Cap = 1
  Depth = 1
  Items = 2
  Redirections <- MCRedirections
  Faults = {"fork", "pipe", "open", "exec"}
SPECIFICATION Spec
INVARIANTS
  NoLeakedPipeEnd
  OutputComplete
PROPERTY
  PipelineEnds
