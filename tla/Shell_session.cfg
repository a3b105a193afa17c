CONSTANTS
  Lines <- MCLines
  MaxJobs = 4
  MaxArgv = 4
SPECIFICATION Spec
INVARIANTS
  CommandsAsWritten
  FailsOnlyOutOfBounds
PROPERTY LineEnds
