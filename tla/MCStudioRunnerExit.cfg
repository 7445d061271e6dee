CONSTANTS
  None = None
  Capacity = 2
  MaxLines = 1
  MaxRuns = 2
SPECIFICATION Spec
INVARIANT
  RecordHasOwnExitCode
CHECK_DEADLOCK FALSE
