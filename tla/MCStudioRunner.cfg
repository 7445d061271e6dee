CONSTANTS
  None = None
  Capacity = 2
  MaxLines = 1
  MaxRuns = 2
SPECIFICATION Spec
INVARIANTS
  ReportIsOfItsRun
  JudgedOnce
  ExactUntilOverlap
  NoOrphan
CHECK_DEADLOCK FALSE
