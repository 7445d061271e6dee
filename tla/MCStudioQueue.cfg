CONSTANTS
  None = None
  Tasks = {"login", "field"}
  Capacity = 2
  MaxLines = 1
  MaxRuns = 4
  MaxQueues = 2
SPECIFICATION Spec
INVARIANTS
  ExitIsOfCurrentTask
  StartedInTurn
  AbortIsFinal
  ChecksAreRunnable
PROPERTIES
  QueueMoves
  FrameReturns
CHECK_DEADLOCK FALSE
