CONSTANTS
  None = None
  MaxGames = 3
  MaxLaunchers = 3
  Steps = 2
  MaxAttempts = 2
  Samples = 2
SPECIFICATION Spec
INVARIANTS
  RestartReplacesGame
  StandaloneExitTells
  SummaryTellsRun
CHECK_DEADLOCK FALSE
