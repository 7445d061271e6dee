CONSTANTS
  None = None
  Tasks <- MCTasks
  Defined <- MCDefined
  StartTask = "login"
  ActionOf <- MCActionOf
  NextOf <- MCNextOf
  Watch <- MCWatch
  Confidences = {1}
  MaxIterations = 4
  Threshold = 2
  Grace = 2
  MaxAttempts = 2
  HasHook = TRUE
  VerifyAfterFire = TRUE
  Cancellable = FALSE
  GoalActive = FALSE
  Evaluate <- MCNoGoal
  MaxTime = 4
SPECIFICATION HSpec
INVARIANTS
  TypeOK
  NoHookWhileBooting
  HookHasCause
  MissesNotIgnored
  TelemetryIsExact
  ReportTellsCommands
  PositionFollowsEvidence
PROPERTY
  KeepsRecoveryPolicy
CHECK_DEADLOCK FALSE
