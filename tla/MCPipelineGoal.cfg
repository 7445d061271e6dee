CONSTANTS
  None = None
  Tasks <- MCTasks
  Defined <- MCTasks
  StartTask = "farm"
  ActionOf <- MCActionOf
  NextOf <- MCNextOf
  Watch <- MCWatch
  Confidences = {1, 2}
  MaxIterations = 4
  Threshold = 1
  Grace = 1
  MaxAttempts = 1
  HasHook = TRUE
  VerifyAfterFire = TRUE
  Cancellable = TRUE
  GoalActive = TRUE
  Evaluate <- EvaluateStop
  Goals <- MCGoals
  FullConfidence = 2
  MaxHeight = 3
  MaxCompositionDepth = 16
  MaxTime = 3
SPECIFICATION HSpec
INVARIANTS
  GoalReachedIsSeen
  TimeLimitNoticed
  NoHookAfterTimeLimit
PROPERTIES
  Termination
  CancelStopsRun
  KeepsDriverContract
CHECK_DEADLOCK FALSE
