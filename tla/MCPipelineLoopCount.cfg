CONSTANTS
  None = None
  Tasks <- MCTasks
  Defined <- MCTasks
  StartTask = "farm"
  ActionOf <- MCActionOf
  NextOf <- MCNextOf
  Watch <- MCNoWatch
  Confidences = {1, 2}
  MaxIterations = 4
  Threshold = 1
  Grace = 1
  MaxAttempts = 1
  HasHook = TRUE
  VerifyAfterFire = TRUE
  Cancellable = FALSE
  GoalActive = TRUE
  Evaluate <- EvaluateStop
  Goals <- MCLoopCount
  FullConfidence = 2
  MaxHeight = 3
  MaxCompositionDepth = 16
  MaxTime = 3
SPECIFICATION HSpec
INVARIANT
  LoopCountCountsIterations
CHECK_DEADLOCK FALSE
