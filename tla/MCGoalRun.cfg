CONSTANTS
  FullConfidence = 2
  TaskNames = {"clear", "menu"}
  MaxHeight = 3
  MaxCompositionDepth = 2
  NoMatchYet = NoMatchYet
  Candidates <- MCCandidates
  StepMatches <- MCStepMatches
  MaxSteps = 3
  MaxElapsed = 2
SPECIFICATION Spec
INVARIANTS
  DecisionIsJustified
  AnyFailurePriority
  MetIsNoticed
  AcceptedIsSound
CHECK_DEADLOCK FALSE
