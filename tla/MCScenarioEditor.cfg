CONSTANTS
  None = None
  Broken = Broken
  Dirs = {"base", "mine"}
  Names = {"Step1", "Step2"}
  Base <- MCBase
  MaxWrites = 3
  Candidates = {"Step2"}
  Steps <- MCSteps
  SessionName = "mine"
  Ids = {"task"}
SPECIFICATION Spec
INVARIANTS
  SavedScenarioRuns
  LinkedTaskStarts
PROPERTIES
  NoForeignOverwrite
CHECK_DEADLOCK FALSE
