CONSTANTS
  None = None
  MaxImages = 2
  Regions = {"upper", "lower"}
  Engines = {"Sse", "Ccoeff"}
  Sides = {"positives"}
  MaxSteps = 1
SPECIFICATION Spec
INVARIANTS
  SavedThresholdFits
  StepIsOfShownImage
PROPERTIES
  ProposalsArrive
CHECK_DEADLOCK FALSE
