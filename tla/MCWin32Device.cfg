CONSTANTS
  None = None
  Processes = {"p1", "p2"}
  WindowOf <- MCWindowOf
  Foreign = {"other"}
  Places = {"left", "right"}
  Icon = Icon
  MaxChanges = 6
SPECIFICATION Spec
INVARIANTS
  StaleHandleCostsOneFrame
  StrayPressIsLate
  HeldButtonIsTold
