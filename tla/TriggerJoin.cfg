\* Disconnect while SINGLE waits for its trigger.
SPECIFICATION Spec
CONSTANTS
  MaxClicks = 1
  MaxReplies = 0
  Spurious = FALSE
  Hasty = FALSE
PROPERTIES
  PlotQuits
CHECK_DEADLOCK FALSE
