\* A user and an instrument slower than a few statements.
SPECIFICATION Spec
CONSTANTS
  MaxClicks = 3
  MaxReplies = 1
  Spurious = TRUE
  Hasty = FALSE
PROPERTIES
  Rearms
  AutoPlots
  DisconnectStopsPlot
  HandlersFinish
CHECK_DEADLOCK FALSE
