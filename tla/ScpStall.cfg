\* An instrument that may answer before the writer clears the flag.
SPECIFICATION Spec
CONSTANTS
  Pushers = {gtk}
  Destroyer = gtk
  Reader = reader
  None = none
  MaxCmds = 2
  MaxParts = 0
  MaxTrg = 0
  TrgBatch <- NoBatch
  PromptScope = TRUE
PROPERTIES
  AnotherBitball
CHECK_DEADLOCK FALSE
