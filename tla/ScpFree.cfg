\* The threads of the scope when scp_destroy has freed it.
SPECIFICATION Spec
CONSTANTS
  Pushers = {gtk}
  Destroyer = gtk
  Reader = reader
  None = none
  MaxCmds = 2
  MaxParts = 0
  MaxTrg = 0
  TrgBatch <- NoBatch
  PromptScope = FALSE
INVARIANTS
  ThreadsQuit
CHECK_DEADLOCK FALSE
