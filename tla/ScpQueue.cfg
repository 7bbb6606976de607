\* An instrument slower than the writer's bookkeeping.
SPECIFICATION Spec
CONSTANTS
  Pushers = {gtk, plot}
  Destroyer = gtk
  Reader = reader
  None = none
  MaxCmds = 3
  MaxParts = 1
  MaxTrg = 1
  TrgBatch <- SettingThenQuery
  PromptScope = FALSE
INVARIANTS
  CountMatches
  ReplyMatches
  OneOutstanding
  NoDanglingUse
  NoLostCommand
  NoStall
  Pacing
PROPERTIES
  SentInOrder
  ImplementsService
  DestroyReturns
CHECK_DEADLOCK FALSE
