\* An AUTO batch and a trigger's batch at the same time.
SPECIFICATION Spec
CONSTANTS
  Batchers = {plot, reader}
  Reader = reader
  Chc = 2
  Points = 2
  TextLen = 1
  PntMax = 4
  MaxBatches = 2
  MaxOthers = 0
  MaxReconnects = 0
  Tidy = TRUE
  Honest = TRUE
INVARIANTS
  TraceIsChannel
CHECK_DEADLOCK FALSE
