\* One thread pushes batches; connections end between two frames.
SPECIFICATION Spec
CONSTANTS
  Batchers = {reader}
  Reader = reader
  Chc = 3
  Points = 2
  TextLen = 1
  PntMax = 4
  MaxBatches = 2
  MaxOthers = 1
  MaxReconnects = 1
  Tidy = TRUE
  Honest = FALSE
INVARIANTS
  TraceIsChannel
  FrameIsOneBatch
  InBuffer
  HeaderTracked
PROPERTIES
  FramesCome
CHECK_DEADLOCK FALSE
