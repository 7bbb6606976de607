\* Read, save, read again.
SPECIFICATION Spec
CONSTANTS
  Files <- MCFiles
  Letters <- MCLetters
  Addr <- AddrKey
  Port <- PortKey
  Typed <- MCTyped
  MaxLen = 5
  MaxLine = 12
  MaxSaves = 2
INVARIANTS
  InBounds
  ReadsPairs
  ReadBack
PROPERTIES
  Finishes
CHECK_DEADLOCK FALSE
