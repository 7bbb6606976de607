\* Packets that are empty, fit, fill the buffer, and need the dustbin twice.
SPECIFICATION Spec
CONSTANTS
  HeaderLen = 2
  Bunch = 2
  Dust = 1
  Lens = {0, 1, 2, 4}
  Flags = {"srq", "last"}
  MaxPackets = 3
INVARIANTS
  InBuffers
  HandledWhole
PROPERTIES
  ImplementsChannel
CHECK_DEADLOCK FALSE
