SPECIFICATION Spec
CONSTANTS
  MaxInits = 1
  MaxPackets = 1
  MaxMux = 0
CHECK_DEADLOCK FALSE
INVARIANTS EndOfStreamHandled
