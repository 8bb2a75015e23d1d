SPECIFICATION Spec
CONSTANTS
  MaxInits = 2
  MaxPackets = 1
  MaxMux = 1
CHECK_DEADLOCK FALSE
INVARIANTS PlayKeepsPlayer
