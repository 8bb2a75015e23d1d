SPECIFICATION Spec
CONSTANTS
  MaxInits = 2
  MaxPackets = 1
  MaxMux = 0
CHECK_DEADLOCK FALSE
PROPERTIES InitPlayerReturns
