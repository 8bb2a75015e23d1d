SPECIFICATION Spec
CONSTANTS
  MaxInits = 2
  MaxPackets = 2
  MaxMux = 1
CHECK_DEADLOCK FALSE
INVARIANTS TypeOK OwnStream NothingLost NothingOutlivesDemuxer RacesNeedNewContent
PROPERTIES PacketReachesPlayer
