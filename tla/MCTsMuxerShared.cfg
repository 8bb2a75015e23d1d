SPECIFICATION Spec
CONSTANTS
  PacketSize = 188
  CcModulus = 3
  PatInterval = 2
  PesLengthLimit = 300
  StreamPidMap <- MCStreamPidMap
  PmtPid = 4096
  PcrPid = 256
  Frames <- AudioTracks
  Pcrs <- MCPcrs
CHECK_DEADLOCK FALSE
INVARIANT CountedByPid
