SPECIFICATION DemuxerSpec
CONSTANTS
  Size = 2
  MaxParse = 1
  Timestamps = {0}
  Extradata <- AnyHeader
CHECK_DEADLOCK FALSE
INVARIANTS CustomFrequencyLeft
