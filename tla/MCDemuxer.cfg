SPECIFICATION DemuxerSpec
CONSTANTS
  Size = 2
  MaxParse = 4
  Timestamps = {1, 3}
  Extradata <- NoHeader
CHECK_DEADLOCK FALSE
INVARIANTS DemuxerTypeOK FirstInFirstOut EndsAfterData NoLostWakeup ProperTimestamps
PROPERTIES DestructorReturns EverythingDemuxed
