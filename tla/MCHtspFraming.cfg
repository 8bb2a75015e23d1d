SPECIFICATION Spec
CONSTANTS
  H = 2
  Lengths = {1, 3}
  MaxFrames = 3
  MaxErrors = 2
INVARIANTS
  TypeOK
  DeliveredInOrder
  HeaderAligned
  CopyInBounds
PROPERTIES
  EveryFrameDelivered
  ImplementsStream
