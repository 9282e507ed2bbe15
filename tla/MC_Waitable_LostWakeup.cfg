SPECIFICATION FairSpec
CONSTANTS
  Capacity = 2
  BufferSize = 1
  MaxPushes = 2
PROPERTIES
  PushWakesConsumer
CHECK_DEADLOCK FALSE
