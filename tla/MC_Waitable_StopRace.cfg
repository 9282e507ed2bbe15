SPECIFICATION FairSpec
CONSTANTS
  Capacity = 2
  BufferSize = 0
  MaxPushes = 1
PROPERTIES
  StopReturns
CHECK_DEADLOCK FALSE
