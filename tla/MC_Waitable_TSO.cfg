SPECIFICATION FairSpec
CONSTANTS
  Capacity = 2
  BufferSize = 1
  MaxPushes = 4
INVARIANTS
  TypeOK
  NoMissedNotify
  NoFullStall
PROPERTIES
  ImplementsFifo
  VisiblePushWakes
  StopWakesSleeper
CHECK_DEADLOCK FALSE
