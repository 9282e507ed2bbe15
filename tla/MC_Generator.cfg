SPECIFICATION FairSpec
CONSTANTS
  Second = 4
  Rates <- SomeRates
  Files <- GoodFile
  Capacity = 1
  MaxTime = 4
  MaxStarts = 2
INVARIANTS
  TypeOK
  NeverAheadOfSchedule
  LostOnlyByStop
  TimestampsInOrder
PROPERTIES
  CatchesUp
  StopReturns
CHECK_DEADLOCK FALSE
