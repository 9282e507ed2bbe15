SPECIFICATION Spec
CONSTANTS
  Width = 3
  Nul = "0"
  Name <- DistinctNames
  Kind <- WholeAndLone
  Hwm = 1
  MaxCalls = 3
  MaxMessages = 2
  MaxStarts = 2
INVARIANTS
  TypeOK
  PartsPaired
  SubscriptionsAddUp
  ClosedUnused
PROPERTIES
  ImplementsContract
  LoopEnds
CHECK_DEADLOCK FALSE
