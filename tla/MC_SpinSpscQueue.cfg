SPECIFICATION SpinSpec
CONSTANTS
  a = a
  b = b
  Raw = Raw
  Item = {a, b}
  Capacity = 2
  Modulus = 4
  MaxPushes = 6
INVARIANTS
  TypeOK
  FifoOrder
  SlotOwnership
  EmptyMeansDrained
  DestroysUnlessWrapped
  AtMostOneAfterStop
PROPERTIES
  ImplementsFifo
  EveryItemHandedOut
CHECK_DEADLOCK FALSE
