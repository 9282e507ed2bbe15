SPECIFICATION Spec
CONSTANTS
  Width = 3
  Nul = "0"
  Name <- ShortNames
  Kind <- AllKinds
  CmdCapacity = 2
  SockCapacity = 1
  MaxDatagrams = 2
  MaxStarts = 2
INVARIANTS
  TypeOK
  CallbackNotInUse
  SubscriptionsAddUp
  SubscribedNamePasses
PROPERTIES
  ImplementsContract
  DatagramsTaken
  StopReturns
CHECK_DEADLOCK FALSE
