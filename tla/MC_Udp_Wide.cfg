SPECIFICATION Spec
CONSTANTS
  Width = 3
  Nul = "0"
  Name <- WideNames
  Kind <- QuoteOnly
  CmdCapacity = 2
  SockCapacity = 2
  MaxDatagrams = 1
  MaxStarts = 1
INVARIANT
  SubscribedNamePasses
CHECK_DEADLOCK FALSE
