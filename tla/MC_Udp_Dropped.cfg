SPECIFICATION Spec
CONSTANTS
  Width = 3
  Nul = "0"
  Name <- ShortNames
  Kind <- QuoteOnly
  CmdCapacity = 2
  SockCapacity = 2
  MaxDatagrams = 0
  MaxStarts = 1
PROPERTY
  SubscribeCounts
CHECK_DEADLOCK FALSE
