SPECIFICATION Spec
CONSTANTS
  Width = 3
  Nul = "0"
  Name <- PrefixNames
  Kind <- QuoteOnly
  Hwm = 1
  MaxCalls = 1
  MaxMessages = 1
  MaxStarts = 1
PROPERTY
  ImplementsContract
CHECK_DEADLOCK FALSE
