SPECIFICATION Spec
CONSTANTS
  QueueCapacity = 2
  NetCapacity = 2
  Modulus = 8
  MaxMessages = 4
  MaxTime = 2
INVARIANTS
  TypeOK
  LatenciesAreTrue
  NothingLostInside
  UsesAreAlive
  EndsClean
PROPERTIES
  ImplementsChannel
  Terminates
CHECK_DEADLOCK FALSE
