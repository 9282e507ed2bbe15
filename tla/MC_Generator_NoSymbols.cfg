SPECIFICATION Spec
CONSTANTS
  Second = 4
  Rates <- SomeRates
  Files <- AnyFile
  Capacity = 1
  MaxTime = 2
  MaxStarts = 1
INVARIANT
  GeneratesOnlyConfigured
CHECK_DEADLOCK FALSE
