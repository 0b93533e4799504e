CONSTANTS
  Errors <- SomeErrors
  Cap = 3
  StallWindow = 3
  StallThreshold = 2
  DivergenceFactor = 2
  MaxPushed = 6
SPECIFICATION RingSpec
INVARIANTS
  HoldsLatest
  DecidesAsUnbounded
