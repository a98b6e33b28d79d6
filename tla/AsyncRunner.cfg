CONSTANTS
  Cases = 5
  Repeat = 1
  Parallelism = 1
  MaxInFlightCases = 64
  Losable = {2, 4}
SPECIFICATION Spec
CHECK_DEADLOCK FALSE
INVARIANT PoolBounded
INVARIANT EveryTaskAccounted
INVARIANT ExitCodeHonest
PROPERTY BatchSpec
PROPERTY BatchDelivered
