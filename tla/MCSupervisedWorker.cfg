CONSTANTS
  Timeout = 3
  Poll = 2
  PipeSize = 14
  LineSizes <- MCLineSizes
  Expected = {"OK", "ERR_TIMEOUT", "ERR_INTERNAL"}
  MaxNow = 5
  Details <- MCDetails
  HostErrors <- MCHostErrors
SPECIFICATION TextSpec
CHECK_DEADLOCK FALSE
INVARIANT NoFalsePass
INVARIANT NoOrphan
INVARIANT TimeoutIsFinal
INVARIANT LineReadBack
PROPERTY AlwaysReports
PROPERTY ImplementsSupervisor
