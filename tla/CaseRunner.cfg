\* Either two calls of any import with arguments around every boundary of the
\* range check, at any stage, with growth and ticks in between; or ticks past
\* the end of the fuel and past saturation, spread over start, grow_only and
\* run.
CONSTANTS
  U32Max = 11
  HeaderLen = 2
  MarkerLen = 2
  PageBytes = 4
  GrowLimit = 2
  MaxMemoryPages = 1
  RequireTick = TRUE
  InitialFuel = 3
  MaxPacketLen = 3
  MaxCapLen = 1
  MaxAlloc = 1
  TickHead = 1
  TickStride = 3
  TickMax = 4
  Ptrs = {0, 6, 11}
  Lens = {1, 2}
  Aligns = {2}
  BodyLens = {0}
  MaxCalls = 6
  TicksPerCall = 3
SPECIFICATION Spec
CHECK_DEADLOCK FALSE
INVARIANT TypeOK
INVARIANT NothingRunsUnvetted
INVARIANT HostBytesExplained
INVARIANT VerdictMatchesGates
INVARIANT FuelAccounting
INVARIANT ReportAccountsForFuel
INVARIANT CompletedReportIsComplete
PROPERTY JudgedOnPresentMemory
