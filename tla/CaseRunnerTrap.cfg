\* A guest that calls an import and then traps.
CONSTANTS
  U32Max = 2
  HeaderLen = 1
  MarkerLen = 1
  PageBytes = 1
  GrowLimit = 1
  MaxMemoryPages = 0
  RequireTick = FALSE
  InitialFuel = 3
  MaxPacketLen = 1
  MaxCapLen = 1
  MaxAlloc = 1
  TickHead = 1
  TickStride = 3
  TickMax = 5
  Ptrs = {}
  Lens = {1, 2}
  Aligns = {}
  BodyLens = {}
  MaxCalls = 2
  TicksPerCall = 1
SPECIFICATION Spec
CHECK_DEADLOCK FALSE
INVARIANT EveryDecisionReported
