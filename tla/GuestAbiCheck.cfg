CONSTANTS
  U32Max = 11
  HeaderLen = 2
  MarkerLen = 4
  Aligns = {0, 1, 3, 4}
  MemorySizes = {0, 4, 8, 12}
  MaxLens = {4, 11}
  BodyLens = {0, 1, 3}
SPECIFICATION Spec
CHECK_DEADLOCK FALSE
INVARIANT SliceInMemory
INVARIANT NoFalseRangeError
INVARIANT BodyFillsSlice
INVARIANT EvidenceTrue
