CONSTANTS
  EventCap = 2
  Names <- MCNames
  Decoys <- MCDecoys
  Bytes <- MCBytes
  InitialDirs <- MCInitialDirs
  GuestPaths <- MCGuestPaths
  MaxDepth = 3
  MaxNodes = 5
\* No call depends on the latest answer, which the properties look at as the
\* step makes it.
VIEW honeypot
SPECIFICATION Spec
INVARIANT TypeOK
PROPERTY DecoyTouchesRecorded
PROPERTY OnlyWaysToDecoyPaths
