CONSTANTS
  h1 = h1
  t1 = t1
  NoHost = NoHost
  Threads <- MCThreads
  Pollers = {}
  Readers = {}
  Hosts <- MCHosts
  V4 <- MCV4
  V6 <- MCV6
  Peers <- MCPeers
  EventCap = 2
  HostCap = 2
  MaxCapture = 2
  ResponseLen = 2
  MaxSent = 3
  MaxLog = 6
SPECIFICATION Spec
CHECK_DEADLOCK FALSE
INVARIANT RequestCaptured
