CONSTANTS
  h1 = h1
  h2 = h2
  t1 = t1
  t2 = t2
  shared4 = shared4
  a6 = a6
  b6 = b6
  elsewhere = elsewhere
  NoHost = NoHost
  Threads <- MCThreads
  Pollers = {}
  Readers = {}
  Hosts <- MCHosts
  V4 <- MCV4
  V6 <- MCV6
  Peers <- MCPeers
  EventCap = 2
  HostCap = 2
  MaxCapture = 2
  ResponseLen = 0
  MaxSent = 1
  MaxLog = 4
SYMMETRY Symmetric
SPECIFICATION Spec
CHECK_DEADLOCK FALSE
INVARIANT KeepsLatestEvents
INVARIANT CapturedBeforeAnswered
PROPERTY DomainWasResolved
PROPERTY KnownHostsKept
