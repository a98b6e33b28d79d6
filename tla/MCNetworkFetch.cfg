CONSTANTS
  h1 = h1
  fetcher = fetcher
  other = other
  reader = reader
  second = second
  NoHost = NoHost
  Threads <- MCThreads
  Pollers = {other}
  Readers = {reader, second}
  Hosts <- MCHosts
  V4 <- MCV4
  V6 <- MCV6
  Peers <- MCPeers
  EventCap = 2
  HostCap = 2
  MaxCapture = 2
  ResponseLen = 2
  MaxSent = 3
  MaxLog = 7
  Fetcher = fetcher
  Host = h1
  RequestLen = 2
  HeaderLen = 1
  Chunk = 1
  MaxResponse = 2
SPECIFICATION FetchSpec
CHECK_DEADLOCK FALSE
INVARIANT FetchTypeOK
INVARIANT CaptureIsPrefix
INVARIANT NoLostWakeup
PROPERTY InterceptionSpec
