SPECIFICATION SslFairSpec
CONSTANTS
  Limit = 2
  MaxSend = 1
  Entries = {"handshake"}
  Calls <- PipelineCalls
  HasOnTimer = FALSE
  MaxRequests = 4
  MaxResponses = 5
  MaxWaits = 2
  MaxReads = 1
  MaxShutdowns = 0
INVARIANTS SslTypeOK SslReaderBounded SslNeverStalled ShutdownsBounded
PROPERTIES DeadlineShutsDown ForcedCloseReleases
