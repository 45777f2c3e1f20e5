SPECIFICATION SslFairSpec
CONSTANTS
  Limit = 1
  MaxSend = 1
  Entries = {"handshake"}
  Calls <- PipelineCalls
  HasOnTimer = FALSE
  MaxRequests = 1
  MaxResponses = 1
  MaxWaits = 1
  MaxReads = 1
  MaxShutdowns = 0
PROPERTIES DeadlineClosesSsl
