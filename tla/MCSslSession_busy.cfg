SPECIFICATION SslSpec
CONSTANTS
  Limit = 1
  MaxSend = 2
  Entries = {"handshake"}
  Calls <- BusyCalls
  HasOnTimer = TRUE
  MaxRequests = 1
  MaxResponses = 3
  MaxWaits = 1
  MaxReads = 1
  MaxShutdowns = 1
INVARIANTS OneWriter SerializerOwned
PROPERTIES ImplementsPipe
CHECK_DEADLOCK FALSE
