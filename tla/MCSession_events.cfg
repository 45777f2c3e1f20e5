SPECIFICATION FairSpec
CONSTANTS
  Limit = 1
  MaxSend = 1
  Entries = {"make", "recv", "hold"}
  Calls <- EventCalls
  HasOnTimer = TRUE
  MaxRequests = 2
  MaxResponses = 2
  MaxWaits = 2
  MaxReads = 1
PROPERTIES ClosedIsReleased
CHECK_DEADLOCK FALSE
