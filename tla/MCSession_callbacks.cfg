SPECIFICATION FairSpec
CONSTANTS
  Limit = 2
  MaxSend = 2
  Entries = {"recv", "send", "wait"}
  Calls <- CallbackCalls
  HasOnTimer = TRUE
  MaxRequests = 2
  MaxResponses = 3
  MaxWaits = 2
  MaxReads = 2
INVARIANTS InRequestOrder
PROPERTIES EveryResponseSettled
