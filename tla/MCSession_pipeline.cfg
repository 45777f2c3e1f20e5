SPECIFICATION FairSpec
CONSTANTS
  Limit = 2
  MaxSend = 1
  Entries = {"recv"}
  Calls <- PipelineCalls
  HasOnTimer = FALSE
  MaxRequests = 5
  MaxResponses = 5
  MaxWaits = 2
  MaxReads = 2
INVARIANTS TypeOK OneReader QueueBounded NeverStalled LateRequestsBounded
PROPERTIES DeadlineCloses
