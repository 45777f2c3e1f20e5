SPECIFICATION FairSpec
CONSTANTS
  conn = conn
  indeterminate = indeterminate
  none = none
  Connections = {conn}
  Cuts = {1, 2, 3, 4, 5, 6, 7, 8, 9, 10}
  Clients <- SomeClients
INVARIANTS DetectTypeOK VerdictIsRight ReadsNoMore OnlyCutHelloAborts
PROPERTIES DetectionEnds
CHECK_DEADLOCK FALSE
