SPECIFICATION FairServerSpec
CONSTANTS
  c1 = c1
  c2 = c2
  none = none
  indeterminate = indeterminate
  Connections = {c1, c2}
  Cuts = {5}
  Clients <- SomeClients
  MaxErrors = 1
INVARIANTS ServerTypeOK SessionFitsClient OneOwner InAcceptOrder OneAccept
PROPERTIES EveryClientAnswered
CHECK_DEADLOCK FALSE
