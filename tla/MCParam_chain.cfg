SPECIFICATION ParamSpec
CONSTANTS
  any = any
  default = default
  outofrange = outofrange
  Pieces <- SomePieces
  RouteSets <- RegisteredRoutes
  Targets <- SomeTargets
  Any = any
  MaxCalls = 2
  MaxSteps = 4
  MaxDepth = 2
  Nodes = {"node"}
  Count = 2
  Default = default
  OutOfRange = outofrange
  Unconvertible = {"1"}
  MayStop = FALSE
  Catches = FALSE
  MaxArgs = 6
INVARIANTS ParamTypeOK ArgumentsAreOwn BlocksReset CallbackSeesItsSegment
PROPERTIES ProvidesMatchingOnly
CHECK_DEADLOCK FALSE
