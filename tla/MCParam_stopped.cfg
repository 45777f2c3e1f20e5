SPECIFICATION ParamSpec
CONSTANTS
  any = any
  default = default
  outofrange = outofrange
  Pieces <- SomePieces
  RouteSets <- RegisteredRoutes
  Targets <- SomeTargets
  Any = any
  MaxCalls = 1
  MaxSteps = 5
  MaxDepth = 3
  Nodes = {"node"}
  Count = 2
  Default = default
  OutOfRange = outofrange
  Unconvertible = {}
  MayStop = TRUE
  Catches = FALSE
  MaxArgs = 6
INVARIANTS ArgumentsAreOwn
