\* N = 16807, so that max_depth_for is 5
SPECIFICATION LadderSpec
CONSTANTS
  Calls <- SomeCalls
  SafeRungs <- ByDepth
  AutoRungs <- Planned
  Arities = {7}
  DepthCap = 5
  NPar = 4
  BaseRetries = 64
  RetriesPerTask = 16
  AllowEscalation = TRUE
  MayFail <- NothingIsCertain
  MustFail <- OnlyDeepestFits
INVARIANTS
  TypeOK
PROPERTIES
  Survives
CHECK_DEADLOCK FALSE
