SPECIFICATION CallSpec
CONSTANTS
  NoTask = NoTask
  Task <- Tasks3
  Pairs <- Leafs
  Keep <- KeepOf
  Depth <- DepthOf
  ChildrenOf <- RefinedTo
  TasksAt <- Lists
  Starts = {0, 1}
  DepthCap = 2
  MaxParallel = 3
  BaseRetries = 1
  RetriesPerTask = 1
  Tight <- Anywhere
  AllowEscalation = TRUE
INVARIANTS
  GradientsOnce
  OwnGradients
PROPERTIES
  CallTerminates
