SPECIFICATION FairSpec
CONSTANTS
  NoTask = NoTask
  Task <- Tasks
  Pairs <- Leafs
  Keep <- KeepOf
  Kin <- KinOf
  ChildrenOf <- RefinedTo
  Depth <- DepthOf
  Itr = 1
  Roots <- TopLevel
  DepthCap = 2
  NPar = 2
  BaseRetries = 64
  RetriesPerTask = 16
  Tight <- Shallow
  HostResident = TRUE
  AccOnGpu = FALSE
  AllowEscalation = TRUE
  Faults = FALSE
PROPERTIES
  Recovers
