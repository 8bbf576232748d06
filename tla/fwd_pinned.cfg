SPECIFICATION FairSpec
CONSTANTS
  NoTask = NoTask
  Task <- Tasks
  Pairs <- Leafs
  Keep <- KeepOf
  Kin <- KinOf
  ChildrenOf <- RefinedTo
  Depth <- DepthOf
  Itr = 1
  Roots <- TopLevel
  DepthCap = 2
  NPar = 4
  BaseRetries = 2
  RetriesPerTask = 1
  Tight <- Anywhere
  HostResident = TRUE
  AccOnGpu = TRUE
  AllowEscalation = TRUE
  Faults = TRUE
INVARIANTS
  TypeOK
  ReturnedExact
  Conservation
  NoGarbledMerge
  BoundedInFlight
  ConcurrencyFirst
PROPERTIES
  Terminates
  ImplementsLoop
