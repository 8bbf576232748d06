SPECIFICATION FairSpec
CONSTANTS
  Calls = 2
  NumPaths = 4
  EmptyPaths <- NoTokens
  MaxStreams = 2
  PoolSize = 2
  NumBlocks = 3
INVARIANTS
  TypeOK
  WrongOnlyIfLateOrRecycled
  ProfiledCallSettles
PROPERTIES
  EverythingFinishes
CHECK_DEADLOCK FALSE
