SPECIFICATION TreeSpec
CONSTANTS
  c = 7
  interest_set <- C7
  Lengths <- SomeLengths
  Aligns = {1, 2}
  BlkSize = 2
  Tiles <- SomeTiles
INVARIANTS
  TreeTypeOK
  ChildrenPartition
  PairCoverage
  BlockBaseExact
  RefinementShrinks
  TilesKeepExactly
  FusedPathsAgree
CHECK_DEADLOCK FALSE
