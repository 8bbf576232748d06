SPECIFICATION Spec
CONSTANTS
  Warps <- TwoWarps
  Launches <- SomeLaunches
  Code <- KernelCode
  Places <- KernelPlaces
  AllPlaces <- SmemPlaces
INVARIANTS
  TypeOK
  ReadsSeeTheirTile
  ForwardCountsEachPairOnce
  BackwardCountsEachPairOnce
  LoadsInBounds
