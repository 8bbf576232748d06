SPECIFICATION Spec
CONSTANTS
  N = 4
  Scores <- FourScores
  MaxParts = 3
  MaxFloat <- Two
  MinDen <- Half
  SplitKernels = TRUE
INVARIANTS
  OutputExact
CHECK_DEADLOCK FALSE
