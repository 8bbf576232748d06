SPECIFICATION Spec
CONSTANTS
  N = 4
  Scores <- FourScores
  MaxParts = 3
  MaxFloat <- Two
  MinDen <- Half
  SplitKernels = FALSE
INVARIANTS
  TypeOK
  OnlineRowExact
  AccumulatorExact
  OutputExact
CHECK_DEADLOCK FALSE
