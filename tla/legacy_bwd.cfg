SPECIFICATION Spec
CONSTANTS
  None = None
  NumPaths = 5
  Empty <- OneEmpty
  MaxParallel = 3
  MaxRounds = 2
  Schedules <- Both
  Eager = FALSE
INVARIANTS
  Conservation
  CompleteUnlessStranded
PROPERTIES
  Terminates
