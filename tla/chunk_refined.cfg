SPECIFICATION Spec
CONSTANTS
  c = 7
  interest_set <- C7
  None = None
  N = 49
  NPar = 1
  ChunkPoolSlots = 0
  PinnedInputs = FALSE
  MayRunOut = TRUE
  AllowEscalation = TRUE
INVARIANTS
  OwnRows
