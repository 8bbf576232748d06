SPECIFICATION Spec
CONSTANTS
  c = 7
  interest_set <- C7
  None = None
  N = 49
  NPar = 2
  ChunkPoolSlots = 5
  PinnedInputs = TRUE
  MayRunOut = TRUE
  AllowEscalation = TRUE
INVARIANTS
  PoolOK
  ServedOwnRows
  ExhaustedOnlyRefined
