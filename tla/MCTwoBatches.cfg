CONSTANTS
  Batches = {b1, b2}
  NULL = NULL
  CFs = {0}
  Keys <- MCKeys
  Values <- MCValues
  Xids <- MCXids
  MaxBytes = 15
  StackIds = {s1, s2}
  InitPayloads = {}
  GarbageBytes = {0}
  WalTermRespected = TRUE
  CopiesWithoutSavePoints = TRUE
  SetContentsOnFresh = TRUE
  EndPrepareOnNoop = TRUE
  MaxPayload = 3
  MaxSavePoints = 0
SPECIFICATION Spec
CONSTRAINT StateBound
SYMMETRY Symmetry
PROPERTIES
  Refinement
