CONSTANTS
  Batches = {b1}
  NULL = NULL
  CFs = {0}
  Keys <- MCKeys
  Values <- MCValues
  Xids <- MCXids
  MaxBytes = 17
  StackIds = {s1}
  InitPayloads <- MCInitPayloads
  GarbageBytes = {0}
  WalTermRespected = TRUE
  CopiesWithoutSavePoints = TRUE
  SetContentsOnFresh = TRUE
  EndPrepareOnNoop = TRUE
  MaxPayload = 6
  MaxSavePoints = 2
SPECIFICATION Spec
CONSTRAINT StateBound
PROPERTIES Refinement
