CONSTANTS
  Batches = {b1}
  NULL = NULL
  CFs = {0, 1}
  Keys <- MCKeys
  Values <- MCValues
  Xids <- MCXids
  MaxBytes = 19
  StackIds = {s1}
  InitPayloads <- MCInitPayloads
  GarbageBytes = {0}
  WalTermRespected = FALSE
  CopiesWithoutSavePoints = TRUE
  SetContentsOnFresh = TRUE
  EndPrepareOnNoop = TRUE
  MaxPayload = 7
  MaxSavePoints = 2
SPECIFICATION Spec
CONSTRAINT StateBound
INVARIANT WalTermWithinBatch
