\* A write group of one or two writers through one inserter.
CONSTANTS
  Logs <- GroupLogs
  Recovering = FALSE
  CFs = {0, 1}
  CFLogNumber <- MCCFLogNumber
  IgnoreMissing = TRUE
  AllowTwoPC = TRUE
  RangeDelUnsupported = {1}
  InplaceCallback = {1}
  MaxSuccessiveMerges = 2
  FlushThreshold = 3
  Xids <- MCXids
SPECIFICATION Spec
INVARIANTS  SeqLinearity ErrorsPropagate
CHECK_DEADLOCK FALSE
