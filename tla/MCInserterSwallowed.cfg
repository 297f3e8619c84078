\* WAL recovery when the DB does not allow 2PC: is a refused prepare section reported?
CONSTANTS
  Logs <- RecoveryLogs
  Recovering = TRUE
  CFs = {0, 1}
  CFLogNumber <- MCCFLogNumber
  IgnoreMissing = FALSE
  AllowTwoPC = FALSE
  RangeDelUnsupported = {}
  InplaceCallback = {}
  MaxSuccessiveMerges = 2
  FlushThreshold = 3
  Xids <- MCXids
SPECIFICATION Spec
INVARIANT ErrorsPropagate
CHECK_DEADLOCK FALSE
