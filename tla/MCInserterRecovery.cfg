\* WAL recovery of two or three records with prepared transactions.
CONSTANTS
  Logs <- RecoveryLogs
  Recovering = TRUE
  CFs = {0, 1}
  CFLogNumber <- MCCFLogNumber
  IgnoreMissing = FALSE
  AllowTwoPC = TRUE
  RangeDelUnsupported = {}
  InplaceCallback = {}
  MaxSuccessiveMerges = 2
  FlushThreshold = 3
  Xids <- MCXids
SPECIFICATION Spec
INVARIANTS TypeOK PreparedRebuilt ErrorsPropagate
PROPERTIES CommitApplied
CHECK_DEADLOCK FALSE
