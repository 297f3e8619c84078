\* DB mutex around WAL recovery and the first write after Open.
CONSTANTS
  Recoverer = r
  Writer = x
  Threads = {r, x}
  NoThread = NoThread
  EnvAndStats = TRUE
  StatsLevelChoices = {"kExceptDetailedTimers", "kExceptTimeForMutex", "kAll"}
  WalRecords <- MCWalRecords
  WriterRecords <- MCWriterRecords
  RecoveryLogNumber = 5
  MaxSuccessiveMerges = 2
SPECIFICATION Spec
INVARIANTS
  TypeOK
  MutexWaitsRecorded
PROPERTIES
  AllThreadsFinish
\* Open and the write both return: the run ends with every thread done.
CHECK_DEADLOCK FALSE
