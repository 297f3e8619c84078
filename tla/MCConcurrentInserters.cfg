\* Two writers of a parallel write group inserting into shared memtables.
CONSTANTS
  Writers = {1, 2}
  BatchChoices <- MCBatchChoices
  FirstSeq = 100
  CFs = {0, 1}
  IgnoreMissing = TRUE
  RangeDelUnsupported = {1}
  FlushThreshold = 2
SPECIFICATION Spec
INVARIANTS
  TypeOK
  DistinctSequences
  CountersExact
  FlushScheduledOnce
PROPERTIES
  FlushEventuallyScheduled
\* InsertInto returns on every thread: the run ends with all writers done.
CHECK_DEADLOCK FALSE
