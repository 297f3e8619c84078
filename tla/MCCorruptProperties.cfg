\* A properties block with an entry BlockIter cannot parse: is the failure returned?
CONSTANTS
  TableOptionsChoices <- MCTableOptionsChoices
  MaxFormatVersion = 2
  UintNames = {"rocksdb.data.size", "rocksdb.num.entries"}
  StringNames = {"rocksdb.comparator", "rocksdb.filter.policy"}
  NameOrder <- MCNameOrder
  TablePropsChoices <- MCTablePropsChoices
  CollectorChoices <- MCCollectorChoices
  NumCollectors = 2
  kPropertiesBlock = "rocksdb.properties"
  kPropertiesBlockOldName = "rocksdb.stats"
  NoBlock = NoBlock
  PropsNameChoices = {"rocksdb.properties", "rocksdb.stats", NoBlock}
  OtherMetaBlocks = {"rocksdb.range_del"}
  Targets = {"properties", "rocksdb.range_del", "rocksdb.compression_dict"}
  IOFaults = TRUE
  CorruptHandles = TRUE
  CorruptEntries = TRUE
SPECIFICATION Spec
INVARIANT PropertiesRoundTrip
\* ReadTableProperties and ReadMetaBlock return: every behaviour ends.
CHECK_DEADLOCK FALSE
