\* StoreFile can wait for ever on idxChan.
SPECIFICATION SpecIndexed
CONSTANTS
  MaxPartitions = 2
  MaxEntries = 2
  MaxFaults = 1
  a = a
  b = b
  Nil = Nil
  Layouts <- MCLayouts
  Earlier <- MCEarlier
INVARIANTS
  CompletedAfterIndexing
  SyncBlocksStore
  ErrorsReported
  HashedRight
  AllNamed
PROPERTIES
  NamesKept
CHECK_DEADLOCK FALSE
