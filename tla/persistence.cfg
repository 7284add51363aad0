SPECIFICATION FairSpec
CONSTANTS
  BatchSize = 2
  MaxRows = 6
  MaxFailures = 2
  MaxCrashes = 1
CHECK_DEADLOCK FALSE
INVARIANTS
  EachRowOnce
  LossHasCause
  ShutdownFlushes
PROPERTIES
  StoredInOrder
  RowsSettle
