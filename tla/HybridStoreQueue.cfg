SPECIFICATION FairSpec
CONSTANTS
  QueueBatches = {q1, q2}
  BulkBatches = {}
  Items <- MCItems
  FlushWorker = FlushWorker
  Flushers = {f1}
  QueueCap = 1
  MaxRetries = 2
  Faults = TRUE
INVARIANTS
  TypeOK
  OwnedOnce
  StoredOnce
  StatsAgree
  GracefulStopIsQuiet
PROPERTIES
  LossIsReported
  ImplementsSink
  BacklogDrains
  WritesEnd
  StopReturns
CHECK_DEADLOCK FALSE
