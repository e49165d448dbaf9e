SPECIFICATION FairSpec
CONSTANTS
  QueueBatches = {q1}
  BulkBatches = {}
  Items <- MCItems
  FlushWorker = FlushWorker
  Flushers = {}
  QueueCap = 1
  MaxRetries = 2
  Faults = FALSE
PROPERTY FlushedAtShutdown
CHECK_DEADLOCK FALSE
