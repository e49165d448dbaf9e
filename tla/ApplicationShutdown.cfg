SPECIFICATION Spec
CONSTANTS
  Generations <- MCGenerations
  Blank <- MCBlank
  NoHeader = 0
  MaxPolls = 1
  FlushWorker = FlushWorker
  MaxRetries = 1
  Faults = FALSE
  MaxQueries = 0
INVARIANTS
  ArrivedIsProcessed
CHECK_DEADLOCK FALSE
