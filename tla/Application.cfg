SPECIFICATION FairSpec
CONSTANTS
  Generations <- MCGenerations
  Blank <- MCBlank
  NoHeader = 0
  MaxPolls = 2
  FlushWorker = FlushWorker
  MaxRetries = 2
  Faults = TRUE
  MaxQueries = 1
INVARIANTS
  TrackedIsDurable
  CountersAgree
  QuietStopEndsIngest
  CleanExit
PROPERTIES
  CommittedInOrder
  ShutdownEnds
CHECK_DEADLOCK FALSE
