SPECIFICATION FairSpec
CONSTANTS
  MaxGenerations = 3
  Generations <- MCGenerations
  NoHeader = 0
  MaxPolls = 5
  Headers = {TRUE, FALSE}
INVARIANTS
  PollsBalance
  TracksNewest
  SkippedByTimeWasIngested
PROPERTIES
  IngestedInOrder
  GracefulStopIsQuiet
  StopReturns
  WorkerLeaves
CHECK_DEADLOCK FALSE
