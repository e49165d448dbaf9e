SPECIFICATION Spec
CONSTANTS
  MaxGenerations = 3
  Generations <- MCGenerations
  NoHeader = 0
  MaxPolls = 3
  Headers = {TRUE}
INVARIANT SkippedWasIngested
CHECK_DEADLOCK FALSE
