SPECIFICATION FairServiceSpec
CONSTANTS
  Requests = {r1, r2}
  Workers = {w1}
  QueueSize = 1
  NoRequest = NoRequest
  MaxUpdates = 1
INVARIANTS
  AnswersAreCurrent
  RequestsMeasured
  PoolBeforeStore
  TimelyExitAnswers
PROPERTIES
  RequestsAnswered
  ShutdownEnds
CHECK_DEADLOCK FALSE
