SPECIFICATION Spec
CONSTANTS
  Requests = {r1, r2}
  Workers = {w1}
  QueueSize = 1
  NoRequest = NoRequest
INVARIANT CallersNeverPanic
CHECK_DEADLOCK FALSE
