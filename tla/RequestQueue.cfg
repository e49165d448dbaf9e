SPECIFICATION FairSpec
CONSTANTS
  Requests = {r1, r2, r3}
  Workers = {w1, w2}
  QueueSize = 1
  NoRequest = NoRequest
INVARIANTS
  TypeOK
  OwnedOnce
  CountersBalance
PROPERTIES
  ImplementsService
  RequestsServed
CHECK_DEADLOCK FALSE
