CONSTANTS
  a = a
  b = b
  c = c
  Callers <- Three
  TOKEN = 6
  RPS = 2
  CAPACITY = 12
  QUEUE_MS = 4
  POLL_MS = 2
  LAG_MS = 1
SPECIFICATION FairSpec
INVARIANTS
  TypeOK
  RateBound
  WaitBound
  RefusedOnlyIfOutbid
PROPERTIES
  EveryAcquireReturns
