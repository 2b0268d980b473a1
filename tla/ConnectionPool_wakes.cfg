CONSTANTS
  a = a
  b = b
  k1 = k1
  k2 = k2
  NoConn = NoConn
  Nobody = Nobody
  Callers = {a, b}
  Conns = {k1, k2}
  KEEPALIVE_MS = 2
  REQUEST_MS = 2
  HANDSHAKE_MS = 1
  MAX_CALLS = 3
  MAX_CHUNK = 2
  CLOSES = TRUE
SPECIFICATION FairSpec
INVARIANTS
  OneWake
  OneLiveConnection
PROPERTIES
  RequestEnds
