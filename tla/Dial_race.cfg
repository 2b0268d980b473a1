CONSTANTS
  Modes <- AllModes
  Proxies <- AllProxies
  Addresses <- Families
  MAX_TUNNEL = 2
  MAX_ADDRESSES = 4
  DELAY_MS = 1
  LATENCY_MS = 1
  TIMEOUT_MS = 4
SPECIFICATION FairSpec
INVARIANTS
  NoSocketLeft
  EitherFamilyWillDo
  TunnelIntact
PROPERTIES
  DialEnds
CHECK_DEADLOCK FALSE
