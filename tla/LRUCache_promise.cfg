CONSTANTS
  k1 = k1
  k2 = k2
  k3 = k3
  u = u
  v = v
  NoEntry = NoEntry
  Keys <- ThreeKeys
  Values <- TwoValues
  MAX = 2
  TTL = 2
  OwnTtls <- ZeroTtl
SPECIFICATION Spec
INVARIANTS
  MapOrder
PROPERTIES
  EvictsLeastRecent
  Implements
