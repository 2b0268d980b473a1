CONSTANTS
  c1 = c1
  c2 = c2
  NoTip = NoTip
  Lookups = {c1, c2}
  MIN_CONF = 2
  MAX_HISTORY_WALK = 2
  NAME_EXPIRE_DEPTH = 2
  TIP_CACHE_TTL_MS = 2
  REQUEST_MS = 1
  MAX_HEIGHT = 3
  SUBSCRIBE_FAILS = TRUE
  FETCH_FAILS = TRUE
SPECIFICATION Spec
SYMMETRY Callers
INVARIANTS
  TipIsNotBehindItsStamp
  UpdateIsServedInTime
  ExpiryIsInTime
  ServedIsConfirmed
