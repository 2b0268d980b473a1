CONSTANTS
  c1 = c1
  c2 = c2
  N = 2
  INITIAL_COOLDOWN_MS = 2
  MAX_COOLDOWN_MS = 2
  Callers <- OneCaller
  RETRIES = 0
  ATTEMPT_MS = 1
  BACKOFF_MS = 1
  Weathers <- FlappingExpiring
SPECIFICATION BusySpec
PROPERTIES
  EveryHostTried
