CONSTANTS
  c1 = c1
  c2 = c2
  N = 2
  INITIAL_COOLDOWN_MS = 5
  MAX_COOLDOWN_MS = 10
  Callers <- TwoCallers
  RETRIES = 1
  ATTEMPT_MS = 2
  BACKOFF_MS = 1
  Weathers <- FlappingOrOneUp
SPECIFICATION BusySpec
INVARIANTS
  TypeOK
  SingleProbe
  ProbeSlotHeld
  SurvivesDownHosts
PROPERTIES
  EveryHostTried
  EveryCallEnds
