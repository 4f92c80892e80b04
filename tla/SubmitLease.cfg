\* A lease taken while the hold of an earlier 429 still runs.
SPECIFICATION Spec
CONSTANTS
  MaxTimeout = 4
  MaxBackoff = 1
  DefaultBackoff = 1
  MaxRetryAfter = 2
  LeaseTTL = 18
  FetchTimeout = 3
  Pacing = 1
  Holds = {12}
  Configs <- MCConfigs
  Afters <- MCAfters
  NoHeader = NoHeader
  Half = 32
  Unreadable = {2}
  WindowSize = 3
  Fits = 2
  MaxBattles = 4
  CallTimes = {0}
INVARIANT
  SentWithinLease
