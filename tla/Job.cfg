\* One player's job, again and again.
SPECIFICATION LiveSpec
CONSTANTS
  MaxTimeout = 4
  MaxBackoff = 1
  DefaultBackoff = 1
  MaxRetryAfter = 2
  LeaseTTL = 18
  FetchTimeout = 3
  Pacing = 1
  Holds = {12}
  Configs <- MCConfigs
  Afters <- MCAfters
  NoHeader = NoHeader
  Half = 32
  Unreadable = {2}
  WindowSize = 3
  Fits = 2
  MaxBattles = 4
  CallTimes = {0}
INVARIANTS
  TypeOK
  BudgetKept
  SendsExactlyTheNew
  NothingShownIsMissed
PROPERTIES
  ResendsAreWarranted
  FilterIsUnseen
  BattlesArrive
