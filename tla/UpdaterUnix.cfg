\* Unix under systemd or run-forever.sh: kills anywhere, renames refused.
SPECIFICATION Spec
CONSTANTS
  A = A
  B = B
  F = F
  U = U
  None = None
  Garbled = Garbled
  Releases <- FlakyReleases
  Quality <- FlakyQuality
  Windows = FALSE
  StopsOn2 = TRUE
  MaxTrialCrashes = 3
  Faults = {"kill", "rename"}
  MaxFaults = 4
INVARIANTS
  TypeOK
  UnprovenIsInsured
  OnlyCrashesCount
  EveryCrashCounts
  RolledBackStaysOut
  TrialIsNeverStranded
PROPERTIES
  PromiseKept
  ProvenIsNeverRolledBack
