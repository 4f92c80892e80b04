\* A panic under a supervisor that stops on exit 2.
SPECIFICATION Spec
CONSTANTS
  A = A
  B = B
  F = F
  U = U
  None = None
  Garbled = Garbled
  Releases <- PairReleases
  Quality <- PairQuality
  Windows = FALSE
  StopsOn2 = TRUE
  MaxTrialCrashes = 3
  Faults = {}
  MaxFaults = 0
INVARIANT
  CrashIsRestarted
