\* launchd: a full disk, and a power cut in the middle of the rollback.
SPECIFICATION LiveSpec
CONSTANTS
  A = A
  B = B
  F = F
  U = U
  None = None
  Garbled = Garbled
  Releases <- BrokenReleases
  Quality <- BrokenQuality
  Windows = FALSE
  StopsOn2 = FALSE
  MaxTrialCrashes = 3
  Faults = {"kill", "full"}
  MaxFaults = 2
PROPERTY
  CrashLoopEnds
