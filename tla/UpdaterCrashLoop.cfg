\* A release that always crashes, with two faults on the way.
SPECIFICATION LiveSpec
CONSTANTS
  A = A
  B = B
  F = F
  U = U
  None = None
  Garbled = Garbled
  Releases <- BrokenReleases
  Quality <- BrokenQuality
  Windows = FALSE
  StopsOn2 = TRUE
  MaxTrialCrashes = 3
  Faults = {"kill", "rename"}
  MaxFaults = 2
PROPERTY
  CrashLoopEnds
