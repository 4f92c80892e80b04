\* The hub's word is followed once the faults stop, a full disk included.
SPECIFICATION LiveSpec
CONSTANTS
  A = A
  B = B
  F = F
  U = U
  None = None
  Garbled = Garbled
  Releases <- PairReleases
  Quality <- PairQuality
  Windows = FALSE
  StopsOn2 = TRUE
  MaxTrialCrashes = 3
  Faults = {"kill", "rename", "full"}
  MaxFaults = 1
PROPERTY
  NamedReleaseArrives
