\* Every kind of fault, where a swap has the most steps.
SPECIFICATION Spec
CONSTANTS
  A = A
  B = B
  F = F
  U = U
  None = None
  Garbled = Garbled
  Releases <- FlakyReleases
  Quality <- FlakyQuality
  Windows = TRUE
  StopsOn2 = FALSE
  MaxTrialCrashes = 3
  Faults = {"kill", "full", "rename", "torn"}
  MaxFaults = 4
INVARIANT
  StartPathLeadsSomewhere
