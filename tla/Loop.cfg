\* A cooldown shorter than the watchdog, every answer of the hub and the API.
SPECIFICATION LiveSpec
CONSTANTS
  DefaultThreshold = 2
  DefaultCooldown = 3
  Absent = Absent
  Bodies <- AnyLimits
  ErrorBodies <- Nothing
  DefaultPacing = 1
  Watchdog = 6
  ConfigEvery = 9
  TooOldEvery = 6
  PollError = 1
  IdleCheckIn = 2
  MinCheckIn = 1
  CheckIns = {0, 1}
  LeaseAnswers = {"silent", "garbled", "tooOld", "refused", "empty", "job"}
  Holds = {1, 3}
  MaxCall = 1
  MaxFetch = 1
  MaxSubmit = 1
  Slack = 1
  Cap <- Caps
INVARIANTS
  TypeOK
  PacingKept
  HoldKept
  FetchesArePaced
  OneProbePerCooldown
  WatchdogMeansUnreachable
  OutageIsNoticed
  NoTightLoop
  RereadsAreSpaced
PROPERTY
  ConfigIsReadAgain
