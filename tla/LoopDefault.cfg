\* The default cooldown, as long as the watchdog's limit.
SPECIFICATION Spec
CONSTANTS
  DefaultThreshold = 2
  DefaultCooldown = 6
  Absent = Absent
  Bodies <- AnyLimits
  ErrorBodies <- Nothing
  DefaultPacing = 1
  Watchdog = 6
  ConfigEvery = 9
  TooOldEvery = 6
  PollError = 1
  IdleCheckIn = 2
  MinCheckIn = 1
  CheckIns = {0, 1}
  LeaseAnswers = {"silent", "garbled", "tooOld", "refused", "empty", "job"}
  Holds = {1, 3}
  MaxCall = 1
  MaxFetch = 1
  MaxSubmit = 1
  Slack = 1
  Cap <- Caps
INVARIANT
  WatchdogMeansUnreachable
