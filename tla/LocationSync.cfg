\* Three runs: one that shows a key, one that leaves something behind, one more.
SPECIFICATION SyncSpec
CONSTANTS
  Duration = 1
  Interval = 1
  MaxDelay = 1
  MaxCancels = 1
  UnexpectedErrors = TRUE
  Verified = {}
  Blocked = {}
  Cameras <- MCCameras
  MaxRuns = 3
INVARIANTS
  SyncTypeOK
  WritesWereShown
  ExitZeroMeansDone
  NoSessionWithoutLink
PROPERTIES
  LeftoversReported
