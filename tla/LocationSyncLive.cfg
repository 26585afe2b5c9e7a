\* Two runs, the first of which can show the key the second one needs.
SPECIFICATION SyncSpec
CONSTANTS
  Duration = 1
  Interval = 1
  MaxDelay = 1
  MaxCancels = 1
  UnexpectedErrors = TRUE
  Verified = {}
  Blocked = {}
  Cameras <- MCCameras
  MaxRuns = 2
PROPERTIES
  RunsEnd
