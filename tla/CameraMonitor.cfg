\* With a duration, to its end, and without one, to the fourth poll; the interval
\* is longer than the pause of a retry.
SPECIFICATION Spec
CONSTANTS
  Cameras = {"a", "b"}
  Durations <- DurationsChosen
  MaxPolls = 4
  Interval = 2
  RetryCap = 1
  MaxDelay = 1
  MaxDrops = 8
INVARIANTS
  MonitorTypeOK
  FreshReadings
  Paced
PROPERTIES
  DeadLinkShownOnce
  Reconnects
  MonitorEnds
CHECK_DEADLOCK FALSE
