\* A window of two intervals and a half, one cancellation more than the shield
\* and the caller's second interrupt need, a backend that may raise anything.
SPECIFICATION Spec
CONSTANTS
  Duration = 5
  Interval = 2
  MaxDelay = 1
  MaxCancels = 3
  UnexpectedErrors = TRUE
INVARIANTS
  TypeOK
  NoSilentHold
  LocationUnderControl
  UnlockAfterDisable
  OnlyOwnControls
  CompensatesUnlessKilled
  PacketBudget
  WindowServed
PROPERTIES
  ImplementsLease
  SessionEnds
