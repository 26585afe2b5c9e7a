\* The README's claim, against a backend that raises only what the code
\* catches and a caller that cancels twice.
SPECIFICATION Spec
CONSTANTS
  Duration = 1
  Interval = 1
  MaxDelay = 0
  MaxCancels = 2
  UnexpectedErrors = FALSE
INVARIANTS
  AlwaysCompensates
