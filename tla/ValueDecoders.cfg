\* Values of every decoder, whole, cut anywhere, or with a byte too many.
SPECIFICATION Spec
CONSTANT
  Meanings <- MeaningsChosen
INVARIANTS
  FramesReadBack
  WrongLengthNoticed
  CutShowsNothingFalse
  RedactedAlike
CHECK_DEADLOCK FALSE
