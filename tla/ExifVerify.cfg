\* A photo taken and a packet sent at any time around two clock changes.
SPECIFICATION Spec
CONSTANTS
  Horizon = 14
  Second = 2
  InitialOffset = 4
  Changes <- MCChanges
INVARIANTS
  VerifiedIsEvidence
  GoodPhotoVerified
  ZonedTimeInverts
