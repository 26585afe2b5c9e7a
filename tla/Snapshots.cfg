\* Both snapshots of every camera, with any of their reads failing.
SPECIFICATION Spec
CONSTANTS
  Verified <- MCVerified
  Blocked <- MCBlocked
  Cameras <- MCCameras
INVARIANTS
  SnapshotForetellsRun
  NeverMoreTrusted
  ModeIsEvidence
