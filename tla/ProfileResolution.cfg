\* Every shape of the location service, on both sides of the version boundary.
SPECIFICATION Spec
CONSTANTS
  Verified <- MCVerified
  Blocked <- MCBlocked
  Versions <- MCVersions
  Firmwares <- MCFirmwares
  Models <- MCModels
INVARIANTS
  PlanAvailable
  LegacyOnlyByEvidence
  RegistryOverrules
