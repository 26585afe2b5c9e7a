\* The docstring of encode_location_packet, with daylight saving in force.
SPECIFICATION Spec
CONSTANTS
  Instants <- MCInstants
  Standards <- MCStandards
  Savings <- MCSavings
INVARIANTS
  DocumentedOffsets
