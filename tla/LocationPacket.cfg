\* Every DD21 value of up to eight bytes, places on both sides of Greenwich.
SPECIFICATION Spec
CONSTANTS
  Instants <- MCInstants
  Standards <- MCStandards
  Savings <- MCSavings
INVARIANTS
  DD21RoundTrip
  LocalTimeRecovered
  PacketsAgree
