\* Up to three characteristics with any properties, and any of the commands.
SPECIFICATION Spec
CONSTANT
  Discoveries <- DiscoveriesChosen
INVARIANTS
  ExitZeroIsComplete
PROPERTIES
  StuckOnlyUnanswered
CHECK_DEADLOCK FALSE
