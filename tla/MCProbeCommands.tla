-------------------------- MODULE MCProbeCommands --------------------------
EXTENDS ProbeCommands

Characteristics == [properties : SUBSET {"read", "notify"}, matches : BOOLEAN]
DiscoveriesChosen == UNION {[1 .. n -> Characteristics] : n \in 0 .. 3}
=============================================================================
