-------------------------- MODULE MCLocationPacket --------------------------
(* Values for LocationPacket, in seconds: offsets with and without minutes  *)
(* on both sides of Greenwich and next to it, three of them with seconds    *)
(* (Amsterdam, Dublin and New York had them), and savings of an hour and of *)
(* half an hour.                                                            *)
EXTENDS LocationPacket

MCInstants == {0, 86399, 172800}
MCStandards == {-34200, -17762, -12600, -3600, -1800, -1521, 0, 1172, 1800, 20700, 50400}
MCSavings == {0, 1800, 3600}
=============================================================================
