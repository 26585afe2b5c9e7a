--------------------------- MODULE LocationPacket ---------------------------
(***************************************************************************)
(* The two packets with a date the client can build (sony_protocol.py) and *)
(* the DD21 value that decides on the form of the first: DD11, a location  *)
(* with the UTC time and optionally the offset of the local time; and      *)
(* CC13, the local time with its offset.                                   *)
(*                                                                         *)
(* A point in time is a number of seconds, offsets are seconds east of     *)
(* Greenwich, and those in a packet minutes.  The calendar fields of a     *)
(* packet are abstracted to the second they name; coordinates are left     *)
(* out.                                                                    *)
(***************************************************************************)
EXTENDS Integers

CONSTANTS
  Instants,     \* points in time, UTC, in seconds
  Standards,    \* standard offsets of the places a camera may be in, in seconds
  Savings       \* daylight saving that may be in force there, in seconds

ASSUME PacketAssumption ==
  Instants \subseteq Int /\ Standards \subseteq Int /\ Savings \subseteq Nat

VARIABLES
  instant,      \* when the packet is built
  place,        \* the standard offset and the saving in force there and then
  given,        \* the date_time argument: "none", "naive", "fixed" or "zoned"
  dd21          \* what the camera answers to the reading of DD21

vars == <<instant, place, given, dd21>>

\* A DD21 value: its length, whether it begins with 06 10 00 9c, its feature
\* flags and what follows them.
DD21Values == [length : 0 .. 8, framed : BOOLEAN, flags : 0 .. 3, reserved : {0, 1}]

-----------------------------------------------------------------------------
(* DD21.                                                                   *)

TimezoneFlag == 2
HasTimezoneFlag(value) == (value.flags \div TimezoneFlag) % 2 = 1

\* A parser that only looks at the flag it knows.
DD21Accepted_IgnoresFlags(value) ==
  value.length \in {6, 7} /\ value.framed /\ value.reserved = 0

\* parse_dd21_mode does not raise
DD21Accepted(value) ==
  /\ value.length \in {6, 7}
  /\ value.framed
  /\ value.flags \in {0, TimezoneFlag}
  /\ value.reserved = 0

\* parse_dd21_mode: include_timezone and packet_size
DD21Mode(value) ==
  [includeTimezone |-> HasTimezoneFlag(value),
   packetSize |-> IF HasTimezoneFlag(value) THEN 95 ELSE 91]

\* parse_config_requires_timezone, the lenient reading of the same value
ConfigRequiresTimezone(value) == value.length >= 5 /\ HasTimezoneFlag(value)

-----------------------------------------------------------------------------
(* Local time.                                                             *)

UtcOffset == place.standard + place.saving

\* normalize_datetime, as utcoffset() and dst() see its result.  A missing or
\* naive argument is given the offset in force as a fixed one, and a fixed
\* offset has no dst().
NormalizedOffset == UtcOffset
NormalizedDst == IF given = "zoned" THEN place.saving ELSE 0

\* timezone_offsets that takes the whole offset for the standard one.
TimezoneOffsets_SavingTwice ==
  [standard |-> NormalizedOffset, dst |-> NormalizedDst]

\* timezone_offsets
TimezoneOffsets ==
  [standard |-> NormalizedOffset - NormalizedDst, dst |-> NormalizedDst]

Magnitude(x) == IF x < 0 THEN -x ELSE x
Signed(x, magnitude) == IF x < 0 THEN -magnitude ELSE magnitude

\* minutes_from_timedelta: int() drops the seconds, on both sides of zero.
MinutesFromTimedelta(delta) == Signed(delta, Magnitude(delta) \div 60)

\* A split that rounds the hours down.
SplitTimezoneOffset_Floors(offset) ==
  [hours |-> offset \div 3600, minutes |-> (Magnitude(offset) % 3600) \div 60]

\* split_timezone_offset: signed hours, unsigned minutes, and no seconds
SplitTimezoneOffset(offset) ==
  [hours |-> Signed(offset, Magnitude(offset) \div 3600),
   minutes |-> (Magnitude(offset) % 3600) \div 60]

-----------------------------------------------------------------------------
(* The packets.                                                            *)

NoOffsets == [standard |-> 0, dst |-> 0]

\* encode_location_packet
LocationPacket(includeTimezone) ==
  [size |-> IF includeTimezone THEN 95 ELSE 91,
   utc |-> instant,
   offsets |-> IF includeTimezone
                 THEN [standard |-> MinutesFromTimedelta(TimezoneOffsets.standard),
                       dst      |-> MinutesFromTimedelta(TimezoneOffsets.dst)]
                 ELSE NoOffsets]

\* encode_time_area_packet
TimeAreaPacket ==
  [local |-> instant + NormalizedOffset,
   dst |-> NormalizedDst # 0,
   offset |-> SplitTimezoneOffset(NormalizedOffset)]

-----------------------------------------------------------------------------
Init ==
  /\ instant \in Instants
  /\ place \in [standard : Standards, saving : Savings]
  /\ given = "none"
  /\ dd21 = [length |-> 0, framed |-> FALSE, flags |-> 0, reserved |-> 0]

\* The next packet is built at another time or place, ...
Travel ==
  /\ instant' \in Instants
  /\ place' \in [standard : Standards, saving : Savings]
  /\ UNCHANGED <<given, dd21>>

\* ... by another caller, ...
Call ==
  /\ given' \in {"none", "naive", "fixed", "zoned"}
  /\ UNCHANGED <<instant, place, dd21>>

\* ... or for another camera.
ReadDD21 ==
  /\ dd21' \in DD21Values
  /\ UNCHANGED <<instant, place, given>>

Next == Travel \/ Call \/ ReadDD21

Spec == Init /\ [][Next]_vars

-----------------------------------------------------------------------------
(* Properties.                                                             *)

\* An accepted DD21 value says nothing the client does not understand: the
\* mode and the length give the value back, and the lenient reading and the
\* size of the packet that is built for the mode agree with it.
DD21RoundTrip ==
  DD21Accepted(dd21) =>
    LET mode == DD21Mode(dd21)
    IN  /\ dd21 = [length |-> dd21.length, framed |-> TRUE, reserved |-> 0,
                   flags |-> IF mode.includeTimezone THEN TimezoneFlag ELSE 0]
        /\ ConfigRequiresTimezone(dd21) = mode.includeTimezone
        /\ LocationPacket(mode.includeTimezone).size = mode.packetSize

\* The local time a receiver of a location packet arrives at.
LocalTime(packet) == packet.utc + 60 * (packet.offsets.standard + packet.offsets.dst)

\* The offset of a receiver that applies the sign of the hours to the minutes.
JoinedOffset(parts) ==
  60 * Signed(parts.hours, 60 * Magnitude(parts.hours) + parts.minutes)

\* With its offsets, a location packet leads the camera to the local time at
\* the place, however the date was given: no saving is lost or counted twice.
\* An offset with seconds, as zones had before railway time, loses the seconds
\* of both its parts and no more.
LocalTimeRecovered ==
  LET local == LocalTime(LocationPacket(TRUE))
  IN  /\ Magnitude(instant + UtcOffset - local) < 120
      /\ place.standard % 60 = 0 /\ place.saving % 60 = 0 => local = instant + UtcOffset

\* A receiver of CC13 gets the instant of DD11 back, but for the seconds of the
\* offset: everywhere but less than an hour west of Greenwich, where the hours
\* have no sign (tests/test_sony_protocol.py:89 has such an offset).
PacketsAgree ==
  LET utc == TimeAreaPacket.local - JoinedOffset(TimeAreaPacket.offset)
      expected == LocationPacket(TRUE).utc
  IN  UtcOffset \notin -3599 .. -60 =>
        /\ Magnitude(utc - expected) < 60
        /\ UtcOffset % 60 = 0 => utc = expected

\* encode_location_packet, called as the location loop does, without a zone:
\* "the final four bytes contain standard timezone
\* offset minutes and DST savings minutes" (sony_protocol.py:104-105).
DocumentedOffsets ==
  given \in {"none", "naive"} =>
    LocationPacket(TRUE).offsets = [standard |-> MinutesFromTimedelta(place.standard),
                                    dst      |-> MinutesFromTimedelta(place.saving)]
=============================================================================
