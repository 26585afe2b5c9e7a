------------------------ MODULE LocationPacket_proofs ------------------------
(***************************************************************************)
(* The packets for every point in time, every offset and every saving.     *)
(***************************************************************************)
EXTENDS LocationPacket, TLAPS

Inputs ==
  /\ instant \in Instants
  /\ place \in [standard : Standards, saving : Savings]
  /\ given \in {"none", "naive", "fixed", "zoned"}
  /\ dd21 \in DD21Values

\* The packets are built from a time, a place, an argument and a DD21 value.
LEMMA InputsAre == Spec => []Inputs
<1>1. Init => Inputs
  BY DEF Init, Inputs, DD21Values
<1>2. Inputs /\ [Next]_vars => Inputs'
  BY DEF Inputs, Next, Travel, Call, ReadDD21, vars
<1>3. QED BY <1>1, <1>2, PTL DEF Spec

\* Offsets are numbers of seconds.
LEMMA OffsetsAre ==
  Inputs => /\ instant \in Int /\ place.standard \in Int /\ place.saving \in Nat
            /\ UtcOffset \in Int
            /\ NormalizedDst \in {0, place.saving}
<1> SUFFICES ASSUME Inputs
             PROVE  /\ instant \in Int /\ place.standard \in Int /\ place.saving \in Nat
                    /\ UtcOffset \in Int
                    /\ NormalizedDst \in {0, place.saving}
  OBVIOUS
<1>1. instant \in Int /\ place.standard \in Int /\ place.saving \in Nat
  BY PacketAssumption DEF Inputs
<1>2. QED BY <1>1 DEF UtcOffset, NormalizedDst

-----------------------------------------------------------------------------
(* DD21.                                                                   *)

\* A known set of flags is given back by the one flag the client looks at.
LEMMA KnownFlags ==
  /\ (0 \div TimezoneFlag) % 2 = 0
  /\ (2 \div TimezoneFlag) % 2 = 1
BY DEF TimezoneFlag

\* An accepted DD21 value says nothing the client does not understand
\* (parse_dd21_mode, parse_config_requires_timezone).
THEOREM AcceptedIsUnderstood == Spec => []DD21RoundTrip
<1>1. Inputs => DD21RoundTrip
  <2> SUFFICES ASSUME Inputs, DD21Accepted(dd21)
               PROVE  LET mode == DD21Mode(dd21) IN
                        /\ dd21 = [length |-> dd21.length, framed |-> TRUE, reserved |-> 0,
                                   flags |-> IF mode.includeTimezone THEN TimezoneFlag
                                             ELSE 0]
                        /\ ConfigRequiresTimezone(dd21) = mode.includeTimezone
                        /\ LocationPacket(mode.includeTimezone).size = mode.packetSize
    BY DEF DD21RoundTrip
  <2> DEFINE mode == DD21Mode(dd21)
  <2>1. /\ dd21 = [length |-> dd21.length, framed |-> dd21.framed,
                   reserved |-> dd21.reserved, flags |-> dd21.flags]
        /\ dd21.framed \in BOOLEAN
    BY DEF Inputs, DD21Values
  <2>2. dd21.length \in {6, 7} /\ dd21.framed /\ dd21.reserved = 0
        /\ dd21.flags \in {0, 2}
    BY DEF DD21Accepted, TimezoneFlag
  <2>3. HasTimezoneFlag(dd21) <=> dd21.flags = 2
    BY <2>2, KnownFlags DEF HasTimezoneFlag
  <2>4. mode.includeTimezone = HasTimezoneFlag(dd21)
    BY DEF DD21Mode
  <2>5. dd21.flags = IF mode.includeTimezone THEN TimezoneFlag ELSE 0
    BY <2>2, <2>3, <2>4 DEF TimezoneFlag
  <2>6. ConfigRequiresTimezone(dd21) = mode.includeTimezone
    BY <2>2, <2>4 DEF ConfigRequiresTimezone, HasTimezoneFlag
  <2>7. mode.packetSize = IF mode.includeTimezone THEN 95 ELSE 91
    BY <2>4 DEF DD21Mode
  <2> HIDE DEF mode
  <2>8. LocationPacket(mode.includeTimezone).size = mode.packetSize
    BY <2>7 DEF LocationPacket
  <2>9. dd21.framed = TRUE
    BY <2>1, <2>2
  <2>10. dd21 = [length |-> dd21.length, framed |-> TRUE, reserved |-> 0,
                 flags |-> IF mode.includeTimezone THEN TimezoneFlag ELSE 0]
    BY <2>1, <2>2, <2>5, <2>9
  <2>11. QED BY <2>6, <2>8, <2>10 DEF mode
<1>2. QED BY <1>1, InputsAre, PTL

-----------------------------------------------------------------------------
(* Local time.                                                             *)

\* Sixty of x \div 60 and the seconds that are left make x again.
LEMMA WholeMinutes ==
  ASSUME NEW x \in Nat
  PROVE  /\ x \div 60 \in Nat /\ x % 60 \in 0 .. 59
         /\ x = 60 * (x \div 60) + (x % 60)
  OBVIOUS

\* The minutes of an offset are less than a minute away from it, and the offset
\* itself when it has no seconds (minutes_from_timedelta).
LEMMA MinutesAreNear ==
  ASSUME NEW x \in Int
  PROVE  LET minutes == MinutesFromTimedelta(x)
         IN  /\ minutes \in Int
             /\ -60 < x - 60 * minutes /\ x - 60 * minutes < 60
             /\ x % 60 = 0 => x = 60 * minutes
<1> DEFINE m == Magnitude(x)
           q == m \div 60
           r == m % 60
<1>1. m \in Nat /\ (x < 0 => m = -x) /\ (x >= 0 => m = x)
  BY DEF Magnitude
<1>2. q \in Nat /\ r \in 0 .. 59 /\ m = 60 * q + r
  BY <1>1, WholeMinutes
<1>3. x % 60 = 0 => r = 0
  BY <1>1
<1>4. MinutesFromTimedelta(x) = IF x < 0 THEN -q ELSE q
  BY DEF MinutesFromTimedelta, Signed
<1> HIDE DEF m, q, r
<1>5. CASE x >= 0
  BY <1>1, <1>2, <1>3, <1>4, <1>5
<1>6. CASE x < 0
  BY <1>1, <1>2, <1>3, <1>4, <1>6
<1>7. QED BY <1>5, <1>6

\* With its offsets, a location packet leads to the local time at the place,
\* however the date was given, but for the seconds of the two offsets
\* (timezone_offsets, minutes_from_timedelta, encode_location_packet).
THEOREM LocalTimeIsRecovered == Spec => []LocalTimeRecovered
<1>1. Inputs => LocalTimeRecovered
  <2> SUFFICES ASSUME Inputs
               PROVE  LocalTimeRecovered
    OBVIOUS
  <2> DEFINE standard == TimezoneOffsets.standard
             dst == TimezoneOffsets.dst
             s == MinutesFromTimedelta(standard)
             d == MinutesFromTimedelta(dst)
             local == LocalTime(LocationPacket(TRUE))
             exact == place.standard % 60 = 0 /\ place.saving % 60 = 0
  <2>1. /\ instant \in Int /\ UtcOffset \in Int
        /\ place.standard \in Int /\ place.saving \in Int
        /\ UtcOffset = place.standard + place.saving
        /\ dst \in {0, place.saving} /\ standard = UtcOffset - dst
    BY OffsetsAre DEF TimezoneOffsets, NormalizedOffset, UtcOffset
  <2>2. standard \in Int /\ dst \in Int
    BY <2>1
  <2>3. local = instant + 60 * (s + d)
    BY DEF LocalTime, LocationPacket
  <2>4. /\ s \in Int /\ -60 < standard - 60 * s /\ standard - 60 * s < 60
        /\ standard % 60 = 0 => standard = 60 * s
    BY <2>2, MinutesAreNear
  <2>5. /\ d \in Int /\ -60 < dst - 60 * d /\ dst - 60 * d < 60
        /\ dst % 60 = 0 => dst = 60 * d
    BY <2>2, MinutesAreNear
  <2>6. exact => standard % 60 = 0 /\ dst % 60 = 0
    <3> HIDE DEF standard, dst
    <3>1. standard \in {place.standard, place.standard + place.saving}
      BY <2>1
    <3>2. QED BY <2>1, <3>1
  <2> HIDE DEF standard, dst, s, d, local
  <2>7. instant + UtcOffset - local = (standard - 60 * s) + (dst - 60 * d)
    BY <2>1, <2>2, <2>3, <2>4, <2>5
  <2>8. Magnitude(instant + UtcOffset - local) < 120
    BY <2>2, <2>4, <2>5, <2>7 DEF Magnitude
  <2>9. exact => local = instant + UtcOffset
    BY <2>1, <2>2, <2>3, <2>4, <2>5, <2>6
  <2>10. QED BY <2>8, <2>9 DEF LocalTimeRecovered, local
<1>2. QED BY <1>1, InputsAre, PTL

\* Hours and minutes make the offset again, but for its seconds, unless the
\* hours have lost its sign (split_timezone_offset).
LEMMA SplitAndJoined ==
  ASSUME NEW o \in Int, o \notin -3599 .. -60
  PROVE  LET parts == SplitTimezoneOffset(o)
             joined == JoinedOffset(parts)
         IN  /\ joined \in Int
             /\ -60 < o - joined /\ o - joined < 60
             /\ o % 60 = 0 => joined = o
<1> DEFINE m == Magnitude(o)
           h == m \div 3600
           r == m % 3600
           q == r \div 60
           e == r % 60
           parts == SplitTimezoneOffset(o)
<1>1. m \in Nat /\ (o < 0 => m = -o) /\ (o >= 0 => m = o)
  BY DEF Magnitude
<1>2. h \in Nat /\ r \in 0 .. 3599 /\ m = 3600 * h + r
  <2> HIDE DEF m
  <2> QED BY <1>1
<1>3. q \in Nat /\ e \in 0 .. 59 /\ r = 60 * q + e
  <2> HIDE DEF r
  <2> QED BY <1>2, WholeMinutes
<1>4. o % 60 = 0 => e = 0
  <2> HIDE DEF m, r
  <2>1. o % 60 = 0 => m % 60 = 0
    BY <1>1
  <2>2. m = 60 * (60 * h + q) + e
    BY <1>1, <1>2, <1>3
  <2> HIDE DEF h, q, e
  <2>3. m % 60 = e
    BY <1>1, <1>2, <1>3, <2>2
  <2>4. QED BY <2>1, <2>3
<1>5. parts.hours = Signed(o, h) /\ parts.minutes = q
  BY DEF SplitTimezoneOffset
<1> HIDE DEF m, h, r, q, e, parts
<1> DEFINE joined == JoinedOffset(parts)
<1>6. CASE o >= 0
  <2>1. parts.hours = h /\ Magnitude(h) = h
    BY <1>2, <1>5, <1>6 DEF Signed, Magnitude
  <2>2. \A x : Signed(h, x) = x
    BY <1>2 DEF Signed
  <2>3. joined = 60 * (60 * h + q)
    BY <1>5, <2>1, <2>2 DEF JoinedOffset
  <2>4. QED BY <1>1, <1>2, <1>3, <1>4, <1>6, <2>3 DEF parts
<1>7. CASE o < -3599
  <2>1. h >= 1
    <3>1. m > 3599
      BY <1>1, <1>7
    <3>2. h = 0 => m <= 3599
      BY <1>2
    <3>3. h # 0
      BY <1>1, <3>1, <3>2
    <3>4. QED BY <1>2, <3>3
  <2>2. parts.hours = -h /\ Magnitude(-h) = h
    BY <1>2, <1>5, <1>7 DEF Signed, Magnitude
  <2>3. \A x \in Int : Signed(-h, x) = -x
    BY <1>2, <2>1 DEF Signed
  <2>4. joined = 60 * (-(60 * h + q))
    BY <1>2, <1>3, <1>5, <2>2, <2>3 DEF JoinedOffset
  <2>5. QED BY <1>1, <1>2, <1>3, <1>4, <1>7, <2>4 DEF parts
<1>8. CASE o < 0 /\ o > -60
  <2>1. h = 0 /\ q = 0
    BY <1>1, <1>2, <1>3, <1>8
  <2>2. joined = 0
    BY <1>5, <1>8, <2>1 DEF JoinedOffset, Signed, Magnitude
  <2>3. o % 60 # 0
    BY <1>8
  <2>4. QED BY <1>8, <2>2, <2>3 DEF parts
<1>9. QED BY <1>6, <1>7, <1>8

\* The local time of CC13 and its offset give the instant of DD11 back, but for
\* the seconds of the offset, and but for less than an hour west of Greenwich
\* (encode_time_area_packet).
THEOREM BothPacketsAgree == Spec => []PacketsAgree
<1>1. Inputs => PacketsAgree
  <2> SUFFICES ASSUME Inputs
               PROVE  PacketsAgree
    OBVIOUS
  <2> DEFINE joined == JoinedOffset(SplitTimezoneOffset(UtcOffset))
             utc == TimeAreaPacket.local - JoinedOffset(TimeAreaPacket.offset)
             expected == LocationPacket(TRUE).utc
             east == UtcOffset \notin -3599 .. -60
  <2>1. instant \in Int /\ UtcOffset \in Int
    BY OffsetsAre
  <2>2. east => /\ joined \in Int
                /\ -60 < UtcOffset - joined /\ UtcOffset - joined < 60
                /\ UtcOffset % 60 = 0 => joined = UtcOffset
    BY <2>1, SplitAndJoined
  <2>3. utc = (instant + UtcOffset) - joined /\ expected = instant
    BY DEF TimeAreaPacket, NormalizedOffset, LocationPacket
  <2> HIDE DEF joined, utc, expected
  <2>4. east => Magnitude(utc - expected) < 60
    BY <2>1, <2>2, <2>3 DEF Magnitude
  <2>5. east /\ UtcOffset % 60 = 0 => utc = expected
    BY <2>1, <2>2, <2>3
  <2>6. east => /\ Magnitude(utc - expected) < 60
                /\ UtcOffset % 60 = 0 => utc = expected
    BY <2>4, <2>5
  <2>7. QED BY <2>6, Zenon DEF PacketsAgree, utc, expected
<1>2. QED BY <1>1, InputsAre, PTL
=============================================================================
