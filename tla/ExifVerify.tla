----------------------------- MODULE ExifVerify -----------------------------
(***************************************************************************)
(* verify-exif (exif_verify.py): whether a photo is evidence that the      *)
(* camera used the location it was sent.  The photo has to carry the       *)
(* location, and its capture time, which cameras write down in whole       *)
(* seconds of local time and often without an offset, has to be later than *)
(* the accepted location packet.                                           *)
(*                                                                         *)
(* Time is counted in ticks of UTC; a reading of a clock is the tick of    *)
(* UTC at which a clock on offset 0 shows the same.                        *)
(***************************************************************************)
EXTENDS Integers, FiniteSets, FiniteSetsExt

CONSTANTS
  Horizon,         \* bound: the last tick
  Second,          \* ticks of a second
  InitialOffset,   \* the offset of the camera's time zone at first
  Changes          \* its changes: the tick of each and the offset from then on

VARIABLES
  now,        \* the tick
  dd11,       \* when the location packet was accepted, Never before
  located,    \* the location the camera has
  fix,        \* when it got it
  photo,      \* the photo, with the tick at which it was really taken
  verdict     \* what verify-exif said of it, and whether it was given the zone

vars == <<now, dd11, located, fix, photo, verdict>>

Never == -1
NoPhoto == [taken |-> Never]
NoVerdict == [result |-> "none", zone |-> FALSE]

Places == {"here", "elsewhere", "unusable"}

\* An IFD of the photo: DateTimeOriginal is missing or malformed; it stands
\* without an offset, with a malformed one, or with the offset then in force.
IFDs == {"unusable", "bare", "malformed offset", "offset"}

-----------------------------------------------------------------------------
(* The time zone.                                                          *)

\* The offset after some of the changes.
OffsetAfter(passed) ==
  IF passed = {} THEN InitialOffset
  ELSE (CHOOSE c \in passed : \A d \in passed : d.at <= c.at).offset

OffsetAt(tick) == OffsetAfter({c \in Changes : c.at <= tick})
Local(tick) == tick + OffsetAt(tick)

\* What the clock shows just before a change and from it on.
Readings(c) == {c.at + OffsetAt(c.at - 1), c.at + c.offset}

\* Whole seconds, as the EXIF texts and the offsets of all zones are.
WholeSeconds(ticks) == ticks % Second = 0

\* The table of a zone: changes on whole seconds, of whole seconds, and so far
\* apart that what one repeats or leaves out is over when the next one comes.
ASSUME ExifAssumption ==
  /\ Horizon \in Nat /\ Second \in Nat \ {0}
  /\ InitialOffset \in Int /\ WholeSeconds(InitialOffset)
  /\ IsFiniteSet(Changes)
  /\ \A c \in Changes : /\ c.at \in Nat /\ WholeSeconds(c.at)
                        /\ c.offset \in Int /\ WholeSeconds(c.offset)
  /\ \A c, d \in Changes : c.at = d.at => c = d
  /\ \A c, d \in Changes : c.at < d.at =>
       \A r \in Readings(c), q \in Readings(d) : r <= q

\* zoneinfo: a change passes when the later of its two readings is reached
\* with fold 0, and with fold 1 when the earlier one is.
FoldedOffset(reading, fold) ==
  LET Passed(c) == IF fold = 0 THEN Max(Readings(c)) ELSE Min(Readings(c))
  IN  OffsetAfter({c \in Changes : Passed(c) <= reading})

\* candidates in _unambiguous_zoned_time, by their instant
Candidates(reading) ==
  {tick \in {reading - FoldedOffset(reading, fold) : fold \in {0, 1}} : Local(tick) = reading}

\* A reading that is shown twice is taken for the first time.
UnambiguousZonedTime_First(reading) ==
  IF Candidates(reading) = {} THEN Never ELSE Min(Candidates(reading))

\* _unambiguous_zoned_time, Never where it raises
UnambiguousZonedTime(reading) ==
  IF Cardinality(Candidates(reading)) = 1
    THEN CHOOSE tick \in Candidates(reading) : TRUE ELSE Never

-----------------------------------------------------------------------------
(* The verification.                                                       *)

\* DateTimeOriginal: the whole seconds of what the camera's clock shows.
Original == (Local(photo.taken) \div Second) * Second

\* _local_capture_time, Never where it raises
LocalCaptureTime(ifd, zone) ==
  CASE ifd = "offset"       -> Original - OffsetAt(photo.taken)
    [] ifd = "bare" /\ zone -> UnambiguousZonedTime(Original)
    [] OTHER                -> Never

\* _capture_time: the Exif IFD, the base IFD, then the GPS time.
CaptureTime(zone) ==
  LET details == LocalCaptureTime(photo.details, zone)
      base == LocalCaptureTime(photo.base, zone)
  IN  IF details # Never THEN details ELSE IF base # Never THEN base ELSE photo.gps

\* A comparison that allows the second of the packet.
Verified_SameSecond(zone) ==
  /\ photo.place = "here"
  /\ CaptureTime(zone) # Never
  /\ CaptureTime(zone) + Second > dd11

\* A verification that wants a whole second between packet and photo.
Verified_SecondLater(zone) ==
  /\ photo.place = "here"
  /\ CaptureTime(zone) # Never
  /\ CaptureTime(zone) > dd11 + Second

\* verify_image_exif does not raise.
Verified(zone) ==
  /\ photo.place = "here"
  /\ CaptureTime(zone) # Never
  /\ CaptureTime(zone) > dd11

-----------------------------------------------------------------------------
Init ==
  /\ now = 0
  /\ dd11 = Never
  /\ located \in Places     \* the camera may know the place from before
  /\ fix = 0
  /\ photo = NoPhoto
  /\ verdict = NoVerdict

Tick ==
  /\ now < Horizon
  /\ now' = now + 1
  /\ UNCHANGED <<dd11, located, fix, photo, verdict>>

\* send-location has its first packet accepted.
SendLocation ==
  /\ dd11 = Never
  /\ dd11' = now
  /\ located' = "here"
  /\ fix' = now
  /\ UNCHANGED <<now, photo, verdict>>

\* A later packet of the same window: the camera has a newer fix.
SendAgain ==
  /\ dd11 # Never
  /\ located' = "here"
  /\ fix' = now
  /\ UNCHANGED <<now, dd11, photo, verdict>>

\* The camera takes the photo; its GPS time, if it has one, is that of the fix.
TakePhoto(details, base, gps) ==
  /\ photo = NoPhoto
  /\ photo' = [taken |-> now, place |-> located, details |-> details, base |-> base,
               gps |-> IF gps THEN fix ELSE Never]
  /\ UNCHANGED <<now, dd11, located, fix, verdict>>

\* verify-exif with --not-before the time of the packet.
Verify(zone) ==
  /\ photo # NoPhoto
  /\ dd11 # Never
  /\ verdict' = [result |-> IF Verified(zone) THEN "verified" ELSE "rejected", zone |-> zone]
  /\ UNCHANGED <<now, dd11, located, fix, photo>>

Next ==
  \/ Tick
  \/ SendLocation
  \/ SendAgain
  \/ \E d, b \in IFDs, gps \in BOOLEAN : TakePhoto(d, b, gps)
  \/ \E zone \in BOOLEAN : Verify(zone)

Spec == Init /\ [][Next]_vars

-----------------------------------------------------------------------------
\* A verified photo was taken after the packet was accepted and carries its
\* location: an older photo of the same place never passes, on whatever side
\* of a clock change its second lies and whichever of its times is used.
VerifiedIsEvidence ==
  verdict.result = "verified" => photo.taken > dd11 /\ photo.place = "here"

\* The instants at which the clock of the camera shows a reading.
Offsets == {InitialOffset} \cup {c.offset : c \in Changes}
Shown(reading) == {tick \in {reading - o : o \in Offsets} : Local(tick) = reading}

\* The time in the Exif IFD is enough to know the instant.
Usable(zone) ==
  \/ photo.details = "offset"
  \/ photo.details = "bare" /\ zone /\ Cardinality(Shown(Original)) = 1

\* A photo with a usable time that was taken a second after the packet, at the
\* place, is not rejected.
GoodPhotoVerified ==
  verdict.result = "rejected" /\ photo.place = "here" /\ Usable(verdict.zone)
    => photo.taken < dd11 + Second

\* Where a reading of the clock has one instant the lookup returns it, and it
\* returns nothing for the readings a clock change repeats or leaves out.
ZonedTimeInverts ==
  LET reading == now + InitialOffset
  IN  UnambiguousZonedTime(reading) =
        IF Cardinality(Shown(reading)) = 1
          THEN CHOOSE tick \in Shown(reading) : TRUE ELSE Never
=============================================================================
