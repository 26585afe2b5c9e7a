--------------------------- MODULE CameraMonitor ---------------------------
(***************************************************************************)
(* The read-only camera monitor (stream_camera_status of                   *)
(* camera_monitor.py): scan, connect, read what does not change once per   *)
(* connection and what does change once per poll, show every change to the *)
(* consumer, and go back to scanning whenever the link is gone.            *)
(*                                                                         *)
(* A read is abstracted to where its values come from: the camera and the  *)
(* connection, or nowhere, when every characteristic of the group failed   *)
(* (read_characteristic keeps the errors and does not raise).              *)
(***************************************************************************)
EXTENDS Integers, FiniteSets

CONSTANTS
  Cameras,       \* cameras that match the targets
  Durations,     \* ticks a monitor may run, NoLimit to run until it is quit
  MaxPolls,      \* max_polls, NoLimit for none
  Interval,      \* poll_interval, in ticks
  RetryCap,      \* the longest pause before another scan, in ticks
  MaxDelay,      \* ticks a scan, connection, read or pause takes too long
  MaxDrops       \* bound: failures of the scan, the connection and the link

NoLimit == -1
NoCamera == "none"

ASSUME MonitorAssumption ==
  /\ NoCamera \notin Cameras
  /\ Durations \subseteq (Nat \ {0}) \cup {NoLimit}
  /\ MaxPolls \in Nat \cup {NoLimit}
  /\ Interval \in Nat /\ RetryCap \in Nat /\ MaxDelay \in Nat /\ MaxDrops \in Nat

VARIABLES
  duration,         \* the caller's choice, which never changes
  pc,               \* where the monitor stands
  left,             \* ticks to the end of the duration
  poll_count,
  last_device,
  last_readings,    \* what the next update shows
  static_readings,  \* read once per connection
  link,             \* client.is_connected
  reason,           \* why the async with is left: "none", "done", "lost", "raised"
  drops,            \* DISCONNECTED updates so far: the number of this connection
  update            \* the last update, with the link as it was then

vars == <<duration, pc, left, poll_count, last_device, last_readings, static_readings, link,
          reason, drops, update>>

\* The source of a group of values: a camera in its n-th connection.
Source == [camera : Cameras \cup {NoCamera}, connection : 0 .. MaxDrops]
Nowhere == [camera |-> NoCamera, connection |-> 0]
NoReadings == [static |-> Nowhere, dynamic |-> Nowhere]

Phases == {"scanning", "connecting", "connected", "disconnected", "stopped"}

MonitorTypeOK ==
  /\ duration \in Durations
  /\ pc \in {"top", "scan", "connect", "static", "inner", "poll", "pause", "leave",
             "retry", "stopped", "closed", "raised"}
  /\ left \in Nat
  /\ poll_count \in Nat
  /\ last_device \in Cameras \cup {NoCamera}
  /\ last_readings \in [static : Source, dynamic : Source]
  /\ static_readings \in Source
  /\ link \in BOOLEAN
  /\ reason \in {"none", "done", "lost", "raised"}
  /\ drops \in 0 .. MaxDrops
  /\ update \in [phase : Phases \cup {"none"}, device : Cameras \cup {NoCamera},
                 readings : [static : Source, dynamic : Source], poll_count : Nat,
                 alive : BOOLEAN]

-----------------------------------------------------------------------------
Earliest(a, b) == IF a < b THEN a ELSE b

Timed == duration # NoLimit

\* The bound on failures of the scan, the connection and the link.
MayFail == drops < MaxDrops

\* A remaining time that is not kept from going negative.
Elapse_Unclamped(d) == left' = IF Timed THEN left - d ELSE left

\* d ticks pass.
Elapse(d) ==
  left' = CASE ~Timed -> left [] Timed /\ d < left -> left - d [] OTHER -> 0

\* _finished
Finished == (Timed /\ left = 0) \/ (MaxPolls # NoLimit /\ poll_count >= MaxPolls)

\* The ticks _bounded_sleep waits: not past the end of the duration.
Bounded(delay) == IF Timed THEN Earliest(delay, left) ELSE delay

\* emit, with what the primed variables hold by then.
Emit(phase) ==
  update' = [phase |-> phase, device |-> last_device', readings |-> last_readings',
             poll_count |-> poll_count', alive |-> link']

Init ==
  /\ duration \in Durations
  /\ pc = "top"
  /\ left = IF Timed THEN duration ELSE 0
  /\ poll_count = 0
  /\ last_device = NoCamera
  /\ last_readings = NoReadings
  /\ static_readings = Nowhere
  /\ link = FALSE
  /\ reason = "none"
  /\ drops = 0
  /\ update = [phase |-> "none", device |-> NoCamera, readings |-> NoReadings,
               poll_count |-> 0, alive |-> FALSE]

-----------------------------------------------------------------------------
(* The outer loop.                                                         *)

Scan ==
  /\ pc = "top"
  /\ ~Finished
  /\ pc' = "scan"
  /\ UNCHANGED <<left, poll_count, last_device, last_readings, static_readings, link,
                 reason, drops>>
  /\ Emit("scanning")

Stop ==
  /\ pc = "top"
  /\ Finished
  /\ pc' = "stopped"
  /\ UNCHANGED <<left, poll_count, last_device, last_readings, static_readings, link,
                 reason, drops>>
  /\ Emit("stopped")

\* No camera, or a scan error.
ScanFails(d) ==
  /\ pc = "scan"
  /\ MayFail
  /\ pc' = "retry"
  /\ drops' = drops + 1
  /\ Elapse(d)
  /\ UNCHANGED <<poll_count, last_device, last_readings, static_readings, link, reason>>
  /\ Emit("disconnected")

ScanFinds(d, c) ==
  /\ pc = "scan"
  /\ pc' = "connect"
  /\ last_device' = c
  /\ Elapse(d)
  /\ UNCHANGED <<poll_count, last_readings, static_readings, link, reason, drops>>
  /\ Emit("connecting")

ConnectFails(d) ==
  /\ pc = "connect"
  /\ MayFail
  /\ pc' = "retry"
  /\ drops' = drops + 1
  /\ Elapse(d)
  /\ UNCHANGED <<poll_count, last_device, last_readings, static_readings, link, reason>>
  /\ Emit("disconnected")

Connects(d) ==
  /\ pc = "connect"
  /\ pc' = "static"
  /\ link' = TRUE
  /\ Elapse(d)
  /\ UNCHANGED <<poll_count, last_device, last_readings, static_readings, reason, drops,
                 update>>

\* A retry that only ever waits while there is time left.
RetryEnds_WaitsForTime(d) ==
  /\ pc = "retry"
  /\ Timed => left > 0
  /\ pc' = "top"
  /\ Elapse(Bounded(Earliest(Interval, RetryCap)) + d)
  /\ UNCHANGED <<poll_count, last_device, last_readings, static_readings, link, reason,
                 drops, update>>

\* A retry without the pause.
RetryEnds_AtOnce(d) ==
  /\ pc = "retry"
  /\ pc' = "top"
  /\ Elapse(d)
  /\ UNCHANGED <<poll_count, last_device, last_readings, static_readings, link, reason,
                 drops, update>>

\* _retry_sleep
RetryEnds(d) ==
  /\ pc = "retry"
  /\ pc' = "top"
  /\ Elapse(Bounded(Earliest(Interval, RetryCap)) + d)
  /\ UNCHANGED <<poll_count, last_device, last_readings, static_readings, link, reason,
                 drops, update>>

-----------------------------------------------------------------------------
(* The connection.                                                         *)

\* Where the values of a group of reads come from: this connection while the
\* link is up, unless every single read failed.
Answers == {Nowhere} \cup
  (IF link THEN {[camera |-> last_device, connection |-> drops]} ELSE {})

\* Static values that are read once for all connections.
ReadStatic_Once(d) ==
  /\ pc = "static"
  /\ pc' = "inner"
  /\ static_readings' \in IF static_readings = Nowhere THEN Answers ELSE {static_readings}
  /\ Elapse(d)
  /\ UNCHANGED <<poll_count, last_device, last_readings, link, reason, drops, update>>

ReadStatic(d) ==
  /\ pc = "static"
  /\ pc' = "inner"
  /\ static_readings' \in Answers
  /\ Elapse(d)
  /\ UNCHANGED <<poll_count, last_device, last_readings, link, reason, drops, update>>

\* The inner loop without its look at the link.
BeginPoll_Unchecked ==
  /\ pc = "inner"
  /\ pc' = IF Finished THEN "leave" ELSE "poll"
  /\ reason' = IF Finished THEN "done" ELSE reason
  /\ UNCHANGED <<left, poll_count, last_device, last_readings, static_readings, link,
                 drops, update>>

\* The inner loop: ended, or found without a link, or another poll.
BeginPoll ==
  /\ pc = "inner"
  /\ pc' = IF Finished \/ ~link THEN "leave" ELSE "poll"
  /\ reason' = IF Finished THEN "done" ELSE IF ~link THEN "lost" ELSE reason
  /\ UNCHANGED <<left, poll_count, last_device, last_readings, static_readings, link,
                 drops, update>>

\* The poll is complete, whatever its reads returned, and is shown.  The link may
\* be lost in the middle of it, with some of the values read and the others not.
Poll(d) ==
  /\ pc = "poll"
  /\ \E answer \in Answers :
       last_readings' = [static |-> static_readings, dynamic |-> answer]
  /\ poll_count' = poll_count + 1
  /\ link' \in {link} \cup (IF MayFail THEN {FALSE} ELSE {})
  /\ Elapse(d)
  /\ pc' = IF Finished' THEN "leave" ELSE "pause"
  /\ reason' = IF Finished' THEN "done" ELSE reason
  /\ UNCHANGED <<last_device, static_readings, drops>>
  /\ Emit("connected")

\* A pause between polls that does not last.
PauseEnds_AtOnce(d) ==
  /\ pc = "pause"
  /\ pc' = "inner"
  /\ Elapse(d)
  /\ UNCHANGED <<poll_count, last_device, last_readings, static_readings, link, reason,
                 drops, update>>

\* _bounded_sleep between two polls
PauseEnds(d) ==
  /\ pc = "pause"
  /\ pc' = "inner"
  /\ Elapse(Bounded(Interval) + d)
  /\ UNCHANGED <<poll_count, last_device, last_readings, static_readings, link, reason,
                 drops, update>>

\* A monitor that stops without waiting for the disconnection.
Leave_KeepsLink ==
  /\ pc = "leave"
  /\ reason = "done"
  /\ pc' = "top"
  /\ reason' = "none"
  /\ UNCHANGED <<left, poll_count, last_device, last_readings, static_readings, link,
                 drops, update>>

\* The end of the async with, after the last poll.
Leave ==
  /\ pc = "leave"
  /\ reason = "done"
  /\ pc' = "top"
  /\ link' = FALSE
  /\ reason' = "none"
  /\ UNCHANGED <<left, poll_count, last_device, last_readings, static_readings, drops,
                 update>>

\* A monitor that goes on polling what it could not disconnect from.
LeaveLost_PollsOn ==
  /\ pc = "leave"
  /\ reason \in {"done", "lost"}
  /\ MayFail
  /\ pc' = "inner"
  /\ reason' = "none"
  /\ drops' = drops + 1
  /\ UNCHANGED <<left, poll_count, last_device, last_readings, static_readings, link>>
  /\ Emit("disconnected")

\* It is left by a BLE error, of the body or of the disconnection itself.
LeaveLost ==
  /\ pc = "leave"
  /\ reason \in {"done", "lost"}
  /\ MayFail
  /\ pc' = "retry"
  /\ link' = FALSE
  /\ reason' = "none"
  /\ drops' = drops + 1
  /\ UNCHANGED <<left, poll_count, last_device, last_readings, static_readings>>
  /\ Emit("disconnected")

LeaveRaised ==
  /\ pc = "leave"
  /\ reason = "raised"
  /\ pc' = "raised"
  /\ link' = FALSE
  /\ UNCHANGED <<left, poll_count, last_device, last_readings, static_readings, reason,
                 drops, update>>

-----------------------------------------------------------------------------
(* The environment.                                                        *)

\* The camera is switched off or walks away.
LinkLost ==
  /\ link
  /\ MayFail
  /\ link' = FALSE
  /\ UNCHANGED <<pc, left, poll_count, last_device, last_readings, static_readings,
                 reason, drops, update>>

\* The dashboard (_run_monitor of monitor_tui.py) leaves with the monitor when
\* it was given a duration.
Exit ==
  /\ pc = "stopped"
  /\ Timed
  /\ pc' = "closed"
  /\ UNCHANGED <<left, poll_count, last_device, last_readings, static_readings,
                 link, reason, drops, update>>

\* The application quits, or something raises what the monitor does not catch.
Quit ==
  /\ pc \in {"scan", "connect", "static", "poll", "pause", "leave", "retry"}
  /\ IF pc \in {"static", "poll", "pause", "leave"}
       THEN pc' = "leave" /\ reason' = "raised"
       ELSE pc' = "raised" /\ UNCHANGED reason
  /\ UNCHANGED <<left, poll_count, last_device, last_readings, static_readings, link,
                 drops, update>>

MonitorStep ==
  /\ UNCHANGED duration
  /\ \/ Scan \/ Stop
     \/ \E d \in 0 .. MaxDelay :
          \/ ScanFails(d) \/ ConnectFails(d) \/ Connects(d) \/ RetryEnds(d)
          \/ \E c \in Cameras : ScanFinds(d, c)
          \/ ReadStatic(d) \/ Poll(d) \/ PauseEnds(d)
     \/ BeginPoll \/ Leave \/ LeaveLost \/ LeaveRaised \/ Exit

Next ==
  \/ MonitorStep
  \/ UNCHANGED duration /\ (LinkLost \/ Quit)

\* Every wait of the monitor is a sleep or has a timeout.
Spec == Init /\ [][Next]_vars /\ WF_vars(MonitorStep)

-----------------------------------------------------------------------------
(* Properties.                                                             *)

\* An update never mixes two connections, and a CONNECTED update shows nothing
\* but what this connection has read from the device it names: nothing of a
\* camera that was there before the reconnection survives the first poll.
FreshReadings ==
  LET shown == {update.readings.static, update.readings.dynamic} \ {Nowhere}
  IN  /\ Cardinality(shown) <= 1
      /\ update.phase = "connected" =>
           shown \subseteq {[camera |-> update.device, connection |-> drops]}

\* A poll that ran into the loss of the link still counts as CONNECTED, since
\* its reads keep their errors to themselves; the next one does not.
DeadLinkShownOnce ==
  [][(/\ update' # update
      /\ update'.phase = "connected" /\ ~update'.alive
      /\ update.phase = "connected") => update.alive]_vars

\* The monitor never hammers the radio: reconnections and polls are paid for
\* with pauses out of the duration.
Paced ==
  LET AtLeastZero(n) == IF n < 0 THEN 0 ELSE n
      retries == AtLeastZero(drops - 1)
      repeats == AtLeastZero(poll_count - drops - 1)
  IN  Timed => retries * Earliest(Interval, RetryCap) + repeats * Interval < duration

\* The STOPPED update comes after the end of the duration or the last poll,
\* with the connection closed.
StoppedIsClosed == update.phase = "stopped" => Finished /\ ~link

\* "If the connection drops, it returns to scanning automatically"
\* (README.md:104), or the time is up.
Reconnects ==
  (update.phase = "disconnected") ~> (update.phase \in {"scanning", "stopped"} \/ pc = "raised")

\* A monitor with a duration comes to an end, and its dashboard with it,
\* whatever the link does.
MonitorEnds == Timed => <>(pc \in {"closed", "raised"})
=============================================================================
