# sony-geotag in TLA+

A verification project for `sony-geotag`, a command line client that sends a
location to Sony cameras over Bluetooth LE, reads their status, and checks that
a photo carries the location.  It consists of TLA+ modules translated from the
Python sources, TLC configurations that check them on small instances, and
theorems that TLAPS proves for every value of the constants.

All paths are relative to the repository; the package is
`src/src/sonygeotag/`.

## 1. The system

One process, one asyncio event loop, one camera at a time.  Nothing is stored
on disk.  What makes the program hard is on the other side of the link: every
GATT operation may be carried out and still look failed, every `await` is a
place where the caller may cancel, and what a write has switched on in the
camera stays on after the process is gone.

| Component | Sources | State | Operations | Correct if |
|---|---|---|---|---|
| session plan | `sony_session.py` | none (pure) | `create_session_plan`, `compensation_actions` | what is set up can be undone, in the right order |
| location session | `sony_location.py` 385-756, 785-876 | `_SetupState` (possible and confirmed controls, DD21 mode), `_SessionOutcome`, the cleanup task; the camera's DD01, DD30, DD31 | setup, location loop, protected cleanup, cancellation | borrowed controls are given back or a diagnostic says they may not be; packets only go to a camera that has confirmed lock and enable switch |
| commands that write | `sony_location.py` 167-360, 587-634, `cli.py` 339-445 | one run's link, identity, profile, approval key, exit code; what earlier runs have shown | `send-location`, `pair-init` | nothing is written that was not shown and approved; exit code 0 means done |
| capability resolution | `sony_capabilities.py` | two registries (empty at this commit) | `resolve_location_profile`, `compatibility_for`, `experimental_approval_key`, `parse_dd21_mode` | a profile plans only what discovery has found |
| camera monitor | `camera_monitor.py` | deadline, poll count, last device and readings, link | scan, connect, poll, pause, retry | shows nothing of an earlier connection as current; comes back; ends |
| packets | `sony_protocol.py` | none (pure) | DD11, CC13, advertisement parser | the two ways of packing a local time agree |
| snapshots | `camera_snapshot.py`, `compatibility_snapshot.py` | the values read so far | `camera-info`, `compatibility-snapshot` | say of a camera what `send-location` would act on |
| EXIF verification | `exif_verify.py` | none (pure) | `verify-exif` | a verified photo was taken after the packet |
| BLE probe | `ble_probe.py`, `cli.py` | the discovery, what was read, the subscriptions and their errors | scan, `gatt-dump`, `read-values`, `notify-log` | exit code 0 means a complete report, and a camera that is left without notifications |
| value decoders | `sony_info.py` | none (pure) | one parser per characteristic, summary, redacted output | a whole frame is read back, a damaged one shows nothing false, redacted output tells no more than lengths and kinds of text |
| dashboard | `monitor_tui.py` | the last monitor update | rendering, quitting | shows the last update, leaves with the monitor |
| other commands | `cli.py` | none | `scan`, `encode-location`, argument parsing | |
| repository scripts | `scripts/` | none | a limit on the lines of a source file | |

How they interact: `cli.py` runs one command with `asyncio.run`.
`sync_location` calls `find_target_device` (BLE probe), opens the client, reads
the identity, asks the capability resolution for profile and confidence,
compares the approval key, and hands the client to the session, which asks the
session plan what to do and encodes a packet per write.  The monitor, the
snapshots and the probe's own commands use the same scan and the same read with
a deadline; monitor and snapshots decode the values with `sony_info`.  The
dashboard gets the monitor's updates through a callback in the same loop.

The hard behaviours, each of them a hazard in `PROJECT.json` with its line:

- a control write whose answer is lost, or that lands after `wait_for` has
  given up on it;
- cancellation at any `await`, once or several times (`asyncio.run` cancels the
  main task on the first Ctrl+C and all tasks on the second);
- one compensation of several failing, or raising what nobody catches;
- an error of the disconnection replacing a finished outcome;
- a camera that is another one, or has another firmware, than the one that was
  approved;
- the window, its last pause and slow writes;
- a monitor whose link goes down unnoticed, or whose camera comes back as
  another one;
- a camera that does not answer `start_notify` or `stop_notify`, for which
  `notify-log` sets no deadline, or that carries out what it has refused;
- frames that lose their end or carry a byte too many, records with the same
  tag, and what may be shown of them;
- local times without offsets around clock changes.

## 2. The modules

| Module | Models | Role |
|---|---|---|
| `SessionPlan` | `sony_session.py` | plans as sequences of actions |
| `ControlLease` | nothing: an abstract specification | what a session promises about controls |
| `LocationSession` | `_execute_location_session` and everything below it, and the camera's controls | the core; implements `ControlLease` |
| `Capabilities` | `sony_capabilities.py` | operators |
| `ProfileResolution` | | every location service and identity, for `Capabilities` |
| `LocationSync` | `sync_location`, `initialize_pairing`, the commands around them | composes `LocationSession` and `Capabilities`, run after run |
| `CameraMonitor` | `stream_camera_status`, and how the dashboard ends | |
| `ProbeCommands` | `gatt-dump`, `read-values`, `notify-log`, from the scan to the exit code | |
| `ValueDecoders` | the decoders, the table of sensitivities, the summary and the redacted output of `sony_info.py` | |
| `LocationPacket` | `parse_dd21_mode`, time fields of `sony_protocol.py` | |
| `Snapshots` | both snapshot commands | extends `Capabilities` |
| `ExifVerify` | `exif_verify.py` | |
| `LocationSync_proofs` | | theorems about a session, that it implements the lease, and about the runs of the commands |
| `ProfileResolution_proofs`, `LocationPacket_proofs`, `ValueDecoders_proofs` | | theorems about the pure functions |
| `CameraMonitor_proofs`, `ProbeCommands_proofs`, `Snapshots_proofs` | | theorems about the read-only commands |
| `ExifVerify_proofs` | | theorems about photos, packets and time zones |
| `MC...` | | values for TLC |

### LocationSession

`pc` is the place in `_execute_location_session`; `todo` the rest of the plan
that `_run_setup` or `_run_cleanup` iterates over; `maybe` and `confirmed` the
flags of `_SetupState`; `diag` is `cleanup_diagnostic is not None`; `taskEnd`
the cleanup task; `cam` and `air` the camera and the requests without an
answer.

| Actions | Code |
|---|---|
| `SetupIssue`, `SetupOk`, `SetupMode`, `SetupModeRejected`, `SetupFails`, `SetupDone` | `_run_setup`, and the condition on the loop |
| `LoopIssue`, `LoopOk`, `LoopFails`, `SleepEnds`, `LoopComplete` | `_write_location_loop` |
| `BodyRaises`, `CancelBody` | the `try` body is left by an exception; the `finally` block runs |
| `CleanupIssue`, `CleanupOk`, `CleanupFails`, `CleanupDone`, `CleanupRaises` | `_run_cleanup` |
| `CancelCleanup`, `KillCleanup` | `_run_cleanup_protected`: the first cancellation is absorbed by the shield, a further one reaches the task |
| `Land` | the camera carries out a request that was never answered |

Every operation is two steps, issued and settled, so a cancellation, a late
landing or a timeout may come between.  A failed write leaves its request on
`air`: it may have been carried out, be carried out later, or be lost.  The
link keeps the order of requests (one ATT bearer), so an answer settles all
earlier ones; and a new session begins on a new link, with nothing on air.

DD01 events are only recorded by the code and are left out.  Packets are
`LocationPacket`'s subject; here they are counted.

### LocationSync

A run is `Invoke`, scan, connection, `Identify` (which also resolves the profile
and the required key), a gate, then either a session (`InSession`, whose steps
are `LocationSession`'s) or the EE01 write, `Disconnected` and `Report` with the
exit code.  What no command catches ends with 1 for an exception and 130 for Ctrl+C
(`Uncaught`; typer's doing).  `shown` is what the caller has seen; a key can only be passed if
some run has shown it, since it is a digest.  `ChangeCamera` changes the camera
between two runs.  The key is modelled as the scope it digests, so that equal
keys mean equal scopes, which is what SHA-256 is taken for.

### CameraMonitor

`duration` is the caller's choice, made in `Init` among `Durations` and kept;
`NoLimit` is none.  `left` is what remains of it; every wait takes the ticks it
asks for and up to `MaxDelay` more.  A group of reads is abstracted to the
connection its values come from.  `drops` counts the DISCONNECTED updates and so
numbers the connections.  A poll may lose the link in its middle: it is shown all
the same, with what it has read, since the reads keep their errors to themselves.
`Exit` is the dashboard leaving with a monitor that had a duration, `Quit` the
user leaving it, or an exception the monitor does not catch.

### ProbeCommands

`gatt` is the discovery, services flattened in their order; each characteristic
has its properties and whether the filters of the command match it.  `pc` and
`place` say where the loop of `read_gatt_values` or `listen_notifications`
stands, `values`, `subscriptions` and `subscription_errors` are what the report
holds.  `link` and `notifying` are the camera's side: a refused `start_notify` may
have been carried out (`StartFails`), a failed `stop_notify` is dropped
(`StopFails`), and the notifications end with the link.  `Raises` is any exception
that no command catches, `LinkLost` the camera going away at any time.

### ValueDecoders

The camera means something (`meaning`), sends it in a frame (`Frame`), and the
frame may lose its end byte by byte (`Cut`), get a byte too many (`Extend`), or not
arrive (`ReadFails`).  The decoders work on bytes and yield a status and fields;
a field is an option, `<<v>>` or `None`, since Python's `None`, numbers and names
mix in one dictionary.  So that decoding is compared with something else than
itself, the frames are built from meanings by definitions that share nothing
with the decoders.  `Meant` says what a camera may mean at all, which is what its
frame can say: bytes, numbers of two of them, a BSSID that does not look like a
frame, profile names of one line.  `ToDict` and `Summary` are what is shown.  A
warning is modelled as what it is about with the numbers it names: `to_dict` prints it
for redacted values too.  A read without a value is one of `ErrorKinds`.  The handler
for malformed payloads is not in the model, since no decoder raises on any bytes.

### Capabilities, LocationPacket, Snapshots, ExifVerify

Operators for pure functions, with a small state machine around each that
enumerates the inputs: services that change one characteristic at a time; DD21
values and places; the reads of a snapshot, any of which may fail; and a
photo, a packet and a clock that is put forward and back.  UUIDs, texts and
coordinates are members of small sets; where two decoders treat a text
differently (`decode_identity_value` strips, `_ascii` does not) that difference
is modelled.  A time zone is the table of its clock changes, as `zoneinfo` has it;
a lookup with `fold` goes by the local times at which they pass.

## 3. The runs

| Run | Asks | Instance | Distinct states |
|---|---|---|---|
| `session` | safety of a session, that it implements the lease, and that it ends | window of 5 ticks, interval 2, delays up to 1, 3 cancellations, unexpected exceptions | 0.16 million |
| `session_readme` | the README's unconditional promise: violated | no unexpected exceptions, 2 cancellations | until violated |
| `resolution` | profiles plan what is there; registry before shape | all `4^8` shapes, versions none, 64, 65, 100, three firmwares, an entry that is in both lists | 0.79 million |
| `sync` | approval, exit codes, leftovers over 3 runs | 4 cameras, one cancellation | 1.9 million |
| `sync_live` | a run comes to an exit code | 2 runs | 47 thousand |
| `monitor` | readings, pacing, the dead link, coming back, ending | durations 5 and none, 4 polls, interval 2, retry pause 1, delays up to 1, 8 failures, two cameras | 0.12 million |
| `decoders` | whole, cut and extended values | every decoder; texts of up to 3 of 5 kinds of bytes and two of 31, up to 3 records, 2 batteries, 2 profiles | 0.22 million |
| `probe` | complete reports, and where a command may wait for ever | up to 3 characteristics of any properties, three commands | 43 thousand |
| `packet` | DD21, DD11 and CC13 agree | lengths 0 to 8, 11 offsets, three of them with seconds, 3 savings | 57 thousand |
| `packet_docs` | the docstring on DST savings: violated | the same | until violated |
| `snapshots` | what snapshots foretell | 2128 cameras, every read may fail | 0.70 million |
| `exif` | verified photos are evidence | 15 ticks of half a second around two clock changes | 1.8 million |

Why the bounds are enough:

- *Three cancellations.*  The first is absorbed, the second kills the cleanup,
  the third could only do what the second did.
- *A window of two intervals and a half* has a first packet, one in the middle and
  a last one, and a last pause that is cut; a delay of one tick is enough for a
  write to run past the deadline and for a pause to overrun.
- *Three runs* of the commands: one that shows a key, one that uses it and leaves
  something behind, one that meets what was left.  Sessions in `LocationSession`
  follow each other without a bound.
- *`MaxDrops`* bounds failures of the scan, the connection and the link in the
  monitor.  With the duration of 5 the pauses leave no room for
  eight of them, so it never cuts a behaviour there; without a duration it is a
  real bound, but the code has no memory of more than the last connection.
- *Two durations, one run*: the loops are the same with and without a duration,
  and the choice is made in `Init`.  The poll limit ends the run without one.
- *Three characteristics* allow a failure between two successes, a skipped one on
  either side, and subscriptions that are stopped in the order they were made.
- *Texts of three bytes* have a first, a middle and a last character, among them
  a zero byte, a line end, two letters and one that is no ASCII; the texts of 31
  bytes, all letters and all zeros, have a frame whose length byte, 33, is itself
  printable.
- *Clock changes*: one forward and one back, no further apart than they need be for
  the readings that the one leaves out and the other repeats not to overlap.
  Photos and packets may fall before, between and after them, and twice into each
  second.

Deadlock is checked except where the system stops: the monitor, the probe's
commands, and a value once it is read.

Each property of a passing run has a mutant in `PROJECT.json`, a definition
changed the way a bug would change it, under which TLC finds the property
violated.  The mutants stand next to the definitions they replace, with the name
of the definition and a suffix.

### Fairness

`WF(SessionStep)`, `WF(RunStep)`, `WF(MonitorStep)`, and `WF(OwnStep)` in
`ProbeCommands`: the tasks of the program go
on when they can.  For a step that settles an operation this says that every
operation is answered, fails or times out, which the code enforces with
`asyncio.wait_for` on every read, write and notification request of the session,
identity and monitor, and with sleeps that end.  (It is assumed that the backend
gives an operation up when `wait_for` cancels it.)  Scan, connection and
disconnection rely on the timeouts of bleak and the operating system.  No
fairness is assumed of the camera, of the caller, or of which way an operation
ends: it may fail every time.

`OwnStep` leaves out the answers to `start_notify` and `stop_notify`, failures
included: `listen_notifications` awaits them without a deadline, so nothing makes
them come.  That is what `StuckOnlyUnanswered` is about: a probe command ends, or it is a
`notify-log` that waits at one of these two places for ever.

### What the two violations show

- `session_readme`: the README says a request "always compensates controls it
  acquired" and "Cleanup cannot be disabled."  After the first cancellation
  `_run_cleanup_protected` awaits the cleanup task without the shield, so a
  second cancellation (a second Ctrl+C) ends it, and a confirmed lock or enable
  switch stays on.  `CompensatesUnlessKilled` is the promise the code does keep.
- `packet_docs`: the docstring of `encode_location_packet` says the last four bytes
  are the standard offset and the DST savings.  Without a date, which is how
  `send-location` calls it, the date is `datetime.now().astimezone()`, a fixed
  offset without `dst()`: the savings are always 0 and the standard offset is the
  whole one.  `LocalTimeRecovered` is what does hold: their sum is right, but for the
  seconds `minutes_from_timedelta` drops of an offset that has some.

## 4. What is proved

The theorems hold for every value of the constants the named assumptions allow:
`SessionAssumption` (window, interval, delay and cancellations are natural
numbers, the window and the interval not 0), `SyncAssumption` (cameras have the shape a discovery has),
`ResolutionAssumption` (versions are numbers or missing), `PacketAssumption`,
`MonitorAssumption`, `DiscoveriesAssumption`, `SnapshotAssumption` (cameras have the
shape a discovery has; a verified entry of the registry names a model, and no
firmware with a blank behind it), `ExifAssumption` (the changes of a zone fall on
whole seconds, and what one of them repeats or leaves out is over when the next
one comes), `DecoderAssumption` (a camera means what its frame can say, and its
frame is made of bytes).  Each of them is evaluated by a run.

### A session (`LocationSync_proofs`)

- `TypeCorrect`: `Spec => []TypeOK`.  `TypeOK` is not inductive as it stands, since a
  step takes `Head(todo)` and needs it to be there and to be an action of the
  right kind; `Typed` adds that.
- `NothingHeldSilently`: `Spec => []NoSilentHold`, the property the session exists
  for.  `NoSilentHold` speaks of the end only.  `ReleaseInv` strengthens it to the
  whole cleanup: unless the session is going to raise or has recorded an error,
  every control that is possibly acquired and is on, or may still be switched on
  by a request on air, has its compensation among the actions that are still to
  be done.  `BeginCleanup` establishes it, because the plan covers `maybe`
  (`CleanupPlanCovers`); an answer keeps it, because it settles its own control and
  empties the air (`AnswerReleases`); a failure records the diagnostic; and with
  nothing left to do it is `NoSilentHold`.
- `PacketsArePaced`: `Spec => []PacketBudget`, and `CompletionIsTrue`: `Spec => []WindowServed`.
  Neither is inductive, since neither mentions the window while it is open.  `LoopInv`
  keeps its account: while the loop runs, `left + packets * Interval` is at most
  `Duration`, and during a pause, which is still to be taken off,
  `left + (packets - 1) * Interval` is.  A packet is only sent with time left, so the
  account bounds the packets (`LoopOkServes`); a pause is a whole interval or
  reaches the end (`SleepEndsServes`).  The overruns of writes and pauses only
  take from `left`, which is why no bound on them is needed.
- `SendsUnderControl`: `Spec => []LocationUnderControl`.  `BodyInv` says why a
  confirmed control is really on while the body runs: the only requests on air
  switch controls on, so nothing that lands late can take one back.
- `TouchesOnlyItsOwn`, `OneCancellationSkipsNothing`: `OwnInv` ties `maybe` to what
  was issued, and every compensation to a switch that was issued before; `CompInv`
  says that a control leaves the plan of the cleanup only when its compensation
  has been issued.  Only an exception or a second cancellation cuts the plan.
- `SwitchBeforeLock`: `Spec => []UnlockAfterDisable`.  `UnlockInv` holds the lock still,
  in the camera and on air, until the enable switch is released for good or an
  error is recorded.
- `SessionImplementsLease`: `Spec => ImplementsLease`, the refinement of `ControlLease`.
  Every step of a session is one of the lease or a stutter under the mapping,
  with `Typed`, `ReleaseInv` and `BodyInv` as what is known of the state it begins
  in.

These arguments use two facts about the world that the model states and nothing
proves: a session starts with no request on air, and an answer means that older
requests are settled.

### The commands (`LocationSync_proofs`)

- `SyncTypes`, and `LinkOutlivesSession`: `NoSessionWithoutLink`, by `LinkInv`, which
  also says that nothing is on air without a link.
- `NothingWrittenUnseen`: `WritesWereShown`, for every set of cameras and number of
  runs.  `ApprovalInv` has one part for each place where the chain could break:
  every key that was shown says what it was shown for; the key of a run is about
  the camera it is connected to now; nothing is written before the gate has
  compared the two; what is written is approved.
- `ZeroMeansDone` and `LeftoversAreReported`.  These are about the composition: they
  need the session's own invariants in the middle of a run.  `SessionInv` collects them,
  and `AtRest` and `StepSession` carry them through: between two sessions a camera
  may be changed and the requests on air lost, inside one a step is a step of
  `LocationSession`.  `OutcomeInv` then says what a run knows of its session when it
  chooses an exit code.

### The pure functions (`ProfileResolution_proofs`, `LocationPacket_proofs`)

- `PlansAreAvailable`, `LegacyIsEvidenced`, `RegistryHasTheLastWord`, for every location
  service, version, identity and registry.  The state changes by steps that say
  nothing about the resolution, so the properties are proved of every state whose
  shape is one; `ResolvedByShape` says what a supported shape looks like.
- `AcceptedIsUnderstood`, `LocalTimeIsRecovered`, `BothPacketsAgree`, for every instant,
  offset and saving.  The minutes of an offset are less than a minute away from it
  (`MinutesAreNear`, `SplitAndJoined`), and exact where it has no seconds.

### The read-only commands (`CameraMonitor_proofs`, `ProbeCommands_proofs`)

- `MonitorTypes`; `ReadingsAreFresh`: `FreshInv` adds that the readings kept between polls
  come from one connection at most, and the static ones of an open connection from this
  one.
- `DeadLinkOnce`: after an update has shown a dead connection the monitor is not
  inside a poll and the link stays down (`DeadInv`).
- `MonitorIsPaced`: `PaceInv` is an account like that of the session's window.  At each
  place of the loops it says which retries and polls have been paid for by what
  is gone of the duration.
- `StopsClosed`: `StoppedIsClosed`, that the STOPPED update comes after the end and
  with the connection closed.
- `ProbeTypes`, and `ZeroIsComplete`: `ExitZeroIsComplete`, for every discovery.
  `ReportInv`: before the loop tries a place the report holds exactly what was
  selected before it.

- `SnapshotIsHonest`: `SnapshotForetellsRun`, `SnapshotsDoNotTrustMore`: `NeverMoreTrusted`, and
  `ModeIsRead`: `ModeIsEvidence`, for every set of cameras, every registry and
  whatever reads fail.  They are about the report last printed, while the answers are
  already those of the next command, so each is carried as it stands along the steps
  that print nothing; at `PrintReport` `Typed` is what is needed, which says that an
  answer is what the camera has at that place or a failure.  `AnswerIsRun` and
  `FirstFieldIsRun` compare the two commands' choice of a characteristic with
  `send-location`'s, `DecodedAlike` their treatment of its text; `TrustCarriesOver`
  puts them together with the registry.

### Photos (`ExifVerify_proofs`)

- `LookupInverts`: `Spec => []ZonedTimeInverts`, for every table of clock changes.
  `FoldFinds` is the argument: if a clock shows a reading at some instant, then the
  changes that have passed at that instant are those that `fold` 0 or `fold` 1 takes
  to have passed.  With either fold no later change has passed (`LaterChange`), and of
  the earlier ones all have, but for the latest, on which the folds may differ: that
  is what the spacing in `ExifAssumption` is for.  So the candidates of
  `_unambiguous_zoned_time` are all instants that show the reading
  (`CandidatesAreShown`), and the lookup takes one only if it is the only one.
- `VerifiedIsLater`: `VerifiedIsEvidence`, and `RejectedIsEarly`: `GoodPhotoVerified`.  A
  reading is the whole second of the photo's instant (`SecondOfPhoto`, since offsets
  are whole seconds), so the capture time is at most a second too early and never
  late (`IFDTellsSecond`, `CaptureTimeNotLater`).  `Inv` adds that the GPS time of a photo is
  not after it was taken, and that the verdict is the one on this photo and this
  packet, which stay what they are.

### The decoders (`ValueDecoders_proofs`)

All four properties, for every meaning, of any length, that a camera may send.
`Inv` says what may arrive: a beginning of the frame, or the frame and a byte
(`ArrivesCutOrExtended`).  The rest is about the decoders.

A decoder that goes through its bytes is a recursive function, and nothing is
known of it until a function is shown to exist that satisfies its equation
(`ParseExists`, `LinesExist`, `NumbersExist`, `FlatteningExists`).  The library's
induction takes an operator, which no prover here can instantiate; `SetInduction` and
`DownwardInduction` take a set instead, and all recursions in this module go by them.

- `RedactionHidesValues`: `RedactedAlike`.  Warnings are never redacted, so values do not
  print alike for having the same length and status: the warning of an SSID says
  whether it is empty, has control characters or is not ASCII, and that of a framed value
  with a wrong length byte says the byte.  `GivenAway` names all of this, and the theorem
  says that there is nothing else.  The names of the fields depend on the length alone
  (`RedactedNames`), none of them is one the summary shows, and for each decoder the
  warnings are a function of the length and of what is given away (`WarnedByKind` for
  the texts, `FramesWarnedAlike` for the frames, `WarnedAlike` for all).
- `NothingFalseShown`: `CutShowsNothingFalse`.  `Honest` relates what a cut value says to
  what the whole one says, decoder by decoder.  The hard one is the camera status:
  the records of a beginning are a beginning of the records (`RecordsOfPart`), and
  the first record of a tag stays the first (`SameTagInPart`).
- `WrongLengthIsNoticed`: `WrongLengthNoticed`.  A frame begins with its length, and
  keeps that byte when it loses its end (`WrongLengthShows`).  Camera statuses have no
  length: if all records of one are whole it ends where one of those sent does
  (`WholeEndsWithRecord`), and one byte more is no record.
- `FramesAreReadBack`: `FramesReadBack`.  Records, packs and names of profiles are found
  where the frame has them (`RecordsInPlace`, `PacksInPlace`, `FlatInPlace`), one after the
  other: `RecordsReadBack`, `BatteryReadBack`, `LinesOfNames` are that decoding is the
  inverse of sending.  `StatusReadBack` then says which record of a tag counts, and
  `TextReadBack`, `PushReadBack`, `SettingReadBack`, `FeatureReadBack` do the short frames.

### Only model-checked

Liveness (`SessionEnds`, `RunsEnd`, `Reconnects`, `MonitorEnds`, `StuckOnlyUnanswered`):
fairness and `ENABLED` are out of the prover's reach.  Every other property of the
passing runs is stated by a theorem.

## 5. What is not modelled

- `monitor_tui.py`: the layout of the last update.  How it ends is in `CameraMonitor`.
- `scan` and `encode-location`, argument parsing, the events of `notify-log` as they are printed,
  JSON and text output: formatting without state.
- The matching of camera names and UUID filters in the probe's commands: whether a
  characteristic matches is given.
- Coordinates, the fixed bytes of the packets, and the advertisement parser.
- The wording of warnings and errors, and the sanitizing of errors.
- DD01 events, which a session only records.
- `scripts/check_source_lines.py`: a limit on the lines of a source file.

What the properties leave out on purpose, because the code does not promise it:

- `CutShowsNothingFalse` says nothing of the external power state, which the code takes
  from the last byte of whatever arrived of a battery frame (status `partial`
  says that something is wrong), and nothing of texts, whose end may be missing.
- Redaction covers fields and raw bytes and not the warning: a profile list or an
  identifier whose length byte is wrong prints that byte (`GivenAway`).
- An SSID or a password needs no frame, so three bytes that are left of one may
  look like a text (`WrongLengthNoticed` names the limit).
- Of two EE01 characteristics `pair-init` checks one and writes another one.  A write to an
  unusable one fails and is reported; nothing says which one is meant.
- `AlwaysCompensates` and `DocumentedOffsets` are what documents promise and the code does not do.

## 6. Plan

Done: all modules of the table, their runs, and the theorems of section 4.

What could follow:

1. The advertisement parser, with the frames of `ValueDecoders`, and the coordinates of
   the packets with their rounding.
2. The external power state of a battery frame that was cut: a property needs a
   camera, or a reading of the code, that says what it should be.
