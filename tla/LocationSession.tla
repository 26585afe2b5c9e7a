--------------------------- MODULE LocationSession ---------------------------
(***************************************************************************)
(* One bounded location session on a connected camera                      *)
(* (_execute_location_session of sony_location.py) and the camera's side   *)
(* of the controls it borrows: setup, the location loop, and the cleanup   *)
(* that runs whatever happened before, in a task of its own and shielded   *)
(* from the caller's cancellation.                                         *)
(*                                                                         *)
(* A GATT operation is two steps: it is issued, and later it is answered,  *)
(* fails (a GATT status, a lost link or the wait_for timeout: the code     *)
(* does not tell them apart), raises something the code does not catch, or *)
(* is cancelled.  A control write without an answer may have been lost or  *)
(* carried out, or may still be carried out later: it stays on "air".  The *)
(* link keeps the order of requests, so an answer means that every earlier *)
(* request has been carried out or never will be.                          *)
(*                                                                         *)
(* Sessions follow one another on the same camera, which remembers what an *)
(* earlier one left behind.                                                *)
(***************************************************************************)
EXTENDS SessionPlan, Integers

CONSTANTS
  Duration,          \* length of the location window, in ticks
  Interval,          \* pause between two location packets, in ticks
  MaxDelay,          \* ticks a write may take and a sleep may overrun
  MaxCancels,        \* bound: cancellations one session receives
  UnexpectedErrors   \* may the backend raise outside BleakError, TimeoutError
                     \* and OSError?

ASSUME SessionAssumption ==
  /\ Duration \in Nat \ {0}
  /\ Interval \in Nat \ {0}
  /\ MaxDelay \in Nat
  /\ MaxCancels \in Nat
  /\ UnexpectedErrors \in BOOLEAN

VARIABLES
  pc,          \* where the session stands; "..._wait": an operation in flight
  profile,     \* the resolved profile
  todo,        \* planned actions that are not settled yet, next one first
  maybe,       \* _SetupState: the *_may_be_* flags, as a set of controls
  confirmed,   \* _SetupState: the *_confirmed flags
  mode,        \* _SetupState.dd21_mode: "none", "timezone" or "compact"
  packets,     \* packets_sent
  completed,   \* _LocationWriteOutcome.completed
  left,        \* ticks to the loop's deadline, 0 once it has passed
  diag,        \* a cleanup error was recorded: cleanup_diagnostic is not None
  raised,      \* the session ends with an exception instead of an outcome
  taskEnd,     \* the cleanup task: "running", "finished", "raised" or "killed"
  absorbed,    \* a cancellation during the cleanup was shielded off
  cancels,     \* cancellations received so far
  issued,      \* control writes issued so far (the names in "operations")
  cam,         \* the camera: the state of every control
  air          \* control writes without an answer, oldest first

stateVars == <<profile, maybe, confirmed, mode>>
loopVars  == <<packets, completed, left>>
endVars   == <<diag, raised, taskEnd, absorbed, cancels>>
camVars   == <<issued, cam, air>>
vars == <<pc, todo, stateVars, loopVars, endVars, camVars>>

ControlWrites == [uuid : Controls, value : {"on", "off"}]

TypeOK ==
  /\ pc \in {"idle", "setup", "setup_wait", "loop", "loop_wait", "sleep",
             "cleanup", "cleanup_wait", "cleaned", "ended"}
  /\ profile \in Profiles
  /\ todo \in Seq(SetupActions \cup CleanupActions)
  /\ maybe \subseteq Controls
  /\ confirmed \subseteq RequiredControls
  /\ mode \in {"none", "timezone", "compact"}
  /\ packets \in Nat
  /\ completed \in BOOLEAN
  /\ left \in Nat
  /\ diag \in BOOLEAN
  /\ raised \in BOOLEAN
  /\ taskEnd \in {"running", "finished", "raised", "killed"}
  /\ absorbed \in BOOLEAN
  /\ cancels \in 0 .. MaxCancels
  /\ issued \subseteq ControlWrites
  /\ cam \in [Controls -> {"on", "off"}]
  /\ air \in Seq(ControlWrites)

-----------------------------------------------------------------------------
(* Operators the steps share.                                              *)

\* The control write an action makes, as a set: empty for a read.
ControlWrite(a) ==
  IF a.uuid \in Controls THEN {[uuid |-> a.uuid, value |-> a.value]} ELSE {}

Send(a) ==
  /\ issued' = issued \cup ControlWrite(a)
  /\ air' = IF a.uuid \in Controls
              THEN Append(air, [uuid |-> a.uuid, value |-> a.value]) ELSE air
  /\ cam' = cam

\* A successful answer: the operation was carried out, and nothing older is
\* still on its way.
Answered(a) ==
  /\ cam' = IF a.uuid \in Controls THEN [cam EXCEPT ![a.uuid] = a.value] ELSE cam
  /\ air' = <<>>
  /\ issued' = issued

\* Undoes what setup plans would have acquired, whatever was attempted.
BeginCleanup_WholePlan ==
  /\ pc' = "cleanup"
  /\ todo' = CleanupPlan(Controls)

\* Undoes only what the camera has confirmed.
BeginCleanup_ConfirmedOnly ==
  /\ pc' = "cleanup"
  /\ todo' = CleanupPlan(confirmed)

\* The finally block: what may have been acquired decides what is undone.
BeginCleanup ==
  /\ pc' = "cleanup"
  /\ todo' = CleanupPlan(maybe)

\* _required_setup_succeeded
RequiredSetupSucceeded(p, acquired) ==
  p.kind = "legacy" \/ RequiredControls \subseteq acquired

Earliest(a, b) == IF a < b THEN a ELSE b

\* The ticks left when d more have passed.
After(d) == IF d < left THEN left - d ELSE 0

-----------------------------------------------------------------------------
Init ==
  /\ pc = "idle"
  /\ profile = [kind |-> "unsupported", statusNotifications |-> FALSE,
                timeCorrection |-> FALSE, areaAdjustment |-> FALSE]
  /\ todo = <<>>
  /\ maybe = {} /\ confirmed = {} /\ mode = "none"
  /\ packets = 0 /\ completed = FALSE /\ left = 0
  /\ diag = FALSE /\ raised = FALSE /\ taskEnd = "running"
  /\ absorbed = FALSE /\ cancels = 0
  /\ issued = {} /\ cam = [c \in Controls |-> "off"] /\ air = <<>>

\* A session on a fresh connection: requests of an earlier one that are still
\* on air are lost with its link.
SessionStart(p) ==
  /\ pc \in {"idle", "ended"}
  /\ Executable(p)
  /\ pc' = "setup"
  /\ profile' = p
  /\ todo' = SetupPlan(p)
  /\ maybe' = {} /\ confirmed' = {} /\ mode' = "none"
  /\ packets' = 0 /\ completed' = FALSE /\ left' = 0
  /\ diag' = FALSE /\ raised' = FALSE /\ taskEnd' = "running"
  /\ absorbed' = FALSE /\ cancels' = 0
  /\ issued' = {} /\ cam' = cam /\ air' = <<>>

-----------------------------------------------------------------------------
(* Setup.                                                                  *)

\* The control counts as possibly acquired before the request leaves.
SetupIssue ==
  /\ pc = "setup"
  /\ todo # <<>>
  /\ pc' = "setup_wait"
  /\ maybe' = maybe \cup ({Head(todo).uuid} \cap Controls)
  /\ Send(Head(todo))
  /\ UNCHANGED <<todo, profile, confirmed, mode, loopVars, endVars>>

\* A success that confirms whatever it was about.
SetupOk_ConfirmsAny ==
  /\ pc = "setup_wait"
  /\ Head(todo).uuid # "dd21"
  /\ pc' = "setup"
  /\ todo' = Tail(todo)
  /\ confirmed' = confirmed \cup {Head(todo).uuid}
  /\ Answered(Head(todo))
  /\ UNCHANGED <<profile, maybe, mode, loopVars, endVars>>

\* Every operation but the reading of DD21 succeeds the same way.
SetupOk ==
  /\ pc = "setup_wait"
  /\ Head(todo).uuid # "dd21"
  /\ pc' = "setup"
  /\ todo' = Tail(todo)
  /\ confirmed' = confirmed \cup ({Head(todo).uuid} \cap RequiredControls)
  /\ Answered(Head(todo))
  /\ UNCHANGED <<profile, maybe, mode, loopVars, endVars>>

\* A DD21 value parse_dd21_mode accepts.
SetupMode ==
  /\ pc = "setup_wait"
  /\ Head(todo).uuid = "dd21"
  /\ pc' = "setup"
  /\ todo' = Tail(todo)
  /\ mode' \in {"timezone", "compact"}
  /\ Answered(Head(todo))
  /\ UNCHANGED <<profile, maybe, confirmed, loopVars, endVars>>

\* A DD21 value it rejects ends the setup.
SetupModeRejected ==
  /\ pc = "setup_wait"
  /\ Head(todo).uuid = "dd21"
  /\ pc' = "setup"
  /\ todo' = <<>>
  /\ Answered(Head(todo))
  /\ UNCHANGED <<stateVars, loopVars, endVars>>

\* An error that is recorded and then treated like a success.
SetupFails_FallsThrough ==
  /\ pc = "setup_wait"
  /\ pc' = "setup"
  /\ todo' = Tail(todo)
  /\ confirmed' = confirmed \cup ({Head(todo).uuid} \cap RequiredControls)
  /\ UNCHANGED <<profile, maybe, mode, loopVars, endVars, camVars>>

\* An error is final for a required action only.
SetupFails ==
  /\ pc = "setup_wait"
  /\ pc' = "setup"
  /\ todo' = IF Head(todo).required THEN <<>> ELSE Tail(todo)
  /\ UNCHANGED <<stateVars, loopVars, endVars, camVars>>

\* The end of _run_setup and the condition on the loop.
SetupDone ==
  /\ pc = "setup"
  /\ todo = <<>>
  /\ IF mode # "none" /\ RequiredSetupSucceeded(profile, confirmed)
       THEN /\ pc' = "loop"
            /\ left' = Duration
            /\ UNCHANGED todo
       ELSE /\ BeginCleanup
            /\ UNCHANGED left
  /\ UNCHANGED <<stateVars, packets, completed, endVars, camVars>>

-----------------------------------------------------------------------------
(* The location loop.                                                      *)

WindowOver == packets > 0 /\ left = 0

LoopComplete ==
  /\ pc = "loop"
  /\ WindowOver
  /\ completed' = TRUE
  /\ BeginCleanup
  /\ UNCHANGED <<stateVars, packets, left, endVars, camVars>>

LoopIssue ==
  /\ pc = "loop"
  /\ ~WindowOver
  /\ pc' = "loop_wait"
  /\ UNCHANGED <<todo, stateVars, loopVars, endVars, camVars>>

\* A loop that takes its first accepted packet for the whole window.
LoopOk_DoneAtOnce(d) ==
  /\ pc = "loop_wait"
  /\ packets' = packets + 1
  /\ left' = After(d)
  /\ completed' = TRUE
  /\ BeginCleanup
  /\ air' = <<>>
  /\ UNCHANGED <<stateVars, endVars, issued, cam>>

\* The packet was accepted d ticks after it was issued.
LoopOk(d) ==
  /\ pc = "loop_wait"
  /\ packets' = packets + 1
  /\ left' = After(d)
  /\ IF left' = 0
       THEN completed' = TRUE /\ BeginCleanup
       ELSE pc' = "sleep" /\ UNCHANGED <<todo, completed>>
  /\ air' = <<>>
  /\ UNCHANGED <<stateVars, endVars, issued, cam>>

LoopFails ==
  /\ pc = "loop_wait"
  /\ BeginCleanup
  /\ UNCHANGED <<stateVars, loopVars, endVars, camVars>>

\* A pause that is cut to nothing.
SleepEnds_NoPause(d) ==
  /\ pc = "sleep"
  /\ pc' = "loop"
  /\ left' = After(d)
  /\ UNCHANGED <<todo, stateVars, packets, completed, endVars, camVars>>

\* asyncio.sleep(min(interval, remaining)), d ticks late.
SleepEnds(d) ==
  /\ pc = "sleep"
  /\ pc' = "loop"
  /\ left' = After(Earliest(Interval, left) + d)
  /\ UNCHANGED <<todo, stateVars, packets, completed, endVars, camVars>>

-----------------------------------------------------------------------------
(* The body is left by an exception: the finally block runs all the same.  *)

BodyRaises ==
  /\ UnexpectedErrors
  /\ pc \in {"setup_wait", "loop_wait"}
  /\ raised' = TRUE
  /\ BeginCleanup
  /\ UNCHANGED <<stateVars, loopVars, diag, taskEnd, absorbed, cancels, camVars>>

CancelBody ==
  /\ cancels < MaxCancels
  /\ pc \in {"setup_wait", "loop_wait", "sleep"}
  /\ cancels' = cancels + 1
  /\ raised' = TRUE
  /\ BeginCleanup
  /\ UNCHANGED <<stateVars, loopVars, diag, taskEnd, absorbed, camVars>>

-----------------------------------------------------------------------------
(* The cleanup task.                                                       *)

CleanupIssue ==
  /\ pc = "cleanup"
  /\ todo # <<>>
  /\ pc' = "cleanup_wait"
  /\ Send(Head(todo))
  /\ UNCHANGED <<todo, stateVars, loopVars, endVars>>

CleanupOk ==
  /\ pc = "cleanup_wait"
  /\ pc' = "cleanup"
  /\ todo' = Tail(todo)
  /\ Answered(Head(todo))
  /\ UNCHANGED <<stateVars, loopVars, endVars>>

\* A cleanup error that nobody hears of.
CleanupFails_Silent ==
  /\ pc = "cleanup_wait"
  /\ pc' = "cleanup"
  /\ todo' = Tail(todo)
  /\ UNCHANGED <<stateVars, loopVars, endVars, camVars>>

\* A cleanup that tries a failed action again.
CleanupFails_Retries ==
  /\ pc = "cleanup_wait"
  /\ pc' = "cleanup"
  /\ diag' = TRUE
  /\ UNCHANGED <<todo, stateVars, loopVars, raised, taskEnd, absorbed, cancels, camVars>>

\* A failed action is recorded, and the next one is tried.
CleanupFails ==
  /\ pc = "cleanup_wait"
  /\ pc' = "cleanup"
  /\ todo' = Tail(todo)
  /\ diag' = TRUE
  /\ UNCHANGED <<stateVars, loopVars, raised, taskEnd, absorbed, cancels, camVars>>

CleanupDone ==
  /\ pc = "cleanup"
  /\ todo = <<>>
  /\ pc' = "cleaned"
  /\ taskEnd' = "finished"
  /\ UNCHANGED <<todo, stateVars, loopVars, diag, raised, absorbed, cancels, camVars>>

\* An exception the operations do not catch ends the cleanup where it stands.
CleanupRaises ==
  /\ UnexpectedErrors
  /\ pc = "cleanup_wait"
  /\ pc' = "cleaned"
  /\ taskEnd' = "raised"
  /\ raised' = TRUE
  /\ UNCHANGED <<todo, stateVars, loopVars, diag, absorbed, cancels, camVars>>

\* A cleanup that is awaited without the shield.
CancelCleanup_Unshielded ==
  /\ cancels < MaxCancels
  /\ ~absorbed
  /\ pc \in {"cleanup", "cleanup_wait", "cleaned"}
  /\ pc' = "cleaned"
  /\ taskEnd' = IF taskEnd = "running" THEN "killed" ELSE taskEnd
  /\ absorbed' = TRUE
  /\ raised' = TRUE
  /\ cancels' = cancels + 1
  /\ UNCHANGED <<todo, stateVars, loopVars, diag, camVars>>

\* The first cancellation while the session waits for the cleanup: the shield
\* keeps it from the task, the session goes on waiting and raises afterwards.
CancelCleanup ==
  /\ cancels < MaxCancels
  /\ ~absorbed
  /\ pc \in {"cleanup", "cleanup_wait", "cleaned"}
  /\ absorbed' = TRUE
  /\ raised' = TRUE
  /\ cancels' = cancels + 1
  /\ UNCHANGED <<pc, todo, stateVars, loopVars, diag, taskEnd, camVars>>

\* A further cancellation reaches the cleanup task itself: the session awaits
\* it without the shield by now, or asyncio.run cancels every task after the
\* second interrupt.
KillCleanup ==
  /\ 0 < cancels /\ cancels < MaxCancels
  /\ pc \in {"cleanup", "cleanup_wait"}
  /\ pc' = "cleaned"
  /\ taskEnd' = "killed"
  /\ raised' = TRUE
  /\ cancels' = cancels + 1
  /\ UNCHANGED <<todo, stateVars, loopVars, diag, absorbed, camVars>>

\* The outcome, or the exception, reaches the caller.
Return ==
  /\ pc = "cleaned"
  /\ pc' = "ended"
  /\ UNCHANGED <<todo, stateVars, loopVars, endVars, camVars>>

-----------------------------------------------------------------------------
(* The camera carries out the oldest write without an answer.              *)
Land ==
  /\ air # <<>>
  /\ cam' = [cam EXCEPT ![Head(air).uuid] = Head(air).value]
  /\ air' = Tail(air)
  /\ UNCHANGED <<pc, todo, stateVars, loopVars, endVars, issued>>

-----------------------------------------------------------------------------
\* The steps of the session's own tasks: every wait in them is bounded by a
\* wait_for timeout or is a sleep.
SessionStep ==
  \/ SetupIssue \/ SetupOk \/ SetupMode \/ SetupModeRejected \/ SetupFails
  \/ SetupDone
  \/ LoopComplete \/ LoopIssue \/ LoopFails
  \/ \E d \in 0 .. MaxDelay : LoopOk(d) \/ SleepEnds(d)
  \/ BodyRaises
  \/ CleanupIssue \/ CleanupOk \/ CleanupFails \/ CleanupDone \/ CleanupRaises
  \/ Return

Cancellation == CancelBody \/ CancelCleanup \/ KillCleanup

Next ==
  \/ \E p \in Profiles : SessionStart(p)
  \/ SessionStep
  \/ Cancellation
  \/ Land

Spec == Init /\ [][Next]_vars /\ WF_vars(SessionStep)

-----------------------------------------------------------------------------
(* Properties.                                                             *)

\* SonyLocationSyncRun.success
Success == packets > 0 /\ completed /\ ~diag

OnAir(c) == \E i \in 1 .. Len(air) : air[i] = [uuid |-> c, value |-> "on"]

\* A control this session may have borrowed and the camera holds, or will if
\* a write that is still on air arrives.
Held == {c \in maybe : cam[c] = "on" \/ OnAir(c)}

\* A session that returns an outcome without a cleanup diagnostic leaves
\* nothing behind: no control it may have acquired is on, and no late request
\* can still switch one on (_run_cleanup; lost answers and timeouts included).
NoSilentHold == pc = "ended" /\ ~raised /\ ~diag => Held = {}

\* Location packets go to a camera that has confirmed the lock and the enable
\* switch and still holds both, under a DD21 mode the client has understood
\* (the condition in _execute_location_session).
LocationUnderControl ==
  pc \in {"loop", "loop_wait", "sleep"} =>
    /\ mode # "none"
    /\ profile.kind = "modern" =>
         \A c \in RequiredControls : c \in confirmed /\ cam[c] = "on"

\* The lock is not given back over a location switch that is still on, unless
\* the switching off failed and the diagnostic says so (the order of
\* compensation_actions).
UnlockAfterDisable ==
  (/\ RequiredControls \subseteq confirmed
   /\ pc \in {"cleanup", "cleanup_wait", "cleaned", "ended"}
   /\ cam["dd30"] = "off"
   /\ cam["dd31"] = "on") => diag

\* A control is switched off only where this session tried to switch it on,
\* and a legacy session touches none (README: "compensate only controls that
\* were acquired; legacy sessions never touch DD30/DD31").
OnlyOwnControls ==
  /\ \A w \in issued : w.value = "off" => [w EXCEPT !.value = "on"] \in issued
  /\ profile.kind = "legacy" => issued = {}

\* Every control that may be acquired has its compensation issued.
Compensated == \A c \in maybe : [uuid |-> c, value |-> "off"] \in issued

\* One cancellation, wherever it falls, never skips a compensation; it takes
\* an exception nobody expects or a second cancellation during the cleanup
\* (_run_cleanup_protected).
CompensatesUnlessKilled ==
  pc = "ended" /\ ~Compensated =>
    taskEnd = "raised" \/ (taskEnd = "killed" /\ cancels >= 2)

\* README.md:23: a session "always compensates controls it acquired".
AlwaysCompensates ==
  pc = "ended" =>
    \A c \in confirmed : [uuid |-> c, value |-> "off"] \in issued

\* The loop keeps the pause between packets: k + 1 accepted packets take k
\* whole intervals of the window (_write_location_loop).
PacketBudget == packets > 0 => (packets - 1) * Interval < Duration

\* A completed loop has sent something and served the whole window.
WindowServed == completed => packets > 0 /\ left = 0

\* Every session that starts ends, with an outcome or an exception, although
\* any operation may fail and cancellations may arrive (the wait_for timeouts
\* on every operation; nothing is retried).
SessionEnds == pc = "setup" ~> pc = "ended"

-----------------------------------------------------------------------------
(* The session implements the lease.                                       *)

LeasePhase ==
  CASE pc = "idle" -> "idle"
    [] pc \in {"setup", "setup_wait"} -> "acquiring"
    [] pc \in {"loop", "loop_wait", "sleep"} -> "using"
    [] pc \in {"cleanup", "cleanup_wait", "cleaned"} -> "releasing"
    [] OTHER -> "closed"

LeaseVerdict ==
  IF pc # "ended" THEN "none"
  ELSE IF raised THEN "raised"
  ELSE IF diag THEN "reported"
  ELSE IF Success THEN "success" ELSE "clean"

Lease == INSTANCE ControlLease WITH
  phase   <- LeasePhase,
  needs   <- IF profile.kind = "modern" THEN RequiredControls ELSE {},
  held    <- Held,
  used    <- packets > 0,
  verdict <- LeaseVerdict

\* The session as a lease of controls: what it holds grows while it sets up,
\* is complete while it sends, only shrinks from the cleanup on, and is
\* nothing when it closes without reporting trouble.
ImplementsLease == Lease!LeaseSpec
=============================================================================
