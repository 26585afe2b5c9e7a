---------------------------- MODULE LocationSync ----------------------------
(***************************************************************************)
(* The commands that write to a camera, run after run: send-location       *)
(* (sync_location) and pair-init (initialize_pairing), from the scan to    *)
(* the exit code.  A run finds the camera that is in range, connects,      *)
(* reads its identity, resolves its profile, and writes only if this is    *)
(* the camera the caller has approved: the key comes from what an earlier  *)
(* run has shown.  Between two runs the camera may be another one, or the  *)
(* same one with another firmware.  The session itself is LocationSession, *)
(* whose steps are steps of this module while a run is in its session.     *)
(***************************************************************************)
EXTENDS LocationSession, Capabilities

CONSTANTS
  Cameras,   \* the cameras that may be in range, see CameraType
  MaxRuns    \* bound: runs of the commands

VARIABLES
  stage,      \* "ready" between two runs, else what the run is doing
  options,    \* the arguments: command, write, allow (--allow-experimental), key
  camera,     \* the camera in range
  linked,     \* the BLE link is up
  identity,   \* SonyIdentity as this run has read it
  resolved,   \* this run's profile
  required,   \* required_approval_key, NoKey when there is none
  ran,        \* this run has entered a location session
  ee01,       \* the EE01 write of this run: "none", "in flight", "ok", "failed"
  problem,    \* what leaves the async with: "none", "ble", "other"
  exit,       \* the last run's exit code, NoExit while there is none
  shown,      \* what runs have shown to the caller, with the key for it
  runs

runVars == <<stage, options, camera, linked, identity, resolved, required, ran,
             ee01, problem, exit, shown, runs>>
syncVars == <<vars, runVars>>

Commands == {"send-location", "pair-init"}
NoExit == -1

\* The exit codes of what a command does not catch: an exception, or Ctrl+C.
Uncaught == {1, 130}
ExitCodes == {0, 1, 2, 3} \cup Uncaught

Model(name, spelling) == [base |-> name, spelling |-> spelling]
NoModel == Model("none", "none")

NoIdentity == [model |-> NoModel, firmware |-> NoFirmware, version |-> NoVersion]

NoOptions == [command |-> "send-location", write |-> FALSE, allow |-> FALSE, key |-> NoKey]

\* A camera: the model it reports and the name it advertises, its firmware,
\* the protocol version it advertises, its location service, and the EE01
\* characteristics of its pairing service in the order of discovery.
CameraType ==
  [model : [base : STRING, spelling : STRING], name : [base : STRING, spelling : STRING],
   firmware : STRING, version : Int, shape : Shapes, ee01 : Seq({"usable", "unusable"})]

ASSUME SyncAssumption == Cameras \subseteq CameraType /\ MaxRuns \in Nat

\* The purpose a command asks approval for.
Purpose(command) ==
  IF command = "send-location" THEN "location-sync" ELSE "pair-init"

-----------------------------------------------------------------------------
SyncInit ==
  /\ Init
  /\ stage = "ready"
  /\ options = NoOptions
  /\ camera \in Cameras
  /\ linked = FALSE
  /\ identity = NoIdentity
  /\ resolved = UnsupportedProfile
  /\ required = NoKey
  /\ ran = FALSE
  /\ ee01 = "none"
  /\ problem = "none"
  /\ exit = NoExit
  /\ shown = {}
  /\ runs = 0

\* The caller knows the keys that were shown.
KnownKeys == {NoKey} \cup {s.key : s \in shown}

\* send-location only connects with --write; pair-init connects in any case.
Invoke(o) ==
  /\ stage = "ready"
  /\ runs < MaxRuns
  /\ o.key \in KnownKeys
  /\ o.command = "send-location" => o.write
  /\ stage' = "scan"
  /\ options' = o
  /\ identity' = NoIdentity /\ resolved' = UnsupportedProfile /\ required' = NoKey
  /\ ran' = FALSE /\ ee01' = "none" /\ problem' = "none" /\ exit' = NoExit
  /\ runs' = runs + 1
  /\ UNCHANGED <<vars, camera, linked, shown>>

\* Another camera comes into range, or this one after an update: it is the
\* update that keeps what an earlier session has left switched on.
ChangeCamera(c) ==
  /\ stage = "ready"
  /\ c # camera
  /\ camera' = c
  /\ cam' \in {cam, [x \in Controls |-> "off"]}
  /\ cam' = cam => HasControls(c.shape) \/ \A x \in Controls : cam[x] = "off"
  /\ UNCHANGED <<pc, todo, stateVars, loopVars, endVars, issued, air, stage, options,
                 linked, identity, resolved, required, ran, ee01, problem, exit,
                 shown, runs>>

-----------------------------------------------------------------------------
(* Finding the camera, and the link.                                       *)

\* find_device returns the camera, or None, or raises.
ScanFinds ==
  /\ stage = "scan"
  /\ stage' = "connect"
  /\ UNCHANGED <<vars, options, camera, linked, identity, resolved, required, ran,
                 ee01, problem, exit, shown, runs>>

ScanFindsNothing ==
  /\ stage = "scan"
  /\ stage' = "ready"
  /\ exit' = 1
  /\ UNCHANGED <<vars, options, camera, linked, identity, resolved, required, ran,
                 ee01, problem, shown, runs>>

\* A BleakError, TimeoutError or OSError of the scan or the connection.
NoConnection ==
  /\ stage \in {"scan", "connect"}
  /\ stage' = "ready"
  /\ exit' = 2
  /\ UNCHANGED <<vars, options, camera, linked, identity, resolved, required, ran,
                 ee01, problem, shown, runs>>

Connected ==
  /\ stage = "connect"
  /\ stage' = "identify"
  /\ linked' = TRUE
  /\ UNCHANGED <<vars, options, camera, identity, resolved, required, ran, ee01,
                 problem, exit, shown, runs>>

\* A firmware that falls back to the advertised name as the model does.
Identify_FirmwareFallsBack ==
  /\ stage = "identify"
  /\ stage' = "gate"
  /\ \E model \in {camera.model, camera.name},
        firmware \in {camera.firmware, camera.name.base} :
       identity' = [model |-> model, firmware |-> firmware, version |-> camera.version]
  /\ resolved' = ResolveCompatibleProfile(identity', camera.shape)
  /\ required' = IF ApprovalRequired(identity', camera.shape)
                   THEN ApprovalKey(identity', resolved', Purpose(options.command))
                   ELSE NoKey
  /\ UNCHANGED <<vars, options, camera, linked, ran, ee01, problem, exit, shown, runs>>

\* _read_identity: an unreadable model falls back to the advertised name, an
\* unreadable firmware stays unknown.  The profile and the key follow.
Identify ==
  /\ stage = "identify"
  /\ stage' = "gate"
  /\ \E model \in {camera.model, camera.name}, firmware \in {camera.firmware, NoFirmware} :
       identity' = [model |-> model, firmware |-> firmware, version |-> camera.version]
  /\ resolved' = ResolveCompatibleProfile(identity', camera.shape)
  /\ required' = IF ApprovalRequired(identity', camera.shape)
                    /\ identity'.firmware # NoFirmware
                   THEN ApprovalKey(identity', resolved', Purpose(options.command))
                   ELSE NoKey
  /\ UNCHANGED <<vars, options, camera, linked, ran, ee01, problem, exit, shown, runs>>

-----------------------------------------------------------------------------
(* The gates.                                                              *)

\* An approval that takes the flag for the key.
Approved_FlagOnly == options.allow /\ required # NoKey

\* allow_experimental and approval_key == required_approval_key
Approved == options.allow /\ required # NoKey /\ options.key = required

NeedsApproval == ApprovalRequired(identity, camera.shape)

\* What a run that reaches its end shows the caller: the identity, the
\* profile and the key for them.
Display ==
  shown' = IF required = NoKey THEN shown
           ELSE shown \cup {[key |-> required, purpose |-> Purpose(options.command),
                             model |-> NormalizeModel(identity.model),
                             firmware |-> identity.firmware,
                             version |-> identity.version, profile |-> resolved]}

MayWrite == Executable(resolved) /\ (NeedsApproval => Approved)

SyncRefuse ==
  /\ stage = "gate" /\ options.command = "send-location"
  /\ ~MayWrite
  /\ stage' = "disconnect"
  /\ UNCHANGED <<vars, options, camera, linked, identity, resolved, required, ran,
                 ee01, problem, exit, shown, runs>>

SyncBegin ==
  /\ stage = "gate" /\ options.command = "send-location"
  /\ MayWrite
  /\ SessionStart(resolved)
  /\ stage' = "session"
  /\ ran' = TRUE
  /\ UNCHANGED <<options, camera, linked, identity, resolved, required, ee01,
                 problem, exit, shown, runs>>

\* The first EE01 characteristic is the one that is checked.
EE01Available == camera.ee01 # <<>> /\ Head(camera.ee01) = "usable"

\* The error of pair-init before anything is written.
PairingError ==
  \/ ~EE01Available
  \/ ~Executable(resolved)
  \/ options.write /\ NeedsApproval /\ ~Approved

PairRefuse ==
  /\ stage = "gate" /\ options.command = "pair-init"
  /\ ~options.write \/ PairingError
  /\ stage' = "disconnect"
  /\ ee01' = IF PairingError THEN "failed" ELSE "none"
  /\ UNCHANGED <<vars, options, camera, linked, identity, resolved, required, ran,
                 problem, exit, shown, runs>>

PairWrite ==
  /\ stage = "gate" /\ options.command = "pair-init"
  /\ options.write /\ ~PairingError
  /\ stage' = "pairing"
  /\ ee01' = "in flight"
  /\ UNCHANGED <<vars, options, camera, linked, identity, resolved, required, ran,
                 problem, exit, shown, runs>>

\* The last EE01 characteristic is the one that is written; a camera rejects
\* the write where it cannot be written.
PairAnswer ==
  /\ stage = "pairing"
  /\ stage' = "disconnect"
  /\ ee01' \in {"ok", "failed"}
  /\ ee01' = "ok" => camera.ee01[Len(camera.ee01)] = "usable"
  /\ UNCHANGED <<vars, options, camera, linked, identity, resolved, required, ran,
                 problem, exit, shown, runs>>

-----------------------------------------------------------------------------
(* The session, and the end of a run.                                      *)

InSession ==
  /\ stage = "session"
  /\ SessionStep \/ Cancellation \/ Land
  /\ UNCHANGED runVars

\* A cleanup task that nobody waits for.
SessionOver_CleanupDetached ==
  /\ stage = "session"
  /\ pc \in {"cleanup", "cleanup_wait", "cleaned", "ended"}
  /\ stage' = "disconnect"
  /\ problem' = IF raised THEN "other" ELSE "none"
  /\ UNCHANGED <<vars, options, camera, linked, identity, resolved, required, ran,
                 ee01, exit, shown, runs>>

\* The async with is left when _execute_location_session has returned or raised.
SessionOver ==
  /\ stage = "session"
  /\ pc = "ended"
  /\ stage' = "disconnect"
  /\ problem' = IF raised THEN "other" ELSE "none"
  /\ UNCHANGED <<vars, options, camera, linked, identity, resolved, required, ran,
                 ee01, exit, shown, runs>>

\* Ctrl+C, or an exception nobody catches, outside the session.
Interrupted ==
  /\ stage \in {"identify", "pairing"}
  /\ stage' = "disconnect"
  /\ problem' = "other"
  /\ UNCHANGED <<vars, options, camera, linked, identity, resolved, required, ran,
                 ee01, exit, shown, runs>>

InterruptedUnlinked ==
  /\ stage \in {"scan", "connect"}
  /\ stage' = "ready"
  /\ exit' \in Uncaught
  /\ UNCHANGED <<vars, options, camera, linked, identity, resolved, required, ran,
                 ee01, problem, shown, runs>>

\* The end of the async with: what is still on air is lost with the link.  An
\* error of the disconnection replaces the outcome, or the exception.
Disconnected ==
  /\ stage = "disconnect"
  /\ stage' = "report"
  /\ linked' = FALSE
  /\ air' = <<>>
  /\ problem' \in {problem, "ble"}
  /\ UNCHANGED <<pc, todo, stateVars, loopVars, endVars, issued, cam, options, camera,
                 identity, resolved, required, ran, ee01, exit, shown, runs>>

\* A location run whose exit code only asks whether packets were accepted.
RunSucceeded_WriteOnly ==
  IF options.command = "send-location" THEN ran /\ packets > 0 ELSE ee01 # "failed"

\* result.success, or operation.error is None
RunSucceeded ==
  IF options.command = "send-location" THEN ran /\ Success ELSE ee01 # "failed"

\* The commands' exit codes.
Report ==
  /\ stage = "report"
  /\ stage' = "ready"
  /\ exit' \in CASE problem = "ble" -> {2}
                 [] problem = "other" -> Uncaught
                 [] problem = "none" /\ RunSucceeded -> {0}
                 [] OTHER -> {3}
  /\ IF problem = "none" THEN Display ELSE UNCHANGED shown
  /\ UNCHANGED <<vars, options, camera, linked, identity, resolved, required, ran,
                 ee01, problem, runs>>

-----------------------------------------------------------------------------
RunStep ==
  \/ ScanFinds \/ ScanFindsNothing \/ NoConnection \/ Connected \/ Identify
  \/ SyncRefuse \/ SyncBegin \/ PairRefuse \/ PairWrite \/ PairAnswer
  \/ SessionOver \/ Interrupted \/ InterruptedUnlinked \/ Disconnected \/ Report

AllOptions(keys) ==
  [command : Commands, write : BOOLEAN, allow : BOOLEAN, key : keys]

SyncNext ==
  \/ \E o \in AllOptions(KnownKeys) : Invoke(o)
  \/ \E c \in Cameras : ChangeCamera(c)
  \/ RunStep
  \/ InSession

\* Scans, connections, reads, writes and the disconnection are all bounded by
\* a timeout of the client or of the BLE backend.
SyncSpec ==
  /\ SyncInit /\ [][SyncNext]_syncVars
  /\ WF_syncVars(RunStep)
  /\ WF_syncVars(stage = "session" /\ SessionStep /\ UNCHANGED runVars)

-----------------------------------------------------------------------------
(* Properties.                                                             *)

SyncTypeOK ==
  /\ stage \in {"ready", "scan", "connect", "identify", "gate", "session", "pairing",
                "disconnect", "report"}
  /\ options \in AllOptions(KnownKeys)
  /\ camera \in Cameras
  /\ linked \in BOOLEAN
  /\ identity.firmware \in {c.firmware : c \in Cameras} \cup {NoFirmware}
  /\ resolved \in Profiles
  /\ ran \in BOOLEAN
  /\ ee01 \in {"none", "in flight", "ok", "failed"}
  /\ problem \in {"none", "ble", "other"}
  /\ exit \in {NoExit} \cup ExitCodes
  /\ runs \in 0 .. MaxRuns

\* The run has written something, or asked the camera to.
HasWritten == (ran /\ (issued # {} \/ pc \in {"loop_wait", "sleep"} \/ packets > 0))
              \/ ee01 \in {"in flight", "ok"}

\* What this run is about to do or has done was shown to the caller before,
\* by a run of the same command on a camera of the same model, firmware,
\* version and profile, and the caller has passed the key from there: a key
\* never reaches over to another command, another camera or another plan.
WritesWereShown ==
  stage # "ready" /\ HasWritten /\ NeedsApproval =>
    /\ options.allow
    /\ \E s \in shown :
         /\ s.key = options.key
         /\ s.purpose = Purpose(options.command)
         /\ s.model = NormalizeModel(identity.model)
         /\ s.firmware = camera.firmware
         /\ s.version = camera.version
         /\ s.profile = resolved

\* Exit code 0 of send-location: the camera has taken a packet, the window was
\* served, and the camera's controls are off, whatever an earlier run had left
\* behind.
ExitZeroMeansDone ==
  stage = "ready" /\ exit = 0 /\ options.command = "send-location" =>
    /\ ran /\ packets > 0 /\ left = 0
    /\ Held = {}
    /\ resolved.kind = "modern" => \A c \in RequiredControls : cam[c] = "off"

\* A run that may have left a control switched on does not report success.
LeftoversReported ==
  [][stage = "report" /\ ran /\ Held # {} => exit' # 0]_syncVars

\* Between two runs there is no link, and nothing is on its way: the session
\* has come to its end before the link goes down.
NoSessionWithoutLink ==
  /\ stage = "session" => linked
  /\ ~linked => air = <<>> /\ pc \in {"idle", "ended"}

\* Every run comes to an exit code.
RunsEnd == stage = "scan" ~> stage = "ready" /\ exit # NoExit
=============================================================================
