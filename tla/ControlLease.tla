---------------------------- MODULE ControlLease ----------------------------
(***************************************************************************)
(* What a location session promises about the camera's controls, whatever  *)
(* the link, the camera and the caller do.  A session borrows controls,    *)
(* uses the camera only while it holds the ones the camera demands, gives  *)
(* them back, and closes with a verdict.  The verdict is what the promise  *)
(* is about: a session that closes without reporting trouble holds nothing *)
(* any more.                                                               *)
(*                                                                         *)
(* This is the specification behind sony_location.py's README contract     *)
(* ("always compensates controls it acquired", "write_succeeded does not   *)
(* override incomplete cleanup"); it is not a translation of code.         *)
(***************************************************************************)
CONSTANT Controls   \* what a session can hold on the camera

VARIABLES
  phase,     \* "idle", "acquiring", "using", "releasing" or "closed"
  needs,     \* the controls this camera demands before it is used
  held,      \* borrowed controls the camera holds, or may yet come to hold
  used,      \* the camera accepted something from this session
  verdict    \* how the session closed, "none" before

leaseVars == <<phase, needs, held, used, verdict>>

LeaseTypeOK ==
  /\ phase \in {"idle", "acquiring", "using", "releasing", "closed"}
  /\ needs \subseteq Controls
  /\ held \subseteq Controls
  /\ used \in BOOLEAN
  /\ verdict \in {"none", "success", "clean", "reported", "raised"}

LeaseInit ==
  /\ phase = "idle"
  /\ needs = {}
  /\ held = {}
  /\ used = FALSE
  /\ verdict = "none"

\* A new session begins; what an earlier one left behind is not its own.
Open ==
  /\ phase \in {"idle", "closed"}
  /\ phase' = "acquiring"
  /\ needs' \in SUBSET Controls
  /\ held' = {}
  /\ used' = FALSE
  /\ verdict' = "none"

Acquire ==
  /\ phase = "acquiring"
  /\ \E c \in Controls : held' = held \cup {c}
  /\ UNCHANGED <<phase, needs, used, verdict>>

\* An answer settles what earlier requests without an answer have done.
Settle ==
  /\ phase = "acquiring"
  /\ held' \in SUBSET held
  /\ UNCHANGED <<phase, needs, used, verdict>>

BeginUse ==
  /\ phase = "acquiring"
  /\ needs \subseteq held
  /\ phase' = "using"
  /\ UNCHANGED <<needs, held, used, verdict>>

Use ==
  /\ phase = "using"
  /\ needs \subseteq held
  /\ used' = TRUE
  /\ phase' \in {"using", "releasing"}
  /\ UNCHANGED <<needs, held, verdict>>

BeginRelease ==
  /\ phase \in {"acquiring", "using"}
  /\ phase' = "releasing"
  /\ UNCHANGED <<needs, held, used, verdict>>

\* Controls come back: answered, or late, when the session has closed.
Release ==
  /\ phase \in {"releasing", "closed"}
  /\ held' \in SUBSET held
  /\ UNCHANGED <<phase, needs, used, verdict>>

Close ==
  /\ phase = "releasing"
  /\ phase' = "closed"
  /\ verdict' \in {"success", "clean", "reported", "raised"}
  /\ verdict' \in {"success", "clean"} => held = {}
  /\ verdict' = "success" => used
  /\ UNCHANGED <<needs, held, used>>

LeaseNext ==
  \/ Open \/ Acquire \/ Settle \/ BeginUse \/ Use
  \/ BeginRelease \/ Release \/ Close

LeaseSpec == LeaseInit /\ [][LeaseNext]_leaseVars
=============================================================================
