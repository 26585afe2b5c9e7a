---------------------------- MODULE SessionPlan ----------------------------
(***************************************************************************)
(* The plan of a Sony location session (sony_session.py): which GATT       *)
(* operations a profile performs before the first location packet, in      *)
(* which order, and which ones undo them.                                  *)
(*                                                                         *)
(* A characteristic is named by the short form of its UUID.  The value of  *)
(* a control write is "on" (byte 01) or "off" (byte 00); starting the DD01 *)
(* notifications turns the subscription "on", stopping them turns it       *)
(* "off", and a read carries no value.                                     *)
(***************************************************************************)
EXTENDS Sequences

\* What the camera holds on behalf of a session: the status subscription,
\* the location lock and the location enable switch.
Controls == {"dd01", "dd30", "dd31"}

\* The controls the location loop cannot do without on a modern camera.
RequiredControls == {"dd30", "dd31"}

\* The fields of SonyLocationProfile the plan depends on.
Profiles == [kind : {"modern", "legacy", "unsupported"},
             statusNotifications : BOOLEAN,
             timeCorrection : BOOLEAN,
             areaAdjustment : BOOLEAN]

Executable(p) == p.kind # "unsupported"

Notify(value) == [uuid |-> "dd01", kind |-> "notify", value |-> value,
                  required |-> FALSE]

Write(uuid, value, required) ==
  [uuid |-> uuid, kind |-> "write", value |-> value, required |-> required]

Read(uuid, required) ==
  [uuid |-> uuid, kind |-> "read", value |-> "none", required |-> required]

SetupActions ==
  {Notify("on"), Write("dd30", "on", TRUE), Write("dd31", "on", TRUE),
   Read("dd32", FALSE), Read("dd33", FALSE), Read("dd21", TRUE)}

CleanupActions ==
  {Write("dd31", "off", FALSE), Write("dd30", "off", FALSE), Notify("off")}

-----------------------------------------------------------------------------

When(condition, action) == IF condition THEN <<action>> ELSE <<>>

\* A plan that follows what the characteristics offer on a legacy camera too.
SetupPlan_LegacyNotifies(p) ==
  CASE p.kind = "unsupported" -> <<>>
    [] p.kind = "legacy" ->
         When(p.statusNotifications, Notify("on")) \o <<Read("dd21", TRUE)>>
    [] OTHER ->
         When(p.statusNotifications, Notify("on"))
         \o <<Write("dd30", "on", TRUE), Write("dd31", "on", TRUE)>>
         \o When(p.timeCorrection, Read("dd32", FALSE))
         \o When(p.areaAdjustment, Read("dd33", FALSE))
         \o <<Read("dd21", TRUE)>>

\* create_session_plan(profile).setup
SetupPlan(p) ==
  CASE p.kind = "unsupported" -> <<>>
    [] p.kind = "legacy"      -> <<Read("dd21", TRUE)>>
    [] OTHER ->
         When(p.statusNotifications, Notify("on"))
         \o <<Write("dd30", "on", TRUE), Write("dd31", "on", TRUE)>>
         \o When(p.timeCorrection, Read("dd32", FALSE))
         \o When(p.areaAdjustment, Read("dd33", FALSE))
         \o <<Read("dd21", TRUE)>>

\* A plan that gives the lock back before it switches location off.
CompensationActions_UnlockFirst(acquired) ==
  When("dd30" \in acquired, Write("dd30", "off", FALSE))
  \o When("dd31" \in acquired, Write("dd31", "off", FALSE))

\* compensation_actions(dd30_acquired, dd31_acquired)
CompensationActions(acquired) ==
  When("dd31" \in acquired, Write("dd31", "off", FALSE))
  \o When("dd30" \in acquired, Write("dd30", "off", FALSE))

\* What _run_cleanup performs: the compensation, then the end of the DD01
\* subscription.
CleanupPlan(acquired) ==
  CompensationActions(acquired) \o When("dd01" \in acquired, Notify("off"))
=============================================================================
