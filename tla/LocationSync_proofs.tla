-------------------------- MODULE LocationSync_proofs --------------------------
(***************************************************************************)
(* Theorems about a location session (LocationSession) and about the       *)
(* commands around it (LocationSync).  The first two parts are about Spec, *)
(* a session alone, the third about SyncSpec.                              *)
(***************************************************************************)
EXTENDS LocationSync, TLAPS

(***************************************************************************)
(* The window of a session and its plans, for every window, interval,      *)
(* delay and number of cancellations.                                      *)
(***************************************************************************)

-----------------------------------------------------------------------------
(* The plans.                                                              *)

\* A plan of one step, and one without any.
LEMMA ShortPlans ==
  ASSUME NEW S, NEW x \in S
  PROVE  <<x>> \in Seq(S) /\ <<>> \in Seq(S)
  OBVIOUS

\* A plan of two steps.
LEMMA TwoStepPlan ==
  ASSUME NEW S, NEW x \in S, NEW y \in S
  PROVE  <<x, y>> \in Seq(S)
  OBVIOUS

\* Where the elements of two concatenated plans are found.
LEMMA ConcatElements ==
  ASSUME NEW S, NEW s \in Seq(S), NEW t \in Seq(S)
  PROVE  /\ Len(s \o t) = Len(s) + Len(t)
         /\ \A i \in 1 .. Len(s) : (s \o t)[i] = s[i]
         /\ \A i \in 1 .. Len(t) : (s \o t)[Len(s) + i] = t[i]
  OBVIOUS

\* Every step of a setup plan is one of the setup actions.
LEMMA SetupPlanType ==
  ASSUME NEW p \in Profiles
  PROVE  SetupPlan(p) \in Seq(SetupActions)
<1> DEFINE n == When(p.statusNotifications, Notify("on"))
           l == <<Write("dd30", "on", TRUE), Write("dd31", "on", TRUE)>>
           t == When(p.timeCorrection, Read("dd32", FALSE))
           a == When(p.areaAdjustment, Read("dd33", FALSE))
           m == <<Read("dd21", TRUE)>>
<1>1. /\ Notify("on") \in SetupActions
      /\ Write("dd30", "on", TRUE) \in SetupActions
      /\ Write("dd31", "on", TRUE) \in SetupActions
      /\ Read("dd32", FALSE) \in SetupActions
      /\ Read("dd33", FALSE) \in SetupActions
      /\ Read("dd21", TRUE) \in SetupActions
  BY DEF SetupActions
<1>2. /\ n \in Seq(SetupActions)
      /\ l \in Seq(SetupActions)
      /\ t \in Seq(SetupActions)
      /\ a \in Seq(SetupActions)
      /\ m \in Seq(SetupActions)
  <2>1. n \in Seq(SetupActions)
    BY <1>1, ShortPlans DEF When
  <2>2. l \in Seq(SetupActions)
    BY <1>1, TwoStepPlan
  <2>3. t \in Seq(SetupActions)
    BY <1>1, ShortPlans DEF When
  <2>4. a \in Seq(SetupActions)
    BY <1>1, ShortPlans DEF When
  <2>5. m \in Seq(SetupActions)
    BY <1>1, ShortPlans
  <2>6. QED BY <2>1, <2>2, <2>3, <2>4, <2>5
<1>3. n \o l \o t \o a \o m \in Seq(SetupActions)
  <2> HIDE DEF n, l, t, a, m
  <2> QED BY <1>2
<1>4. <<>> \in Seq(SetupActions)
  OBVIOUS
<1>5. QED BY <1>2, <1>3, <1>4 DEF SetupPlan

\* Every step of a cleanup switches a control off.
LEMMA CleanupPlanType ==
  ASSUME NEW s
  PROVE  CleanupPlan(s) \in Seq(CleanupActions)
<1> DEFINE d == When("dd31" \in s, Write("dd31", "off", FALSE))
           u == When("dd30" \in s, Write("dd30", "off", FALSE))
           e == When("dd01" \in s, Notify("off"))
<1>1. /\ Write("dd31", "off", FALSE) \in CleanupActions
      /\ Write("dd30", "off", FALSE) \in CleanupActions
      /\ Notify("off") \in CleanupActions
  BY DEF CleanupActions
<1>2. /\ d \in Seq(CleanupActions)
      /\ u \in Seq(CleanupActions)
      /\ e \in Seq(CleanupActions)
  BY <1>1, ShortPlans DEF When
<1>3. (d \o u) \o e \in Seq(CleanupActions)
  <2> HIDE DEF d, u, e
  <2> QED BY <1>2
<1>4. QED BY <1>3 DEF CleanupPlan, CompensationActions

Mentions(plan, c) == \E i \in 1 .. Len(plan) : plan[i].uuid = c

\* A plan mentions what either of its parts mentions.
LEMMA ConcatMentions ==
  ASSUME NEW S, NEW s \in Seq(S), NEW t \in Seq(S), NEW c,
         Mentions(s, c) \/ Mentions(t, c)
  PROVE  Mentions(s \o t, c)
<1>1. Len(s) \in Nat /\ Len(t) \in Nat
  OBVIOUS
<1>2. ASSUME NEW i \in 1 .. Len(s), s[i].uuid = c
      PROVE  Mentions(s \o t, c)
  <2>1. i \in 1 .. Len(s \o t) /\ (s \o t)[i] = s[i]
    BY <1>1, ConcatElements
  <2>2. QED BY <1>2, <2>1 DEF Mentions
<1>3. ASSUME NEW i \in 1 .. Len(t), t[i].uuid = c
      PROVE  Mentions(s \o t, c)
  <2>1. Len(s) + i \in 1 .. Len(s \o t) /\ (s \o t)[Len(s) + i] = t[i]
    BY <1>1, ConcatElements
  <2>2. QED BY <1>3, <2>1 DEF Mentions
<1>4. QED BY <1>2, <1>3 DEF Mentions

\* A control that was acquired has its own step in the cleanup.
LEMMA CleanupPlanCovers ==
  ASSUME NEW s, NEW c \in Controls, c \in s
  PROVE  Mentions(CleanupPlan(s), c)
<1> DEFINE d == When("dd31" \in s, Write("dd31", "off", FALSE))
           u == When("dd30" \in s, Write("dd30", "off", FALSE))
           e == When("dd01" \in s, Notify("off"))
<1>1. /\ Write("dd31", "off", FALSE) \in CleanupActions
      /\ Write("dd30", "off", FALSE) \in CleanupActions
      /\ Notify("off") \in CleanupActions
  BY DEF CleanupActions
<1>2. /\ d \in Seq(CleanupActions)
      /\ u \in Seq(CleanupActions)
      /\ e \in Seq(CleanupActions)
  BY <1>1, ShortPlans DEF When
<1>3. /\ c = "dd31" => Mentions(d, c)
      /\ c = "dd30" => Mentions(u, c)
      /\ c = "dd01" => Mentions(e, c)
  BY DEF When, Write, Notify, Mentions
<1>4. CleanupPlan(s) = (d \o u) \o e
  BY DEF CleanupPlan, CompensationActions
<1>5. c \in {"dd01", "dd30", "dd31"}
  BY DEF Controls
<1> HIDE DEF d, u, e
<1>6. d \o u \in Seq(CleanupActions)
  BY <1>2
<1>7. CASE c = "dd01"
  <2>1. Mentions((d \o u) \o e, c)
    BY <1>2, <1>3, <1>6, <1>7, ConcatMentions
  <2>2. QED BY <2>1, <1>4
<1>8. CASE c \in {"dd30", "dd31"}
  <2>1. Mentions(d \o u, c)
    BY <1>2, <1>3, <1>8, ConcatMentions
  <2>2. Mentions((d \o u) \o e, c)
    BY <1>2, <1>6, <2>1, ConcatMentions
  <2>3. QED BY <2>2, <1>4
<1>9. QED BY <1>5, <1>7, <1>8

-----------------------------------------------------------------------------
(* Actions, and the queues they are taken from and put into.               *)

\* A setup action that writes a control switches it on.
LEMMA SetupActionWrites ==
  ASSUME NEW a \in SetupActions, a.uuid \in Controls
  PROVE  a.value = "on" /\ [uuid |-> a.uuid, value |-> a.value] \in ControlWrites
BY DEF SetupActions, Notify, Write, Read, Controls, ControlWrites

\* Every cleanup action switches a control off.
LEMMA CleanupActionWrites ==
  ASSUME NEW a \in CleanupActions
  PROVE  /\ a.uuid \in Controls
         /\ a.value = "off"
         /\ [uuid |-> a.uuid, value |-> a.value] \in ControlWrites
BY DEF CleanupActions, Notify, Write, Controls, ControlWrites

\* Taking the first element of a queue.
LEMMA Dequeue ==
  ASSUME NEW S, NEW q \in Seq(S), q # <<>>
  PROVE  /\ Head(q) \in S
         /\ Tail(q) \in Seq(S)
         /\ Len(q) \in Nat \ {0}
         /\ Len(Tail(q)) = Len(q) - 1
         /\ Head(q) = q[1]
         /\ \A i \in 1 .. Len(Tail(q)) : Tail(q)[i] = q[i + 1]
  OBVIOUS

\* What is left of a plan once its first action is settled.
LEMMA TailMentions ==
  ASSUME NEW S, NEW q \in Seq(S), q # <<>>, NEW c, Mentions(q, c)
  PROVE  Head(q).uuid = c \/ Mentions(Tail(q), c)
<1>1. PICK i \in 1 .. Len(q) : q[i].uuid = c
  BY DEF Mentions
<1>2. CASE i = 1
  BY <1>1, <1>2, Dequeue
<1>3. CASE i # 1
  <2>1. i - 1 \in 1 .. Len(Tail(q)) /\ Tail(q)[i - 1] = q[i]
    BY <1>3, Dequeue
  <2>2. QED BY <1>1, <2>1 DEF Mentions
<1>4. QED BY <1>2, <1>3

\* Sending an action of either kind keeps the types of what it changes, and
\* an answer to it does too.
LEMMA SendTypes ==
  ASSUME NEW a \in SetupActions \cup CleanupActions, TypeOK
  PROVE  /\ Send(a) => /\ issued' \subseteq ControlWrites
                       /\ air' \in Seq(ControlWrites)
                       /\ cam' \in [Controls -> {"on", "off"}]
         /\ Answered(a) => /\ issued' \subseteq ControlWrites
                           /\ air' \in Seq(ControlWrites)
                           /\ cam' \in [Controls -> {"on", "off"}]
<1> DEFINE w == [uuid |-> a.uuid, value |-> a.value]
<1>1. a.uuid \in Controls => w \in ControlWrites /\ a.value \in {"on", "off"}
  BY SetupActionWrites, CleanupActionWrites
<1>2. air \in Seq(ControlWrites) /\ issued \subseteq ControlWrites
  BY DEF TypeOK
<1>3. cam \in [Controls -> {"on", "off"}]
  BY DEF TypeOK
<1>4. a.uuid \in Controls => Append(air, w) \in Seq(ControlWrites)
  <2> HIDE DEF w
  <2> QED BY <1>1, <1>2
<1>5. <<>> \in Seq(ControlWrites)
  OBVIOUS
<1>6. Send(a) => /\ issued' \subseteq ControlWrites
                 /\ air' \in Seq(ControlWrites)
                 /\ cam' \in [Controls -> {"on", "off"}]
  BY <1>1, <1>2, <1>3, <1>4 DEF Send, ControlWrite
<1>7. Answered(a) => /\ issued' \subseteq ControlWrites
                     /\ air' \in Seq(ControlWrites)
                     /\ cam' \in [Controls -> {"on", "off"}]
  BY <1>1, <1>2, <1>3, <1>5 DEF Answered
<1>8. QED BY <1>6, <1>7

-----------------------------------------------------------------------------
(* Type correctness.  A plan in setup holds setup actions, one in cleanup  *)
(* holds cleanup actions, and what is waited for is its first action.      *)

PlanShape ==
  /\ pc \in {"setup", "setup_wait"} => todo \in Seq(SetupActions)
  /\ pc \in {"cleanup", "cleanup_wait", "cleaned", "ended"}
       => todo \in Seq(CleanupActions)
  /\ pc \in {"setup_wait", "cleanup_wait"} => todo # <<>>

Typed == TypeOK /\ PlanShape

\* The plan the finally block starts has its type.
LEMMA BeginCleanupTyped ==
  ASSUME TypeOK, BeginCleanup
  PROVE  /\ pc' = "cleanup"
         /\ todo' \in Seq(CleanupActions)
         /\ todo' \in Seq(SetupActions \cup CleanupActions)
<1>1. CleanupPlan(maybe) \in Seq(CleanupActions)
  BY CleanupPlanType
<1>2. \A q \in Seq(CleanupActions) : q \in Seq(SetupActions \cup CleanupActions)
  OBVIOUS
<1>3. QED BY <1>1, <1>2 DEF BeginCleanup

\* The session starts typed.
LEMMA InitTyped == Init => Typed
<1> SUFFICES ASSUME Init
             PROVE  Typed
  OBVIOUS
<1>1. /\ <<>> \in Seq(ControlWrites)
      /\ <<>> \in Seq(SetupActions \cup CleanupActions)
  OBVIOUS
<1>2. /\ profile \in Profiles
      /\ cam \in [Controls -> {"on", "off"}]
      /\ cancels \in 0 .. MaxCancels
  BY SessionAssumption DEF Init, Profiles
<1>3. /\ todo \in Seq(SetupActions \cup CleanupActions)
      /\ air \in Seq(ControlWrites)
  BY <1>1 DEF Init
<1>4. /\ maybe \subseteq Controls
      /\ confirmed \subseteq RequiredControls
      /\ issued \subseteq ControlWrites
  BY DEF Init
<1>5. /\ pc = "idle" /\ mode = "none" /\ taskEnd = "running"
      /\ packets \in Nat /\ left \in Nat
  BY DEF Init
<1>6. /\ completed \in BOOLEAN /\ diag \in BOOLEAN /\ raised \in BOOLEAN
      /\ absorbed \in BOOLEAN
  BY DEF Init
<1>7. TypeOK
  BY <1>2, <1>3, <1>4, <1>5, <1>6 DEF TypeOK
<1>8. QED BY <1>5, <1>7 DEF Typed, PlanShape

\* A new session is typed.
LEMMA StartTyped ==
  ASSUME Typed, NEW p \in Profiles, SessionStart(p)
  PROVE  Typed'
<1>1. SetupPlan(p) \in Seq(SetupActions)
  BY SetupPlanType
<1>2. \A q \in Seq(SetupActions) : q \in Seq(SetupActions \cup CleanupActions)
  OBVIOUS
<1>3. <<>> \in Seq(ControlWrites)
  OBVIOUS
<1>4. cancels' \in 0 .. MaxCancels
  BY SessionAssumption DEF SessionStart
<1>5. TypeOK'
  BY <1>1, <1>2, <1>3, <1>4 DEF Typed, TypeOK, SessionStart
<1>6. QED BY <1>1, <1>5 DEF Typed, PlanShape, SessionStart

\* Every step keeps the types.
LEMMA StepTyped == Typed /\ [Next]_vars => Typed'
<1> SUFFICES ASSUME Typed, [Next]_vars
             PROVE  Typed'
  OBVIOUS
<1> USE SessionAssumption
<1>1. /\ TypeOK /\ PlanShape
      /\ todo # <<>> => /\ Head(todo) \in SetupActions \cup CleanupActions
                        /\ Tail(todo) \in Seq(SetupActions \cup CleanupActions)
  BY Dequeue DEF Typed, TypeOK
<1>2. pc \in {"setup", "setup_wait"} /\ todo # <<>> =>
        Head(todo) \in SetupActions /\ Tail(todo) \in Seq(SetupActions)
  BY <1>1, Dequeue DEF PlanShape
<1>3. pc \in {"cleanup", "cleanup_wait"} /\ todo # <<>> =>
        Head(todo) \in CleanupActions /\ Tail(todo) \in Seq(CleanupActions)
  BY <1>1, Dequeue DEF PlanShape
<1>4. /\ pc \in {"setup_wait", "cleanup_wait"} => todo # <<>>
      /\ <<>> \in Seq(SetupActions) /\ <<>> \in Seq(CleanupActions)
      /\ <<>> \in Seq(SetupActions \cup CleanupActions)
  BY <1>1 DEF PlanShape
<1>5. CASE \E p \in Profiles : SessionStart(p)
  BY <1>5, StartTyped
<1>6. CASE SetupIssue
  BY <1>1, <1>2, <1>6, SendTypes
    DEF SetupIssue, Typed, TypeOK, PlanShape, loopVars, endVars
<1>7. CASE SetupOk
  BY <1>1, <1>2, <1>4, <1>7, SendTypes
    DEF SetupOk, Typed, TypeOK, PlanShape, loopVars, endVars
<1>8. CASE SetupMode
  BY <1>1, <1>2, <1>4, <1>8, SendTypes
    DEF SetupMode, Typed, TypeOK, PlanShape, loopVars, endVars
<1>9. CASE SetupModeRejected
  BY <1>1, <1>2, <1>4, <1>9, SendTypes
    DEF SetupModeRejected, Typed, TypeOK, PlanShape, stateVars, loopVars, endVars
<1>10. CASE SetupFails
  BY <1>1, <1>2, <1>4, <1>10
    DEF SetupFails, Typed, TypeOK, PlanShape, stateVars, loopVars, endVars, camVars
<1>11. CASE SetupDone
  BY <1>1, <1>11, BeginCleanupTyped
    DEF SetupDone, Typed, TypeOK, PlanShape, stateVars, endVars, camVars
<1>12. CASE LoopComplete
  BY <1>1, <1>12, BeginCleanupTyped
    DEF LoopComplete, Typed, TypeOK, PlanShape, stateVars, endVars, camVars
<1>13. CASE LoopIssue
  BY <1>1, <1>13
    DEF LoopIssue, Typed, TypeOK, PlanShape, stateVars, loopVars, endVars, camVars
<1>14. CASE LoopFails
  BY <1>1, <1>14, BeginCleanupTyped
    DEF LoopFails, Typed, TypeOK, PlanShape, stateVars, loopVars, endVars, camVars
<1>15. ASSUME NEW d \in 0 .. MaxDelay, LoopOk(d)
       PROVE  Typed'
  <2>1. After(d) \in Nat
    BY <1>1 DEF After, TypeOK
  <2>2. <<>> \in Seq(ControlWrites)
    OBVIOUS
  <2>3. /\ completed' \in BOOLEAN
        /\ todo' \in Seq(SetupActions \cup CleanupActions)
        /\ \/ pc' = "sleep"
           \/ pc' = "cleanup" /\ todo' \in Seq(CleanupActions)
    BY <1>1, <1>15, BeginCleanupTyped DEF LoopOk, TypeOK
  <2>4. TypeOK'
    BY <1>1, <1>15, <2>1, <2>2, <2>3 DEF LoopOk, TypeOK, stateVars, endVars
  <2>5. QED BY <2>3, <2>4 DEF Typed, PlanShape
<1>16. ASSUME NEW d \in 0 .. MaxDelay, SleepEnds(d)
       PROVE  Typed'
  <2>1. After(Earliest(Interval, left) + d) \in Nat
    BY <1>1 DEF After, Earliest, TypeOK
  <2>2. QED BY <1>1, <1>16, <2>1
              DEF SleepEnds, Typed, TypeOK, PlanShape, stateVars, endVars, camVars
<1>17. CASE BodyRaises
  BY <1>1, <1>17, BeginCleanupTyped
    DEF BodyRaises, Typed, TypeOK, PlanShape, stateVars, loopVars, camVars
<1>18. CASE CancelBody
  BY <1>1, <1>18, BeginCleanupTyped
    DEF CancelBody, Typed, TypeOK, PlanShape, stateVars, loopVars, camVars
<1>19. CASE CleanupIssue
  BY <1>1, <1>3, <1>19, SendTypes
    DEF CleanupIssue, Typed, TypeOK, PlanShape, stateVars, loopVars, endVars
<1>20. CASE CleanupOk
  BY <1>1, <1>3, <1>4, <1>20, SendTypes
    DEF CleanupOk, Typed, TypeOK, PlanShape, stateVars, loopVars, endVars
<1>21. CASE CleanupFails
  BY <1>1, <1>3, <1>4, <1>21
    DEF CleanupFails, Typed, TypeOK, PlanShape, stateVars, loopVars, camVars
<1>22. CASE CleanupDone
  BY <1>1, <1>22
    DEF CleanupDone, Typed, TypeOK, PlanShape, stateVars, loopVars, camVars
<1>23. CASE CleanupRaises
  BY <1>1, <1>23
    DEF CleanupRaises, Typed, TypeOK, PlanShape, stateVars, loopVars, camVars
<1>24. CASE CancelCleanup
  BY <1>1, <1>24
    DEF CancelCleanup, Typed, TypeOK, PlanShape, stateVars, loopVars, camVars
<1>25. CASE KillCleanup
  BY <1>1, <1>25
    DEF KillCleanup, Typed, TypeOK, PlanShape, stateVars, loopVars, camVars
<1>26. CASE Return
  BY <1>1, <1>26
    DEF Return, Typed, TypeOK, PlanShape, stateVars, loopVars, endVars, camVars
<1>27. CASE Land
  <2>1. Head(air) \in ControlWrites /\ Tail(air) \in Seq(ControlWrites)
    BY <1>1, <1>27, Dequeue DEF Land, TypeOK
  <2>2. cam' \in [Controls -> {"on", "off"}]
    BY <1>1, <1>27, <2>1 DEF Land, TypeOK, ControlWrites
  <2>3. QED BY <1>1, <1>27, <2>1, <2>2
              DEF Land, Typed, TypeOK, PlanShape, stateVars, loopVars, endVars
<1>28. CASE UNCHANGED vars
  BY <1>1, <1>28
    DEF vars, stateVars, loopVars, endVars, camVars, Typed, TypeOK, PlanShape
<1>29. QED
  BY <1>5, <1>6, <1>7, <1>8, <1>9, <1>10, <1>11, <1>12, <1>13, <1>14, <1>15,
     <1>16, <1>17, <1>18, <1>19, <1>20, <1>21, <1>22, <1>23, <1>24, <1>25,
     <1>26, <1>27, <1>28
  DEF Next, SessionStep, Cancellation

\* Every variable of a session keeps its type, whatever the window, the
\* interval, the delays and the number of cancellations.
THEOREM TypeCorrect == Spec => []TypeOK
<1>1. Spec => []Typed
  BY InitTyped, StepTyped, PTL DEF Spec
<1>2. Typed => TypeOK
  BY DEF Typed
<1>3. QED BY <1>1, <1>2, PTL

-----------------------------------------------------------------------------
(* Nothing is held silently.  NoSilentHold speaks of the end of a session  *)
(* only; what makes it inductive is the account of a cleanup under way: as *)
(* long as no error was recorded, every control that may have been         *)
(* acquired is either still planned to be switched off or released for     *)
(* good, and a task that finishes by itself has nothing left to do.        *)

Body == {"setup", "setup_wait", "loop", "loop_wait", "sleep"}
Closing == {"cleanup", "cleanup_wait", "cleaned", "ended"}

Released(c) == cam[c] = "off" /\ ~OnAir(c)

NoErrorBeforeCleanup == pc \in Body => ~diag

ReleaseProgress ==
  pc \in Closing /\ ~diag =>
    \A c \in maybe : Mentions(todo, c) \/ Released(c)

TaskLeavesNothing == pc \in {"cleaned", "ended"} /\ ~raised => todo = <<>>

ReleaseInv ==
  /\ pc = "idle" => maybe = {}
  /\ NoErrorBeforeCleanup
  /\ ReleaseProgress
  /\ TaskLeavesNothing

\* The invariant says what was to be shown.
LEMMA ReleaseInvSuffices == ReleaseInv => NoSilentHold
<1> SUFFICES ASSUME ReleaseInv, pc = "ended", ~raised, ~diag
             PROVE  Held = {}
  BY DEF NoSilentHold
<1>1. todo = <<>>
  BY DEF ReleaseInv, TaskLeavesNothing
<1>2. \A c : ~Mentions(todo, c)
  BY <1>1 DEF Mentions
<1>3. \A c \in maybe : Released(c)
  BY <1>2 DEF ReleaseInv, ReleaseProgress, Closing
<1>4. QED BY <1>3 DEF Released, Held

\* The finally block plans the release of everything that may be held.
LEMMA BeginCleanupCovers ==
  ASSUME TypeOK, BeginCleanup
  PROVE  pc' = "cleanup" /\ \A c \in maybe : Mentions(todo', c)
BY CleanupPlanCovers DEF BeginCleanup, TypeOK

\* A released control stays released while requests to switch off are sent
\* and old requests land.
LEMMA SendKeepsReleased ==
  ASSUME TypeOK, NEW a \in CleanupActions, Send(a), NEW c \in Controls, Released(c)
  PROVE  Released(c)'
<1> DEFINE w == [uuid |-> a.uuid, value |-> a.value]
<1>1. w.value = "off" /\ w \in ControlWrites
  BY CleanupActionWrites
<1>2. air \in Seq(ControlWrites)
  BY DEF TypeOK
<1>3. air' = Append(air, w) /\ cam' = cam
  BY CleanupActionWrites DEF Send
<1>4. w # [uuid |-> c, value |-> "on"]
  BY <1>1
<1> HIDE DEF w
<1>5. ASSUME NEW i \in 1 .. Len(air'), air'[i] = [uuid |-> c, value |-> "on"]
      PROVE  FALSE
  <2>1. i = Len(air) + 1 => air'[i] = w
    BY <1>1, <1>2, <1>3
  <2>2. i # Len(air) + 1 => i \in 1 .. Len(air) /\ air'[i] = air[i]
    BY <1>1, <1>2, <1>3
  <2>3. QED BY <1>4, <1>5, <2>1, <2>2 DEF Released, OnAir
<1>6. QED BY <1>3, <1>5 DEF Released, OnAir

\* The landing of an old request does not take a released control back.
LEMMA LandKeepsReleased ==
  ASSUME TypeOK, Land, NEW c \in Controls, Released(c)
  PROVE  Released(c)'
<1> DEFINE on == [uuid |-> c, value |-> "on"]
<1>1. air \in Seq(ControlWrites) /\ air # <<>> /\ air' = Tail(air)
  BY DEF TypeOK, Land
<1>2. /\ Head(air) \in ControlWrites
      /\ Len(air) \in Nat \ {0}
      /\ Len(Tail(air)) = Len(air) - 1
      /\ Head(air) = air[1]
      /\ \A i \in 1 .. Len(Tail(air)) : Tail(air)[i] = air[i + 1]
  BY <1>1, Dequeue
<1>3. \A i \in 1 .. Len(air) : air[i] # on
  BY DEF Released, OnAir
<1>4. Head(air) # on
  BY <1>2, <1>3
<1>5. Head(air).uuid = c => Head(air).value = "off"
  BY <1>2, <1>4 DEF ControlWrites
<1>6. cam'[c] = "off"
  BY <1>5 DEF Land, Released, TypeOK
<1>7. ASSUME NEW i \in 1 .. Len(air')
      PROVE  air'[i] # on
  <2>1. i + 1 \in 1 .. Len(air) /\ air'[i] = air[i + 1]
    BY <1>1, <1>2
  <2>2. QED BY <1>3, <2>1
<1>8. QED BY <1>6, <1>7 DEF Released, OnAir

\* The answer to a compensation releases its control and settles the rest.
LEMMA AnswerReleases ==
  ASSUME TypeOK, NEW a \in CleanupActions, Answered(a), NEW c \in Controls,
         Released(c) \/ a.uuid = c
  PROVE  Released(c)'
<1>1. air' = <<>> /\ cam' = [cam EXCEPT ![a.uuid] = "off"]
  BY CleanupActionWrites DEF Answered
<1>2. cam'[c] = "off"
  BY <1>1 DEF TypeOK, Released
<1>3. QED BY <1>1, <1>2 DEF Released, OnAir

\* Every step keeps the account of the cleanup.
LEMMA StepRelease == Typed /\ ReleaseInv /\ [Next]_vars => ReleaseInv'
<1> SUFFICES ASSUME Typed, ReleaseInv, [Next]_vars
             PROVE  ReleaseInv'
  OBVIOUS
<1> USE DEF Body, Closing
<1>1. TypeOK /\ PlanShape /\ maybe \subseteq Controls
  BY DEF Typed, TypeOK
<1>2. pc \in {"cleanup", "cleanup_wait"} /\ todo # <<>> =>
        todo \in Seq(CleanupActions) /\ Head(todo) \in CleanupActions
  BY <1>1, Dequeue DEF PlanShape
<1>3. pc \in {"setup_wait", "cleanup_wait"} => todo # <<>>
  BY <1>1 DEF PlanShape
<1>4. CASE \E p \in Profiles : SessionStart(p)
  BY <1>4 DEF SessionStart, ReleaseInv, NoErrorBeforeCleanup, ReleaseProgress,
              TaskLeavesNothing
<1>5. CASE SetupIssue
  BY <1>5 DEF SetupIssue, ReleaseInv, NoErrorBeforeCleanup, ReleaseProgress,
              TaskLeavesNothing, endVars
<1>6. CASE SetupOk
  BY <1>6 DEF SetupOk, ReleaseInv, NoErrorBeforeCleanup, ReleaseProgress,
              TaskLeavesNothing, endVars
<1>7. CASE SetupMode
  BY <1>7 DEF SetupMode, ReleaseInv, NoErrorBeforeCleanup, ReleaseProgress,
              TaskLeavesNothing, endVars
<1>8. CASE SetupModeRejected
  BY <1>8 DEF SetupModeRejected, ReleaseInv, NoErrorBeforeCleanup, ReleaseProgress,
              TaskLeavesNothing, endVars
<1>9. CASE SetupFails
  BY <1>9 DEF SetupFails, ReleaseInv, NoErrorBeforeCleanup, ReleaseProgress,
              TaskLeavesNothing, endVars
<1>10. CASE SetupDone
  <2>1. CASE pc' = "loop"
    BY <1>10, <2>1 DEF SetupDone, ReleaseInv, NoErrorBeforeCleanup, ReleaseProgress,
                  TaskLeavesNothing, endVars
  <2>2. CASE BeginCleanup
    BY <1>1, <1>10, <2>2, BeginCleanupCovers
      DEF SetupDone, ReleaseInv, NoErrorBeforeCleanup, ReleaseProgress,
          TaskLeavesNothing, stateVars, endVars
  <2>3. QED BY <1>10, <2>1, <2>2 DEF SetupDone
<1>11. CASE LoopComplete
  BY <1>1, <1>11, BeginCleanupCovers
    DEF LoopComplete, ReleaseInv, NoErrorBeforeCleanup, ReleaseProgress,
        TaskLeavesNothing, stateVars, endVars
<1>12. CASE LoopIssue
  BY <1>12 DEF LoopIssue, ReleaseInv, NoErrorBeforeCleanup, ReleaseProgress,
              TaskLeavesNothing, endVars
<1>13. CASE LoopFails
  BY <1>1, <1>13, BeginCleanupCovers
    DEF LoopFails, ReleaseInv, NoErrorBeforeCleanup, ReleaseProgress,
        TaskLeavesNothing, stateVars, endVars
<1>14. ASSUME NEW d \in 0 .. MaxDelay, LoopOk(d)
       PROVE  ReleaseInv'
  <2>1. CASE pc' = "sleep"
    BY <1>14, <2>1 DEF LoopOk, ReleaseInv, NoErrorBeforeCleanup, ReleaseProgress,
                  TaskLeavesNothing, endVars
  <2>2. CASE BeginCleanup
    BY <1>1, <1>14, <2>2, BeginCleanupCovers
      DEF LoopOk, ReleaseInv, NoErrorBeforeCleanup, ReleaseProgress,
          TaskLeavesNothing, stateVars, endVars
  <2>3. QED BY <1>14, <2>1, <2>2 DEF LoopOk
<1>15. ASSUME NEW d \in 0 .. MaxDelay, SleepEnds(d)
       PROVE  ReleaseInv'
  BY <1>15 DEF SleepEnds, ReleaseInv, NoErrorBeforeCleanup, ReleaseProgress,
              TaskLeavesNothing, endVars
<1>16. CASE BodyRaises
  BY <1>1, <1>16, BeginCleanupCovers
    DEF BodyRaises, ReleaseInv, NoErrorBeforeCleanup, ReleaseProgress,
        TaskLeavesNothing, stateVars
<1>17. CASE CancelBody
  BY <1>1, <1>17, BeginCleanupCovers
    DEF CancelBody, ReleaseInv, NoErrorBeforeCleanup, ReleaseProgress,
        TaskLeavesNothing, stateVars
<1>18. CASE CleanupIssue
  <2>1. \A c \in maybe : Released(c) => Released(c)'
    BY <1>1, <1>2, <1>18, SendKeepsReleased DEF CleanupIssue
  <2>2. QED BY <1>18, <2>1
      DEF CleanupIssue, ReleaseInv, NoErrorBeforeCleanup, ReleaseProgress,
          TaskLeavesNothing, stateVars, endVars
<1>19. CASE CleanupOk
  <2>1. ASSUME NEW c \in maybe, Mentions(todo, c) \/ Released(c)
        PROVE  Mentions(Tail(todo), c) \/ Released(c)'
    <3>1. todo \in Seq(CleanupActions) /\ todo # <<>> /\ Head(todo) \in CleanupActions
      BY <1>2, <1>3, <1>19 DEF CleanupOk
    <3>2. Mentions(todo, c) => Head(todo).uuid = c \/ Mentions(Tail(todo), c)
      BY <3>1, TailMentions
    <3>3. Released(c) \/ Head(todo).uuid = c => Released(c)'
      BY <1>1, <1>19, <3>1, AnswerReleases DEF CleanupOk
    <3>4. QED BY <2>1, <3>2, <3>3
  <2>2. QED BY <1>19, <2>1
      DEF CleanupOk, ReleaseInv, NoErrorBeforeCleanup, ReleaseProgress,
          TaskLeavesNothing, stateVars, endVars
<1>20. CASE CleanupFails
  BY <1>20 DEF CleanupFails, ReleaseInv, NoErrorBeforeCleanup, ReleaseProgress,
              TaskLeavesNothing
<1>21. CASE CleanupDone
  BY <1>21 DEF CleanupDone, ReleaseInv, NoErrorBeforeCleanup, ReleaseProgress,
              TaskLeavesNothing, Released, OnAir, stateVars, camVars
<1>22. CASE CleanupRaises
  BY <1>22 DEF CleanupRaises, ReleaseInv, NoErrorBeforeCleanup, ReleaseProgress,
              TaskLeavesNothing, Released, OnAir, stateVars, camVars
<1>23. CASE CancelCleanup
  BY <1>23 DEF CancelCleanup, ReleaseInv, NoErrorBeforeCleanup, ReleaseProgress,
              TaskLeavesNothing, Released, OnAir, stateVars, camVars
<1>24. CASE KillCleanup
  BY <1>24 DEF KillCleanup, ReleaseInv, NoErrorBeforeCleanup, ReleaseProgress,
              TaskLeavesNothing, Released, OnAir, stateVars, camVars
<1>25. CASE Return
  BY <1>25 DEF Return, ReleaseInv, NoErrorBeforeCleanup, ReleaseProgress,
              TaskLeavesNothing, Released, OnAir, stateVars, endVars, camVars
<1>26. CASE Land
  <2>1. \A c \in maybe : Released(c) => Released(c)'
    BY <1>1, <1>26, LandKeepsReleased
  <2>2. QED BY <1>26, <2>1
      DEF Land, ReleaseInv, NoErrorBeforeCleanup, ReleaseProgress,
          TaskLeavesNothing, stateVars, endVars
<1>27. CASE UNCHANGED vars
  BY <1>27 DEF vars, ReleaseInv, NoErrorBeforeCleanup, ReleaseProgress,
              TaskLeavesNothing, Released, OnAir, stateVars, endVars, camVars
<1>28. QED
  BY <1>4, <1>5, <1>6, <1>7, <1>8, <1>9, <1>10, <1>11, <1>12, <1>13, <1>14,
     <1>15, <1>16, <1>17, <1>18, <1>19, <1>20, <1>21, <1>22, <1>23, <1>24,
     <1>25, <1>26, <1>27
  DEF Next, SessionStep, Cancellation

\* A session that returns without a cleanup diagnostic holds nothing, and
\* nothing it has sent can still switch a control on: for every window,
\* delay, loss, late answer and cancellation.
THEOREM NothingHeldSilently == Spec => []NoSilentHold
<1>1. Init => Typed /\ ReleaseInv
  BY InitTyped DEF Init, ReleaseInv, NoErrorBeforeCleanup, ReleaseProgress,
                   TaskLeavesNothing, Body, Closing
<1>2. Typed /\ ReleaseInv /\ [Next]_vars => (Typed /\ ReleaseInv)'
  BY StepTyped, StepRelease
<1>3. Spec => [](Typed /\ ReleaseInv)
  BY <1>1, <1>2, PTL DEF Spec
<1>4. QED BY <1>3, ReleaseInvSuffices, PTL

-----------------------------------------------------------------------------
(* The window.  k + 1 accepted packets have taken k whole pauses out of it, *)
(* except that the last pause is cut to what remains; what is left of the   *)
(* window says so while the loop runs.                                      *)

\* The window had room for k pauses besides what is left.
Room(k) == left + k * Interval <= Duration

BeforeLoop ==
  pc \in {"idle", "setup", "setup_wait"} => packets = 0 /\ ~completed

InLoop ==
  /\ pc \in {"loop", "loop_wait", "sleep"} => ~completed
  /\ pc = "loop" => (packets > 0 /\ left = 0) \/ (left > 0 /\ Room(packets))
  /\ pc = "loop_wait" => left > 0 /\ Room(packets)
  /\ pc = "sleep" => packets > 0 /\ left > 0 /\ Room(packets - 1)

LoopInv == BeforeLoop /\ InLoop /\ PacketBudget /\ WindowServed

\* One pause more.
LEMMA AnotherPause ==
  ASSUME NEW k \in Nat, NEW i \in Nat
  PROVE  /\ (k + 1) * i = k * i + i
         /\ k * i \in Nat
         /\ k # 0 => k * i = (k - 1) * i + i
  OBVIOUS

\* Less of the window left.
LEMMA LessLeft ==
  ASSUME NEW a \in Nat, NEW b \in Nat, NEW c \in Nat, NEW d \in Nat \ {0},
         b <= a, a + c <= d
  PROVE  b + c <= d
  OBVIOUS

\* A packet is only sent with time left, and takes the pause of the one before.
LEMMA LoopOkServes ==
  ASSUME Typed, LoopInv, NEW d \in 0 .. MaxDelay, LoopOk(d)
  PROVE  LoopInv'
<1>1. /\ packets \in Nat /\ left \in Nat /\ d \in Nat
      /\ Duration \in Nat \ {0} /\ Interval \in Nat \ {0}
  BY SessionAssumption DEF Typed, TypeOK
<1>2. /\ pc = "loop_wait" /\ left > 0
      /\ left + packets * Interval <= Duration
      /\ ~completed
  BY DEF LoopOk, LoopInv, InLoop, Room
<1>3. packets' = packets + 1 /\ packets' \in Nat /\ packets' > 0 /\ packets' - 1 = packets
  BY <1>1 DEF LoopOk
<1>4. left' \in Nat /\ left' <= left
  BY <1>1 DEF LoopOk, After
<1>5. packets * Interval \in Nat
  BY <1>1, AnotherPause
<1>6. PacketBudget'
  BY <1>1, <1>2, <1>3, <1>5 DEF PacketBudget
<1>7. Room(packets - 1)'
  <2>1. left' + packets * Interval <= Duration
    BY <1>1, <1>2, <1>4, <1>5, LessLeft, Zenon
  <2>2. left' + (packets' - 1) * Interval <= Duration
    BY ONLY <1>3, <2>1, Zenon
  <2>3. QED BY <2>2 DEF Room
<1>8. CASE left' = 0
  <2>1. pc' = "cleanup"
    BY <1>8 DEF LoopOk, BeginCleanup
  <2>2. QED BY <1>3, <1>6, <1>8, <2>1 DEF LoopInv, BeforeLoop, InLoop, WindowServed
<1>9. CASE left' # 0
  <2>1. pc' = "sleep" /\ completed' = completed
    BY <1>9 DEF LoopOk
  <2>2. left' > 0
    BY <1>4, <1>9
  <2>3. QED BY <1>2, <1>3, <1>6, <1>7, <2>1, <2>2
      DEF LoopInv, BeforeLoop, InLoop, WindowServed
<1>10. QED BY <1>8, <1>9

\* A pause is an interval long, or reaches the end of the window.
LEMMA SleepEndsServes ==
  ASSUME Typed, LoopInv, NEW d \in 0 .. MaxDelay, SleepEnds(d)
  PROVE  LoopInv'
<1>1. /\ packets \in Nat /\ left \in Nat /\ d \in Nat
      /\ Duration \in Nat \ {0} /\ Interval \in Nat \ {0}
  BY SessionAssumption DEF Typed, TypeOK
<1>2. /\ pc = "sleep" /\ left > 0 /\ packets > 0
      /\ left + (packets - 1) * Interval <= Duration
      /\ ~completed
  BY DEF SleepEnds, LoopInv, InLoop, Room
<1>3. /\ pc' = "loop" /\ packets' = packets /\ completed' = completed
      /\ left' = After(Earliest(Interval, left) + d)
  BY DEF SleepEnds
<1>4. packets * Interval = (packets - 1) * Interval + Interval
  BY <1>1, <1>2, AnotherPause
<1>5. left' = 0 \/ (left' \in Nat /\ left' > 0 /\ left' + Interval <= left)
  BY <1>1, <1>3 DEF After, Earliest
<1>6. (packets - 1) * Interval \in Nat
  BY <1>1, <1>2, AnotherPause
<1>7. left' = 0 \/ (left' > 0 /\ Room(packets)')
  BY <1>1, <1>2, <1>3, <1>4, <1>5, <1>6 DEF Room
<1>8. PacketBudget'
  BY <1>3 DEF LoopInv, PacketBudget
<1>9. QED BY <1>2, <1>3, <1>7, <1>8 DEF LoopInv, BeforeLoop, InLoop, WindowServed

\* Every step keeps the account of the window.
LEMMA StepServes == Typed /\ LoopInv /\ [Next]_vars => LoopInv'
<1> SUFFICES ASSUME Typed, LoopInv, [Next]_vars
             PROVE  LoopInv'
  OBVIOUS
<1> USE DEF LoopInv, BeforeLoop, InLoop, PacketBudget, WindowServed
<1>1. CASE \E p \in Profiles : SessionStart(p)
  BY <1>1 DEF SessionStart
<1>2. CASE SetupIssue \/ SetupOk \/ SetupMode \/ SetupModeRejected \/ SetupFails
  BY <1>2 DEF SetupIssue, SetupOk, SetupMode, SetupModeRejected, SetupFails, loopVars
<1>3. CASE SetupDone
  <2>1. Duration \in Nat \ {0} /\ Interval \in Nat
    BY SessionAssumption
  <2>2. packets = 0 /\ packets' = 0 /\ ~completed'
    BY <1>3 DEF SetupDone
  <2>3. CASE pc' = "loop" /\ left' = Duration
    <3>1. left' > 0 /\ left' + 0 * Interval <= Duration
      BY <2>1, <2>3
    <3>2. QED BY <2>2, <2>3, <3>1 DEF Room
  <2>4. CASE BeginCleanup
    BY <2>2, <2>4 DEF BeginCleanup
  <2>5. QED BY <1>3, <2>3, <2>4 DEF SetupDone
<1>4. CASE LoopComplete
  BY <1>4 DEF LoopComplete, WindowOver, BeginCleanup
<1>5. CASE LoopIssue
  BY <1>5 DEF LoopIssue, WindowOver, loopVars, Room
<1>6. ASSUME NEW d \in 0 .. MaxDelay, LoopOk(d)
      PROVE  LoopInv'
  BY <1>6, LoopOkServes
<1>7. ASSUME NEW d \in 0 .. MaxDelay, SleepEnds(d)
      PROVE  LoopInv'
  BY <1>7, SleepEndsServes
<1>8. CASE LoopFails \/ BodyRaises \/ CancelBody
  BY <1>8 DEF LoopFails, BodyRaises, CancelBody, BeginCleanup, loopVars
<1>9. CASE \/ CleanupIssue \/ CleanupOk \/ CleanupFails \/ CleanupDone
           \/ CleanupRaises \/ KillCleanup \/ Return
  BY <1>9 DEF CleanupIssue, CleanupOk, CleanupFails, CleanupDone, CleanupRaises,
              KillCleanup, Return, loopVars
<1>10. CASE CancelCleanup
  BY <1>10 DEF CancelCleanup, loopVars
<1>11. CASE Land
  BY <1>11 DEF Land, loopVars, Room
<1>12. CASE UNCHANGED vars
  BY <1>12 DEF vars, loopVars, Room
<1>13. QED
  BY <1>1, <1>2, <1>3, <1>4, <1>5, <1>6, <1>7, <1>8, <1>9, <1>10, <1>11, <1>12
  DEF Next, SessionStep, Cancellation

\* The account of the window holds in every session.
LEMMA WindowAccount == Spec => []LoopInv
<1>1. Init => Typed /\ LoopInv
  BY InitTyped DEF Init, LoopInv, BeforeLoop, InLoop, PacketBudget, WindowServed
<1>2. Typed /\ LoopInv /\ [Next]_vars => (Typed /\ LoopInv)'
  BY StepTyped, StepServes
<1>3. QED BY <1>1, <1>2, PTL DEF Spec

\* However slow the writes and the pauses are, k + 1 accepted packets are
\* k whole intervals of the window apart (_write_location_loop).
THEOREM PacketsArePaced == Spec => []PacketBudget
<1>1. LoopInv => PacketBudget
  BY DEF LoopInv
<1>2. QED BY <1>1, WindowAccount, PTL

\* A loop that reports its completion has sent something and has gone on to
\* the end of the window (_write_location_loop).
THEOREM CompletionIsTrue == Spec => []WindowServed
<1>1. LoopInv => WindowServed
  BY DEF LoopInv
<1>2. QED BY <1>1, WindowAccount, PTL

(***************************************************************************)
(* What a session does to the camera's controls, up to the theorem that it *)
(* implements the lease of ControlLease.                                   *)
(***************************************************************************)

-----------------------------------------------------------------------------
(* More about plans.                                                       *)

\* A concatenation mentions nothing but what its parts mention.
LEMMA ConcatMentionsOnly ==
  ASSUME NEW S, NEW s \in Seq(S), NEW t \in Seq(S), NEW c, Mentions(s \o t, c)
  PROVE  Mentions(s, c) \/ Mentions(t, c)
<1>1. PICK i \in 1 .. Len(s \o t) : (s \o t)[i].uuid = c
  BY DEF Mentions
<1>2. /\ Len(s) \in Nat /\ Len(t) \in Nat
      /\ Len(s \o t) = Len(s) + Len(t)
  BY ConcatElements
<1>3. CASE i \in 1 .. Len(s)
  BY <1>1, <1>3, ConcatElements DEF Mentions
<1>4. CASE i \notin 1 .. Len(s)
  <2>1. i - Len(s) \in 1 .. Len(t) /\ Len(s) + (i - Len(s)) = i
    BY <1>2, <1>4
  <2>2. (s \o t)[i] = t[i - Len(s)]
    BY <2>1, ConcatElements
  <2>3. QED BY <1>1, <2>1, <2>2 DEF Mentions
<1>5. QED BY <1>3, <1>4

\* Two plans that do not mention a characteristic make one that does not.
LEMMA ConcatWithout ==
  ASSUME NEW S, NEW s \in Seq(S), NEW t \in Seq(S), NEW c,
         ~Mentions(s, c), ~Mentions(t, c)
  PROVE  s \o t \in Seq(S) /\ ~Mentions(s \o t, c)
<1>1. ~Mentions(s \o t, c)
  BY ConcatMentionsOnly
<1>2. QED BY <1>1

\* What is left of a plan mentions nothing new.
LEMMA TailMentionsOnly ==
  ASSUME NEW S, NEW q \in Seq(S), q # <<>>, NEW c, Mentions(Tail(q), c)
  PROVE  Mentions(q, c)
<1>1. PICK i \in 1 .. Len(Tail(q)) : Tail(q)[i].uuid = c
  BY DEF Mentions
<1>2. i + 1 \in 1 .. Len(q) /\ Tail(q)[i] = q[i + 1]
  BY Dequeue
<1>3. QED BY <1>1, <1>2 DEF Mentions

\* A plan without a step is the empty plan.
LEMMA NoSteps ==
  ASSUME NEW S, NEW q \in Seq(S), Len(q) = 0
  PROVE  q = <<>>
  OBVIOUS

\* DD21 is read last.
OnlyLast(q) == \A i \in 1 .. Len(q) - 1 : q[i].uuid # "dd21"

\* It stays so while the plan is worked off.
LEMMA OnlyLastTail ==
  ASSUME NEW S, NEW q \in Seq(S), q # <<>>, OnlyLast(q)
  PROVE  /\ OnlyLast(Tail(q))
         /\ Head(q).uuid = "dd21" => Tail(q) = <<>>
<1>1. /\ Len(q) \in Nat \ {0} /\ Tail(q) \in Seq(S)
      /\ Len(Tail(q)) = Len(q) - 1 /\ Head(q) = q[1]
      /\ \A i \in 1 .. Len(Tail(q)) : Tail(q)[i] = q[i + 1]
  BY Dequeue
<1>2. OnlyLast(Tail(q))
  <2> SUFFICES ASSUME NEW i \in 1 .. Len(Tail(q)) - 1
               PROVE  Tail(q)[i].uuid # "dd21"
    BY DEF OnlyLast
  <2>1. i \in 1 .. Len(Tail(q)) /\ i + 1 \in 1 .. Len(q) - 1
    BY <1>1
  <2>2. QED BY <1>1, <2>1 DEF OnlyLast
<1>3. ASSUME Head(q).uuid = "dd21"
      PROVE  Tail(q) = <<>>
  <2>1. ~(1 \in 1 .. Len(q) - 1)
    BY <1>1, <1>3 DEF OnlyLast
  <2>2. Len(Tail(q)) = 0
    BY <1>1, <2>1
  <2>3. QED BY <1>1, <2>2, NoSteps
<1>4. QED BY <1>2, <1>3

\* A plan that goes through one of these steps last.
LEMMA OnlyLastAppended ==
  ASSUME NEW S, NEW s \in Seq(S), NEW x \in S, ~Mentions(s, "dd21")
  PROVE  OnlyLast(s \o <<x>>)
<1>1. <<x>> \in Seq(S) /\ Len(<<x>>) = 1 /\ Len(s) \in Nat
  OBVIOUS
<1>2. /\ Len(s \o <<x>>) = Len(s) + 1
      /\ \A i \in 1 .. Len(s) : (s \o <<x>>)[i] = s[i]
  BY <1>1, ConcatElements
<1>3. QED BY <1>1, <1>2 DEF OnlyLast, Mentions

\* The setup plan reads DD21 last, and a legacy one touches no control.
LEMMA SetupPlanFacts ==
  ASSUME NEW p \in Profiles
  PROVE  /\ OnlyLast(SetupPlan(p))
         /\ p.kind = "legacy" => \A c \in Controls : ~Mentions(SetupPlan(p), c)
<1> DEFINE n == When(p.statusNotifications, Notify("on"))
           l == <<Write("dd30", "on", TRUE), Write("dd31", "on", TRUE)>>
           t == When(p.timeCorrection, Read("dd32", FALSE))
           a == When(p.areaAdjustment, Read("dd33", FALSE))
           r == Read("dd21", TRUE)
<1>1. /\ Notify("on") \in SetupActions
      /\ Write("dd30", "on", TRUE) \in SetupActions
      /\ Write("dd31", "on", TRUE) \in SetupActions
      /\ Read("dd32", FALSE) \in SetupActions
      /\ Read("dd33", FALSE) \in SetupActions
      /\ r \in SetupActions
  BY DEF SetupActions
<1>2. n \in Seq(SetupActions) /\ t \in Seq(SetupActions) /\ a \in Seq(SetupActions)
  BY <1>1, ShortPlans DEF When
<1>3. l \in Seq(SetupActions)
  BY <1>1, TwoStepPlan
<1>4. /\ ~Mentions(n, "dd21") /\ ~Mentions(l, "dd21")
      /\ ~Mentions(t, "dd21") /\ ~Mentions(a, "dd21")
  BY DEF Mentions, When, Notify, Write, Read
<1>5. OnlyLast(<<r>>) /\ OnlyLast(<<>>)
  BY DEF OnlyLast
<1>6. \A c \in Controls : ~Mentions(<<r>>, c)
  BY DEF Mentions, Read, Controls
<1>7. SetupPlan(p) \in {<<>>, <<r>>, n \o l \o t \o a \o <<r>>}
  BY DEF SetupPlan
<1>8. p.kind = "legacy" => SetupPlan(p) = <<r>>
  BY DEF SetupPlan
<1> HIDE DEF n, l, t, a, r
<1>9. OnlyLast(n \o l \o t \o a \o <<r>>)
  <2> DEFINE u == (n \o l) \o t
  <2>1. n \o l \in Seq(SetupActions) /\ ~Mentions(n \o l, "dd21")
    BY <1>2, <1>3, <1>4, ConcatWithout
  <2>2. u \in Seq(SetupActions) /\ ~Mentions(u, "dd21")
    BY <1>2, <1>4, <2>1, ConcatWithout
  <2>3. u \o a \in Seq(SetupActions) /\ ~Mentions(u \o a, "dd21")
    <3> HIDE DEF u
    <3> QED BY <1>2, <1>4, <2>2, ConcatWithout
  <2>4. OnlyLast((u \o a) \o <<r>>)
    BY <1>1, <2>3, OnlyLastAppended
  <2>5. QED BY <2>4
<1>10. QED BY <1>5, <1>6, <1>7, <1>8, <1>9

\* The cleanup undoes nothing but what it was given, and the enable switch
\* before the lock.
LEMMA CleanupPlanFacts ==
  ASSUME NEW s
  PROVE  /\ \A c \in Controls : Mentions(CleanupPlan(s), c) => c \in s
         /\ RequiredControls \subseteq s =>
              CleanupPlan(s) # <<>> /\ Head(CleanupPlan(s)).uuid = "dd31"
<1> DEFINE d == When("dd31" \in s, Write("dd31", "off", FALSE))
           u == When("dd30" \in s, Write("dd30", "off", FALSE))
           e == When("dd01" \in s, Notify("off"))
<1>1. /\ Write("dd31", "off", FALSE) \in CleanupActions
      /\ Write("dd30", "off", FALSE) \in CleanupActions
      /\ Notify("off") \in CleanupActions
  BY DEF CleanupActions
<1>2. /\ d \in Seq(CleanupActions)
      /\ u \in Seq(CleanupActions)
      /\ e \in Seq(CleanupActions)
  BY <1>1, ShortPlans DEF When
<1>3. \A c : /\ Mentions(d, c) => c \in s
             /\ Mentions(u, c) => c \in s
             /\ Mentions(e, c) => c \in s
  BY DEF When, Write, Notify, Mentions
<1>4. CleanupPlan(s) = (d \o u) \o e
  BY DEF CleanupPlan, CompensationActions
<1>5. RequiredControls \subseteq s =>
        Len(d) = 1 /\ Len(u) = 1 /\ d[1].uuid = "dd31"
  BY DEF When, Write, RequiredControls
<1> HIDE DEF d, u, e
<1>6. d \o u \in Seq(CleanupActions)
  BY <1>2
<1>7. ASSUME NEW c \in Controls, Mentions((d \o u) \o e, c)
      PROVE  c \in s
  <2>1. Mentions(d \o u, c) \/ Mentions(e, c)
    BY <1>2, <1>6, <1>7, ConcatMentionsOnly
  <2>2. Mentions(d \o u, c) => Mentions(d, c) \/ Mentions(u, c)
    BY <1>2, ConcatMentionsOnly
  <2>3. QED BY <1>3, <2>1, <2>2
<1>8. ASSUME RequiredControls \subseteq s
      PROVE  (d \o u) \o e # <<>> /\ Head((d \o u) \o e).uuid = "dd31"
  <2>1. Len(d \o u) = 2 /\ (d \o u)[1] = d[1]
    BY <1>2, <1>5, <1>8, ConcatElements
  <2>2. /\ Len((d \o u) \o e) = 2 + Len(e) /\ Len(e) \in Nat
        /\ ((d \o u) \o e)[1] = d[1]
    BY <1>2, <1>6, <2>1, ConcatElements
  <2>3. (d \o u) \o e \in Seq(CleanupActions)
    BY <1>2, <1>6
  <2>4. (d \o u) \o e # <<>>
    BY <2>2
  <2>5. QED BY <1>5, <1>8, <2>2, <2>3, <2>4, Dequeue
<1>9. QED BY <1>4, <1>7, <1>8

-----------------------------------------------------------------------------
(* What a request does to the requests without an answer.                  *)

\* A control write joins them last, and changes nothing yet.
LEMMA SendEffect ==
  ASSUME TypeOK, NEW a \in SetupActions \cup CleanupActions, Send(a)
  PROVE  /\ cam' = cam
         /\ a.uuid \notin Controls => air' = air /\ issued' = issued
         /\ a.uuid \in Controls =>
              /\ issued' = issued \cup {[uuid |-> a.uuid, value |-> a.value]}
              /\ Len(air') = Len(air) + 1 /\ Len(air) \in Nat
              /\ air'[Len(air) + 1] = [uuid |-> a.uuid, value |-> a.value]
              /\ \A i \in 1 .. Len(air) : air'[i] = air[i]
<1> DEFINE w == [uuid |-> a.uuid, value |-> a.value]
<1>1. a.uuid \in Controls => w \in ControlWrites
  BY SetupActionWrites, CleanupActionWrites
<1>2. air \in Seq(ControlWrites)
  BY DEF TypeOK
<1>3. w \in ControlWrites =>
        /\ Len(Append(air, w)) = Len(air) + 1 /\ Len(air) \in Nat
        /\ Append(air, w)[Len(air) + 1] = w
        /\ \A i \in 1 .. Len(air) : Append(air, w)[i] = air[i]
  <2> HIDE DEF w
  <2> QED BY <1>2
<1>4. QED BY <1>1, <1>3 DEF Send, ControlWrite

\* The oldest one takes effect, and the others move up.
LEMMA LandEffect ==
  ASSUME TypeOK, Land
  PROVE  /\ Len(air) \in Nat \ {0} /\ Len(air') = Len(air) - 1
         /\ air[1] \in ControlWrites
         /\ \A i \in 1 .. Len(air') : air'[i] = air[i + 1]
         /\ \A c \in Controls :
              cam'[c] = IF c = air[1].uuid THEN air[1].value ELSE cam[c]
<1>1. air \in Seq(ControlWrites) /\ air # <<>> /\ air' = Tail(air)
  BY DEF TypeOK, Land
<1>2. /\ Head(air) \in ControlWrites
      /\ Len(air) \in Nat \ {0}
      /\ Len(Tail(air)) = Len(air) - 1
      /\ Head(air) = air[1]
      /\ \A i \in 1 .. Len(Tail(air)) : Tail(air)[i] = air[i + 1]
  BY <1>1, Dequeue
<1>3. cam' = [cam EXCEPT ![Head(air).uuid] = Head(air).value]
  BY DEF Land
<1>4. QED BY <1>1, <1>2, <1>3 DEF TypeOK

-----------------------------------------------------------------------------
(* While a session sets up and sends, the requests without an answer can   *)
(* only switch controls on, so what the camera has confirmed stays on; and *)
(* the reading of DD21, which comes last, settles all of them.             *)

\* What was asked of the control of the operation in flight.
AirSwitchesOn == \A i \in 1 .. Len(air) : air[i].value = "on"

WaitedFor ==
  pc = "setup_wait" /\ Head(todo).uuid \in Controls => Head(todo).uuid \in Held

Settled == mode # "none" => air = <<>>

BodyInv ==
  /\ confirmed \subseteq maybe
  /\ pc = "idle" => maybe = {} /\ air = <<>>
  /\ pc \in Body =>
       AirSwitchesOn /\ Settled /\ \A c \in confirmed : cam[c] = "on"
  /\ pc \in {"setup", "setup_wait"} => OnlyLast(todo)
  /\ pc \in {"setup", "setup_wait"} /\ todo # <<>> => mode = "none"
  /\ WaitedFor
  /\ pc \in {"loop", "loop_wait", "sleep"} =>
       mode # "none" /\ RequiredSetupSucceeded(profile, confirmed)

\* The invariant says what was to be shown.
LEMMA BodyInvSuffices == BodyInv => LocationUnderControl
BY DEF BodyInv, LocationUnderControl, RequiredSetupSucceeded, RequiredControls, Body

\* Before the first session nothing is sent.
LEMMA InitBody == Init => BodyInv
BY DEF Init, BodyInv, WaitedFor, Body

\* A session starts with nothing on air.
LEMMA StartBody ==
  ASSUME NEW p \in Profiles, SessionStart(p)
  PROVE  BodyInv'
BY SetupPlanFacts DEF SessionStart, BodyInv, WaitedFor, AirSwitchesOn, Settled, Body

\* The control of a setup request is held as soon as the request has left.
LEMMA SetupIssueBody ==
  ASSUME Typed, BodyInv, SetupIssue
  PROVE  BodyInv'
<1> DEFINE a == Head(todo)
<1>1. /\ TypeOK /\ todo # <<>> /\ a \in SetupActions
      /\ a \in SetupActions \cup CleanupActions
  BY Dequeue DEF Typed, PlanShape, SetupIssue
<1>2. a.uuid \in Controls => a.value = "on"
  BY <1>1, SetupActionWrites
<1>3. Send(a) /\ maybe' = maybe \cup ({a.uuid} \cap Controls)
  BY DEF SetupIssue
<1> HIDE DEF a
<1>4. /\ cam' = cam
      /\ a.uuid \notin Controls => air' = air
      /\ a.uuid \in Controls =>
           /\ Len(air') = Len(air) + 1 /\ Len(air) \in Nat
           /\ air'[Len(air) + 1] = [uuid |-> a.uuid, value |-> a.value]
           /\ \A i \in 1 .. Len(air) : air'[i] = air[i]
  BY <1>1, <1>3, SendEffect
<1>5. AirSwitchesOn'
  <2>1. AirSwitchesOn
    BY DEF BodyInv, Body, SetupIssue
  <2>2. CASE a.uuid \in Controls
    <3> SUFFICES ASSUME NEW i \in 1 .. Len(air')
                 PROVE  air'[i].value = "on"
      BY DEF AirSwitchesOn
    <3>1. i = Len(air) + 1 \/ i \in 1 .. Len(air)
      BY <1>4, <2>2
    <3>2. QED BY <1>2, <1>4, <2>1, <2>2, <3>1 DEF AirSwitchesOn
  <2>3. QED BY <1>4, <2>1, <2>2 DEF AirSwitchesOn
<1>6. WaitedFor'
  <2> SUFFICES ASSUME a.uuid \in Controls
               PROVE  a.uuid \in Held'
    BY DEF WaitedFor, SetupIssue, a
  <2>1. Len(air) + 1 \in 1 .. Len(air')
    BY <1>4
  <2>2. air'[Len(air) + 1] = [uuid |-> a.uuid, value |-> "on"]
    BY <1>2, <1>4
  <2>3. QED BY <1>3, <2>1, <2>2 DEF Held, OnAir
<1>7. QED
  BY <1>1, <1>4, <1>5, <1>6 DEF SetupIssue, BodyInv, Settled, Body

\* An answer in setup settles everything.
LEMMA SetupAnswerBody ==
  ASSUME Typed, BodyInv, SetupOk \/ SetupMode \/ SetupModeRejected
  PROVE  BodyInv'
<1> DEFINE a == Head(todo)
<1>1. /\ TypeOK /\ todo # <<>> /\ a \in SetupActions
      /\ todo \in Seq(SetupActions)
      /\ pc = "setup_wait" /\ pc' = "setup"
  BY Dequeue DEF Typed, PlanShape, SetupOk, SetupMode, SetupModeRejected
<1>2. a.uuid \in Controls => a.value = "on"
  BY <1>1, SetupActionWrites
<1>3. /\ air' = <<>>
      /\ cam' = IF a.uuid \in Controls THEN [cam EXCEPT ![a.uuid] = "on"] ELSE cam
  BY <1>2 DEF SetupOk, SetupMode, SetupModeRejected, Answered
<1>4. /\ OnlyLast(todo) /\ mode = "none"
      /\ confirmed \subseteq maybe /\ \A c \in confirmed : cam[c] = "on"
      /\ a.uuid \in Controls => a.uuid \in maybe
  BY <1>1 DEF BodyInv, WaitedFor, Held, Body
<1>5. /\ OnlyLast(Tail(todo))
      /\ a.uuid = "dd21" => Tail(todo) = <<>>
  BY <1>1, <1>4, OnlyLastTail
<1>6. \A c \in Controls : cam[c] = "on" => cam'[c] = "on"
  BY <1>1, <1>3 DEF TypeOK
<1>7. a.uuid \in Controls => cam'[a.uuid] = "on"
  BY <1>1, <1>3 DEF TypeOK
<1>8. confirmed \subseteq Controls /\ RequiredControls \subseteq Controls
  BY <1>1 DEF TypeOK, Controls, RequiredControls
<1>9. OnlyLast(<<>>)
  BY DEF OnlyLast
<1> HIDE DEF a
<1>10. confirmed' \subseteq confirmed \cup ({a.uuid} \cap RequiredControls)
  BY DEF SetupOk, SetupMode, SetupModeRejected, stateVars, a
<1>11. /\ maybe' = maybe
       /\ \/ a.uuid = "dd21" /\ todo' = Tail(todo)
          \/ mode' = mode /\ todo' = Tail(todo)
          \/ todo' = <<>>
  BY DEF SetupOk, SetupMode, SetupModeRejected, stateVars, a
<1>12. /\ confirmed' \subseteq maybe'
       /\ \A c \in confirmed' : cam'[c] = "on"
  BY <1>4, <1>6, <1>7, <1>8, <1>10, <1>11
<1>13. AirSwitchesOn' /\ Settled'
  BY <1>3 DEF AirSwitchesOn, Settled
<1>14. OnlyLast(todo') /\ (todo' # <<>> => mode' = "none")
  BY <1>4, <1>5, <1>9, <1>11
<1>15. QED
  BY <1>1, <1>12, <1>13, <1>14 DEF BodyInv, WaitedFor, Body

\* A write of the setup that lands switches a control on.
LEMMA LandBody ==
  ASSUME Typed, BodyInv, Land
  PROVE  BodyInv'
<1>1. /\ Len(air) \in Nat \ {0} /\ Len(air') = Len(air) - 1
      /\ air[1] \in ControlWrites
      /\ \A i \in 1 .. Len(air') : air'[i] = air[i + 1]
      /\ \A c \in Controls :
           cam'[c] = IF c = air[1].uuid THEN air[1].value ELSE cam[c]
  BY LandEffect DEF Typed
<1>2. TypeOK /\ confirmed \subseteq Controls /\ maybe \subseteq Controls /\ air # <<>>
  BY DEF Typed, TypeOK, RequiredControls, Controls, Land
<1>3. pc \in Body => AirSwitchesOn'
  <2> SUFFICES ASSUME pc \in Body, NEW i \in 1 .. Len(air')
               PROVE  air'[i].value = "on"
    BY DEF AirSwitchesOn
  <2>1. i + 1 \in 1 .. Len(air)
    BY <1>1
  <2>2. QED BY <1>1, <2>1 DEF BodyInv, AirSwitchesOn
<1>4. pc \in Body => air[1].value = "on"
  BY <1>1 DEF BodyInv, AirSwitchesOn
<1>5. pc \in Body => \A c \in confirmed : cam'[c] = "on"
  BY <1>1, <1>2, <1>4 DEF BodyInv
<1>6. ASSUME pc = "setup_wait", NEW c \in Held
      PROVE  c \in Held'
  <2>1. c \in maybe /\ (cam[c] = "on" \/ OnAir(c)) /\ maybe' = maybe
    BY <1>6 DEF Held, Land, stateVars
  <2>2. CASE cam[c] = "on"
    <3>1. cam'[c] = "on"
      BY <1>1, <1>2, <1>4, <1>6, <2>1, <2>2 DEF Body
    <3>2. QED BY <2>1, <3>1 DEF Held
  <2>3. CASE OnAir(c)
    <3>1. PICK i \in 1 .. Len(air) : air[i] = [uuid |-> c, value |-> "on"]
      BY <2>3 DEF OnAir
    <3>2. CASE i = 1
      <4>1. cam'[c] = "on"
        BY <1>1, <1>2, <2>1, <3>1, <3>2
      <4>2. QED BY <2>1, <4>1 DEF Held
    <3>3. CASE i # 1
      <4>1. i - 1 \in 1 .. Len(air') /\ air'[i - 1] = air[i]
        BY <1>1, <3>1, <3>3
      <4>2. QED BY <2>1, <3>1, <4>1 DEF Held, OnAir
    <3>4. QED BY <3>2, <3>3
  <2>4. QED BY <2>1, <2>2, <2>3
<1>7. WaitedFor'
  BY <1>6 DEF BodyInv, WaitedFor, Land
<1>8. QED
  BY <1>2, <1>3, <1>5, <1>7 DEF BodyInv, Land, Settled, Body, stateVars

\* Every step keeps the account of setup and loop.
LEMMA StepBody == Typed /\ BodyInv /\ [Next]_vars => BodyInv'
<1> SUFFICES ASSUME Typed, BodyInv, [Next]_vars
             PROVE  BodyInv'
  OBVIOUS
<1> USE DEF Body
<1>1. CASE \E p \in Profiles : SessionStart(p)
  BY <1>1, StartBody
<1>2. CASE SetupIssue
  BY <1>2, SetupIssueBody
<1>3. CASE SetupOk \/ SetupMode \/ SetupModeRejected
  BY <1>3, SetupAnswerBody
<1>4. CASE SetupFails
  <2>1. todo # <<>> /\ todo \in Seq(SetupActions) /\ pc = "setup_wait"
    BY <1>4 DEF SetupFails, Typed, PlanShape
  <2>2. OnlyLast(Tail(todo)) /\ OnlyLast(<<>>)
    BY <2>1, OnlyLastTail DEF BodyInv, OnlyLast
  <2>3. OnlyLast(todo') /\ mode = "none"
    BY <1>4, <2>1, <2>2 DEF SetupFails, BodyInv
  <2>4. QED BY <1>4, <2>1, <2>3
        DEF SetupFails, BodyInv, WaitedFor, AirSwitchesOn, Settled, stateVars, camVars
<1>5. CASE SetupDone
  BY <1>5 DEF SetupDone, BeginCleanup, BodyInv, WaitedFor, AirSwitchesOn, Settled,
              stateVars, camVars
<1>6. CASE LoopComplete \/ LoopFails \/ BodyRaises \/ CancelBody
  BY <1>6 DEF LoopComplete, LoopFails, BodyRaises, CancelBody, BeginCleanup,
              BodyInv, WaitedFor, stateVars, camVars
<1>7. CASE LoopIssue
  BY <1>7 DEF LoopIssue, BodyInv, WaitedFor, AirSwitchesOn, Settled, stateVars, camVars
<1>8. ASSUME NEW d \in 0 .. MaxDelay, LoopOk(d)
      PROVE  BodyInv'
  BY <1>8 DEF LoopOk, BeginCleanup, BodyInv, WaitedFor, AirSwitchesOn, Settled, stateVars
<1>9. ASSUME NEW d \in 0 .. MaxDelay, SleepEnds(d)
      PROVE  BodyInv'
  BY <1>9 DEF SleepEnds, BodyInv, WaitedFor, AirSwitchesOn, Settled, stateVars, camVars
<1>10. CASE CleanupIssue \/ CleanupOk \/ CleanupFails \/ CleanupDone
             \/ CleanupRaises \/ CancelCleanup \/ KillCleanup \/ Return
  BY <1>10 DEF CleanupIssue, CleanupOk, CleanupFails, CleanupDone, CleanupRaises,
              CancelCleanup, KillCleanup, Return, BodyInv, WaitedFor, stateVars
<1>11. CASE Land
  BY <1>11, LandBody
<1>12. CASE UNCHANGED vars
  BY <1>12 DEF vars, BodyInv, WaitedFor, Held, OnAir, AirSwitchesOn, Settled,
              stateVars, camVars
<1>13. QED
  BY <1>1, <1>2, <1>3, <1>4, <1>5, <1>6, <1>7, <1>8, <1>9, <1>10, <1>11, <1>12
  DEF Next, SessionStep, Cancellation

\* Location packets go only to a camera that holds the lock and the switch it
\* has confirmed, under a DD21 mode the client has understood.
THEOREM SendsUnderControl == Spec => []LocationUnderControl
<1>1. Spec => [](Typed /\ BodyInv)
  <2>1. Init => Typed /\ BodyInv
    BY InitTyped, InitBody
  <2>2. Typed /\ BodyInv /\ [Next]_vars => (Typed /\ BodyInv)'
    BY StepTyped, StepBody
  <2>3. QED BY <2>1, <2>2, PTL DEF Spec
<1>2. QED BY <1>1, BodyInvSuffices, PTL

-----------------------------------------------------------------------------
(* Whose controls a session touches, and whether it gives every one back.  *)

SwitchOn(c) == [uuid |-> c, value |-> "on"]
SwitchOff(c) == [uuid |-> c, value |-> "off"]

\* What may have been acquired was asked for, what is undone may have been
\* acquired, and a legacy session asks for nothing.
OwnInv ==
  /\ \A c \in maybe : SwitchOn(c) \in issued
  /\ \A c \in Controls : SwitchOff(c) \in issued => SwitchOn(c) \in issued
  /\ pc \in {"cleanup", "cleanup_wait"} =>
       \A c \in Controls : Mentions(todo, c) => c \in maybe
  /\ profile.kind = "legacy" =>
       /\ maybe = {} /\ issued = {}
       /\ pc \in {"setup", "setup_wait"} => \A c \in Controls : ~Mentions(todo, c)

\* A control leaves the plan of the cleanup when its compensation has been
\* issued; only an exception or a second cancellation cuts the plan short.
CompInv ==
  /\ pc \in {"cleanup", "cleanup_wait"} =>
       \A c \in maybe : Mentions(todo, c) \/ SwitchOff(c) \in issued
  /\ pc = "cleanup_wait" => SwitchOff(Head(todo).uuid) \in issued
  /\ pc \in {"cleaned", "ended"} /\ ~Compensated =>
       taskEnd = "raised" \/ (taskEnd = "killed" /\ cancels >= 2)

OwnComp == OwnInv /\ CompInv

\* The invariant says what was to be shown.
LEMMA OwnCompSuffices ==
  TypeOK /\ OwnComp => OnlyOwnControls /\ CompensatesUnlessKilled
<1> SUFFICES ASSUME TypeOK, OwnComp
             PROVE  OnlyOwnControls /\ CompensatesUnlessKilled
  OBVIOUS
<1>1. ASSUME NEW w \in issued, w.value = "off"
      PROVE  [w EXCEPT !.value = "on"] \in issued
  <2>1. w \in ControlWrites
    BY DEF TypeOK
  <2>2. w = SwitchOff(w.uuid) /\ [w EXCEPT !.value = "on"] = SwitchOn(w.uuid)
    BY <1>1, <2>1 DEF ControlWrites, SwitchOn, SwitchOff
  <2>3. w.uuid \in Controls
    BY <2>1 DEF ControlWrites
  <2>4. QED BY <2>2, <2>3 DEF OwnComp, OwnInv
<1>2. OnlyOwnControls
  BY <1>1 DEF OnlyOwnControls, OwnComp, OwnInv
<1>3. CompensatesUnlessKilled
  BY DEF OwnComp, CompInv, CompensatesUnlessKilled
<1>4. QED BY <1>2, <1>3

\* Before the first session nothing is issued.
LEMMA InitOwnComp == Init => OwnComp
BY DEF Init, OwnComp, OwnInv, CompInv

\* A session starts with nothing asked for, and its plan fits its profile.
LEMMA StartOwnComp ==
  ASSUME NEW p \in Profiles, SessionStart(p)
  PROVE  OwnComp'
BY SetupPlanFacts DEF SessionStart, OwnComp, OwnInv, CompInv

\* The finally block undoes what may have been acquired, and nothing else.
LEMMA BeginCleanupOwn ==
  ASSUME TypeOK, OwnInv, BeginCleanup, UNCHANGED <<profile, maybe, issued>>
  PROVE  OwnComp'
<1>1. /\ pc' = "cleanup" /\ todo' = CleanupPlan(maybe) /\ maybe \subseteq Controls
      /\ \A c \in maybe : Mentions(todo', c)
  BY BeginCleanupCovers DEF BeginCleanup, TypeOK
<1>2. \A c \in Controls : Mentions(todo', c) => c \in maybe
  BY <1>1, CleanupPlanFacts
<1>3. QED BY <1>1, <1>2 DEF OwnComp, OwnInv, CompInv

\* A request of the setup is for a control no legacy plan mentions.
LEMMA SetupIssueOwn ==
  ASSUME Typed, OwnComp, SetupIssue
  PROVE  OwnComp'
<1> DEFINE a == Head(todo)
<1>1. /\ TypeOK /\ todo # <<>> /\ a \in SetupActions /\ todo \in Seq(SetupActions)
      /\ a \in SetupActions \cup CleanupActions /\ a = todo[1] /\ Len(todo) \in Nat \ {0}
  BY Dequeue DEF Typed, PlanShape, SetupIssue
<1>2. a.uuid \in Controls => a.value = "on"
  BY <1>1, SetupActionWrites
<1>3. Mentions(todo, a.uuid)
  BY <1>1 DEF Mentions
<1>4. Send(a) /\ maybe' = maybe \cup ({a.uuid} \cap Controls)
  BY DEF SetupIssue
<1> HIDE DEF a
<1>5. /\ a.uuid \notin Controls => issued' = issued
      /\ a.uuid \in Controls => issued' = issued \cup {SwitchOn(a.uuid)}
  BY <1>1, <1>2, <1>4, SendEffect DEF SwitchOn
<1>6. \A c, e \in Controls : SwitchOn(c) # SwitchOff(e)
  BY DEF SwitchOn, SwitchOff
<1>7. profile.kind = "legacy" => a.uuid \notin Controls
  BY <1>3 DEF OwnComp, OwnInv, SetupIssue
<1>8. pc' = "setup_wait" /\ UNCHANGED <<todo, profile>> /\ pc = "setup"
  BY DEF SetupIssue
<1>9. \A c \in maybe' : SwitchOn(c) \in issued'
  BY <1>4, <1>5 DEF OwnComp, OwnInv
<1>10. \A c \in Controls : SwitchOff(c) \in issued' => SwitchOn(c) \in issued'
  BY <1>5, <1>6 DEF OwnComp, OwnInv
<1>11. QED
  BY <1>4, <1>5, <1>7, <1>8, <1>9, <1>10 DEF OwnComp, OwnInv, CompInv

\* A request of the cleanup is for a control that may have been acquired.
LEMMA CleanupIssueOwn ==
  ASSUME Typed, OwnComp, CleanupIssue
  PROVE  OwnComp'
<1> DEFINE a == Head(todo)
<1>1. /\ TypeOK /\ todo # <<>> /\ a \in CleanupActions /\ todo \in Seq(CleanupActions)
      /\ a \in SetupActions \cup CleanupActions /\ a = todo[1] /\ Len(todo) \in Nat \ {0}
  BY Dequeue DEF Typed, PlanShape, CleanupIssue
<1>2. a.uuid \in Controls /\ a.value = "off"
  BY <1>1, CleanupActionWrites
<1>3. Mentions(todo, a.uuid)
  BY <1>1 DEF Mentions
<1>4. Send(a)
  BY DEF CleanupIssue
<1>5. pc' = "cleanup_wait" /\ UNCHANGED <<todo, profile, maybe>> /\ pc = "cleanup"
  BY DEF CleanupIssue, stateVars
<1> HIDE DEF a
<1>6. issued' = issued \cup {SwitchOff(a.uuid)}
  BY <1>1, <1>2, <1>4, SendEffect DEF SwitchOff
<1>7. \A c, e \in Controls : SwitchOff(c) = SwitchOff(e) => c = e
  BY DEF SwitchOff
<1>8. a.uuid \in maybe
  BY <1>2, <1>3, <1>5 DEF OwnComp, OwnInv
<1>9. \A c \in Controls : SwitchOff(c) \in issued' => SwitchOn(c) \in issued'
  BY <1>2, <1>6, <1>7, <1>8 DEF OwnComp, OwnInv
<1>10. OwnInv'
  BY <1>5, <1>6, <1>8, <1>9 DEF OwnComp, OwnInv
<1>11. SwitchOff(Head(todo').uuid) \in issued'
  BY <1>5, <1>6 DEF a
<1>12. CompInv'
  BY <1>5, <1>6, <1>11 DEF OwnComp, CompInv
<1>13. QED BY <1>10, <1>12 DEF OwnComp

\* What is settled in the cleanup leaves its plan.
LEMMA CleanupSettledOwn ==
  ASSUME Typed, OwnComp, CleanupOk \/ CleanupFails
  PROVE  OwnComp'
<1>1. todo # <<>> /\ todo \in Seq(CleanupActions) /\ pc = "cleanup_wait"
  BY DEF Typed, PlanShape, CleanupOk, CleanupFails
<1>2. /\ todo' = Tail(todo) /\ pc' = "cleanup"
      /\ UNCHANGED <<profile, maybe, issued>>
  BY DEF CleanupOk, CleanupFails, Answered, stateVars, camVars
<1>3. \A c : Mentions(todo, c) => Head(todo).uuid = c \/ Mentions(Tail(todo), c)
  BY <1>1, TailMentions
<1>4. \A c : Mentions(Tail(todo), c) => Mentions(todo, c)
  BY <1>1, TailMentionsOnly
<1>5. OwnInv'
  BY <1>1, <1>2, <1>4 DEF OwnComp, OwnInv
<1>6. CompInv'
  BY <1>1, <1>2, <1>3 DEF OwnComp, CompInv
<1>7. QED BY <1>5, <1>6 DEF OwnComp

\* Every step keeps both accounts.
LEMMA StepOwnComp == Typed /\ OwnComp /\ [Next]_vars => OwnComp'
<1> SUFFICES ASSUME Typed, OwnComp, [Next]_vars
             PROVE  OwnComp'
  OBVIOUS
<1>1. TypeOK /\ PlanShape /\ OwnInv
  BY DEF Typed, OwnComp
<1>2. CASE \E p \in Profiles : SessionStart(p)
  BY <1>2, StartOwnComp
<1>3. CASE SetupIssue
  BY <1>3, SetupIssueOwn
<1>4. CASE SetupOk \/ SetupMode \/ SetupModeRejected \/ SetupFails
  <2>1. todo # <<>> /\ todo \in Seq(SetupActions) /\ pc = "setup_wait"
    BY <1>1, <1>4 DEF PlanShape, SetupOk, SetupMode, SetupModeRejected, SetupFails
  <2>2. /\ todo' \in {<<>>, Tail(todo)} /\ pc' = "setup"
        /\ UNCHANGED <<profile, maybe, issued>>
    BY <1>4 DEF SetupOk, SetupMode, SetupModeRejected, SetupFails, Answered,
                stateVars, camVars
  <2>3. \A c : Mentions(todo', c) => Mentions(todo, c)
    BY <2>1, <2>2, TailMentionsOnly DEF Mentions
  <2>4. QED BY <2>1, <2>2, <2>3 DEF OwnComp, OwnInv, CompInv
<1>5. CASE SetupDone
  <2>1. CASE pc' = "loop"
    BY <1>5, <2>1 DEF SetupDone, OwnComp, OwnInv, CompInv, stateVars, camVars
  <2>2. CASE BeginCleanup
    BY <1>1, <1>5, <2>2, BeginCleanupOwn DEF SetupDone, stateVars, camVars
  <2>3. QED BY <1>5, <2>1, <2>2 DEF SetupDone
<1>6. CASE LoopComplete \/ LoopFails \/ BodyRaises \/ CancelBody
  BY <1>1, <1>6, BeginCleanupOwn
    DEF LoopComplete, LoopFails, BodyRaises, CancelBody, stateVars, camVars
<1>7. CASE LoopIssue
  BY <1>7 DEF LoopIssue, OwnComp, OwnInv, CompInv, stateVars, camVars
<1>8. ASSUME NEW d \in 0 .. MaxDelay, LoopOk(d)
      PROVE  OwnComp'
  <2>1. CASE pc' = "sleep"
    BY <1>8, <2>1 DEF LoopOk, OwnComp, OwnInv, CompInv, stateVars
  <2>2. CASE BeginCleanup
    BY <1>1, <1>8, <2>2, BeginCleanupOwn DEF LoopOk, stateVars
  <2>3. QED BY <1>8, <2>1, <2>2 DEF LoopOk
<1>9. ASSUME NEW d \in 0 .. MaxDelay, SleepEnds(d)
      PROVE  OwnComp'
  BY <1>9 DEF SleepEnds, OwnComp, OwnInv, CompInv, stateVars, camVars
<1>10. CASE CleanupIssue
  BY <1>10, CleanupIssueOwn
<1>11. CASE CleanupOk \/ CleanupFails
  BY <1>11, CleanupSettledOwn
<1>12. CASE CleanupDone
  <2>1. \A c : ~Mentions(todo, c)
    BY <1>12 DEF CleanupDone, Mentions
  <2>2. Compensated'
    BY <1>12, <2>1 DEF CleanupDone, Compensated, OwnComp, CompInv, SwitchOff,
                       stateVars, camVars
  <2>3. QED BY <1>12, <2>2 DEF CleanupDone, OwnComp, OwnInv, CompInv, stateVars, camVars
<1>13. CASE CleanupRaises
  BY <1>13 DEF CleanupRaises, OwnComp, OwnInv, CompInv, stateVars, camVars
<1>14. CASE CancelCleanup
  <2>1. cancels \in Nat /\ cancels' = cancels + 1
    BY <1>1, <1>14, SessionAssumption DEF CancelCleanup, TypeOK
  <2>2. Compensated' = Compensated
    BY <1>14 DEF CancelCleanup, Compensated, stateVars, camVars
  <2>3. QED BY <1>14, <2>1, <2>2
        DEF CancelCleanup, OwnComp, OwnInv, CompInv, stateVars, camVars
<1>15. CASE KillCleanup
  <2>1. cancels \in Nat \ {0} /\ cancels' = cancels + 1
    BY <1>1, <1>15, SessionAssumption DEF KillCleanup, TypeOK
  <2>2. QED BY <1>15, <2>1 DEF KillCleanup, OwnComp, OwnInv, CompInv, stateVars, camVars
<1>16. CASE Return
  BY <1>16 DEF Return, OwnComp, OwnInv, CompInv, Compensated, stateVars, endVars, camVars
<1>17. CASE Land
  BY <1>17 DEF Land, OwnComp, OwnInv, CompInv, Compensated, stateVars, endVars
<1>18. CASE UNCHANGED vars
  BY <1>18 DEF vars, OwnComp, OwnInv, CompInv, Compensated, stateVars, endVars, camVars
<1>19. QED
  BY <1>2, <1>3, <1>4, <1>5, <1>6, <1>7, <1>8, <1>9, <1>10, <1>11, <1>12, <1>13,
     <1>14, <1>15, <1>16, <1>17, <1>18
  DEF Next, SessionStep, Cancellation

\* The two accounts hold together in every state.
LEMMA OwnAccount == Spec => [](TypeOK /\ OwnComp)
<1>1. Init => Typed /\ OwnComp
  BY InitTyped, InitOwnComp
<1>2. Typed /\ OwnComp /\ [Next]_vars => (Typed /\ OwnComp)'
  BY StepTyped, StepOwnComp
<1>3. Typed /\ OwnComp => TypeOK /\ OwnComp
  BY DEF Typed
<1>4. QED BY <1>1, <1>2, <1>3, PTL DEF Spec

\* A control is switched off only where the session tried to switch it on,
\* and a legacy session touches none.
THEOREM TouchesOnlyItsOwn == Spec => []OnlyOwnControls
BY OwnAccount, OwnCompSuffices, PTL

\* One cancellation, wherever it falls, skips no compensation.
THEOREM OneCancellationSkipsNothing == Spec => []CompensatesUnlessKilled
BY OwnAccount, OwnCompSuffices, PTL

-----------------------------------------------------------------------------
(* The order of the release.  Once both required controls are confirmed,   *)
(* the lock stays as it is until the enable switch is off for good, or an  *)
(* error is recorded.                                                      *)

LockUntouched ==
  /\ cam["dd30"] = "on"
  /\ \A i \in 1 .. Len(air) : air[i] # SwitchOff("dd30")
  /\ pc \in {"cleanup", "cleanup_wait"} => todo # <<>> /\ Head(todo).uuid = "dd31"

UnlockInv ==
  pc \in Closing /\ ~diag /\ RequiredControls \subseteq confirmed =>
    Released("dd31") \/ LockUntouched

\* The invariant says what was to be shown.
LEMMA UnlockInvSuffices == UnlockInv => UnlockAfterDisable
BY DEF UnlockInv, UnlockAfterDisable, LockUntouched, Released, Closing

\* The finally block begins with the enable switch.
LEMMA BeginCleanupUnlock ==
  ASSUME TypeOK, BodyInv, pc \in Body, BeginCleanup, confirmed' = confirmed,
         cam' = cam, air' = air \/ air' = <<>>
  PROVE  UnlockInv'
<1> SUFFICES ASSUME RequiredControls \subseteq confirmed
             PROVE  LockUntouched'
  BY DEF UnlockInv
<1>1. RequiredControls \subseteq maybe /\ cam["dd30"] = "on" /\ AirSwitchesOn
  BY DEF BodyInv, RequiredControls
<1>2. todo' # <<>> /\ Head(todo').uuid = "dd31"
  BY <1>1, CleanupPlanFacts DEF BeginCleanup
<1>3. \A i \in 1 .. Len(air') : air'[i] # SwitchOff("dd30")
  BY <1>1 DEF AirSwitchesOn, SwitchOff
<1>4. QED BY <1>1, <1>2, <1>3 DEF LockUntouched

\* Every step keeps the order.
LEMMA StepUnlock == Typed /\ BodyInv /\ UnlockInv /\ [Next]_vars => UnlockInv'
<1> SUFFICES ASSUME Typed, BodyInv, UnlockInv, [Next]_vars
             PROVE  UnlockInv'
  OBVIOUS
<1>1. TypeOK /\ PlanShape /\ "dd31" \in Controls /\ "dd30" \in Controls
  BY DEF Typed, Controls
<1>2. CASE \/ \E p \in Profiles : SessionStart(p)
           \/ SetupIssue \/ SetupOk \/ SetupMode \/ SetupModeRejected \/ SetupFails
           \/ LoopIssue \/ \E d \in 0 .. MaxDelay : SleepEnds(d)
  BY <1>2 DEF SessionStart, SetupIssue, SetupOk, SetupMode, SetupModeRejected,
              SetupFails, LoopIssue, SleepEnds, UnlockInv, Closing
<1>3. CASE SetupDone
  <2>1. CASE pc' = "loop"
    BY <2>1 DEF UnlockInv, Closing
  <2>2. CASE BeginCleanup
    BY <1>1, <1>3, <2>2, BeginCleanupUnlock DEF SetupDone, stateVars, camVars, Body
  <2>3. QED BY <1>3, <2>1, <2>2 DEF SetupDone
<1>4. CASE LoopComplete \/ LoopFails \/ BodyRaises \/ CancelBody
  BY <1>1, <1>4, BeginCleanupUnlock
    DEF LoopComplete, LoopFails, BodyRaises, CancelBody, stateVars, camVars, Body
<1>5. ASSUME NEW d \in 0 .. MaxDelay, LoopOk(d)
      PROVE  UnlockInv'
  <2>1. CASE pc' = "sleep"
    BY <2>1 DEF UnlockInv, Closing
  <2>2. CASE BeginCleanup
    BY <1>1, <1>5, <2>2, BeginCleanupUnlock DEF LoopOk, stateVars, Body
  <2>3. QED BY <1>5, <2>1, <2>2 DEF LoopOk
<1>6. CASE CleanupIssue
  <2> DEFINE a == Head(todo)
  <2>1. a \in CleanupActions /\ a \in SetupActions \cup CleanupActions /\ Send(a)
    BY <1>1, <1>6, Dequeue DEF CleanupIssue, PlanShape
  <2>2. Released("dd31") => Released("dd31")'
    BY <1>1, <2>1, SendKeepsReleased
  <2>3. ASSUME LockUntouched
        PROVE  LockUntouched'
    <3>1. a.uuid = "dd31" /\ todo # <<>>
      BY <1>6, <2>3 DEF LockUntouched, CleanupIssue
    <3>2. UNCHANGED todo
      BY <1>6 DEF CleanupIssue
    <3> HIDE DEF a
    <3>3. /\ cam' = cam /\ Len(air') = Len(air) + 1 /\ Len(air) \in Nat
          /\ air'[Len(air) + 1] = [uuid |-> a.uuid, value |-> a.value]
          /\ \A i \in 1 .. Len(air) : air'[i] = air[i]
      BY <1>1, <2>1, <3>1, SendEffect
    <3>4. ASSUME NEW i \in 1 .. Len(air')
          PROVE  air'[i] # SwitchOff("dd30")
      <4>1. i = Len(air) + 1 \/ i \in 1 .. Len(air)
        BY <3>3
      <4>2. [uuid |-> a.uuid, value |-> a.value] # SwitchOff("dd30")
        BY <3>1 DEF SwitchOff
      <4>3. QED BY <2>3, <3>3, <4>1, <4>2 DEF LockUntouched
    <3>5. Head(todo').uuid = "dd31" /\ todo' # <<>>
      BY <3>1, <3>2 DEF a
    <3>6. QED BY <2>3, <3>3, <3>4, <3>5 DEF LockUntouched
  <2>4. QED BY <1>6, <2>2, <2>3
        DEF CleanupIssue, UnlockInv, Closing, stateVars, endVars
<1>7. CASE CleanupOk
  <2>1. Head(todo) \in CleanupActions /\ Answered(Head(todo))
    BY <1>1, <1>7, Dequeue DEF CleanupOk, PlanShape
  <2>2. Released("dd31") \/ Head(todo).uuid = "dd31" => Released("dd31")'
    BY <1>1, <2>1, AnswerReleases
  <2>3. QED BY <1>7, <2>2
        DEF CleanupOk, UnlockInv, LockUntouched, Closing, stateVars, endVars
<1>8. CASE CleanupFails
  BY <1>8 DEF CleanupFails, UnlockInv
<1>9. CASE CleanupDone \/ CleanupRaises \/ CancelCleanup \/ KillCleanup \/ Return
  BY <1>9 DEF CleanupDone, CleanupRaises, CancelCleanup, KillCleanup, Return,
              UnlockInv, LockUntouched, Released, OnAir, Closing, stateVars,
              endVars, camVars
<1>10. CASE Land
  <2>1. Released("dd31") => Released("dd31")'
    BY <1>1, <1>10, LandKeepsReleased
  <2>2. ASSUME LockUntouched
        PROVE  LockUntouched'
    <3>1. /\ Len(air) \in Nat \ {0} /\ Len(air') = Len(air) - 1
          /\ air[1] \in ControlWrites
          /\ \A i \in 1 .. Len(air') : air'[i] = air[i + 1]
          /\ \A c \in Controls :
               cam'[c] = IF c = air[1].uuid THEN air[1].value ELSE cam[c]
      BY <1>1, <1>10, LandEffect
    <3>2. air[1] # SwitchOff("dd30")
      BY <2>2, <3>1 DEF LockUntouched
    <3>3. cam'["dd30"] = "on"
      BY <1>1, <2>2, <3>1, <3>2 DEF LockUntouched, ControlWrites, SwitchOff
    <3>4. ASSUME NEW i \in 1 .. Len(air')
          PROVE  air'[i] # SwitchOff("dd30")
      <4>1. i + 1 \in 1 .. Len(air)
        BY <3>1
      <4>2. QED BY <2>2, <3>1, <4>1 DEF LockUntouched
    <3>5. QED BY <1>10, <2>2, <3>3, <3>4 DEF LockUntouched, Land
  <2>3. QED BY <1>10, <2>1, <2>2 DEF Land, UnlockInv, Closing, stateVars, endVars
<1>11. CASE UNCHANGED vars
  BY <1>11 DEF vars, UnlockInv, LockUntouched, Released, OnAir, Closing, stateVars,
               endVars, camVars
<1>12. QED
  BY <1>2, <1>3, <1>4, <1>5, <1>6, <1>7, <1>8, <1>9, <1>10, <1>11
  DEF Next, SessionStep, Cancellation

\* The lock is not given back over an enable switch that is still on, unless
\* the diagnostic tells of it.
THEOREM SwitchBeforeLock == Spec => []UnlockAfterDisable
<1>1. Init => Typed /\ BodyInv /\ UnlockInv
  BY InitTyped, InitBody DEF Init, UnlockInv, Closing
<1>2. Typed /\ BodyInv /\ UnlockInv /\ [Next]_vars => (Typed /\ BodyInv /\ UnlockInv)'
  BY StepTyped, StepBody, StepUnlock
<1>3. QED BY <1>1, <1>2, UnlockInvSuffices, PTL DEF Spec

-----------------------------------------------------------------------------
(* The session implements the lease.                                       *)

\* Everything the mapping of a step needs to know of the state it starts in.
LeaseInv == Typed /\ ReleaseInv /\ BodyInv

LeaseStep == Lease!LeaseNext \/ UNCHANGED Lease!leaseVars

\* What the camera holds does not change by itself.
LEMMA SameHeld ==
  ASSUME UNCHANGED <<maybe, cam, air>>
  PROVE  Held' = Held
BY DEF Held, OnAir

\* Losing the requests without an answer takes nothing from a camera that
\* has none.
LEMMA HeldOnceSettled ==
  ASSUME air = <<>>, air' = <<>>, UNCHANGED <<maybe, cam>>
  PROVE  Held' = Held
BY DEF Held, OnAir

\* A request of the setup makes its own control held.
LEMMA SetupIssueHeld ==
  ASSUME Typed, SetupIssue
  PROVE  Held' = Held \cup ({Head(todo).uuid} \cap Controls)
<1> DEFINE a == Head(todo)
<1>1. /\ TypeOK /\ todo # <<>> /\ a \in SetupActions
      /\ a \in SetupActions \cup CleanupActions
  BY Dequeue DEF Typed, PlanShape, SetupIssue
<1>2. a.uuid \in Controls => a.value = "on"
  BY <1>1, SetupActionWrites
<1>3. Send(a) /\ maybe' = maybe \cup ({a.uuid} \cap Controls)
  BY DEF SetupIssue
<1> HIDE DEF a
<1>4. /\ cam' = cam
      /\ a.uuid \notin Controls => air' = air
      /\ a.uuid \in Controls =>
           /\ Len(air') = Len(air) + 1 /\ Len(air) \in Nat
           /\ air'[Len(air) + 1] = [uuid |-> a.uuid, value |-> "on"]
           /\ \A i \in 1 .. Len(air) : air'[i] = air[i]
  BY <1>1, <1>2, <1>3, SendEffect
<1>5. CASE a.uuid \notin Controls
  <2>1. maybe' = maybe /\ Held' = Held
    BY <1>3, <1>4, <1>5, SameHeld
  <2>2. QED BY <1>5, <2>1 DEF a
<1>6. CASE a.uuid \in Controls
  <2>1. \A c : OnAir(c)' <=> OnAir(c) \/ c = a.uuid
    <3> SUFFICES ASSUME NEW c
                 PROVE  OnAir(c)' <=> OnAir(c) \/ c = a.uuid
      OBVIOUS
    <3>1. ASSUME NEW i \in 1 .. Len(air'), air'[i] = [uuid |-> c, value |-> "on"]
          PROVE  OnAir(c) \/ c = a.uuid
      <4>1. i = Len(air) + 1 \/ i \in 1 .. Len(air)
        BY <1>4, <1>6
      <4>2. QED BY <1>4, <1>6, <3>1, <4>1 DEF OnAir
    <3>2. ASSUME NEW i \in 1 .. Len(air), air[i] = [uuid |-> c, value |-> "on"]
          PROVE  OnAir(c)'
      <4>1. i \in 1 .. Len(air') /\ air'[i] = air[i]
        BY <1>4, <1>6
      <4>2. QED BY <3>2, <4>1 DEF OnAir
    <3>3. c = a.uuid => OnAir(c)'
      <4>1. Len(air) + 1 \in 1 .. Len(air')
        BY <1>4, <1>6
      <4>2. QED BY <1>4, <1>6, <4>1 DEF OnAir
    <3>4. QED BY <3>1, <3>2, <3>3 DEF OnAir
  <2>2. QED BY <1>3, <1>4, <1>6, <2>1 DEF Held, a
<1>7. QED BY <1>5, <1>6

\* An answer of the setup, or of the cleanup, lets nothing more be held.
LEMMA AnswerHeld ==
  ASSUME Typed, todo # <<>>, Answered(Head(todo)), maybe' = maybe,
         \/ pc = "cleanup_wait"
         \/ pc = "setup_wait" /\ WaitedFor
  PROVE  Held' \subseteq Held
<1> DEFINE a == Head(todo)
<1>1. TypeOK /\ PlanShape
  BY DEF Typed
<1>2. /\ air' = <<>>
      /\ cam' = IF a.uuid \in Controls THEN [cam EXCEPT ![a.uuid] = a.value] ELSE cam
  BY DEF Answered
<1>3. CASE pc = "cleanup_wait"
  <2>1. a.uuid \in Controls /\ a.value = "off"
    BY <1>1, <1>3, Dequeue, CleanupActionWrites DEF PlanShape
  <2>2. QED BY <1>1, <1>2, <2>1 DEF Held, OnAir, TypeOK
<1>4. CASE pc = "setup_wait" /\ WaitedFor
  BY <1>1, <1>2, <1>4 DEF Held, OnAir, TypeOK, WaitedFor
<1>5. QED BY <1>3, <1>4

\* A request of the cleanup lets nothing more be held.
LEMMA CleanupIssueHeld ==
  ASSUME Typed, CleanupIssue
  PROVE  Held' \subseteq Held
<1>1. TypeOK /\ Head(todo) \in CleanupActions /\ Send(Head(todo)) /\ maybe \subseteq Controls
  BY Dequeue DEF Typed, TypeOK, PlanShape, CleanupIssue
<1>2. \A c \in Controls : Released(c) => Released(c)'
  BY <1>1, SendKeepsReleased
<1>3. cam' = cam /\ maybe' = maybe /\ cam \in [Controls -> {"on", "off"}]
  BY <1>1 DEF CleanupIssue, Send, stateVars, TypeOK
<1>4. QED BY <1>1, <1>2, <1>3 DEF Held, Released, OnAir

\* Nor does a request that lands.
LEMMA LandHeld ==
  ASSUME Typed, Land
  PROVE  Held' \subseteq Held
<1>1. TypeOK /\ maybe' = maybe /\ maybe \subseteq Controls
  BY DEF Typed, TypeOK, Land, stateVars
<1>2. \A c \in Controls : Released(c) => Released(c)'
  BY <1>1, LandKeepsReleased
<1>3. cam \in [Controls -> {"on", "off"}]
  BY <1>1 DEF TypeOK
<1>4. QED BY <1>1, <1>2, <1>3 DEF Held, Released, OnAir

\* While the session runs, its phase alone tells the verdict.
LEMMA PhaseOfStep ==
  ASSUME pc' # "ended", pc # "ended"
  PROVE  UNCHANGED LeaseVerdict
BY DEF LeaseVerdict

\* The finally block begins the release.
LEMMA BeginCleanupLeases ==
  ASSUME pc \in Body, BeginCleanup, UNCHANGED <<profile, maybe, cam, air, packets>>
  PROVE  Lease!BeginRelease
<1>1. Held' = Held
  BY SameHeld
<1>2. UNCHANGED LeaseVerdict
  BY PhaseOfStep DEF BeginCleanup, Body
<1>3. QED
  BY <1>1, <1>2 DEF BeginCleanup, Body, Lease!BeginRelease, LeasePhase

\* A session opens a lease.
LEMMA StartLeases ==
  ASSUME NEW p \in Profiles, SessionStart(p)
  PROVE  Lease!Open
<1>1. Held' = {}
  BY DEF SessionStart, Held
<1>2. (IF profile.kind = "modern" THEN RequiredControls ELSE {})' \in SUBSET Controls
  BY DEF RequiredControls, Controls
<1>3. LeasePhase \in {"idle", "closed"} /\ LeasePhase' = "acquiring"
  BY DEF SessionStart, LeasePhase
<1>4. LeaseVerdict' = "none" /\ (packets > 0)' = FALSE
  BY DEF SessionStart, LeaseVerdict
<1>5. QED BY <1>1, <1>2, <1>3, <1>4 DEF Lease!Open

\* Setup: a request acquires, an answer settles.
LEMMA SetupLeases ==
  ASSUME LeaseInv,
         SetupIssue \/ SetupOk \/ SetupMode \/ SetupModeRejected \/ SetupFails
  PROVE  LeaseStep
<1>1. /\ pc \in {"setup", "setup_wait"} /\ pc' \in {"setup", "setup_wait"}
      /\ UNCHANGED <<profile, packets>>
  BY DEF SetupIssue, SetupOk, SetupMode, SetupModeRejected, SetupFails, loopVars, stateVars
<1>2. LeasePhase = "acquiring" /\ UNCHANGED <<LeasePhase, LeaseVerdict>>
  BY <1>1 DEF LeasePhase, LeaseVerdict
<1>3. CASE SetupIssue
  <2>1. Held' = Held \cup ({Head(todo).uuid} \cap Controls)
    BY <1>3, SetupIssueHeld DEF LeaseInv
  <2>2. CASE Head(todo).uuid \in Controls
    BY <1>1, <1>2, <2>1, <2>2 DEF LeaseStep, Lease!LeaseNext, Lease!Acquire
  <2>3. CASE Head(todo).uuid \notin Controls
    BY <1>1, <1>2, <2>1, <2>3 DEF LeaseStep, Lease!leaseVars
  <2>4. QED BY <2>2, <2>3
<1>4. CASE SetupOk \/ SetupMode \/ SetupModeRejected
  <2>1. /\ todo # <<>> /\ Answered(Head(todo)) /\ maybe' = maybe
        /\ pc = "setup_wait" /\ WaitedFor /\ Typed
    BY <1>4 DEF SetupOk, SetupMode, SetupModeRejected, LeaseInv, Typed, PlanShape,
                BodyInv, stateVars
  <2>2. Held' \subseteq Held
    BY <2>1, AnswerHeld
  <2>3. QED BY <1>1, <1>2, <2>2 DEF LeaseStep, Lease!LeaseNext, Lease!Settle
<1>5. CASE SetupFails
  <2>1. Held' = Held
    BY <1>5, SameHeld DEF SetupFails, stateVars, camVars
  <2>2. QED BY <1>1, <1>2, <2>1 DEF LeaseStep, Lease!leaseVars
<1>6. QED BY <1>3, <1>4, <1>5

\* The loop begins only when the session holds what the camera demands.
LEMMA SetupDoneLeases ==
  ASSUME LeaseInv, SetupDone
  PROVE  LeaseStep
<1>1. CASE BeginCleanup
  <2>1. Lease!BeginRelease
    BY <1>1, BeginCleanupLeases DEF SetupDone, Body, stateVars, camVars
  <2>2. QED BY <2>1 DEF LeaseStep, Lease!LeaseNext
<1>2. CASE /\ mode # "none" /\ RequiredSetupSucceeded(profile, confirmed)
           /\ pc' = "loop"
  <2>1. Held' = Held
    BY SameHeld DEF SetupDone, stateVars, camVars
  <2>2. profile.kind = "modern" => RequiredControls \subseteq Held
    BY <1>2 DEF LeaseInv, BodyInv, RequiredSetupSucceeded, SetupDone, Body, Held
  <2>3. LeasePhase = "acquiring" /\ LeasePhase' = "using" /\ UNCHANGED LeaseVerdict
    BY <1>2 DEF SetupDone, LeasePhase, LeaseVerdict
  <2>4. UNCHANGED <<profile, packets>>
    BY DEF SetupDone, stateVars
  <2>5. QED
    BY <2>1, <2>2, <2>3, <2>4 DEF LeaseStep, Lease!LeaseNext, Lease!BeginUse
<1>3. QED BY <1>1, <1>2 DEF SetupDone

\* An accepted packet is a use under what the camera demands.
LEMMA LoopOkLeases ==
  ASSUME LeaseInv, NEW d \in 0 .. MaxDelay, LoopOk(d)
  PROVE  LeaseStep
<1>1. /\ pc = "loop_wait" /\ air' = <<>> /\ packets' = packets + 1 /\ packets \in Nat
      /\ UNCHANGED <<profile, maybe, cam>> /\ pc' \in {"sleep", "cleanup"}
  BY DEF LoopOk, BeginCleanup, stateVars, LeaseInv, Typed, TypeOK
<1>2. /\ air = <<>> /\ RequiredSetupSucceeded(profile, confirmed)
      /\ confirmed \subseteq maybe /\ \A c \in confirmed : cam[c] = "on"
  BY <1>1 DEF LeaseInv, BodyInv, Settled, Body
<1>3. Held' = Held
  BY <1>1, <1>2, HeldOnceSettled
<1>4. profile.kind = "modern" => RequiredControls \subseteq Held
  BY <1>2 DEF RequiredSetupSucceeded, Held
<1>5. /\ LeasePhase = "using" /\ LeasePhase' \in {"using", "releasing"}
      /\ UNCHANGED LeaseVerdict /\ (packets > 0)'
  BY <1>1 DEF LeasePhase, LeaseVerdict
<1>6. QED BY <1>1, <1>3, <1>4, <1>5 DEF LeaseStep, Lease!LeaseNext, Lease!Use

\* From the cleanup on, what is held only shrinks.
LEMMA CleanupLeases ==
  ASSUME LeaseInv,
         \/ CleanupIssue \/ CleanupOk \/ CleanupFails \/ CleanupDone \/ CleanupRaises
         \/ CancelCleanup \/ KillCleanup
  PROVE  LeaseStep
<1>1. /\ pc \in {"cleanup", "cleanup_wait", "cleaned"}
      /\ pc' \in {"cleanup", "cleanup_wait", "cleaned"}
      /\ UNCHANGED <<profile, packets, maybe>>
  BY DEF CleanupIssue, CleanupOk, CleanupFails, CleanupDone, CleanupRaises,
         CancelCleanup, KillCleanup, loopVars, stateVars
<1>2. LeasePhase = "releasing" /\ UNCHANGED <<LeasePhase, LeaseVerdict>>
  BY <1>1 DEF LeasePhase, LeaseVerdict
<1>3. Held' \subseteq Held
  <2>1. CASE CleanupIssue
    BY <2>1, CleanupIssueHeld DEF LeaseInv
  <2>2. CASE CleanupOk
    BY <1>1, <2>2, AnswerHeld DEF CleanupOk, LeaseInv, Typed, PlanShape
  <2>3. CASE \/ CleanupFails \/ CleanupDone \/ CleanupRaises
             \/ CancelCleanup \/ KillCleanup
    <3>1. Held' = Held
      BY <2>3, SameHeld DEF CleanupFails, CleanupDone, CleanupRaises, CancelCleanup,
                            KillCleanup, stateVars, camVars
    <3>2. QED BY <3>1
  <2>4. QED BY <2>1, <2>2, <2>3
<1>4. QED BY <1>1, <1>2, <1>3 DEF LeaseStep, Lease!LeaseNext, Lease!Release

\* A verdict without trouble closes a lease that holds nothing.
LEMMA ReturnLeases ==
  ASSUME LeaseInv, Return
  PROVE  LeaseStep
<1>1. /\ pc = "cleaned" /\ pc' = "ended"
      /\ UNCHANGED <<profile, packets, completed, maybe, cam, air, diag, raised>>
  BY DEF Return, stateVars, loopVars, endVars, camVars
<1>2. Held' = Held
  BY <1>1, SameHeld
<1>3. ASSUME ~raised, ~diag
      PROVE  Held = {}
  <2>1. todo = <<>>
    BY <1>1, <1>3 DEF LeaseInv, ReleaseInv, TaskLeavesNothing
  <2>2. \A c \in maybe : Released(c)
    BY <1>1, <1>3, <2>1 DEF LeaseInv, ReleaseInv, ReleaseProgress, Closing, Mentions
  <2>3. QED BY <2>2 DEF Released, Held
<1>4. /\ LeaseVerdict' \in {"success", "clean", "reported", "raised"}
      /\ LeaseVerdict' \in {"success", "clean"} => ~raised /\ ~diag
      /\ LeaseVerdict' = "success" => packets > 0
  BY <1>1 DEF LeaseVerdict, Success
<1>5. LeasePhase = "releasing" /\ LeasePhase' = "closed"
  BY <1>1 DEF LeasePhase
<1>6. QED
  BY <1>1, <1>2, <1>3, <1>4, <1>5 DEF LeaseStep, Lease!LeaseNext, Lease!Close

\* A late request settles a setup, or releases; the loop has none on air.
LEMMA LandLeases ==
  ASSUME LeaseInv, Land
  PROVE  LeaseStep
<1>1. Held' \subseteq Held
  BY LandHeld DEF LeaseInv
<1>2. UNCHANGED <<LeasePhase, LeaseVerdict, profile, packets>>
  BY DEF Land, LeasePhase, LeaseVerdict, Success, stateVars, loopVars, endVars
<1>3. air # <<>> /\ pc \notin {"idle", "loop", "loop_wait", "sleep"}
  BY DEF Land, LeaseInv, BodyInv, Settled, Body
<1>4. LeasePhase \in {"acquiring", "releasing", "closed"}
  BY <1>3 DEF LeasePhase, LeaseInv, Typed, TypeOK
<1>5. QED
  BY <1>1, <1>2, <1>4 DEF LeaseStep, Lease!LeaseNext, Lease!Settle, Lease!Release

\* Every step of the session is a step of the lease, or no step of it.
LEMMA StepLeases == LeaseInv /\ [Next]_vars => [Lease!LeaseNext]_(Lease!leaseVars)
<1> SUFFICES ASSUME LeaseInv, [Next]_vars
             PROVE  LeaseStep
  BY DEF LeaseStep
<1>1. CASE \E p \in Profiles : SessionStart(p)
  BY <1>1, StartLeases DEF LeaseStep, Lease!LeaseNext
<1>2. CASE SetupIssue \/ SetupOk \/ SetupMode \/ SetupModeRejected \/ SetupFails
  BY <1>2, SetupLeases
<1>3. CASE SetupDone
  BY <1>3, SetupDoneLeases
<1>4. CASE LoopComplete \/ LoopFails \/ BodyRaises \/ CancelBody
  <2>1. Lease!BeginRelease
    BY <1>4, BeginCleanupLeases
      DEF LoopComplete, LoopFails, BodyRaises, CancelBody, Body, stateVars, loopVars, camVars
  <2>2. QED BY <2>1 DEF LeaseStep, Lease!LeaseNext
<1>5. CASE LoopIssue \/ \E d \in 0 .. MaxDelay : SleepEnds(d)
  <2>1. /\ pc \in {"loop", "sleep"} /\ pc' \in {"loop", "loop_wait"}
        /\ UNCHANGED <<profile, packets, maybe, cam, air>>
    BY <1>5 DEF LoopIssue, SleepEnds, stateVars, loopVars, camVars
  <2>2. Held' = Held
    BY <2>1, SameHeld
  <2>3. UNCHANGED <<LeasePhase, LeaseVerdict>>
    BY <2>1 DEF LeasePhase, LeaseVerdict
  <2>4. QED BY <2>1, <2>2, <2>3 DEF LeaseStep, Lease!leaseVars
<1>6. CASE \E d \in 0 .. MaxDelay : LoopOk(d)
  BY <1>6, LoopOkLeases
<1>7. CASE \/ CleanupIssue \/ CleanupOk \/ CleanupFails \/ CleanupDone
           \/ CleanupRaises \/ CancelCleanup \/ KillCleanup
  BY <1>7, CleanupLeases
<1>8. CASE Return
  BY <1>8, ReturnLeases
<1>9. CASE Land
  BY <1>9, LandLeases
<1>10. CASE UNCHANGED vars
  <2>1. Held' = Held
    BY <1>10, SameHeld DEF vars, stateVars, camVars
  <2>2. UNCHANGED <<LeasePhase, LeaseVerdict, profile, packets>>
    BY <1>10 DEF vars, LeasePhase, LeaseVerdict, Success, stateVars, loopVars, endVars
  <2>3. QED BY <2>1, <2>2 DEF LeaseStep, Lease!leaseVars
<1>11. QED
  BY <1>1, <1>2, <1>3, <1>4, <1>5, <1>6, <1>7, <1>8, <1>9, <1>10
  DEF Next, SessionStep, Cancellation

\* A session that has not begun is a lease that has not been opened.
LEMMA InitLeases == Init => Lease!LeaseInit
BY DEF Init, Lease!LeaseInit, LeasePhase, LeaseVerdict, Held

\* The session keeps the promise of the lease: it uses the camera only while
\* it holds what the camera demands, from the cleanup on it takes nothing
\* more, and it closes without trouble only when nothing is held.
THEOREM SessionImplementsLease == Spec => ImplementsLease
<1>1. Init => LeaseInv
  BY InitTyped, InitBody
    DEF LeaseInv, Init, ReleaseInv, NoErrorBeforeCleanup, ReleaseProgress,
        TaskLeavesNothing, Body, Closing
<1>2. LeaseInv /\ [Next]_vars => LeaseInv'
  BY StepTyped, StepRelease, StepBody DEF LeaseInv
<1>3. QED BY <1>1, <1>2, InitLeases, StepLeases, PTL DEF Spec, ImplementsLease, Lease!LeaseSpec

(***************************************************************************)
(* The commands, for every set of cameras, registry and number of runs,    *)
(* and every session in them.                                              *)
(***************************************************************************)

\* Every step but those of a session.
Outside ==
  \/ \E o \in AllOptions(KnownKeys) : Invoke(o)
  \/ \E c \in Cameras : ChangeCamera(c)
  \/ RunStep

-----------------------------------------------------------------------------
(* Link and session.                                                       *)

Unlinked == {"ready", "scan", "connect", "report"}

LinkInv ==
  /\ stage \notin Unlinked => linked
  /\ ~linked => air = <<>>
  /\ stage # "session" => pc \in {"idle", "ended"}

\* Every step keeps link and session together.
LEMMA StepLink == LinkInv /\ [SyncNext]_syncVars => LinkInv'
<1> SUFFICES ASSUME LinkInv, [SyncNext]_syncVars
             PROVE  LinkInv'
  OBVIOUS
<1> USE DEF LinkInv, Unlinked
<1>1. ASSUME NEW o \in AllOptions(KnownKeys), Invoke(o)
      PROVE  LinkInv'
  BY <1>1 DEF Invoke, vars, camVars
<1>2. ASSUME NEW c \in Cameras, ChangeCamera(c)
      PROVE  LinkInv'
  BY <1>2 DEF ChangeCamera
<1>3. CASE ScanFinds \/ ScanFindsNothing \/ NoConnection \/ InterruptedUnlinked
  BY <1>3 DEF ScanFinds, ScanFindsNothing, NoConnection, InterruptedUnlinked,
              vars, camVars
<1>4. CASE Connected \/ Identify \/ SyncRefuse \/ PairRefuse \/ PairWrite \/ PairAnswer
  BY <1>4 DEF Connected, Identify, SyncRefuse, PairRefuse, PairWrite, PairAnswer,
              vars, camVars
<1>5. CASE SyncBegin
  BY <1>5 DEF SyncBegin
<1>6. CASE SessionOver \/ Interrupted
  BY <1>6 DEF SessionOver, Interrupted, vars, camVars
<1>7. CASE Disconnected
  BY <1>7 DEF Disconnected
<1>8. CASE Report
  BY <1>8 DEF Report, vars, camVars
<1>9. CASE InSession
  BY <1>9 DEF InSession, runVars
<1>10. CASE UNCHANGED syncVars
  BY <1>10 DEF syncVars, runVars, vars, camVars
<1>11. QED
  BY <1>1, <1>2, <1>3, <1>4, <1>5, <1>6, <1>7, <1>8, <1>9, <1>10
  DEF SyncNext, RunStep

\* The session has come to its end before the link goes down: between two runs
\* there is no link, and nothing is on its way (the async with of sync_location).
THEOREM LinkOutlivesSession == SyncSpec => []NoSessionWithoutLink
<1>1. SyncInit => LinkInv
  BY DEF SyncInit, Init, LinkInv, Unlinked
<1>2. LinkInv => NoSessionWithoutLink
  BY DEF LinkInv, Unlinked, NoSessionWithoutLink
<1>3. QED BY <1>1, <1>2, StepLink, PTL DEF SyncSpec

-----------------------------------------------------------------------------
(* Types.                                                                  *)

\* Whatever the resolution answers is a profile.
LEMMA ResolvedType ==
  ASSUME NEW i, NEW s
  PROVE  ResolveCompatibleProfile(i, s) \in Profiles
<1>1. UnsupportedProfile \in Profiles
  BY DEF UnsupportedProfile, Profiles
<1>2. \A k \in {"modern", "legacy"} : ProfileOf(k, s) \in Profiles
  BY DEF ProfileOf, Profiles, HasProperty
<1>3. ResolveVersionShape(i.version, s) \in Profiles
  BY <1>1, <1>2 DEF ResolveVersionShape
<1>4. ResolveLocationProfile(i.version, s) \in Profiles
  BY <1>1, <1>3 DEF ResolveLocationProfile
<1>5. QED BY <1>1, <1>4 DEF ResolveCompatibleProfile

\* What was shown stays known.
LEMMA KeysStayKnown ==
  ASSUME shown \subseteq shown', NEW o \in AllOptions(KnownKeys)
  PROVE  o \in AllOptions(KnownKeys')
<1>1. KnownKeys \subseteq KnownKeys'
  BY DEF KnownKeys
<1>2. QED BY <1>1 DEF AllOptions

\* What a run shows is added to what was shown.
LEMMA DisplayAdds == Display => shown \subseteq shown'
BY DEF Display

\* Every step keeps the types.
LEMMA StepSyncTyped == SyncTypeOK /\ [SyncNext]_syncVars => SyncTypeOK'
<1> SUFFICES ASSUME SyncTypeOK, [SyncNext]_syncVars
             PROVE  SyncTypeOK'
  OBVIOUS
<1>1. CASE \E o \in AllOptions(KnownKeys) : Invoke(o)
  <2> PICK o \in AllOptions(KnownKeys) : Invoke(o)
    BY <1>1
  <2>1. KnownKeys' = KnownKeys /\ options' = o
    BY DEF Invoke, KnownKeys
  <2>2. runs' \in 0 .. MaxRuns
    <3>1. runs \in 0 .. MaxRuns /\ runs < MaxRuns /\ runs' = runs + 1
      BY DEF Invoke, SyncTypeOK
    <3>2. MaxRuns \in Nat
      BY SyncAssumption
    <3>3. QED BY <3>1, <3>2
  <2>3. resolved' \in Profiles
    BY DEF Invoke, UnsupportedProfile, Profiles
  <2>4. identity'.firmware = NoFirmware
    BY DEF Invoke, NoIdentity
  <2>5. QED BY <2>1, <2>2, <2>3, <2>4 DEF Invoke, SyncTypeOK
<1>2. CASE \E c \in Cameras : ChangeCamera(c)
  BY <1>2 DEF ChangeCamera, SyncTypeOK, KnownKeys
<1>3. CASE ScanFinds \/ ScanFindsNothing \/ NoConnection \/ InterruptedUnlinked
           \/ Connected
  <2>1. exit' = exit \/ exit' \in {1, 2} \/ exit' \in Uncaught
    BY <1>3 DEF ScanFinds, ScanFindsNothing, NoConnection, InterruptedUnlinked, Connected
  <2>2. exit' \in {NoExit} \cup ExitCodes
    BY <2>1 DEF ExitCodes, SyncTypeOK
  <2>3. QED
    BY <1>3, <2>2 DEF ScanFinds, ScanFindsNothing, NoConnection, InterruptedUnlinked,
                      Connected, SyncTypeOK, KnownKeys
<1>4. CASE Identify
  <2>1. resolved' \in Profiles
    BY <1>4, ResolvedType DEF Identify
  <2>2. identity'.firmware \in {camera.firmware, NoFirmware}
    BY <1>4 DEF Identify
  <2>3. identity'.firmware \in {c.firmware : c \in Cameras} \cup {NoFirmware}
    BY <2>2 DEF SyncTypeOK
  <2>4. QED BY <1>4, <2>1, <2>3 DEF Identify, SyncTypeOK, KnownKeys
<1>5. CASE SyncRefuse \/ SyncBegin \/ PairRefuse \/ PairWrite \/ PairAnswer
  BY <1>5 DEF SyncRefuse, SyncBegin, PairRefuse, PairWrite, PairAnswer,
              SyncTypeOK, KnownKeys
<1>6. CASE SessionOver \/ Interrupted \/ Disconnected
  BY <1>6 DEF SessionOver, Interrupted, Disconnected, SyncTypeOK, KnownKeys
<1>7. CASE Report
  <2>1. shown \subseteq shown'
    BY <1>7, DisplayAdds DEF Report
  <2>2. options' \in AllOptions(KnownKeys')
    BY <1>7, <2>1, KeysStayKnown DEF Report, SyncTypeOK
  <2>3. exit' \in {NoExit} \cup ExitCodes
    <3>1. problem = "ble" => exit' \in {2}
      BY <1>7 DEF Report
    <3>2. problem = "other" => exit' \in Uncaught
      BY <1>7 DEF Report
    <3>3. problem = "none" => exit' \in {0} \/ exit' \in {3}
      BY <1>7 DEF Report
    <3>4. QED BY <3>1, <3>2, <3>3 DEF SyncTypeOK, ExitCodes
  <2>4. QED BY <1>7, <2>2, <2>3 DEF Report, SyncTypeOK
<1>8. CASE InSession
  BY <1>8 DEF InSession, runVars, SyncTypeOK, KnownKeys
<1>9. CASE UNCHANGED syncVars
  BY <1>9 DEF syncVars, runVars, SyncTypeOK, KnownKeys
<1>10. QED
  BY <1>1, <1>2, <1>3, <1>4, <1>5, <1>6, <1>7, <1>8, <1>9 DEF SyncNext, RunStep

\* The commands start typed.
LEMMA InitSyncTyped == SyncInit => SyncTypeOK
<1> SUFFICES ASSUME SyncInit
             PROVE  SyncTypeOK
  OBVIOUS
<1>1. options \in AllOptions(KnownKeys)
  BY DEF SyncInit, NoOptions, AllOptions, KnownKeys, Commands
<1>2. resolved \in Profiles /\ identity.firmware = NoFirmware
  BY DEF SyncInit, UnsupportedProfile, Profiles, NoIdentity
<1>3. runs \in 0 .. MaxRuns
  BY SyncAssumption DEF SyncInit
<1>4. QED BY <1>1, <1>2, <1>3 DEF SyncInit, SyncTypeOK

\* The commands stay within their types, and pass no key that was not shown.
THEOREM SyncTypes == SyncSpec => []SyncTypeOK
BY InitSyncTyped, StepSyncTyped, PTL DEF SyncSpec

-----------------------------------------------------------------------------
(* Approval.  A key says what it was shown for, the key of a run is about  *)
(* the camera it is connected to, and what a run writes it writes after    *)
(* the gate has compared the two.                                          *)

\* The key of what was shown.
KeyOf(s) == [model |-> s.model, firmware |-> s.firmware, version |-> s.version,
             profile |-> s.profile, purpose |-> s.purpose]

KeysSayWhatWasShown == \A s \in shown : s.key = KeyOf(s)

KeyIsForThisCamera ==
  required # NoKey =>
    /\ required = ApprovalKey(identity, resolved, Purpose(options.command))
    /\ stage # "ready" => /\ identity.firmware = camera.firmware
                          /\ identity.version = camera.version

NothingBeforeTheGate ==
  /\ stage \in {"scan", "connect", "identify", "gate"} => ~ran /\ ee01 = "none"
  /\ stage \in {"scan", "connect", "identify"} => required = NoKey

WritesAreApproved ==
  stage # "ready" /\ (ran \/ ee01 \in {"in flight", "ok"}) /\ NeedsApproval => Approved

PairingIsInFlight == stage = "pairing" => ee01 = "in flight"

ApprovalInv ==
  /\ KeysSayWhatWasShown
  /\ KeyIsForThisCamera
  /\ NothingBeforeTheGate
  /\ WritesAreApproved
  /\ PairingIsInFlight

\* The parts of the state the approval depends on.
approvalVars == <<options, camera, identity, resolved, required, shown>>

\* The run shows the key of what it shows.
LEMMA DisplayKeepsKeys ==
  ASSUME ApprovalInv, Display
  PROVE  KeysSayWhatWasShown'
<1> DEFINE s == [key |-> required, purpose |-> Purpose(options.command),
                 model |-> NormalizeModel(identity.model),
                 firmware |-> identity.firmware,
                 version |-> identity.version, profile |-> resolved]
<1>1. required # NoKey => s.key = KeyOf(s)
  BY DEF ApprovalInv, KeyIsForThisCamera, ApprovalKey, KeyOf
<1>2. shown' = IF required = NoKey THEN shown ELSE shown \cup {s}
  BY DEF Display
<1> HIDE DEF s
<1>3. QED BY <1>1, <1>2 DEF ApprovalInv, KeysSayWhatWasShown

\* The key of a run is for the camera it has identified.
LEMMA IdentifyKeepsKey ==
  ASSUME ApprovalInv, Identify
  PROVE  KeyIsForThisCamera'
<1>1. PICK m \in {camera.model, camera.name}, f \in {camera.firmware, NoFirmware} :
        identity' = [model |-> m, firmware |-> f, version |-> camera.version]
  BY DEF Identify
<1>2. identity'.firmware = f /\ identity'.version = camera.version
  BY <1>1
<1>3. required' # NoKey =>
        /\ identity'.firmware # NoFirmware
        /\ required' = ApprovalKey(identity', resolved', Purpose(options.command))
  BY DEF Identify
<1>4. UNCHANGED <<options, camera>>
  BY DEF Identify
<1>5. QED BY <1>2, <1>3, <1>4 DEF KeyIsForThisCamera

\* Steps that leave the approval alone.
LEMMA SameApproval ==
  ASSUME ApprovalInv, UNCHANGED approvalVars, stage # "ready",
         NothingBeforeTheGate', PairingIsInFlight',
         ran' \/ ee01' \in {"in flight", "ok"} =>
           ran \/ ee01 \in {"in flight", "ok"} \/ (NeedsApproval => Approved)
  PROVE  ApprovalInv'
BY DEF ApprovalInv, KeysSayWhatWasShown, KeyIsForThisCamera, WritesAreApproved,
       NeedsApproval, Approved, approvalVars

\* Every step keeps the account of the approvals.
LEMMA StepApproval == ApprovalInv /\ [SyncNext]_syncVars => ApprovalInv'
<1> SUFFICES ASSUME ApprovalInv, [SyncNext]_syncVars
             PROVE  ApprovalInv'
  OBVIOUS
<1>0. NothingBeforeTheGate /\ PairingIsInFlight
  BY DEF ApprovalInv
<1> USE DEF NothingBeforeTheGate, PairingIsInFlight
<1>1. CASE \E o \in AllOptions(KnownKeys) : Invoke(o)
  BY <1>1 DEF Invoke, ApprovalInv, KeysSayWhatWasShown, KeyIsForThisCamera,
              WritesAreApproved
<1>2. CASE \E c \in Cameras : ChangeCamera(c)
  BY <1>2 DEF ChangeCamera, ApprovalInv, KeysSayWhatWasShown, KeyIsForThisCamera,
              WritesAreApproved
<1>3. CASE ScanFinds \/ Connected
  <2>1. /\ UNCHANGED approvalVars /\ stage # "ready"
        /\ NothingBeforeTheGate' /\ PairingIsInFlight'
        /\ ran' \/ ee01' \in {"in flight", "ok"} => ran \/ ee01 \in {"in flight", "ok"}
    <3>1. CASE ScanFinds
      BY <1>0, <3>1 DEF ScanFinds, approvalVars
    <3>2. CASE Connected
      BY <1>0, <3>2 DEF Connected, approvalVars
    <3>3. QED BY <1>3, <3>1, <3>2
  <2>2. QED BY <2>1, SameApproval
<1>4. CASE ScanFindsNothing \/ NoConnection \/ InterruptedUnlinked
  <2>1. /\ UNCHANGED approvalVars /\ stage # "ready"
        /\ NothingBeforeTheGate' /\ PairingIsInFlight'
        /\ ran' \/ ee01' \in {"in flight", "ok"} => ran \/ ee01 \in {"in flight", "ok"}
    <3>1. CASE ScanFindsNothing
      BY <1>0, <3>1 DEF ScanFindsNothing, approvalVars
    <3>2. CASE NoConnection
      BY <1>0, <3>2 DEF NoConnection, approvalVars
    <3>3. CASE InterruptedUnlinked
      BY <1>0, <3>3 DEF InterruptedUnlinked, approvalVars
    <3>4. QED BY <1>4, <3>1, <3>2, <3>3
  <2>2. QED BY <2>1, SameApproval
<1>5. CASE Identify
  <2>1. KeysSayWhatWasShown'
    BY <1>5 DEF Identify, ApprovalInv, KeysSayWhatWasShown
  <2>2. KeyIsForThisCamera'
    BY <1>5, IdentifyKeepsKey
  <2>3. ~ran' /\ ee01' = "none" /\ stage' = "gate"
    BY <1>0, <1>5 DEF Identify
  <2>4. QED BY <2>1, <2>2, <2>3 DEF ApprovalInv, WritesAreApproved
<1>6. CASE SyncBegin
  <2>1. NeedsApproval => Approved
    BY <1>6 DEF SyncBegin, MayWrite
  <2>2. QED BY <1>6, <2>1, SameApproval DEF SyncBegin, approvalVars
<1>7. CASE PairWrite
  <2>1. NeedsApproval => Approved
    BY <1>7 DEF PairWrite, PairingError
  <2>2. QED BY <1>7, <2>1, SameApproval DEF PairWrite, approvalVars
<1>8. CASE SyncRefuse \/ PairRefuse
  <2>1. /\ UNCHANGED approvalVars /\ stage # "ready"
        /\ NothingBeforeTheGate' /\ PairingIsInFlight'
        /\ ran' \/ ee01' \in {"in flight", "ok"} => ran \/ ee01 \in {"in flight", "ok"}
    <3>1. CASE SyncRefuse
      BY <1>0, <3>1 DEF SyncRefuse, approvalVars
    <3>2. CASE PairRefuse
      BY <1>0, <3>2 DEF PairRefuse, approvalVars
    <3>3. QED BY <1>8, <3>1, <3>2
  <2>2. QED BY <2>1, SameApproval
<1>9. CASE PairAnswer
  BY <1>0, <1>9, SameApproval DEF PairAnswer, approvalVars
<1>10. CASE SessionOver \/ Interrupted \/ Disconnected
  <2>1. /\ UNCHANGED approvalVars /\ stage # "ready"
        /\ NothingBeforeTheGate' /\ PairingIsInFlight'
        /\ ran' \/ ee01' \in {"in flight", "ok"} => ran \/ ee01 \in {"in flight", "ok"}
    <3>1. CASE SessionOver
      BY <1>0, <3>1 DEF SessionOver, approvalVars
    <3>2. CASE Interrupted
      BY <1>0, <3>2 DEF Interrupted, approvalVars
    <3>3. CASE Disconnected
      BY <1>0, <3>3 DEF Disconnected, approvalVars
    <3>4. QED BY <1>10, <3>1, <3>2, <3>3
  <2>2. QED BY <2>1, SameApproval
<1>11. CASE Report
  <2>1. KeysSayWhatWasShown'
    BY <1>11, DisplayKeepsKeys DEF Report, ApprovalInv, KeysSayWhatWasShown
  <2>2. QED BY <1>11, <2>1 DEF Report, ApprovalInv, KeyIsForThisCamera, WritesAreApproved
<1>12. CASE InSession
  BY <1>0, <1>12, SameApproval DEF InSession, runVars, approvalVars
<1>13. CASE UNCHANGED syncVars
  BY <1>13 DEF syncVars, runVars, ApprovalInv, KeysSayWhatWasShown, KeyIsForThisCamera,
               WritesAreApproved, NeedsApproval, Approved
<1>14. QED
  BY <1>1, <1>2, <1>3, <1>4, <1>5, <1>6, <1>7, <1>8, <1>9, <1>10, <1>11, <1>12, <1>13
  DEF SyncNext, RunStep

\* What was approved was shown for this camera, this command and this plan.
LEMMA ApprovalInvSuffices == SyncTypeOK /\ ApprovalInv => WritesWereShown
<1> SUFFICES ASSUME SyncTypeOK, ApprovalInv, stage # "ready", HasWritten, NeedsApproval
             PROVE  /\ options.allow
                    /\ \E s \in shown :
                         /\ s.key = options.key
                         /\ s.purpose = Purpose(options.command)
                         /\ s.model = NormalizeModel(identity.model)
                         /\ s.firmware = camera.firmware
                         /\ s.version = camera.version
                         /\ s.profile = resolved
  BY DEF WritesWereShown
<1>1. options.allow /\ required # NoKey /\ options.key = required
  BY DEF ApprovalInv, WritesAreApproved, HasWritten, Approved
<1>2. /\ required = ApprovalKey(identity, resolved, Purpose(options.command))
      /\ identity.firmware = camera.firmware /\ identity.version = camera.version
  BY <1>1 DEF ApprovalInv, KeyIsForThisCamera
<1>3. options.key \in KnownKeys
  BY DEF SyncTypeOK, AllOptions
<1>4. PICK s \in shown : s.key = required
  BY <1>1, <1>3 DEF KnownKeys
<1>5. KeyOf(s) = ApprovalKey(identity, resolved, Purpose(options.command))
  BY <1>2, <1>4 DEF ApprovalInv, KeysSayWhatWasShown
<1>6. /\ KeyOf(s).model = s.model /\ KeyOf(s).firmware = s.firmware
      /\ KeyOf(s).version = s.version /\ KeyOf(s).profile = s.profile
      /\ KeyOf(s).purpose = s.purpose
  BY DEF KeyOf
<1> DEFINE k == ApprovalKey(identity, resolved, Purpose(options.command))
<1>7. /\ k.model = NormalizeModel(identity.model) /\ k.firmware = identity.firmware
      /\ k.version = identity.version /\ k.profile = resolved
      /\ k.purpose = Purpose(options.command)
  BY DEF ApprovalKey
<1>8. QED BY <1>1, <1>2, <1>4, <1>5, <1>6, <1>7

\* What a run writes to a camera that needs an approval was shown to the caller
\* before, for the same command, model, firmware, version and profile.
THEOREM NothingWrittenUnseen == SyncSpec => []WritesWereShown
<1>1. SyncInit => ApprovalInv
  BY DEF SyncInit, ApprovalInv, KeysSayWhatWasShown, KeyIsForThisCamera,
         NothingBeforeTheGate, WritesAreApproved, PairingIsInFlight
<1>2. SyncSpec => []ApprovalInv
  BY <1>1, StepApproval, PTL DEF SyncSpec
<1>3. QED BY <1>2, SyncTypes, ApprovalInvSuffices, PTL

-----------------------------------------------------------------------------
(* The session inside a run.  Its invariants survive what happens to link  *)
(* and camera between two sessions.                                        *)

\* A packet was only sent after a setup that succeeded.
SentAfterSetup == packets > 0 => RequiredSetupSucceeded(profile, confirmed)

SessionInv == Typed /\ ReleaseInv /\ LoopInv /\ BodyInv /\ SentAfterSetup

\* The variables of a session that the world outside leaves alone.
ownVars == <<pc, todo, stateVars, loopVars, endVars, issued>>

\* Between two sessions controls may be reset and requests lost.
LEMMA AtRest ==
  ASSUME SessionInv, pc \in {"idle", "ended"}, UNCHANGED ownVars,
         cam' \in {cam, [x \in Controls |-> "off"]}, air' \in {air, <<>>}
  PROVE  SessionInv'
<1>1. /\ UNCHANGED <<pc, todo, issued, profile, maybe, confirmed, mode>>
      /\ UNCHANGED <<packets, completed, left, diag, raised, taskEnd, absorbed, cancels>>
  BY DEF ownVars, stateVars, loopVars, endVars
<1>2. /\ cam \in [Controls -> {"on", "off"}] /\ air \in Seq(ControlWrites)
      /\ <<>> \in Seq(ControlWrites)
  BY DEF SessionInv, Typed, TypeOK
<1>3. cam' \in [Controls -> {"on", "off"}] /\ air' \in Seq(ControlWrites)
  BY <1>2
<1>4. Typed'
  BY <1>1, <1>3 DEF SessionInv, Typed, TypeOK, PlanShape
<1>5. ASSUME NEW c \in Controls, Released(c)
      PROVE  Released(c)'
  BY <1>5 DEF Released, OnAir
<1>6. maybe \subseteq Controls
  BY DEF SessionInv, Typed, TypeOK
<1>7. ReleaseInv'
  BY <1>1, <1>5, <1>6
  DEF SessionInv, ReleaseInv, NoErrorBeforeCleanup, ReleaseProgress,
      TaskLeavesNothing, Body, Closing
<1>8. LoopInv'
  BY <1>1 DEF SessionInv, LoopInv, BeforeLoop, InLoop, PacketBudget, WindowServed, Room
<1>9. BodyInv'
  BY <1>1 DEF SessionInv, BodyInv, WaitedFor, Body
<1>10. SentAfterSetup'
  BY <1>1 DEF SessionInv, SentAfterSetup
<1>11. QED BY <1>4, <1>7, <1>8, <1>9, <1>10 DEF SessionInv

\* Nothing is confirmed less than before, and only the loop sends packets.
LEMMA StepSent ==
  ASSUME SessionInv, SessionStep \/ Cancellation \/ Land
  PROVE  /\ SentAfterSetup'
         /\ profile' = profile
         /\ pc # "idle" => pc' # "idle"
<1>1. CASE SetupIssue \/ SetupOk \/ SetupMode \/ SetupModeRejected \/ SetupFails
           \/ SetupDone
  BY <1>1 DEF SetupIssue, SetupOk, SetupMode, SetupModeRejected, SetupFails, SetupDone,
              BeginCleanup, stateVars, loopVars, SessionInv, SentAfterSetup,
              RequiredSetupSucceeded
<1>2. CASE LoopComplete \/ LoopIssue \/ LoopFails \/ BodyRaises \/ CancelBody
  BY <1>2 DEF LoopComplete, LoopIssue, LoopFails, BodyRaises, CancelBody, BeginCleanup,
              stateVars, loopVars, SessionInv, SentAfterSetup
<1>3. ASSUME NEW d \in 0 .. MaxDelay, LoopOk(d) \/ SleepEnds(d)
      PROVE  /\ SentAfterSetup'
             /\ profile' = profile
             /\ pc # "idle" => pc' # "idle"
  <2>1. RequiredSetupSucceeded(profile, confirmed)
    BY <1>3 DEF LoopOk, SleepEnds, SessionInv, BodyInv
  <2>2. UNCHANGED stateVars /\ pc' # "idle"
    BY <1>3 DEF LoopOk, SleepEnds, BeginCleanup
  <2>3. QED BY <2>1, <2>2 DEF SentAfterSetup, stateVars
<1>4. CASE CleanupIssue \/ CleanupOk \/ CleanupFails \/ CleanupDone \/ CleanupRaises
           \/ Return
  BY <1>4 DEF CleanupIssue, CleanupOk, CleanupFails, CleanupDone, CleanupRaises, Return,
              stateVars, loopVars, SessionInv, SentAfterSetup
<1>5. CASE CancelCleanup \/ KillCleanup \/ Land
  BY <1>5 DEF CancelCleanup, KillCleanup, Land, stateVars, loopVars, SessionInv,
              SentAfterSetup
<1>6. QED BY <1>1, <1>2, <1>3, <1>4, <1>5 DEF SessionStep, Cancellation

\* What a step of a session keeps.
LEMMA StepSession ==
  ASSUME SessionInv,
         (SessionStep \/ Cancellation \/ Land)
           \/ (\E p \in Profiles : SessionStart(p)) \/ UNCHANGED vars
  PROVE  SessionInv'
<1>1. [Next]_vars
  BY DEF Next
<1>2. Typed' /\ ReleaseInv' /\ LoopInv' /\ BodyInv'
  BY <1>1, StepTyped, StepRelease, StepServes, StepBody DEF SessionInv
<1>3. SentAfterSetup'
  <2>1. CASE SessionStep \/ Cancellation \/ Land
    BY <2>1, StepSent
  <2>2. CASE \E p \in Profiles : SessionStart(p)
    BY <2>2 DEF SessionStart, SentAfterSetup
  <2>3. CASE UNCHANGED vars
    BY <2>3 DEF vars, stateVars, loopVars, SessionInv, SentAfterSetup
  <2>4. QED BY <2>1, <2>2, <2>3
<1>4. QED BY <1>2, <1>3 DEF SessionInv

\* A step of the commands is one of a session, or finds it at rest.
LEMMA StepSessionInside ==
  SyncTypeOK /\ SessionInv /\ LinkInv /\ [SyncNext]_syncVars => SessionInv'
<1> SUFFICES ASSUME SyncTypeOK, SessionInv, LinkInv, [SyncNext]_syncVars
             PROVE  SessionInv'
  OBVIOUS
<1>1. CASE \E c \in Cameras : ChangeCamera(c)
  <2>1. pc \in {"idle", "ended"}
    BY <1>1 DEF ChangeCamera, LinkInv
  <2>2. /\ UNCHANGED ownVars /\ air' = air
        /\ cam' \in {cam, [x \in Controls |-> "off"]}
    BY <1>1 DEF ChangeCamera, ownVars
  <2>3. QED BY <2>1, <2>2, AtRest
<1>2. CASE Disconnected
  <2>1. pc \in {"idle", "ended"}
    BY <1>2 DEF Disconnected, LinkInv
  <2>2. UNCHANGED ownVars /\ air' = <<>> /\ cam' = cam
    BY <1>2 DEF Disconnected, ownVars
  <2>3. QED BY <2>1, <2>2, AtRest
<1>3. CASE SyncBegin
  <2>1. resolved \in Profiles /\ SessionStart(resolved)
    BY <1>3 DEF SyncBegin, SyncTypeOK
  <2>2. QED BY <2>1, StepSession
<1>4. CASE InSession
  BY <1>4, StepSession DEF InSession
<1>5. CASE UNCHANGED syncVars
  BY <1>5, StepSession DEF syncVars
<1>6. CASE \E o \in AllOptions(KnownKeys) : Invoke(o)
  BY <1>6, StepSession DEF Invoke
<1>7. CASE ScanFinds \/ ScanFindsNothing \/ NoConnection \/ Connected \/ Identify
  BY <1>7, StepSession DEF ScanFinds, ScanFindsNothing, NoConnection, Connected, Identify
<1>8. CASE SyncRefuse \/ PairRefuse \/ PairWrite \/ PairAnswer
  BY <1>8, StepSession DEF SyncRefuse, PairRefuse, PairWrite, PairAnswer
<1>9. CASE SessionOver \/ Interrupted \/ InterruptedUnlinked \/ Report
  BY <1>9, StepSession DEF SessionOver, Interrupted, InterruptedUnlinked, Report
<1>10. QED
  BY <1>1, <1>2, <1>3, <1>4, <1>5, <1>6, <1>7, <1>8, <1>9 DEF SyncNext, RunStep

\* Every run of a command has its session within the session's invariants.
LEMMA SessionsInside == SyncSpec => [](SyncTypeOK /\ LinkInv /\ SessionInv)
<1>1. SyncInit => SyncTypeOK
  BY InitSyncTyped
<1>2. SyncInit => LinkInv
  BY DEF SyncInit, Init, LinkInv, Unlinked
<1>3. SyncInit => SessionInv
  <2> SUFFICES ASSUME Init
               PROVE  SessionInv
    BY DEF SyncInit
  <2>1. Typed /\ BodyInv
    BY InitTyped, InitBody
  <2>2. ReleaseInv
    BY DEF Init, ReleaseInv, NoErrorBeforeCleanup, ReleaseProgress,
           TaskLeavesNothing, Body, Closing
  <2>3. LoopInv /\ SentAfterSetup
    BY DEF Init, LoopInv, BeforeLoop, InLoop, PacketBudget, WindowServed, SentAfterSetup
  <2>4. QED BY <2>1, <2>2, <2>3 DEF SessionInv
<1>4. SyncTypeOK /\ LinkInv /\ SessionInv /\ [SyncNext]_syncVars
        => (SyncTypeOK /\ LinkInv /\ SessionInv)'
  BY StepSyncTyped, StepLink, StepSessionInside
<1>5. QED BY <1>1, <1>2, <1>3, <1>4, PTL DEF SyncSpec

-----------------------------------------------------------------------------
(* The exit code.  A run that has had a session says so by its outcome.    *)

SessionOfThisRun ==
  /\ ran => options.command = "send-location" /\ profile = resolved
  /\ stage = "session" => ran
  /\ stage = "pairing" => options.command = "pair-init"

OutcomeIsKnown ==
  ran /\ stage # "session" => pc = "ended" /\ (problem = "none" => ~raised)

ZeroIsSuccess ==
  stage = "ready" /\ exit = 0 /\ options.command = "send-location" =>
    ran /\ Success /\ problem = "none"

OutcomeInv == SessionOfThisRun /\ OutcomeIsKnown /\ ZeroIsSuccess

\* Every step keeps what a run knows of its session.
LEMMA StepOutcome ==
  SyncTypeOK /\ SessionInv /\ NothingBeforeTheGate /\ OutcomeInv /\ [SyncNext]_syncVars
    => OutcomeInv'
<1> SUFFICES ASSUME SyncTypeOK, SessionInv, NothingBeforeTheGate, OutcomeInv,
                    [SyncNext]_syncVars
             PROVE  OutcomeInv'
  OBVIOUS
<1> USE DEF OutcomeInv, SessionOfThisRun, OutcomeIsKnown, ZeroIsSuccess
<1>1. CASE \E o \in AllOptions(KnownKeys) : Invoke(o)
  BY <1>1 DEF Invoke
<1>2. CASE \E c \in Cameras : ChangeCamera(c)
  BY <1>2 DEF ChangeCamera, stateVars, loopVars, endVars, Success
<1>3. CASE ScanFinds
  BY <1>3 DEF ScanFinds, NothingBeforeTheGate
<1>4. CASE ScanFindsNothing
  BY <1>4 DEF ScanFindsNothing, NothingBeforeTheGate
<1>5. CASE NoConnection
  BY <1>5 DEF NoConnection, NothingBeforeTheGate
<1>6. CASE Connected
  BY <1>6 DEF Connected, NothingBeforeTheGate
<1>7. CASE Identify
  BY <1>7 DEF Identify, NothingBeforeTheGate
<1>8. CASE SyncRefuse
  BY <1>8 DEF SyncRefuse, NothingBeforeTheGate
<1>9. CASE SyncBegin
  BY <1>9 DEF SyncBegin, SessionStart
<1>10. CASE PairRefuse
  BY <1>10 DEF PairRefuse, NothingBeforeTheGate
<1>11. CASE PairWrite
  BY <1>11 DEF PairWrite, NothingBeforeTheGate
<1>12. CASE PairAnswer
  BY <1>12 DEF PairAnswer
<1>13. CASE SessionOver
  BY <1>13 DEF SessionOver, vars, stateVars, endVars
<1>14. CASE Interrupted
  BY <1>14 DEF Interrupted, NothingBeforeTheGate
<1>15. CASE InterruptedUnlinked
  BY <1>15 DEF InterruptedUnlinked, Uncaught, NothingBeforeTheGate
<1>16. CASE Disconnected
  BY <1>16 DEF Disconnected, stateVars, endVars
<1>17. CASE Report
  <2>1. problem \in {"none", "ble", "other"}
    BY DEF SyncTypeOK
  <2>2. /\ exit' = 0 => problem = "none" /\ RunSucceeded
        /\ stage = "report" /\ stage' = "ready"
    BY <1>17, <2>1 DEF Report, Uncaught
  <2>3. exit' = 0 /\ options.command = "send-location" => ran /\ Success
    BY <2>2 DEF RunSucceeded
  <2>4. UNCHANGED <<vars, options, resolved, ran, problem>>
    BY <1>17 DEF Report
  <2>5. UNCHANGED <<pc, profile, raised, packets, completed, diag>>
    BY <2>4 DEF vars, stateVars, loopVars, endVars
  <2>6. QED BY <2>2, <2>3, <2>4, <2>5 DEF Success
<1>18. CASE InSession
  <2>1. UNCHANGED <<stage, options, resolved, ran, problem, exit>> /\ stage = "session"
    BY <1>18 DEF InSession, runVars
  <2>2. profile' = profile
    BY <1>18, StepSent DEF InSession
  <2>3. QED BY <2>1, <2>2
<1>19. CASE UNCHANGED syncVars
  BY <1>19 DEF syncVars, runVars, vars, stateVars, loopVars, endVars, Success
<1>20. QED
  BY <1>1, <1>2, <1>3, <1>4, <1>5, <1>6, <1>7, <1>8, <1>9, <1>10, <1>11, <1>12,
     <1>13, <1>14, <1>15, <1>16, <1>17, <1>18, <1>19
  DEF SyncNext, RunStep

\* A session that succeeds leaves no control on, and a modern one has had both.
LEMMA SuccessHoldsNothing ==
  ASSUME SessionInv, pc = "ended", ~raised, Success
  PROVE  /\ packets > 0 /\ left = 0
         /\ Held = {}
         /\ profile.kind = "modern" => \A c \in RequiredControls : cam[c] = "off"
<1>1. packets > 0 /\ left = 0
  BY DEF Success, SessionInv, LoopInv, WindowServed
<1>2. Held = {}
  BY ReleaseInvSuffices DEF Success, SessionInv, NoSilentHold
<1>3. ASSUME profile.kind = "modern", NEW c \in RequiredControls
      PROVE  cam[c] = "off"
  <2>1. RequiredControls \subseteq confirmed
    BY <1>1, <1>3 DEF SessionInv, SentAfterSetup, RequiredSetupSucceeded
  <2>2. c \in maybe /\ c \in Controls
    BY <2>1 DEF SessionInv, BodyInv, RequiredControls, Controls
  <2>3. cam[c] # "on"
    BY <1>2, <2>2 DEF Held
  <2>4. cam \in [Controls -> {"on", "off"}]
    BY DEF SessionInv, Typed, TypeOK
  <2>5. QED BY <2>2, <2>3, <2>4
<1>4. QED BY <1>1, <1>2, <1>3

\* The account of a whole run.
LEMMA RunAccount == SyncSpec => [](SyncTypeOK /\ SessionInv /\ OutcomeInv)
<1>1. SyncInit => OutcomeInv
  BY DEF SyncInit, OutcomeInv, SessionOfThisRun, OutcomeIsKnown, ZeroIsSuccess, NoExit
<1>2. SyncInit => ApprovalInv
  BY DEF SyncInit, ApprovalInv, KeysSayWhatWasShown, KeyIsForThisCamera,
         NothingBeforeTheGate, WritesAreApproved, PairingIsInFlight
<1>3. ApprovalInv => NothingBeforeTheGate
  BY DEF ApprovalInv
<1>4. QED BY <1>1, <1>2, <1>3, SessionsInside, StepApproval, StepOutcome, PTL DEF SyncSpec

\* Exit code 0 of send-location: the camera has taken a packet, the window was
\* served, and the controls are off, whatever an earlier run had left behind.
THEOREM ZeroMeansDone == SyncSpec => []ExitZeroMeansDone
<1>1. SessionInv /\ OutcomeInv => ExitZeroMeansDone
  <2> SUFFICES ASSUME SessionInv, OutcomeInv, stage = "ready", exit = 0,
                      options.command = "send-location"
               PROVE  /\ ran /\ packets > 0 /\ left = 0
                      /\ Held = {}
                      /\ resolved.kind = "modern" =>
                           \A c \in RequiredControls : cam[c] = "off"
    BY DEF ExitZeroMeansDone
  <2>1. ran /\ Success /\ problem = "none"
    BY DEF OutcomeInv, ZeroIsSuccess
  <2>2. pc = "ended" /\ ~raised /\ profile = resolved
    BY <2>1 DEF OutcomeInv, OutcomeIsKnown, SessionOfThisRun
  <2>3. QED BY <2>1, <2>2, SuccessHoldsNothing
<1>2. QED BY <1>1, RunAccount, PTL

\* A run that may have left a control switched on does not report success.
THEOREM LeftoversAreReported == SyncSpec => LeftoversReported
<1>1. SyncTypeOK /\ SessionInv /\ OutcomeInv /\ [SyncNext]_syncVars =>
        [stage = "report" /\ ran /\ Held # {} => exit' # 0]_syncVars
  <2> SUFFICES ASSUME SyncTypeOK, SessionInv, OutcomeInv, SyncNext,
                      stage = "report", ran, Held # {}
               PROVE  exit' # 0
    OBVIOUS
  <2>1. Report
    BY DEF SyncNext, RunStep, Invoke, ChangeCamera, ScanFinds, ScanFindsNothing,
           NoConnection, Connected, Identify, SyncRefuse, SyncBegin, PairRefuse,
           PairWrite, PairAnswer, SessionOver, Interrupted, InterruptedUnlinked,
           Disconnected, InSession
  <2>2. CASE problem = "none"
    <3>1. options.command = "send-location" /\ pc = "ended" /\ ~raised
      BY <2>2 DEF OutcomeInv, SessionOfThisRun, OutcomeIsKnown
    <3>2. ~Success
      BY <3>1, SuccessHoldsNothing
    <3>3. ~RunSucceeded
      BY <3>1, <3>2 DEF RunSucceeded
    <3>4. QED BY <2>1, <2>2, <3>3 DEF Report
  <2>3. CASE problem = "ble"
    <3>1. exit' \in {2}
      BY <2>1, <2>3 DEF Report
    <3>2. QED BY <3>1
  <2>4. CASE problem = "other"
    <3>1. exit' \in Uncaught
      BY <2>1, <2>4 DEF Report
    <3>2. QED BY <3>1 DEF Uncaught
  <2>5. QED BY <2>2, <2>3, <2>4 DEF SyncTypeOK
<1>2. QED BY <1>1, RunAccount, PTL DEF SyncSpec, LeftoversReported
=============================================================================
