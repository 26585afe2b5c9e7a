------------------------- MODULE CameraMonitor_proofs -------------------------
(***************************************************************************)
(* Theorems about CameraMonitor for any cameras, duration, number of polls, *)
(* pauses, delays and number of failures.                                  *)
(***************************************************************************)
EXTENDS CameraMonitor, FiniteSetTheorems, TLAPS

-----------------------------------------------------------------------------
(* Types.                                                                  *)

Readings == [static : Source, dynamic : Source]
Updates == [phase : Phases \cup {"none"}, device : Cameras \cup {NoCamera},
            readings : Readings, poll_count : Nat, alive : BOOLEAN]

MonitorTyped ==
  /\ duration \in Durations
  /\ pc \in {"top", "scan", "connect", "static", "inner", "poll", "pause", "leave",
             "retry", "stopped", "closed", "raised"}
  /\ left \in Nat
  /\ poll_count \in Nat
  /\ last_device \in Cameras \cup {NoCamera}
  /\ last_readings \in Readings
  /\ static_readings \in Source
  /\ link \in BOOLEAN
  /\ reason \in {"none", "done", "lost", "raised"}
  /\ drops \in 0 .. MaxDrops
  /\ update \in Updates

\* The type invariant, with its sets of records under names.
LEMMA TypedIsTypeOK == MonitorTyped <=> MonitorTypeOK
BY DEF MonitorTyped, MonitorTypeOK, Readings, Updates

\* Sources that are there from the beginning.
LEMMA NowhereTyped ==
  /\ Nowhere \in Source
  /\ NoReadings \in Readings
  /\ MaxDrops \in Nat
  /\ \A d \in 0 .. MaxDelay : d \in Nat
BY MonitorAssumption DEF Nowhere, NoReadings, Source, Readings

\* Time passes to the end of the duration and not beyond.
LEMMA ElapseTyped ==
  ASSUME left \in Nat, duration \in Durations, NEW d \in Nat, Elapse(d)
  PROVE  left' \in Nat /\ (Timed => left' <= left)
BY MonitorAssumption DEF Elapse, Timed, NoLimit

\* A pause is as long as it was asked to be, or as the time that is left.
LEMMA BoundedTyped ==
  ASSUME left \in Nat, NEW delay \in Nat
  PROVE  Bounded(delay) \in Nat
BY DEF Bounded, Earliest

\* The pauses of the monitor are numbers of ticks.
LEMMA PausesTyped == Interval \in Nat /\ Earliest(Interval, RetryCap) \in Nat
BY MonitorAssumption DEF Earliest

\* What an answer reads from has the type of a source.
LEMMA AnswersTyped ==
  ASSUME MonitorTyped
  PROVE  Answers \subseteq Source
BY NowhereTyped DEF MonitorTyped, Answers, Source

\* An update shows what the variables hold.
LEMMA EmitTyped ==
  ASSUME MonitorTyped, NEW phase \in Phases, Emit(phase),
         last_device' \in Cameras \cup {NoCamera}, last_readings' \in Readings,
         poll_count' \in Nat, link' \in BOOLEAN
  PROVE  update' \in Updates
BY DEF MonitorTyped, Emit, Updates

\* A monitor starts with the right types.
LEMMA InitMonitorTyped == Init => MonitorTyped
<1> SUFFICES ASSUME Init
             PROVE  MonitorTyped
  OBVIOUS
<1>1. left \in Nat
  BY MonitorAssumption DEF Init, Timed, NoLimit
<1>2. update \in Updates
  BY NowhereTyped DEF Init, Updates
<1>3. 0 \in 0 .. MaxDrops /\ Nowhere \in Source /\ NoReadings \in Readings
  BY NowhereTyped
<1>4. /\ last_readings \in Readings /\ static_readings \in Source
      /\ drops \in 0 .. MaxDrops
  BY <1>3 DEF Init
<1>5. QED BY <1>1, <1>2, <1>4 DEF Init, MonitorTyped

\* Every step keeps them.
LEMMA StepMonitorTyped == MonitorTyped /\ [Next]_vars => MonitorTyped'
<1> SUFFICES ASSUME MonitorTyped, [Next]_vars
             PROVE  MonitorTyped'
  OBVIOUS
<1>1. /\ left \in Nat /\ duration \in Durations /\ poll_count \in Nat
      /\ last_device \in Cameras \cup {NoCamera} /\ last_readings \in Readings
      /\ update \in Updates /\ static_readings \in Source
      /\ drops \in 0 .. MaxDrops /\ link \in BOOLEAN
  BY DEF MonitorTyped
<1>2. MayFail => drops + 1 \in 0 .. MaxDrops
  BY <1>1, NowhereTyped DEF MayFail
<1>3. UNCHANGED vars \/ UNCHANGED duration
  BY DEF Next, MonitorStep
<1>4. \A phase \in Phases :
        /\ Emit(phase)
        /\ last_device' \in Cameras \cup {NoCamera} /\ last_readings' \in Readings
        /\ poll_count' \in Nat /\ link' \in BOOLEAN
        => update' \in Updates
  BY EmitTyped
<1>5. \A n \in Nat : Elapse(n) => left' \in Nat
  BY <1>1, ElapseTyped
<1>6. \A d \in 0 .. MaxDelay :
        d \in Nat /\ Bounded(Interval) + d \in Nat
                  /\ Bounded(Earliest(Interval, RetryCap)) + d \in Nat
  <2>1. Bounded(Interval) \in Nat /\ Bounded(Earliest(Interval, RetryCap)) \in Nat
    BY <1>1, BoundedTyped, PausesTyped
  <2>2. QED BY <2>1, NowhereTyped
<1>7. /\ {"scanning", "connecting", "connected", "disconnected", "stopped"} \subseteq Phases
  BY DEF Phases
<1>8. \A answer \in Answers :
        [static |-> static_readings, dynamic |-> answer] \in Readings
  BY <1>1, AnswersTyped DEF Readings
<1>9. CASE UNCHANGED duration /\ (Scan \/ Stop)
  BY <1>1, <1>4, <1>7, <1>9 DEF Scan, Stop, MonitorTyped
<1>10. ASSUME NEW d \in 0 .. MaxDelay, UNCHANGED duration, ScanFails(d) \/ ConnectFails(d)
       PROVE  MonitorTyped'
  BY <1>1, <1>2, <1>4, <1>5, <1>6, <1>7, <1>10 DEF ScanFails, ConnectFails, MonitorTyped
<1>11. ASSUME NEW d \in 0 .. MaxDelay, NEW c \in Cameras, UNCHANGED duration,
              ScanFinds(d, c)
       PROVE  MonitorTyped'
  BY <1>1, <1>4, <1>5, <1>6, <1>7, <1>11 DEF ScanFinds, MonitorTyped
<1>12. ASSUME NEW d \in 0 .. MaxDelay, UNCHANGED duration,
              Connects(d) \/ RetryEnds(d) \/ PauseEnds(d)
       PROVE  MonitorTyped'
  BY <1>1, <1>5, <1>6, <1>12 DEF Connects, RetryEnds, PauseEnds, MonitorTyped
<1>13. ASSUME NEW d \in 0 .. MaxDelay, UNCHANGED duration, ReadStatic(d)
       PROVE  MonitorTyped'
  <2>1. static_readings' \in Source
    BY <1>13, AnswersTyped DEF ReadStatic
  <2>2. QED BY <1>1, <1>5, <1>6, <1>13, <2>1 DEF ReadStatic, MonitorTyped
<1>14. ASSUME NEW d \in 0 .. MaxDelay, UNCHANGED duration, Poll(d)
       PROVE  MonitorTyped'
  <2>1. link' \in BOOLEAN
    <3>1. link' \in {link} \cup (IF MayFail THEN {FALSE} ELSE {})
      BY <1>14 DEF Poll
    <3>2. QED BY <1>1, <3>1
  <2>2. /\ last_readings' \in Readings /\ poll_count' \in Nat /\ left' \in Nat
        /\ link' \in BOOLEAN
    BY <1>1, <1>5, <1>6, <1>8, <1>14, <2>1 DEF Poll
  <2>3. update' \in Updates
    BY <1>1, <1>4, <1>7, <1>14, <2>2 DEF Poll
  <2>4. /\ pc' \in {"leave", "pause"} /\ reason' \in {"done", reason}
        /\ UNCHANGED <<last_device, static_readings, drops>>
    BY <1>14 DEF Poll
  <2>5. QED BY <1>1, <1>14, <2>2, <2>3, <2>4 DEF MonitorTyped
<1>15. CASE UNCHANGED duration /\ (BeginPoll \/ Leave \/ LeaveRaised \/ Exit)
  BY <1>1, <1>15 DEF BeginPoll, Leave, LeaveRaised, Exit, MonitorTyped
<1>16. CASE UNCHANGED duration /\ LeaveLost
  BY <1>1, <1>2, <1>4, <1>7, <1>16 DEF LeaveLost, MonitorTyped
<1>17. CASE UNCHANGED duration /\ (LinkLost \/ Quit)
  BY <1>1, <1>17 DEF LinkLost, Quit, MonitorTyped
<1>18. CASE UNCHANGED vars
  BY <1>1, <1>18 DEF vars, MonitorTyped
<1>19. QED
  BY <1>9, <1>10, <1>11, <1>12, <1>13, <1>14, <1>15, <1>16, <1>17, <1>18
  DEF Next, MonitorStep

\* A monitor keeps its types, whatever it is asked for and whatever fails.
THEOREM MonitorTypes == Spec => []MonitorTypeOK
BY InitMonitorTyped, StepMonitorTyped, TypedIsTypeOK, PTL DEF Spec

-----------------------------------------------------------------------------
(* Fresh readings.  What a connection has read names the connection, so    *)
(* values of two connections differ; the readings kept between polls come  *)
(* from at most one.                                                       *)

\* The source of everything this connection reads.
Here == [camera |-> last_device, connection |-> drops]

\* Readings of a single source, as far as there are any.
OneSource(r) == r.static = r.dynamic \/ r.static = Nowhere \/ r.dynamic = Nowhere

FreshInv ==
  /\ pc \in {"inner", "poll", "pause"} => static_readings \in {Nowhere, Here}
  /\ OneSource(last_readings)
  /\ OneSource(update.readings)
  /\ update.phase = "connected" =>
       LET shown == [camera |-> update.device, connection |-> drops]
       IN  /\ update.readings.static \in {Nowhere, shown}
           /\ update.readings.dynamic \in {Nowhere, shown}

\* Two elements of which one is left out, or that are the same, are one.
LEMMA AtMostOne ==
  ASSUME NEW a, NEW b, NEW n, a = b \/ a = n \/ b = n
  PROVE  Cardinality({a, b} \ {n}) <= 1
<1>1. CASE {a, b} \ {n} = {}
  BY <1>1, FS_EmptySet
<1>2. CASE {a, b} \ {n} # {}
  <2>1. PICK x : {a, b} \ {n} = {x}
    BY <1>2
  <2>2. Cardinality({x}) = 1
    BY FS_Singleton
  <2>3. QED BY <2>1, <2>2
<1>3. QED BY <1>1, <1>2

\* The invariant says what was to be shown.
LEMMA FreshInvSuffices == FreshInv => FreshReadings
<1> SUFFICES ASSUME FreshInv
             PROVE  FreshReadings
  OBVIOUS
<1> DEFINE shown == {update.readings.static, update.readings.dynamic} \ {Nowhere}
<1>1. Cardinality(shown) <= 1
  BY AtMostOne DEF FreshInv, OneSource
<1>2. update.phase = "connected" =>
        shown \subseteq {[camera |-> update.device, connection |-> drops]}
  BY DEF FreshInv
<1>3. QED BY <1>1, <1>2 DEF FreshReadings

\* A monitor that starts has no readings.
LEMMA InitFresh == Init => FreshInv
BY DEF Init, FreshInv, OneSource, NoReadings

\* A poll joins what this connection has read, and nothing else.
LEMMA PollFresh ==
  ASSUME MonitorTyped, FreshInv, NEW d \in 0 .. MaxDelay, Poll(d)
  PROVE  FreshInv'
<1>1. /\ pc = "poll" /\ pc' \in {"leave", "pause"}
      /\ UNCHANGED <<last_device, static_readings, drops>>
  BY DEF Poll
<1>2. static_readings \in {Nowhere, Here} /\ Here' = Here
  BY <1>1 DEF FreshInv, Here
<1>3. PICK answer \in {Nowhere, Here} :
        last_readings' = [static |-> static_readings, dynamic |-> answer]
  BY DEF Poll, Answers, Here
<1>4. OneSource(last_readings')
  BY <1>2, <1>3 DEF OneSource
<1>5. /\ update'.readings = last_readings' /\ update'.device = last_device
      /\ update'.phase = "connected"
  BY <1>1 DEF Poll, Emit
<1>6. [camera |-> update'.device, connection |-> drops'] = Here
  BY <1>1, <1>5 DEF Here
<1>7. /\ update'.readings.static \in {Nowhere, Here}
      /\ update'.readings.dynamic \in {Nowhere, Here}
  BY <1>2, <1>3, <1>5
<1>8. QED BY <1>1, <1>2, <1>4, <1>5, <1>6, <1>7 DEF FreshInv, OneSource

\* Every step keeps the readings apart.
LEMMA StepFresh == MonitorTyped /\ FreshInv /\ [Next]_vars => FreshInv'
<1> SUFFICES ASSUME MonitorTyped, FreshInv, [Next]_vars
             PROVE  FreshInv'
  OBVIOUS
<1>1. CASE Scan \/ Stop
  BY <1>1 DEF Scan, Stop, Emit, FreshInv, OneSource
<1>2. ASSUME NEW d \in 0 .. MaxDelay, ScanFails(d) \/ ConnectFails(d)
      PROVE  FreshInv'
  BY <1>2 DEF ScanFails, ConnectFails, Emit, FreshInv, OneSource
<1>3. ASSUME NEW d \in 0 .. MaxDelay, NEW c \in Cameras, ScanFinds(d, c)
      PROVE  FreshInv'
  BY <1>3 DEF ScanFinds, Emit, FreshInv, OneSource
<1>4. ASSUME NEW d \in 0 .. MaxDelay, Connects(d) \/ RetryEnds(d) \/ PauseEnds(d)
      PROVE  FreshInv'
  BY <1>4 DEF Connects, RetryEnds, PauseEnds, FreshInv, OneSource, Here
<1>5. ASSUME NEW d \in 0 .. MaxDelay, ReadStatic(d)
      PROVE  FreshInv'
  BY <1>5 DEF ReadStatic, Answers, FreshInv, OneSource, Here
<1>6. ASSUME NEW d \in 0 .. MaxDelay, Poll(d)
      PROVE  FreshInv'
  BY <1>6, PollFresh
<1>7. CASE BeginPoll \/ Leave \/ LeaveRaised \/ Exit \/ LinkLost \/ Quit
  BY <1>7 DEF BeginPoll, Leave, LeaveRaised, Exit, LinkLost, Quit, FreshInv, OneSource, Here
<1>8. CASE LeaveLost
  BY <1>8 DEF LeaveLost, Emit, FreshInv, OneSource
<1>9. CASE UNCHANGED vars
  BY <1>9 DEF vars, FreshInv, OneSource, Here
<1>10. QED
  BY <1>1, <1>2, <1>3, <1>4, <1>5, <1>6, <1>7, <1>8, <1>9 DEF Next, MonitorStep

\* An update never mixes two connections, and a CONNECTED one shows only what
\* this connection has read from the device it names.
THEOREM ReadingsAreFresh == Spec => []FreshReadings
<1>1. Init => MonitorTyped /\ FreshInv
  BY InitMonitorTyped, InitFresh
<1>2. MonitorTyped /\ FreshInv /\ [Next]_vars => (MonitorTyped /\ FreshInv)'
  BY StepMonitorTyped, StepFresh
<1>3. QED BY <1>1, <1>2, FreshInvSuffices, PTL DEF Spec

-----------------------------------------------------------------------------
(* The dead link.  Once an update has shown a dead connection, the link    *)
(* stays down until another update has been shown, and the monitor is not  *)
(* inside a poll: the inner loop looks at the link before it begins one.   *)

DeadInv ==
  update.phase = "connected" =>
    /\ ~update.alive => ~link /\ pc # "poll"
    /\ pc \notin {"scan", "connect", "static", "retry"}

\* A monitor that starts has no link to lose.
LEMMA InitDead == Init => DeadInv
BY DEF Init, DeadInv

\* Every step keeps it, and shows a dead link at most once.
LEMMA StepDead ==
  MonitorTyped /\ DeadInv /\ [Next]_vars =>
    /\ DeadInv'
    /\ (/\ update' # update
        /\ update'.phase = "connected" /\ ~update'.alive
        /\ update.phase = "connected") => update.alive
<1> SUFFICES ASSUME MonitorTyped, DeadInv, [Next]_vars
             PROVE  /\ DeadInv'
                    /\ (/\ update' # update
                        /\ update'.phase = "connected" /\ ~update'.alive
                        /\ update.phase = "connected") => update.alive
  OBVIOUS
<1>1. CASE Scan \/ Stop \/ LeaveLost
  BY <1>1 DEF Scan, Stop, LeaveLost, Emit, DeadInv
<1>2. ASSUME NEW d \in 0 .. MaxDelay, ScanFails(d) \/ ConnectFails(d)
      PROVE  update'.phase = "disconnected" /\ DeadInv'
  BY <1>2 DEF ScanFails, ConnectFails, Emit, DeadInv
<1>3. ASSUME NEW d \in 0 .. MaxDelay, NEW c \in Cameras, ScanFinds(d, c)
      PROVE  update'.phase = "connecting" /\ DeadInv'
  BY <1>3 DEF ScanFinds, Emit, DeadInv
<1>4. ASSUME NEW d \in 0 .. MaxDelay,
             Connects(d) \/ RetryEnds(d) \/ PauseEnds(d) \/ ReadStatic(d)
      PROVE  update' = update /\ DeadInv'
  BY <1>4 DEF Connects, RetryEnds, PauseEnds, ReadStatic, DeadInv
<1>5. ASSUME NEW d \in 0 .. MaxDelay, Poll(d)
      PROVE  /\ DeadInv'
             /\ update.phase = "connected" => update.alive
  <2>1. /\ pc = "poll" /\ pc' \in {"leave", "pause"} /\ update'.alive = link'
        /\ link' \in BOOLEAN
    BY <1>5 DEF Poll, Emit, MonitorTyped
  <2>2. QED BY <2>1 DEF DeadInv
<1>6. CASE BeginPoll \/ Leave \/ LeaveRaised \/ Exit \/ LinkLost \/ Quit
  BY <1>6 DEF BeginPoll, Leave, LeaveRaised, Exit, LinkLost, Quit, DeadInv
<1>7. CASE UNCHANGED vars
  BY <1>7 DEF vars, DeadInv
<1>8. QED
  BY <1>1, <1>2, <1>3, <1>4, <1>5, <1>6, <1>7 DEF Next, MonitorStep, Scan, Stop,
     LeaveLost, Emit

\* A CONNECTED update over a dead link is not followed by another one.
THEOREM DeadLinkOnce == Spec => DeadLinkShownOnce
<1>1. Init => MonitorTyped /\ DeadInv
  BY InitMonitorTyped, InitDead
<1>2. MonitorTyped /\ DeadInv /\ [Next]_vars => (MonitorTyped /\ DeadInv)'
  BY StepMonitorTyped, StepDead
<1>3. MonitorTyped /\ DeadInv /\ [Next]_vars =>
        [(/\ update' # update
          /\ update'.phase = "connected" /\ ~update'.alive
          /\ update.phase = "connected") => update.alive]_vars
  BY StepDead
<1>4. QED BY <1>1, <1>2, <1>3, PTL DEF Spec, DeadLinkShownOnce

-----------------------------------------------------------------------------
(* Pauses.  Every retry but the last and every repeated poll of a          *)
(* connection but the last has been paid for with a whole pause out of the *)
(* duration; where a pause was cut to what was left, nothing is left, and  *)
(* the monitor stops before it does any of that again.                     *)

RetryPause == Earliest(Interval, RetryCap)

AtLeastZero(n) == IF n < 0 THEN 0 ELSE n

\* What r retries and p repeated polls cost in pauses.
Cost(r, p) == AtLeastZero(r) * RetryPause + AtLeastZero(p) * Interval

\* They were paid for out of what is gone, and some time was left before.
Within(r, p) == Cost(r, p) < duration /\ Cost(r, p) + left <= duration

PaceInv ==
  Timed =>
    /\ Within(drops - 1, poll_count - drops - 1)
    /\ pc = "top" => Finished \/ Within(drops, poll_count - drops)
    /\ pc \in {"scan", "connect", "static", "poll"} => Within(drops, poll_count - drops)
    /\ pc = "inner" => /\ Within(drops, poll_count - drops - 1)
                       /\ left = 0 \/ Within(drops, poll_count - drops)
    /\ pc \in {"pause", "leave"} => Within(drops, poll_count - drops - 1)
    /\ pc = "leave" /\ reason = "done" => Finished
    /\ pc = "retry" => Within(drops - 1, poll_count - drops)

\* Products of natural numbers grow with their factors.
LEMMA ProductsGrow ==
  /\ \A a, c \in Nat : a * c \in Nat /\ (a + 1) * c = a * c + c
  /\ \A c \in Nat : 0 * c = 0
OBVIOUS

\* Fewer retries and polls cost no more, and one more costs a pause at most.
LEMMA CostGrows ==
  ASSUME NEW r \in Int, NEW p \in Int
  PROVE  /\ Cost(r, p) \in Nat
         /\ Cost(r - 1, p) <= Cost(r, p)
         /\ Cost(r, p - 1) <= Cost(r, p)
         /\ Cost(r + 1, p) <= Cost(r, p) + RetryPause
         /\ Cost(r, p + 1) <= Cost(r, p) + Interval
<1>1. RetryPause \in Nat /\ Interval \in Nat
  BY PausesTyped DEF RetryPause
<1>2. ASSUME NEW c \in Nat, NEW n \in Int
      PROVE  /\ AtLeastZero(n) * c \in Nat
             /\ AtLeastZero(n - 1) * c <= AtLeastZero(n) * c
             /\ AtLeastZero(n + 1) * c <= AtLeastZero(n) * c + c
  <2>1. AtLeastZero(n) \in Nat
    BY DEF AtLeastZero
  <2>2. AtLeastZero(n - 1) = AtLeastZero(n) \/ AtLeastZero(n - 1) + 1 = AtLeastZero(n)
    BY DEF AtLeastZero
  <2>3. AtLeastZero(n + 1) = AtLeastZero(n) \/ AtLeastZero(n + 1) = AtLeastZero(n) + 1
    BY DEF AtLeastZero
  <2>4. AtLeastZero(n - 1) \in Nat
    BY DEF AtLeastZero
  <2> DEFINE x == AtLeastZero(n)
             y == AtLeastZero(n - 1)
             z == AtLeastZero(n + 1)
  <2> HIDE DEF x, y, z
  <2>5. x \in Nat /\ y \in Nat /\ (y = x \/ y + 1 = x) /\ (z = x \/ z = x + 1)
    BY <2>1, <2>2, <2>3, <2>4 DEF x, y, z
  <2>6. /\ x * c \in Nat /\ y * c \in Nat
        /\ (x + 1) * c = x * c + c /\ (y + 1) * c = y * c + c
    BY <2>5, ProductsGrow
  <2>7. x * c \in Nat /\ y * c <= x * c /\ z * c <= x * c + c
    <3> DEFINE xc == x * c
               yc == y * c
    <3>1. xc \in Nat /\ yc \in Nat
      BY <2>6
    <3>2. yc = xc \/ yc + c = xc
      BY <2>5, <2>6
    <3>3. z * c = xc \/ z * c = xc + c
      BY <2>5, <2>6
    <3> HIDE DEF xc, yc
    <3>4. yc <= xc /\ z * c <= xc + c
      BY <3>1, <3>2, <3>3
    <3>5. QED BY <3>1, <3>4 DEF xc, yc
  <2>8. QED BY <2>7 DEF x, y, z
<1>3. /\ AtLeastZero(r) * RetryPause \in Nat
      /\ AtLeastZero(r - 1) * RetryPause <= AtLeastZero(r) * RetryPause
      /\ AtLeastZero(r + 1) * RetryPause <= AtLeastZero(r) * RetryPause + RetryPause
      /\ AtLeastZero(r - 1) * RetryPause \in Nat
      /\ AtLeastZero(r + 1) * RetryPause \in Nat
  BY <1>1, <1>2
<1>4. /\ AtLeastZero(p) * Interval \in Nat
      /\ AtLeastZero(p - 1) * Interval <= AtLeastZero(p) * Interval
      /\ AtLeastZero(p + 1) * Interval <= AtLeastZero(p) * Interval + Interval
      /\ AtLeastZero(p - 1) * Interval \in Nat
      /\ AtLeastZero(p + 1) * Interval \in Nat
  BY <1>1, <1>2
<1> DEFINE a == AtLeastZero(r) * RetryPause
           a1 == AtLeastZero(r - 1) * RetryPause
           a2 == AtLeastZero(r + 1) * RetryPause
           b == AtLeastZero(p) * Interval
           b1 == AtLeastZero(p - 1) * Interval
           b2 == AtLeastZero(p + 1) * Interval
<1>5. /\ Cost(r, p) = a + b /\ Cost(r - 1, p) = a1 + b /\ Cost(r, p - 1) = a + b1
      /\ Cost(r + 1, p) = a2 + b /\ Cost(r, p + 1) = a + b2
  BY DEF Cost
<1>6. /\ a \in Nat /\ a1 \in Nat /\ a2 \in Nat /\ b \in Nat /\ b1 \in Nat /\ b2 \in Nat
      /\ a1 <= a /\ a2 <= a + RetryPause /\ b1 <= b /\ b2 <= b + Interval
  BY <1>3, <1>4
<1> HIDE DEF a, a1, a2, b, b1, b2
<1>7. QED BY <1>1, <1>5, <1>6

\* A smaller term keeps the sum within its bound.
LEMMA LessToAdd ==
  \A a, b, c, e \in Nat : b <= a /\ c + a <= e => c + b <= e
OBVIOUS

\* What was paid for stays paid for while time passes.
LEMMA PaidStaysPaid ==
  ASSUME MonitorTyped, Timed, UNCHANGED duration, left' \in Nat, left' <= left,
         NEW r \in Int, NEW p \in Int, Within(r, p)
  PROVE  Within(r, p)'
<1>1. duration \in Nat /\ left \in Nat
  BY MonitorAssumption DEF MonitorTyped, Timed, NoLimit
<1>2. Cost(r, p) \in Nat /\ Cost(r, p)' = Cost(r, p)
  BY CostGrows DEF Cost, RetryPause
<1>3. duration' = duration
  OBVIOUS
<1>4. \A c \in Nat : c + left <= duration => c + left' <= duration
  BY <1>1, LessToAdd
<1>5. /\ Cost(r, p) < duration /\ Cost(r, p) + left <= duration
  BY DEF Within
<1>6. Cost(r, p)' < duration' /\ Cost(r, p)' + left' <= duration'
  BY <1>2, <1>3, <1>4, <1>5
<1>7. QED BY <1>6 DEF Within

\* Fewer retries and polls are paid for as well.
LEMMA LessIsPaid ==
  ASSUME MonitorTyped, Timed, NEW r \in Int, NEW p \in Int, Within(r, p)
  PROVE  Within(r - 1, p) /\ Within(r, p - 1) /\ Within(r - 1, p - 1)
<1>1. duration \in Nat /\ left \in Nat
  BY MonitorAssumption DEF MonitorTyped, Timed, NoLimit
<1>2. ASSUME NEW c \in Nat, NEW e \in Nat, e <= c, c < duration, c + left <= duration
      PROVE  e < duration /\ e + left <= duration
  BY <1>1, <1>2
<1>3. /\ Cost(r, p) \in Nat /\ Cost(r, p) < duration /\ Cost(r, p) + left <= duration
  BY CostGrows DEF Within
<1>4. /\ Cost(r - 1, p) \in Nat /\ Cost(r - 1, p) <= Cost(r, p)
      /\ Cost(r, p - 1) \in Nat /\ Cost(r, p - 1) <= Cost(r, p)
      /\ Cost(r - 1, p - 1) \in Nat /\ Cost(r - 1, p - 1) <= Cost(r - 1, p)
  <2>1. r - 1 \in Int /\ p - 1 \in Int
    OBVIOUS
  <2>2. Cost(r - 1, p) \in Nat /\ Cost(r, p - 1) \in Nat /\ Cost(r - 1, p - 1) \in Nat
    BY <2>1, CostGrows
  <2>3. Cost(r - 1, p) <= Cost(r, p) /\ Cost(r, p - 1) <= Cost(r, p)
    BY CostGrows
  <2>4. Cost(r - 1, p - 1) <= Cost(r - 1, p)
    BY <2>1, CostGrows
  <2>5. QED BY <2>2, <2>3, <2>4
<1>5. Within(r - 1, p)
  BY <1>2, <1>3, <1>4 DEF Within
<1>6. Within(r, p - 1)
  BY <1>2, <1>3, <1>4 DEF Within
<1>7. Within(r - 1, p - 1)
  BY <1>2, <1>4, <1>5 DEF Within
<1>8. QED BY <1>5, <1>6, <1>7

\* A pause is whole, or nothing is left after it.
LEMMA PausePays ==
  ASSUME MonitorTyped, Timed, UNCHANGED duration, NEW delay \in Nat, NEW d \in Nat,
         Elapse(Bounded(delay) + d), NEW r \in Int, NEW p \in Int, Within(r, p),
         NEW s \in Int, NEW q \in Int, Cost(s, q) <= Cost(r, p) + delay
  PROVE  left' = 0 \/ Within(s, q)'
<1>1. duration \in Nat /\ left \in Nat
  BY MonitorAssumption DEF MonitorTyped, Timed, NoLimit
<1>2. /\ Cost(r, p) \in Nat /\ Cost(s, q) \in Nat /\ Cost(s, q)' = Cost(s, q)
      /\ Cost(r, p) + left <= duration
  BY CostGrows DEF Cost, RetryPause, Within
<1>3. left' = 0 \/ (left' + delay <= left /\ left' \in Nat \ {0})
  BY <1>1 DEF Elapse, Bounded, Timed, Earliest
<1> DEFINE c == Cost(r, p)
           e == Cost(s, q)
<1>4. c \in Nat /\ e \in Nat /\ e <= c + delay /\ c + left <= duration
  BY <1>2
<1>5. left' = 0 \/ (e < duration /\ e + left' <= duration)
  <2> HIDE DEF c, e
  <2> QED BY <1>1, <1>3, <1>4
<1>6. QED BY <1>2, <1>5 DEF Within

\* A monitor that has failed or polled nothing has paid nothing.
LEMMA InitPace == Init => PaceInv
<1> SUFFICES ASSUME Init, Timed
             PROVE  PaceInv
  BY DEF PaceInv
<1>1. duration \in Nat \ {0} /\ left = duration
  BY MonitorAssumption DEF Init, Timed, NoLimit
<1>2. AtLeastZero(0) = 0 /\ AtLeastZero(0 - 1) = 0 /\ AtLeastZero(0 - 0 - 1) = 0
  BY DEF AtLeastZero
<1>3. RetryPause \in Nat /\ Interval \in Nat
  BY PausesTyped DEF RetryPause
<1>4. Cost(0, 0) = 0 /\ Cost(0 - 1, 0 - 0 - 1) = 0
  BY <1>2, <1>3, ProductsGrow DEF Cost
<1>5. Within(0, 0) /\ Within(0 - 1, 0 - 0 - 1)
  BY <1>1, <1>4 DEF Within
<1>6. drops = 0 /\ poll_count = 0 /\ pc = "top" /\ 0 - 0 = 0
  BY DEF Init
<1>7. Within(drops - 1, poll_count - drops - 1) /\ Within(drops, poll_count - drops)
  BY <1>5, <1>6
<1>8. QED BY <1>6, <1>7 DEF PaceInv

\* The invariant says what was to be shown.
LEMMA PaceInvSuffices == PaceInv => Paced
BY DEF PaceInv, Paced, Within, Cost, AtLeastZero, RetryPause

\* Every step keeps the account of the pauses.
LEMMA StepPace == MonitorTyped /\ PaceInv /\ [Next]_vars => PaceInv'
<1> SUFFICES ASSUME MonitorTyped, PaceInv, [Next]_vars, Timed'
             PROVE  /\ Within(drops - 1, poll_count - drops - 1)'
                    /\ pc' = "top" => Finished' \/ Within(drops, poll_count - drops)'
                    /\ pc' \in {"scan", "connect", "static", "poll"} =>
                         Within(drops, poll_count - drops)'
                    /\ pc' = "inner" =>
                         /\ Within(drops, poll_count - drops - 1)'
                         /\ left' = 0 \/ Within(drops, poll_count - drops)'
                    /\ pc' \in {"pause", "leave"} => Within(drops, poll_count - drops - 1)'
                    /\ pc' = "leave" /\ reason' = "done" => Finished'
                    /\ pc' = "retry" => Within(drops - 1, poll_count - drops)'
  BY DEF PaceInv
<1> DEFINE Goal ==
      /\ Within(drops - 1, poll_count - drops - 1)'
      /\ pc' = "top" => Finished' \/ Within(drops, poll_count - drops)'
      /\ pc' \in {"scan", "connect", "static", "poll"} =>
           Within(drops, poll_count - drops)'
      /\ pc' = "inner" =>
           /\ Within(drops, poll_count - drops - 1)'
           /\ left' = 0 \/ Within(drops, poll_count - drops)'
      /\ pc' \in {"pause", "leave"} => Within(drops, poll_count - drops - 1)'
      /\ pc' = "leave" /\ reason' = "done" => Finished'
      /\ pc' = "retry" => Within(drops - 1, poll_count - drops)'
<1>1. UNCHANGED duration /\ Timed
  BY DEF Next, MonitorStep, vars, Timed
<1>2. /\ left \in Nat /\ duration \in Durations
      /\ drops \in Int /\ poll_count \in Int
  BY MonitorAssumption DEF MonitorTyped
<1>3. PICK n \in Int : n = drops
  BY <1>2
<1>4. PICK k \in Int : k = poll_count
  BY <1>2
<1>5. /\ k - n \in Int /\ n - 1 \in Int /\ k - n - 1 \in Int
      /\ (k + 1) - n = (k - n) + 1 /\ (k + 1) - n - 1 = k - n
      /\ k - (n + 1) = k - n - 1 /\ k - (n + 1) - 1 = k - n - 1 - 1
      /\ (n + 1) - 1 = n /\ (n - 1) + 1 = n /\ (k - n - 1) + 1 = k - n
      /\ n + 1 \in Int /\ k + 1 \in Int
  OBVIOUS
<1>6. ASSUME NEW r \in Int, NEW q \in Int, Within(r, q)
      PROVE  Within(r - 1, q) /\ Within(r, q - 1) /\ Within(r - 1, q - 1)
  BY <1>1, <1>6, LessIsPaid
<1>7. ASSUME NEW r \in Int, NEW q \in Int, Within(r, q), left' \in Nat, left' <= left
      PROVE  Within(r, q)'
  BY <1>1, <1>7, PaidStaysPaid
<1>8. \A d \in Nat : Elapse(d) => left' \in Nat /\ left' <= left
  BY <1>1, <1>2, ElapseTyped
<1>9. left' = left => left' \in Nat /\ left' <= left
  BY <1>2
<1>10. \A d \in 0 .. MaxDelay : d \in Nat
  BY NowhereTyped
<1>11. /\ Within(n - 1, k - n - 1)
       /\ pc = "top" => Finished \/ Within(n, k - n)
       /\ pc \in {"scan", "connect", "static", "poll"} => Within(n, k - n)
       /\ pc = "inner" => Within(n, k - n - 1) /\ (left = 0 \/ Within(n, k - n))
       /\ pc \in {"pause", "leave"} => Within(n, k - n - 1)
       /\ pc = "leave" /\ reason = "done" => Finished
       /\ pc = "retry" => Within(n - 1, k - n)
  BY <1>1, <1>3, <1>4 DEF PaceInv
<1>12. left' = 0 => Finished'
  BY <1>1 DEF Finished, Timed
<1>13. CASE Scan \/ Stop
  <2>1. /\ left' = left /\ drops' = n /\ poll_count' = k
        /\ pc' = "scan" => Within(n, k - n)
        /\ pc' \in {"scan", "stopped"}
    BY <1>3, <1>4, <1>11, <1>13 DEF Scan, Stop
  <2>2. Within(n - 1, k - n - 1)' /\ (pc' = "scan" => Within(n, k - n)')
    BY <1>5, <1>7, <1>9, <1>11, <2>1
  <2>3. Goal
    BY <2>1, <2>2
  <2>4. QED BY <2>3
<1>14. ASSUME NEW d \in 0 .. MaxDelay, ScanFails(d) \/ ConnectFails(d)
       PROVE  Goal
  <2>1. /\ left' \in Nat /\ left' <= left /\ drops' = n + 1 /\ poll_count' = k
        /\ Within(n, k - n) /\ pc' = "retry"
    BY <1>3, <1>4, <1>8, <1>10, <1>11, <1>14 DEF ScanFails, ConnectFails
  <2>2. Within(n, k - n - 1) /\ Within(n, k - n - 1 - 1)
    BY <1>5, <1>6, <2>1
  <2>3. Within(n, k - n - 1)' /\ Within(n, k - n - 1 - 1)'
    BY <1>5, <1>7, <2>1, <2>2
  <2>4. QED BY <1>5, <2>1, <2>3
<1>15. ASSUME NEW d \in 0 .. MaxDelay, NEW c \in Cameras, ScanFinds(d, c)
       PROVE  Goal
  <2>1. /\ left' \in Nat /\ left' <= left /\ drops' = n /\ poll_count' = k
        /\ Within(n, k - n) /\ pc' = "connect"
    BY <1>3, <1>4, <1>8, <1>10, <1>11, <1>15 DEF ScanFinds
  <2>2. Within(n, k - n)' /\ Within(n - 1, k - n - 1)'
    BY <1>5, <1>7, <1>11, <2>1
  <2>3. QED BY <2>1, <2>2
<1>16. ASSUME NEW d \in 0 .. MaxDelay, Connects(d)
       PROVE  Goal
  <2>1. /\ left' \in Nat /\ left' <= left /\ drops' = n /\ poll_count' = k
        /\ Within(n, k - n) /\ pc' = "static"
    BY <1>3, <1>4, <1>8, <1>10, <1>11, <1>16 DEF Connects
  <2>2. Within(n, k - n)' /\ Within(n - 1, k - n - 1)'
    BY <1>5, <1>7, <1>11, <2>1
  <2>3. QED BY <2>1, <2>2
<1>17. ASSUME NEW d \in 0 .. MaxDelay, RetryEnds(d)
       PROVE  Goal
  <2>1. /\ Elapse(Bounded(RetryPause) + d) /\ drops' = n /\ poll_count' = k
        /\ Within(n - 1, k - n) /\ pc' = "top"
    BY <1>3, <1>4, <1>11, <1>17 DEF RetryEnds, RetryPause
  <2>2. RetryPause \in Nat /\ d \in Nat /\ Bounded(RetryPause) + d \in Nat
    BY <1>2, <1>10, PausesTyped, BoundedTyped DEF RetryPause
  <2>3. left' \in Nat /\ left' <= left
    BY <1>8, <2>1, <2>2
  <2>4. Cost(n, k - n) <= Cost(n - 1, k - n) + RetryPause
    BY <1>5, CostGrows
  <2>5. left' = 0 \/ Within(n, k - n)'
    BY <1>1, <1>5, <2>1, <2>2, <2>4, PausePays
  <2>6. Within(n - 1, k - n - 1)'
    BY <1>5, <1>7, <1>11, <2>3
  <2>7. QED BY <1>12, <2>1, <2>5, <2>6
<1>18. ASSUME NEW d \in 0 .. MaxDelay, ReadStatic(d)
       PROVE  Goal
  <2>1. /\ left' \in Nat /\ left' <= left /\ drops' = n /\ poll_count' = k
        /\ Within(n, k - n) /\ pc' = "inner"
    BY <1>3, <1>4, <1>8, <1>10, <1>11, <1>18 DEF ReadStatic
  <2>2. Within(n, k - n - 1)
    BY <1>5, <1>6, <2>1
  <2>3. Within(n, k - n)' /\ Within(n, k - n - 1)' /\ Within(n - 1, k - n - 1)'
    BY <1>5, <1>7, <1>11, <2>1, <2>2
  <2>4. QED BY <2>1, <2>3
<1>19. ASSUME NEW d \in 0 .. MaxDelay, PauseEnds(d)
       PROVE  Goal
  <2>1. /\ Elapse(Bounded(Interval) + d) /\ drops' = n /\ poll_count' = k
        /\ Within(n, k - n - 1) /\ pc' = "inner"
    BY <1>3, <1>4, <1>11, <1>19 DEF PauseEnds
  <2>2. Interval \in Nat /\ d \in Nat /\ Bounded(Interval) + d \in Nat
    BY <1>2, <1>10, PausesTyped, BoundedTyped
  <2>3. left' \in Nat /\ left' <= left
    BY <1>8, <2>1, <2>2
  <2>4. Cost(n, k - n) <= Cost(n, k - n - 1) + Interval
    BY <1>5, CostGrows
  <2>5. left' = 0 \/ Within(n, k - n)'
    BY <1>1, <1>5, <2>1, <2>2, <2>4, PausePays
  <2>6. Within(n - 1, k - n - 1)' /\ Within(n, k - n - 1)'
    BY <1>5, <1>7, <1>11, <2>1, <2>3
  <2>7. QED BY <2>1, <2>5, <2>6
<1>20. ASSUME NEW d \in 0 .. MaxDelay, Poll(d)
       PROVE  Goal
  <2>1. /\ left' \in Nat /\ left' <= left /\ drops' = n /\ poll_count' = k + 1
        /\ Within(n, k - n) /\ pc' \in {"pause", "leave"}
        /\ reason' = "done" => Finished' \/ reason = "done"
    BY <1>3, <1>4, <1>8, <1>10, <1>11, <1>20 DEF Poll
  <2>2. Within(n - 1, k - n)
    BY <1>5, <1>6, <2>1
  <2>3. Within(n, k - n)' /\ Within(n - 1, k - n)'
    BY <1>5, <1>7, <2>1, <2>2
  <2>4. pc' = "leave" /\ reason' = "done" => Finished'
    BY <1>20 DEF Poll
  <2>5. QED BY <1>5, <2>1, <2>3, <2>4
<1>21. CASE BeginPoll
  <2>1. /\ left' = left /\ drops' = n /\ poll_count' = k
        /\ Within(n, k - n - 1) /\ pc' \in {"poll", "leave"}
        /\ pc' = "poll" => Within(n, k - n)
    BY <1>1, <1>3, <1>4, <1>11, <1>21 DEF BeginPoll, Finished
  <2>2. /\ Within(n - 1, k - n - 1)' /\ Within(n, k - n - 1)'
        /\ pc' = "poll" => Within(n, k - n)'
    BY <1>5, <1>7, <1>9, <1>11, <2>1
  <2>3. pc' = "leave" /\ reason' = "done" => Finished'
    <3>1. Finished' = Finished
      BY <1>1, <1>21 DEF BeginPoll, Finished, Timed
    <3>2. pc' = "leave" /\ reason' = "done" => Finished
      BY <1>21 DEF BeginPoll
    <3>3. QED BY <3>1, <3>2
  <2>4. QED BY <2>1, <2>2, <2>3
<1>22. CASE Leave
  <2>1. /\ left' = left /\ drops' = n /\ poll_count' = k /\ pc' = "top" /\ Finished
    BY <1>3, <1>4, <1>11, <1>22 DEF Leave
  <2>2. Finished'
    BY <1>1, <1>4, <2>1 DEF Finished, Timed
  <2>3. Within(n - 1, k - n - 1)'
    BY <1>5, <1>7, <1>9, <1>11, <2>1
  <2>4. QED BY <2>1, <2>2, <2>3
<1>23. CASE LeaveLost
  <2>1. /\ left' = left /\ drops' = n + 1 /\ poll_count' = k
        /\ Within(n, k - n - 1) /\ pc' = "retry"
    BY <1>3, <1>4, <1>11, <1>23 DEF LeaveLost
  <2>2. Within(n, k - n - 1 - 1)
    BY <1>5, <1>6, <2>1
  <2>3. Within(n, k - n - 1)' /\ Within(n, k - n - 1 - 1)'
    BY <1>5, <1>7, <1>9, <2>1, <2>2
  <2>4. QED BY <1>5, <2>1, <2>3
<1>24. CASE LeaveRaised \/ Exit
  <2>1. /\ left' = left /\ drops' = n /\ poll_count' = k /\ pc' \in {"raised", "closed"}
    BY <1>3, <1>4, <1>24 DEF LeaveRaised, Exit
  <2>2. Within(n - 1, k - n - 1)'
    BY <1>5, <1>7, <1>9, <1>11, <2>1
  <2>3. QED BY <2>1, <2>2
<1>25. CASE Quit
  <2>1. /\ left' = left /\ drops' = n /\ poll_count' = k /\ pc' \in {"raised", "leave"}
        /\ pc' = "leave" => pc \in {"static", "poll", "pause", "leave"} /\ reason' = "raised"
    BY <1>3, <1>4, <1>25 DEF Quit
  <2>2. pc' = "leave" => Within(n, k - n - 1)
    BY <1>5, <1>6, <1>11, <2>1
  <2>3. Within(n - 1, k - n - 1)' /\ (pc' = "leave" => Within(n, k - n - 1)')
    BY <1>5, <1>7, <1>9, <1>11, <2>1, <2>2
  <2>4. QED BY <2>1, <2>3
<1>26. CASE LinkLost \/ UNCHANGED vars
  <2>1. UNCHANGED <<pc, left, drops, poll_count, reason>> /\ drops' = n /\ poll_count' = k
    BY <1>3, <1>4, <1>26 DEF LinkLost, vars
  <2>2. \A r, q \in Int : Within(r, q) => Within(r, q)'
    BY <1>7, <1>9, <2>1
  <2>3. Finished' = Finished
    BY <1>1, <2>1 DEF Finished, Timed
  <2>4. QED BY <1>5, <1>11, <2>1, <2>2, <2>3
<1>27. Goal
  BY <1>13, <1>14, <1>15, <1>16, <1>17, <1>18, <1>19, <1>20, <1>21, <1>22, <1>23,
     <1>24, <1>25, <1>26
  DEF Next, MonitorStep
<1>28. QED BY <1>27

\* The pauses between polls and before every scan are paid for out of the
\* duration, however the link behaves.
THEOREM MonitorIsPaced == Spec => []Paced
<1>1. Init => MonitorTyped /\ PaceInv
  BY InitMonitorTyped, InitPace
<1>2. MonitorTyped /\ PaceInv /\ [Next]_vars => (MonitorTyped /\ PaceInv)'
  BY StepMonitorTyped, StepPace
<1>3. QED BY <1>1, <1>2, PaceInvSuffices, PTL DEF Spec

-----------------------------------------------------------------------------
(* The end.                                                                *)

Unconnected == {"top", "scan", "connect", "retry", "stopped", "closed", "raised"}

StopInv ==
  /\ pc \in Unconnected => ~link
  /\ pc \in {"stopped", "closed"} => Finished
  /\ update.phase = "stopped" => pc \in {"stopped", "closed"}

\* Every step keeps the end an end.
LEMMA StepStop == MonitorTyped /\ StopInv /\ [Next]_vars => StopInv'
<1> SUFFICES ASSUME MonitorTyped, StopInv, [Next]_vars
             PROVE  StopInv'
  OBVIOUS
<1> USE DEF Unconnected
<1>1. (UNCHANGED <<left, poll_count>> => Finished' = Finished) /\ link \in BOOLEAN
  BY DEF Next, MonitorStep, vars, Finished, Timed, MonitorTyped
<1>2. CASE Scan \/ Stop \/ LeaveLost
  BY <1>1, <1>2 DEF Scan, Stop, LeaveLost, Emit, StopInv
<1>3. ASSUME NEW d \in 0 .. MaxDelay, ScanFails(d) \/ ConnectFails(d)
      PROVE  StopInv'
  BY <1>3 DEF ScanFails, ConnectFails, Emit, StopInv
<1>4. ASSUME NEW d \in 0 .. MaxDelay, NEW c \in Cameras, ScanFinds(d, c)
      PROVE  StopInv'
  BY <1>4 DEF ScanFinds, Emit, StopInv
<1>5. ASSUME NEW d \in 0 .. MaxDelay,
             Connects(d) \/ RetryEnds(d) \/ PauseEnds(d) \/ ReadStatic(d)
      PROVE  StopInv'
  BY <1>5 DEF Connects, RetryEnds, PauseEnds, ReadStatic, StopInv
<1>6. ASSUME NEW d \in 0 .. MaxDelay, Poll(d)
      PROVE  StopInv'
  BY <1>6 DEF Poll, Emit, StopInv
<1>7. CASE BeginPoll \/ Leave \/ LeaveRaised \/ Exit \/ LinkLost \/ Quit
  BY <1>1, <1>7 DEF BeginPoll, Leave, LeaveRaised, Exit, LinkLost, Quit, StopInv
<1>8. CASE UNCHANGED vars
  BY <1>1, <1>8 DEF vars, StopInv
<1>9. QED
  BY <1>2, <1>3, <1>4, <1>5, <1>6, <1>7, <1>8 DEF Next, MonitorStep

\* The STOPPED update comes when the time is up or the polls are made, and the
\* connection is closed by then.
THEOREM StopsClosed == Spec => []StoppedIsClosed
<1>1. Init => MonitorTyped /\ StopInv
  BY InitMonitorTyped DEF Init, StopInv, Unconnected
<1>2. MonitorTyped /\ StopInv /\ [Next]_vars => (MonitorTyped /\ StopInv)'
  BY StepMonitorTyped, StepStop
<1>3. StopInv => StoppedIsClosed
  BY DEF StopInv, StoppedIsClosed, Unconnected
<1>4. QED BY <1>1, <1>2, <1>3, PTL DEF Spec
=============================================================================
