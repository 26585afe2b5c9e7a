----------------------- MODULE ProfileResolution_proofs -----------------------
(***************************************************************************)
(* What the profile resolution answers, for every registry, every set of   *)
(* versions, firmwares and models, and every location service.             *)
(***************************************************************************)
EXTENDS ProfileResolution, TLAPS

Identities == [model : Models, firmware : Firmwares \cup {NoFirmware},
               version : Versions \cup {NoVersion}]

\* Any identity may meet any location service: the variables only ever have
\* these types.
Inputs == identity \in Identities /\ shape \in Shapes

\* The inputs of the resolution are identities and location services.
LEMMA InputsAre == Spec => []Inputs
<1>1. Init => Inputs
  BY DEF Init, Inputs, Identities, Shapes, Findings
<1>2. Inputs /\ [Next]_vars => Inputs'
  <2> SUFFICES ASSUME Inputs, [Next]_vars
               PROVE  Inputs'
    OBVIOUS
  <2>1. ASSUME NEW c \in Characteristics, NEW f \in Findings, FindCharacteristic(c, f)
        PROVE  Inputs'
    BY <2>1 DEF FindCharacteristic, Inputs, Shapes
  <2>2. ASSUME NEW i \in [model : Models, firmware : Firmwares, version : Versions],
               Identify(i)
        PROVE  Inputs'
    BY <2>2 DEF Identify, Inputs, Identities
  <2>3. CASE UNCHANGED vars
    BY <2>3 DEF vars, Inputs
  <2>4. QED BY <2>1, <2>2, <2>3 DEF Next
<1>3. QED BY <1>1, <1>2, PTL DEF Spec

-----------------------------------------------------------------------------
(* What a resolved profile stands for.                                     *)

\* What ResolveLocationProfile knows of a location service it accepts: the
\* two core characteristics, all or none of the controls, and each option the
\* profile has.
Supports(p, s) ==
  /\ s["dd11"] = "usable" /\ s["dd21"] = "usable"
  /\ p.kind = "modern" => s["dd30"] = "usable" /\ s["dd31"] = "usable"
  /\ p.kind = "legacy" => s["dd30"] = "absent" /\ s["dd31"] = "absent"
  /\ p.statusNotifications => s["dd01"] = "usable"
  /\ p.timeCorrection => s["dd32"] = "usable"
  /\ p.areaAdjustment => s["dd33"] = "usable"

\* A profile of a version and a location service.
LEMMA ResolvedByShape ==
  ASSUME NEW v \in Nat \cup {NoVersion}, NEW s \in Shapes
  PROVE  LET p == ResolveLocationProfile(v, s) IN
           /\ p \in Profiles
           /\ Executable(p) => Supports(p, s)
           /\ p.kind = "legacy" => v \in 0 .. UnlockVersion - 1
<1> DEFINE p == ResolveLocationProfile(v, s)
<1>1. p \in {UnsupportedProfile, ProfileOf("modern", s), ProfileOf("legacy", s)}
  BY DEF ResolveLocationProfile, ResolveVersionShape
<1>2. UnsupportedProfile \in Profiles /\ UnsupportedProfile.kind = "unsupported"
  BY DEF UnsupportedProfile, Profiles
<1>3. ASSUME NEW k \in {"modern", "legacy"}
      PROVE  /\ ProfileOf(k, s) \in Profiles
             /\ ProfileOf(k, s).kind = k
             /\ ProfileOf(k, s).statusNotifications => s["dd01"] = "usable"
             /\ ProfileOf(k, s).timeCorrection => s["dd32"] = "usable"
             /\ ProfileOf(k, s).areaAdjustment => s["dd33"] = "usable"
  <2>1. ProfileOf(k, s).statusNotifications => s["dd01"] = "usable"
    BY Zenon DEF ProfileOf, HasProperty
  <2>2. ProfileOf(k, s).timeCorrection => s["dd32"] = "usable"
    BY Zenon DEF ProfileOf, HasProperty
  <2>3. ProfileOf(k, s).areaAdjustment => s["dd33"] = "usable"
    BY Zenon DEF ProfileOf, HasProperty
  <2>4. ProfileOf(k, s) \in Profiles /\ ProfileOf(k, s).kind = k
    BY DEF ProfileOf, Profiles, HasProperty
  <2>5. QED BY <2>1, <2>2, <2>3, <2>4
<1>4. p \in Profiles
  BY <1>1, <1>2, <1>3
<1>5. ASSUME Executable(p)
      PROVE  Supports(p, s)
  <2>1. CoreShapeValid(s) /\ ControlShapeValid(s) /\ p = ResolveVersionShape(v, s)
    BY <1>2, <1>5 DEF ResolveLocationProfile, Executable
  <2>2. CASE p = ProfileOf("modern", s) /\ HasControls(s)
    <3>1. s["dd30"] = "usable" /\ s["dd31"] = "usable"
      BY <2>1, <2>2 DEF ControlShapeValid, HasControls, HasProperty
    <3>2. QED BY <1>3, <2>1, <2>2, <3>1 DEF Supports, HasProperty, CoreShapeValid
  <2>3. CASE p = ProfileOf("legacy", s) /\ ~HasControls(s)
    <3>1. s["dd30"] = "absent" /\ s["dd31"] = "absent"
      BY <2>1, <2>3 DEF ControlShapeValid, HasControls, Present
    <3>2. QED BY <1>3, <2>1, <2>3, <3>1 DEF Supports, HasProperty, CoreShapeValid
  <2>4. QED BY <1>2, <1>5, <2>1, <2>2, <2>3 DEF ResolveVersionShape, Executable
<1>6. ASSUME p.kind = "legacy"
      PROVE  v \in 0 .. UnlockVersion - 1
  <2>1. p = ResolveVersionShape(v, s)
    BY <1>2, <1>6 DEF ResolveLocationProfile
  <2>2. v # NoVersion /\ v < UnlockVersion
    BY <1>2, <1>3, <1>6, <2>1 DEF ResolveVersionShape
  <2>3. QED BY <2>2 DEF NoVersion, UnlockVersion
<1>7. QED BY <1>4, <1>5, <1>6

\* Whatever overrules a profile only ever takes it away.
LEMMA ResolvedIsByShape ==
  ASSUME NEW i, NEW s, Executable(ResolveCompatibleProfile(i, s))
  PROVE  /\ ResolveCompatibleProfile(i, s) = ResolveLocationProfile(i.version, s)
         /\ Confidence(i, ResolveLocationProfile(i.version, s)) # "unsupported"
  BY DEF ResolveCompatibleProfile, Executable, UnsupportedProfile

-----------------------------------------------------------------------------
(* The plans of a resolved profile.                                        *)

\* Steps on characteristics that can be used.
On(actions, s) == {a \in actions : s[a.uuid] = "usable"}

\* A plan of two steps.
LEMMA TwoStepsOn ==
  ASSUME NEW S, NEW a \in S, NEW b \in S
  PROVE  <<a, b>> \in Seq(S)
  OBVIOUS

\* A plan of one step.
LEMMA OneStepOn ==
  ASSUME NEW S, NEW a \in S
  PROVE  <<a>> \in Seq(S)
  OBVIOUS

\* A plan of one step or none.
LEMMA WhenOn ==
  ASSUME NEW S, NEW condition, NEW a, condition => a \in S
  PROVE  When(condition, a) \in Seq(S)
<1>1. <<>> \in Seq(S)
  OBVIOUS
<1>2. QED BY <1>1, OneStepOn DEF When

\* The setup of a supported profile goes to usable characteristics only.
LEMMA SetupOnUsable ==
  ASSUME NEW s \in Shapes, NEW p \in Profiles, Executable(p), Supports(p, s)
  PROVE  SetupPlan(p) \in Seq(On(SetupActions, s))
<1> DEFINE S == On(SetupActions, s)
           n == When(p.statusNotifications, Notify("on"))
           l == <<Write("dd30", "on", TRUE), Write("dd31", "on", TRUE)>>
           t == When(p.timeCorrection, Read("dd32", FALSE))
           a == When(p.areaAdjustment, Read("dd33", FALSE))
           r == <<Read("dd21", TRUE)>>
<1>1. Read("dd21", TRUE) \in S
  BY DEF On, SetupActions, Read, Supports
<1>2. p.statusNotifications => Notify("on") \in S
  BY DEF On, SetupActions, Notify, Supports
<1>3. p.timeCorrection => Read("dd32", FALSE) \in S
  BY DEF On, SetupActions, Read, Supports
<1>4. p.areaAdjustment => Read("dd33", FALSE) \in S
  BY DEF On, SetupActions, Read, Supports
<1>5. p.kind = "modern" => Write("dd30", "on", TRUE) \in S /\ Write("dd31", "on", TRUE) \in S
  BY DEF On, SetupActions, Write, Supports
<1> HIDE DEF S
<1>6. r \in Seq(S)
  BY <1>1, OneStepOn
<1>7. n \in Seq(S) /\ t \in Seq(S) /\ a \in Seq(S)
  BY <1>2, <1>3, <1>4, WhenOn
<1>8. p.kind = "modern" => l \in Seq(S)
  BY <1>5, TwoStepsOn
<1>9. p.kind \in {"modern", "legacy"}
  BY DEF Profiles, Executable
<1>10. CASE p.kind = "legacy"
  BY <1>6, <1>10 DEF SetupPlan, S
<1>11. CASE p.kind = "modern"
  <2>1. l \in Seq(S)
    BY <1>8, <1>11
  <2>2. n \o l \o t \o a \o r \in Seq(S)
    <3> HIDE DEF n, l, t, a, r
    <3> QED BY <1>6, <1>7, <2>1
  <2>3. SetupPlan(p) = n \o l \o t \o a \o r
    BY <1>11 DEF SetupPlan
  <2>4. QED BY <2>2, <2>3 DEF S
<1>12. QED BY <1>9, <1>10, <1>11

\* The cleanup undoes a setup on usable characteristics, where it was done.
LEMMA CleanupOnUsable ==
  ASSUME NEW s \in Shapes, NEW maybe, \A c \in maybe : s[c] = "usable"
  PROVE  CleanupPlan(maybe) \in Seq(On(CleanupActions, s))
<1> DEFINE S == On(CleanupActions, s)
           d == When("dd31" \in maybe, Write("dd31", "off", FALSE))
           u == When("dd30" \in maybe, Write("dd30", "off", FALSE))
           e == When("dd01" \in maybe, Notify("off"))
<1>1. /\ "dd31" \in maybe => Write("dd31", "off", FALSE) \in S
      /\ "dd30" \in maybe => Write("dd30", "off", FALSE) \in S
      /\ "dd01" \in maybe => Notify("off") \in S
  BY DEF On, CleanupActions, Write, Notify
<1> HIDE DEF S
<1>2. d \in Seq(S) /\ u \in Seq(S) /\ e \in Seq(S)
  BY <1>1, WhenOn
<1>3. (d \o u) \o e \in Seq(S)
  <2> HIDE DEF d, u, e
  <2> QED BY <1>2
<1>4. QED BY <1>3 DEF CleanupPlan, CompensationActions, S

\* The steps of a plan over S are in S.
LEMMA StepsOf ==
  ASSUME NEW S, NEW q \in Seq(S), NEW i \in DOMAIN q
  PROVE  q[i] \in S
  OBVIOUS

\* Both plans of a resolved profile, put together.
LEMMA PlansOnUsable == Inputs => PlanAvailable
<1> SUFFICES ASSUME Inputs, Executable(Resolved)
             PROVE  /\ \A a \in PlanActions : shape[a.uuid] = "usable"
                    /\ shape["dd11"] = "usable"
  BY DEF PlanAvailable
<1> DEFINE p == Resolved
           setup == SetupPlan(p)
           maybe == {setup[i].uuid : i \in DOMAIN setup} \cap Controls
           cleanup == CleanupPlan(maybe)
<1>1. shape \in Shapes /\ identity.version \in Nat \cup {NoVersion}
  BY ResolutionAssumption DEF Inputs, Identities
<1>2. p = ResolveLocationProfile(identity.version, shape)
  BY ResolvedIsByShape DEF Resolved
<1>3. p \in Profiles /\ Supports(p, shape)
  BY <1>1, <1>2, ResolvedByShape
<1>4. shape["dd11"] = "usable"
  BY <1>3 DEF Supports
<1>5. setup \in Seq(On(SetupActions, shape))
  BY <1>1, <1>3, SetupOnUsable
<1>6. \A i \in DOMAIN setup : shape[setup[i].uuid] = "usable"
  <2> HIDE DEF setup
  <2> TAKE i \in DOMAIN setup
  <2>1. setup[i] \in On(SetupActions, shape)
    BY <1>5, StepsOf
  <2>2. QED BY <2>1 DEF On
<1>7. \A c \in maybe : shape[c] = "usable"
  <2> HIDE DEF setup
  <2> QED BY <1>6
<1>8. cleanup \in Seq(On(CleanupActions, shape))
  <2> HIDE DEF maybe
  <2> QED BY <1>1, <1>7, CleanupOnUsable
<1>9. \A i \in DOMAIN cleanup : shape[cleanup[i].uuid] = "usable"
  <2> HIDE DEF cleanup
  <2> TAKE i \in DOMAIN cleanup
  <2>1. cleanup[i] \in On(CleanupActions, shape)
    BY <1>8, StepsOf
  <2>2. QED BY <2>1 DEF On
<1>10. PlanActions = {setup[i] : i \in DOMAIN setup} \cup {cleanup[i] : i \in DOMAIN cleanup}
  BY DEF PlanActions
<1>11. \A a \in PlanActions : shape[a.uuid] = "usable"
  <2> HIDE DEF setup, cleanup
  <2> QED BY <1>6, <1>9, <1>10
<1>12. QED BY <1>4, <1>11

\* Whatever a plan reads, writes or subscribes to, its compensation included,
\* is there once with the property it needs (create_session_plan over
\* resolve_compatible_profile).
THEOREM PlansAreAvailable == Spec => []PlanAvailable
  BY InputsAre, PlansOnUsable, PTL

-----------------------------------------------------------------------------
(* The registry, and the versions without controls.                        *)

\* A session without controls only goes to a camera that says it is older than
\* the controls and does not show any (_resolve_version_shape).
THEOREM LegacyIsEvidenced == Spec => []LegacyOnlyByEvidence
<1>1. Inputs => LegacyOnlyByEvidence
  <2> SUFFICES ASSUME Inputs, Resolved.kind = "legacy"
               PROVE  /\ identity.version \in 0 .. UnlockVersion - 1
                      /\ \A c \in RequiredControls : shape[c] = "absent"
    BY DEF LegacyOnlyByEvidence
  <2>1. shape \in Shapes /\ identity.version \in Nat \cup {NoVersion}
    BY ResolutionAssumption DEF Inputs, Identities
  <2>2. Executable(Resolved)
    BY DEF Executable
  <2>3. Resolved = ResolveLocationProfile(identity.version, shape)
    BY <2>2, ResolvedIsByShape DEF Resolved
  <2>4. /\ Supports(Resolved, shape)
        /\ identity.version \in 0 .. UnlockVersion - 1
    BY <2>1, <2>2, <2>3, ResolvedByShape
  <2>5. QED BY <2>4 DEF Supports, RequiredControls
<1>2. QED BY <1>1, InputsAre, PTL

\* The registry overrules the shape, blocking before verifying, and only for
\* the identity it names (compatibility_for).
THEOREM RegistryHasTheLastWord == Spec => []RegistryOverrules
<1> DEFINE byShape == ResolveLocationProfile(identity.version, shape)
           confidence == Confidence(identity, byShape)
           Named(registry) == \E e \in registry : Matches(e, identity, byShape)
<1>1. Named(Blocked) => confidence = "unsupported"
  BY DEF Confidence
<1>2. confidence = "unsupported" => ~Executable(Resolved)
  BY DEF Resolved, ResolveCompatibleProfile, Executable, UnsupportedProfile
<1>3. confidence = "verified" => Named(Verified) /\ ~Named(Blocked)
  BY DEF Confidence
<1>4. identity.firmware = NoFirmware => ~Named(Blocked) /\ ~Named(Verified)
  BY DEF Matches
<1>5. ASSUME identity.firmware = NoFirmware, Executable(Resolved)
      PROVE  ApprovalRequired(identity, shape)
  <2>1. Resolved = byShape
    BY <1>5, ResolvedIsByShape DEF Resolved
  <2>2. confidence = "experimental"
    BY <1>4, <1>5, <2>1 DEF Confidence
  <2>3. QED BY <2>2 DEF ApprovalRequired
<1>6. RegistryOverrules
  BY <1>1, <1>2, <1>3, <1>5 DEF RegistryOverrules
<1>7. QED BY <1>6, PTL
=============================================================================
