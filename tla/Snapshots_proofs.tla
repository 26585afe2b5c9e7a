-------------------------- MODULE Snapshots_proofs --------------------------
(***************************************************************************)
(* What the snapshots say of a camera, for every set of cameras, every     *)
(* registry and every read that fails.                                     *)
(***************************************************************************)
EXTENDS Snapshots, FiniteSetTheorems, TLAPS

-----------------------------------------------------------------------------
(* The places of a camera.                                                 *)

\* A camera, and reads that return what it has or fail.
Typed ==
  /\ camera \in Cameras
  /\ command \in Commands \cup {Idle}
  /\ todo \in Seq(Found \cup {0})
  /\ answers \in [Found -> Values \cup {Failed}]
  /\ \A i \in Found : answers[i] # Failed => At(i).readable /\ answers[i] = At(i).value

\* What is known of a camera and its characteristics.
LEMMA CameraIs ==
  ASSUME camera \in Cameras
  PROVE  /\ camera.version \in Int /\ camera.shape \in Shapes
         /\ Found = 1 .. Len(camera.characteristics) /\ Len(camera.characteristics) \in Nat
         /\ \A i \in Found : /\ i \in Nat /\ i # 0
                             /\ At(i) \in Items /\ At(i).value \in Values
                             /\ At(i).value # Failed
<1>1. /\ camera.version \in Int /\ camera.shape \in Shapes
      /\ camera.characteristics \in Seq(Items)
  BY SnapshotAssumption
<1>2. Found = 1 .. Len(camera.characteristics) /\ Len(camera.characteristics) \in Nat
  BY <1>1 DEF Found
<1>3. ASSUME NEW i \in Found
      PROVE  /\ i \in Nat /\ i # 0
             /\ At(i) \in Items /\ At(i).value \in Values
             /\ At(i).value # Failed
  <2>1. i \in Nat /\ i # 0
    BY <1>2
  <2>2. At(i) \in Items
    BY <1>1, <1>2 DEF At
  <2>3. At(i).value \in Values
    BY <2>2 DEF Items
  <2>4. At(i).value.around # "failed"
    BY <2>3 DEF Values, Surroundings
  <2>5. QED BY <2>1, <2>2, <2>3, <2>4 DEF Failed
<1>4. QED BY <1>1, <1>2, <1>3

\* Places of which there is at most one.
LEMMA AtMostOne ==
  ASSUME camera \in Cameras, NEW S \in SUBSET Found
  PROVE  /\ IsFiniteSet(S)
         /\ Cardinality(S) \in Nat
         /\ Cardinality(S) = 0 <=> S = {}
         /\ Cardinality(S) <= 1 => S = {} \/ \E i \in Found : S = {i}
<1>1. IsFiniteSet(Found)
  BY CameraIs, FS_Interval
<1>2. IsFiniteSet(S) /\ Cardinality(S) \in Nat /\ (Cardinality(S) = 0 <=> S = {})
  BY <1>1, FS_Subset, FS_CardinalityType, FS_EmptySet
<1>3. ASSUME Cardinality(S) <= 1, S # {} PROVE \E i \in Found : S = {i}
  <2>1. Cardinality(S) = 1
    BY <1>2, <1>3
  <2>2. PICK i : S = {i}
    BY <1>2, <2>1, FS_Singleton
  <2>3. QED BY <2>2
<1>4. QED BY <1>2, <1>3

LEMMA OnlyPlace ==
  ASSUME NEW i \in Nat
  PROVE  Max({i}) = i /\ Min({i}) = i /\ Cardinality({i}) = 1
<1>1. i <= i /\ i >= i
  OBVIOUS
<1>2. \E x \in {i} : \A y \in {i} : x >= y
  BY <1>1
<1>3. \E x \in {i} : \A y \in {i} : x <= y
  BY <1>1
<1>4. Max({i}) = i /\ Min({i}) = i
  BY <1>2, <1>3 DEF Max, Min
<1>5. QED BY <1>4, FS_Singleton

LEMMA OwnIsFound == \A uuid : Own(uuid) \in SUBSET Found
BY DEF Own

\* Where the camera has one characteristic, every command looks at it; where it
\* has none, none does.
LEMMA OwnPlaces ==
  ASSUME camera \in Cameras, NEW uuid
  PROVE  /\ Cardinality(Own(uuid)) = 1 =>
              \E i \in Found : Own(uuid) = {i} /\ ApprovedEndpoint(uuid) = i /\ RunEndpoint(uuid) = i
         /\ Own(uuid) = {} => ApprovedEndpoint(uuid) = 0 /\ RunEndpoint(uuid) = 0
         /\ Cardinality(Own(uuid)) # 1 => ApprovedEndpoint(uuid) = 0
<1>1. ASSUME Cardinality(Own(uuid)) = 1
      PROVE  \E i \in Found : Own(uuid) = {i} /\ ApprovedEndpoint(uuid) = i /\ RunEndpoint(uuid) = i
  <2>1. PICK i \in Found : Own(uuid) = {i}
    BY <1>1, AtMostOne, OwnIsFound
  <2>2. i \in Nat
    BY CameraIs
  <2>3. Max({i}) = i
    BY <2>2, OnlyPlace
  <2>4. QED BY <1>1, <2>1, <2>3 DEF ApprovedEndpoint, RunEndpoint
<1>2. ASSUME Own(uuid) = {} PROVE ApprovedEndpoint(uuid) = 0 /\ RunEndpoint(uuid) = 0
  BY <1>2, FS_EmptySet DEF ApprovedEndpoint, RunEndpoint
<1>3. QED BY <1>1, <1>2 DEF ApprovedEndpoint

LEMMA ToReadIs ==
  ASSUME camera \in Cameras, NEW c
  PROVE  ToRead(c) \in Seq(Found \cup {0})
<1>1. \A uuid : ApprovedEndpoint(uuid) \in Found \cup {0}
  BY OwnPlaces
<1>2. CASE c = "camera-info"
  <2>1. [i \in 1 .. Len(camera.characteristics) |-> i] \in Seq(Found \cup {0})
    BY CameraIs
  <2>2. QED BY <1>2, <2>1 DEF ToRead
<1>3. CASE c # "camera-info"
  BY <1>1, <1>3 DEF ToRead
<1>4. QED BY <1>2, <1>3

\* Reads keep to what the camera has.
LEMMA TypedHolds == Spec => []Typed
<1>1. Init => Typed
  <2> SUFFICES ASSUME Init PROVE Typed
    OBVIOUS
  <2>1. \A i \in Found : answers[i] = Failed
    BY DEF Init
  <2>2. QED BY <2>1 DEF Init, Typed
<1>2. Typed /\ [Next]_vars => Typed'
  <2> SUFFICES ASSUME Typed, [Next]_vars PROVE Typed'
    OBVIOUS
  <2>0. camera' = camera /\ Found' = Found /\ \A i : At(i)' = At(i)
    BY DEF Next, Begin, Skip, ReadNext, PrintReport, SessionFails, vars, Found, At
  <2>1. ASSUME NEW c \in Commands, Begin(c) PROVE Typed'
    <3>1. \A i \in Found : answers'[i] = Failed
      BY <2>1 DEF Begin
    <3>2. QED BY <2>0, <2>1, <3>1, ToReadIs DEF Begin, Typed
  <2>2. CASE Skip
    <3>1. Tail(todo) \in Seq(Found \cup {0})
      BY <2>2 DEF Skip, Typed
    <3>2. QED BY <2>0, <2>2, <3>1 DEF Skip, Typed
  <2>3. ASSUME NEW succeeds \in BOOLEAN, ReadNext(succeeds) PROVE Typed'
    <3>1. Head(todo) \in Found /\ At(Head(todo)).readable /\ Tail(todo) \in Seq(Found \cup {0})
      BY <2>3 DEF ReadNext, Typed, Readable
    <3>2. At(Head(todo)).value \in Values
      BY <3>1, CameraIs DEF Typed
    <3>3. answers' \in [Found -> Values \cup {Failed}]
      BY <2>3, <3>1, <3>2 DEF ReadNext, Typed
    <3>4. ASSUME NEW i \in Found, answers'[i] # Failed
          PROVE  At(i).readable /\ answers'[i] = At(i).value
      BY <2>3, <3>1, <3>4 DEF ReadNext, Typed
    <3>5. QED BY <2>0, <2>3, <3>1, <3>3, <3>4 DEF ReadNext, Typed
  <2>4. CASE PrintReport
    BY <2>0, <2>4 DEF PrintReport, Typed
  <2>5. CASE SessionFails
    BY <2>0, <2>5 DEF SessionFails, Typed
  <2>6. CASE UNCHANGED vars
    BY <2>0, <2>6 DEF vars, Typed
  <2>7. QED BY <2>1, <2>2, <2>3, <2>4, <2>5, <2>6 DEF Next
<1>3. QED BY <1>1, <1>2, PTL DEF Spec

-----------------------------------------------------------------------------
(* Reports.                                                                *)

\* What a run makes of a camera does not change while its reports are read.
LEMMA CameraStays ==
  ASSUME camera' = camera
  PROVE  /\ RunIdentity' = RunIdentity /\ RunConfidence' = RunConfidence
         /\ OneIdentity' = OneIdentity /\ OneSource' = OneSource
         /\ Shape' = Shape /\ FallbackModel' = FallbackModel
         /\ \A uuid : Own(uuid)' = Own(uuid)
         /\ \A i : At(i)' = At(i)
<1>1. /\ Found' = Found /\ \A i : At(i)' = At(i) /\ Readable(i)' = Readable(i)
      /\ FallbackModel' = FallbackModel
  BY DEF Found, At, Readable, FallbackModel
<1>2. \A uuid : Own(uuid)' = Own(uuid) /\ Sources(uuid)' = Sources(uuid)
  BY <1>1 DEF Own, Sources
<1>3. \A uuid : RunEndpoint(uuid)' = RunEndpoint(uuid)
  BY <1>2 DEF RunEndpoint
<1>4. \A uuid : RunValue(uuid)' = RunValue(uuid)
  BY <1>1, <1>3 DEF RunValue
<1>5. RunIdentity' = RunIdentity
  BY <1>1, <1>4 DEF RunIdentity, IdentityOf, ModelOf
<1>6. Shape' = Shape
  BY <1>1, <1>2 DEF Shape
<1>7. RunConfidence' = RunConfidence
  BY <1>5, <1>6 DEF RunConfidence
<1>8. OneIdentity' = OneIdentity /\ OneSource' = OneSource
  BY <1>2 DEF OneIdentity, OneSource
<1>9. QED BY <1>1, <1>2, <1>5, <1>6, <1>7, <1>8

LEMMA StepsOfReport ==
  ASSUME [Next]_vars
  PROVE  camera' = camera /\ (PrintReport \/ report' = report)
BY DEF Next, Begin, Skip, ReadNext, PrintReport, SessionFails, vars

LEMMA NothingPrinted == Init => ~Printed
BY DEF Init, Printed

\* The report of a command, field by field.
LEMMA ReportIs ==
  ASSUME Typed, PrintReport
  PROVE  \E c \in Commands, identity \in {InfoIdentity, SnapshotIdentity},
            mode \in {InfoMode, Mode(Answer(ApprovedEndpoint("dd21")))} :
           /\ report' = ReportOf(c, identity, mode)
           /\ \/ c = "camera-info" /\ identity = InfoIdentity /\ mode = InfoMode
              \/ /\ c = "compatibility-snapshot" /\ identity = SnapshotIdentity
                 /\ mode = Mode(Answer(ApprovedEndpoint("dd21")))
<1>1. CASE command = "camera-info"
  BY <1>1 DEF PrintReport, Commands
<1>2. CASE command = "compatibility-snapshot"
  BY <1>2 DEF PrintReport, Commands
<1>3. QED BY <1>1, <1>2 DEF Typed, PrintReport, Commands

LEMMA FieldsOfReport ==
  ASSUME NEW c, NEW identity, NEW mode, report' = ReportOf(c, identity, mode)
  PROVE  /\ report'.command = c /\ report'.identity = identity /\ report'.mode = mode
         /\ report'.profile = ResolveCompatibleProfile(identity, Shape)
         /\ report'.confidence =
              Confidence(identity, ResolveLocationProfile(identity.version, Shape))
BY DEF ReportOf

LEMMA CompleteReport ==
  ASSUME NEW c, NEW identity, NEW mode, report' = ReportOf(c, identity, mode),
         report'.complete
  PROVE  \A i \in Range(ToRead(c)) : Readable(i) => answers[i] # Failed
BY DEF ReportOf

\* A snapshot has what a run would read, or a read has failed.
LEMMA AnswerIsRun ==
  ASSUME Typed, NEW uuid, Cardinality(Own(uuid)) <= 1
  PROVE  /\ Answer(ApprovedEndpoint(uuid)) \in {Failed, RunValue(uuid)}
         /\ (Readable(ApprovedEndpoint(uuid)) => answers[ApprovedEndpoint(uuid)] # Failed)
              => Answer(ApprovedEndpoint(uuid)) = RunValue(uuid)
<1>1. CASE Own(uuid) = {}
  <2>1. ApprovedEndpoint(uuid) = 0 /\ RunEndpoint(uuid) = 0
    BY <1>1, OwnPlaces DEF Typed
  <2>2. QED BY <2>1 DEF Answer, RunValue, Readable
<1>2. CASE Own(uuid) # {}
  <2>1. Cardinality(Own(uuid)) = 1
    BY <1>2, AtMostOne, OwnIsFound DEF Typed
  <2>2. PICK i \in Found : ApprovedEndpoint(uuid) = i /\ RunEndpoint(uuid) = i
    BY <2>1, OwnPlaces DEF Typed
  <2>3. i # 0
    BY CameraIs DEF Typed
  <2>4. QED BY <2>2, <2>3 DEF Answer, RunValue, Readable, Typed
<1>3. QED BY <1>1, <1>2

\* What the compatibility snapshot prints is what send-location acts on
\* (capture_compatibility_snapshot, _read_identity).
THEOREM SnapshotIsHonest == Spec => []SnapshotForetellsRun
<1>1. Init => SnapshotForetellsRun
  BY NothingPrinted DEF SnapshotForetellsRun
<1>2. SnapshotForetellsRun /\ Typed /\ [Next]_vars => SnapshotForetellsRun'
  <2> SUFFICES ASSUME SnapshotForetellsRun, Typed, [Next]_vars PROVE SnapshotForetellsRun'
    OBVIOUS
  <2>1. camera' = camera
    BY StepsOfReport
  <2>2. CASE report' = report
    BY <2>1, <2>2, CameraStays DEF SnapshotForetellsRun, Printed
  <2>3. CASE PrintReport
    <3> SUFFICES ASSUME report'.command = "compatibility-snapshot", report'.complete, OneIdentity
                 PROVE  /\ report'.identity = RunIdentity
                        /\ report'.profile = ResolveCompatibleProfile(RunIdentity, Shape)
                        /\ report'.confidence = RunConfidence
      BY <2>1, CameraStays DEF SnapshotForetellsRun
    <3>1. PICK c, identity, mode :
            /\ report' = ReportOf(c, identity, mode)
            /\ c = "compatibility-snapshot" => identity = SnapshotIdentity
      BY <2>3, ReportIs
    <3>2. /\ c = "compatibility-snapshot" /\ identity = SnapshotIdentity
          /\ report'.identity = identity
          /\ report'.profile = ResolveCompatibleProfile(identity, Shape)
          /\ report'.confidence =
               Confidence(identity, ResolveLocationProfile(identity.version, Shape))
      BY <3>1, FieldsOfReport
    <3>3. \A i \in Range(ToRead(c)) : Readable(i) => answers[i] # Failed
      BY <3>1, CompleteReport
    <3>4. \A uuid \in {"model", "firmware"} : ApprovedEndpoint(uuid) \in Range(ToRead(c))
      <4>1. ToRead(c) = <<ApprovedEndpoint("model"), ApprovedEndpoint("firmware"),
                          ApprovedEndpoint("dd21")>>
        BY <3>2 DEF ToRead
      <4>2. /\ DOMAIN ToRead(c) = 1 .. 3
            /\ ToRead(c)[1] = ApprovedEndpoint("model")
            /\ ToRead(c)[2] = ApprovedEndpoint("firmware")
        BY <4>1
      <4>3. QED BY <4>2 DEF Range
    <3>5. \A uuid \in {"model", "firmware"} : Answer(ApprovedEndpoint(uuid)) = RunValue(uuid)
      BY <3>4, <3>3, AnswerIsRun DEF OneIdentity
    <3>6. identity = RunIdentity
      BY <3>2, <3>5 DEF SnapshotIdentity, RunIdentity
    <3>7. QED BY <3>2, <3>6 DEF RunConfidence
  <2>4. QED BY <2>2, <2>3, StepsOfReport
<1>3. QED BY <1>1, <1>2, TypedHolds, PTL DEF Spec

\* A profile that may be written to needs one usable DD21.
LEMMA ExecutableNeedsDD21 ==
  ASSUME Typed, NEW identity, Executable(ResolveCompatibleProfile(identity, Shape))
  PROVE  \E i \in Found : Own("dd21") = {i} /\ At(i).readable
<1>1. Executable(ResolveLocationProfile(identity.version, Shape))
  BY DEF ResolveCompatibleProfile, Executable, UnsupportedProfile
<1>2. Shape["dd21"] = "usable"
  BY <1>1 DEF ResolveLocationProfile, CoreShapeValid, HasProperty, Executable,
              UnsupportedProfile
<1>3. Shape["dd21"] =
        IF Own("dd21") = {} THEN "absent"
        ELSE IF Cardinality(Own("dd21")) > 1 THEN "duplicate"
        ELSE IF \A i \in Own("dd21") : At(i).readable THEN "usable"
        ELSE "unusable"
  <2>1. "dd21" \in DOMAIN camera.shape
    BY CameraIs DEF Typed, Shapes, Characteristics
  <2>2. QED BY <2>1 DEF Shape
<1>4. /\ Own("dd21") # {} /\ ~(Cardinality(Own("dd21")) > 1)
      /\ \A i \in Own("dd21") : At(i).readable
  BY <1>2, <1>3
<1>5. Cardinality(Own("dd21")) <= 1
  BY <1>4, AtMostOne, OwnIsFound DEF Typed
<1>6. PICK i \in Found : Own("dd21") = {i}
  BY <1>4, <1>5, AtMostOne, OwnIsFound DEF Typed
<1>7. QED BY <1>4, <1>6

\* With one DD21, a mode is what it has answered.
LEMMA ModesAreAnswers ==
  ASSUME Typed, NEW i \in Found, Own("dd21") = {i}, At(i).readable,
         NEW mode \in {InfoMode, Mode(Answer(ApprovedEndpoint("dd21")))}, mode # NoMode
  PROVE  mode = Mode(At(i).value)
<1>1. /\ i \in Nat /\ i # 0
      /\ Max({i}) = i /\ Cardinality({i}) = 1
  BY CameraIs, OnlyPlace DEF Typed
<1>2. mode \in {NoMode, Mode(answers[i])}
  <2>1. CASE mode = InfoMode
    <3>1. {j \in Own("dd21") : At(j).readable} = {i}
      OBVIOUS
    <3>2. InfoDD21 = answers[i]
      BY <1>1, <3>1 DEF InfoDD21
    <3>3. QED BY <2>1, <3>2 DEF InfoMode
  <2>2. CASE mode = Mode(Answer(ApprovedEndpoint("dd21")))
    <3>1. ApprovedEndpoint("dd21") = i
      BY <1>1 DEF ApprovedEndpoint
    <3>2. QED BY <1>1, <2>2, <3>1 DEF Answer
  <2>3. QED BY <2>1, <2>2
<1>3. Mode(Failed) = NoMode
  BY DEF Mode, Failed
<1>4. answers[i] # Failed
  BY <1>2, <1>3
<1>5. QED BY <1>2, <1>4 DEF Typed

\* A packet size next to an executable profile comes from the one DD21 of the
\* location service (_dd21_result, _approved_endpoints).
THEOREM ModeIsRead == Spec => []ModeIsEvidence
<1>1. Init => ModeIsEvidence
  BY NothingPrinted DEF ModeIsEvidence
<1>2. ModeIsEvidence /\ Typed /\ [Next]_vars => ModeIsEvidence'
  <2> SUFFICES ASSUME ModeIsEvidence, Typed, [Next]_vars PROVE ModeIsEvidence'
    OBVIOUS
  <2>1. camera' = camera
    BY StepsOfReport
  <2>2. CASE report' = report
    <3>1. \A i : Mode(At(i).value)' = Mode(At(i).value)
      BY <2>1, CameraStays
    <3>2. QED BY <2>1, <2>2, <3>1, CameraStays DEF ModeIsEvidence, Printed
  <2>3. CASE PrintReport
    <3> SUFFICES ASSUME report'.mode # NoMode, Executable(report'.profile)
                 PROVE  \E i \in Own("dd21") :
                          Own("dd21") = {i} /\ report'.mode = Mode(At(i).value)
      <4>1. \A i : Mode(At(i).value)' = Mode(At(i).value)
        BY <2>1, CameraStays
      <4>2. QED BY <2>1, <4>1, CameraStays DEF ModeIsEvidence
    <3>1. PICK c, identity, mode :
            /\ report' = ReportOf(c, identity, mode)
            /\ mode \in {InfoMode, Mode(Answer(ApprovedEndpoint("dd21")))}
      BY <2>3, ReportIs
    <3>2. /\ report'.mode = mode
          /\ report'.profile = ResolveCompatibleProfile(identity, Shape)
      BY <3>1, FieldsOfReport
    <3>3. PICK i \in Found : Own("dd21") = {i} /\ At(i).readable
      BY <3>2, ExecutableNeedsDD21 DEF Executable
    <3>4. mode = Mode(At(i).value)
      BY <3>1, <3>2, <3>3, ModesAreAnswers
    <3>5. QED BY <3>2, <3>3, <3>4
  <2>4. QED BY <2>2, <2>3, StepsOfReport
<1>3. QED BY <1>1, <1>2, TypedHolds, PTL DEF Spec

-----------------------------------------------------------------------------
(* Trust.                                                                  *)

\* The registry looks at nothing but these parts of an identity.
LEMMA ConfidenceDependsOn ==
  ASSUME NEW a, NEW b, NEW profile, NormalizeModel(a.model) = NormalizeModel(b.model),
         a.firmware = b.firmware, a.version = b.version
  PROVE  Confidence(a, profile) = Confidence(b, profile)
<1>1. \A e : Matches(e, a, profile) <=> Matches(e, b, profile)
  BY DEF Matches
<1>2. /\ (\E e \in Blocked : Matches(e, a, profile)) <=> (\E e \in Blocked : Matches(e, b, profile))
      /\ (\E e \in Verified : Matches(e, a, profile)) <=> (\E e \in Verified : Matches(e, b, profile))
  BY <1>1
<1>3. QED BY <1>2 DEF Confidence

\* A verified camera is one that an entry of the registry speaks of.
LEMMA VerifiedMatches ==
  ASSUME NEW a, NEW profile, Confidence(a, profile) = "verified"
  PROVE  \E e \in Verified : Matches(e, a, profile)
BY DEF Confidence

\* Where camera-info decodes anything but a text with blanks, send-location
\* decodes the same.
LEMMA DecodedAlike ==
  ASSUME NEW value \in Values \cup {Failed}, Unstripped(value) # NoText
  PROVE  /\ value \in Values
         /\ Stripped(value) = value.text \/ value.text = ""
         /\ Unstripped(value) \in {value.text, Padded(value.text)}
         /\ Unstripped(value) # Padded(value.text) => Unstripped(value) = Stripped(value)
<1>1. value # Failed
  <2>1. Failed.around = "failed"
    BY DEF Failed
  <2>2. Unstripped(Failed) = NoText
    BY <2>1 DEF Unstripped
  <2>3. QED BY <2>2
<1>2. value.around \in {"nothing", "blanks"}
  BY <1>1 DEF Unstripped, Values, Surroundings
<1>3. CASE value.around = "blanks"
  BY <1>1, <1>3 DEF Unstripped, Stripped
<1>4. CASE value.around = "nothing"
  BY <1>1, <1>4 DEF Unstripped, Stripped
<1>5. QED BY <1>2, <1>3, <1>4

LEMMA RunValueIs ==
  ASSUME Typed, NEW uuid, Cardinality(Own(uuid)) <= 1, RunValue(uuid) # Failed
  PROVE  \E i \in Found : RunValue(uuid) = At(i).value
<1>1. Readable(RunEndpoint(uuid)) /\ RunValue(uuid) = At(RunEndpoint(uuid)).value
  BY DEF RunValue
<1>2. RunEndpoint(uuid) # 0
  BY <1>1 DEF Readable
<1>3. Own(uuid) # {}
  BY <1>2, OwnPlaces DEF Typed
<1>4. Cardinality(Own(uuid)) = 1
  BY <1>3, AtMostOne, OwnIsFound DEF Typed
<1>5. RunEndpoint(uuid) \in Found
  BY <1>4, OwnPlaces DEF Typed
<1>6. QED BY <1>1, <1>5

\* Where only one characteristic offers a field, camera-info finds what a run
\* would read, or nothing.
LEMMA FirstFieldIsRun ==
  ASSUME Typed, OneSource, NEW field \in {"model", "firmware"}
  PROVE  FirstField(field) \in {Failed, RunValue(field)}
<1> DEFINE decoded == {i \in Sources(field) : Unstripped(answers[i]) # NoText}
<1>1. Sources(field) = Own(field) /\ Cardinality(Own(field)) <= 1
  BY DEF OneSource
<1>2. CASE decoded = {}
  BY <1>2 DEF FirstField
<1>3. CASE decoded # {}
  <2>1. Own(field) # {}
    BY <1>1, <1>3
  <2>2. Cardinality(Own(field)) = 1
    BY <1>1, <2>1, AtMostOne, OwnIsFound DEF Typed
  <2>3. PICK i \in Found : Own(field) = {i} /\ RunEndpoint(field) = i
    BY <2>2, OwnPlaces DEF Typed
  <2>4. decoded = {i}
    BY <1>1, <1>3, <2>3
  <2>5. i \in Nat /\ i # 0 /\ Min({i}) = i
    BY CameraIs, OnlyPlace DEF Typed
  <2>6. FirstField(field) = answers[i]
    BY <1>3, <2>4, <2>5 DEF FirstField
  <2>7. answers[i] # Failed => At(i).readable /\ answers[i] = At(i).value
    BY DEF Typed
  <2>8. QED BY <2>3, <2>5, <2>6, <2>7 DEF RunValue, Readable
<1>4. QED BY <1>2, <1>3

\* An identity made of what a run would read, or of what is left where a read
\* failed, is trusted only if the run's is.
LEMMA TrustCarriesOver ==
  ASSUME Typed, OneSource, NEW profile,
         NEW model \in {Failed, RunValue("model")},
         NEW firmware \in {Failed, RunValue("firmware")},
         NEW name \in {Stripped(model), Unstripped(model)},
         NEW release \in {Stripped(firmware), Unstripped(firmware)},
         Confidence(IdentityOf(ModelOf(model, name), release), profile) = "verified",
         ModelOf(model, name) = FallbackModel => NamedTrue
  PROVE  Confidence(RunIdentity, profile) = "verified"
<1> DEFINE identity == IdentityOf(ModelOf(model, name), release)
<1>1. /\ identity.model = ModelOf(model, name) /\ identity.firmware = release
      /\ identity.version = camera.version
      /\ RunIdentity.model = ModelOf(RunValue("model"), Stripped(RunValue("model")))
      /\ RunIdentity.firmware = Stripped(RunValue("firmware"))
      /\ RunIdentity.version = camera.version
  BY DEF IdentityOf, RunIdentity
<1> HIDE DEF identity
<1>2. PICK e \in Verified : Matches(e, identity, profile)
  BY VerifiedMatches DEF identity
<1>3. /\ release # NoText /\ release = e.firmware
      /\ NormalizeModel(identity.model) = NormalizeModel(e.model)
      /\ NormalizeModel(e.model) # ""
  BY <1>1, <1>2, SnapshotAssumption DEF Matches, NoFirmware, NoText
<1>4. \A uuid \in {"model", "firmware"} : Cardinality(Own(uuid)) <= 1
  BY DEF OneSource
<1>5. Stripped(Failed) = NoText /\ Unstripped(Failed) = NoText
  <2>1. Failed.around = "failed"
    BY DEF Failed
  <2>2. QED BY <2>1 DEF Stripped, Unstripped
<1>6. \A uuid \in {"model", "firmware"} : RunValue(uuid) # Failed =>
         \E i \in Found : RunValue(uuid) = At(i).value /\ At(i).value \in Values
  BY <1>4, RunValueIs, CameraIs DEF Typed
<1>7. release = RunIdentity.firmware
  <2>1. firmware = RunValue("firmware") /\ firmware # Failed
    BY <1>3, <1>5
  <2>2. CASE release = Stripped(firmware)
    BY <1>1, <2>1, <2>2
  <2>3. CASE release = Unstripped(firmware)
    <3>1. PICK i \in Found : firmware = At(i).value /\ At(i).value \in Values
      BY <1>6, <2>1
    <3>2. e.firmware # Padded(firmware.text)
      BY <3>1, SnapshotAssumption DEF Typed, Found, At
    <3>3. Unstripped(firmware) = Stripped(firmware)
      BY <1>3, <2>3, <3>1, <3>2, DecodedAlike
    <3>4. QED BY <1>1, <2>1, <2>3, <3>3
  <2>4. QED BY <2>2, <2>3
<1>8. NormalizeModel(identity.model) = NormalizeModel(RunIdentity.model)
  <2>1. CASE name = NoText
    BY <1>1, <2>1 DEF ModelOf, NamedTrue
  <2>2. CASE name # NoText
    <3>1. model = RunValue("model") /\ model # Failed
      BY <1>5, <2>2
    <3>2. PICK i \in Found : model = At(i).value /\ At(i).value \in Values
      BY <1>6, <3>1
    <3>3. NormalizeModel(identity.model) = model.text
      BY <1>1, <2>2 DEF ModelOf, NormalizeModel
    <3>4. Stripped(model) # NoText
      <4>1. CASE name = Stripped(model)
        BY <2>2, <4>1
      <4>2. CASE name = Unstripped(model)
        <5>1. model.text # ""
          BY <1>3, <3>3
        <5>2. Stripped(model) = model.text
          BY <2>2, <3>2, <4>2, <5>1, DecodedAlike
        <5>3. QED BY <3>2, <5>2 DEF Values
      <4>3. QED BY <4>1, <4>2
    <3>5. NormalizeModel(RunIdentity.model) = model.text
      BY <1>1, <3>1, <3>4 DEF ModelOf, NormalizeModel
    <3>6. QED BY <3>3, <3>5
  <2>3. QED BY <2>1, <2>2
<1>9. QED BY <1>1, <1>7, <1>8, ConfidenceDependsOn DEF identity

\* No failed read and no other way of decoding makes a camera more trusted than
\* it is to send-location (capture_camera_info, capture_compatibility_snapshot).
THEOREM SnapshotsDoNotTrustMore == Spec => []NeverMoreTrusted
<1>1. Init => NeverMoreTrusted
  BY NothingPrinted DEF NeverMoreTrusted
<1>2. NeverMoreTrusted /\ Typed /\ [Next]_vars => NeverMoreTrusted'
  <2> SUFFICES ASSUME NeverMoreTrusted, Typed, [Next]_vars PROVE NeverMoreTrusted'
    OBVIOUS
  <2>1. camera' = camera
    BY StepsOfReport
  <2>2. NamedTrue' = NamedTrue
    BY <2>1, CameraStays DEF NamedTrue
  <2>3. CASE report' = report
    BY <2>1, <2>2, <2>3, CameraStays DEF NeverMoreTrusted, Printed
  <2>4. CASE PrintReport
    <3> SUFFICES ASSUME report'.confidence = "verified", OneSource,
                        report'.identity.model = FallbackModel => NamedTrue
                 PROVE  RunConfidence = "verified"
      BY <2>1, <2>2, CameraStays DEF NeverMoreTrusted
    <3>1. PICK c, identity, mode :
            /\ report' = ReportOf(c, identity, mode)
            /\ identity \in {InfoIdentity, SnapshotIdentity}
      BY <2>4, ReportIs
    <3>2. /\ report'.identity = identity
          /\ report'.confidence =
               Confidence(identity, ResolveLocationProfile(identity.version, Shape))
      BY <3>1, FieldsOfReport
    <3>3. /\ FirstField("model") \in {Failed, RunValue("model")}
          /\ FirstField("firmware") \in {Failed, RunValue("firmware")}
      BY FirstFieldIsRun
    <3>4. /\ Answer(ApprovedEndpoint("model")) \in {Failed, RunValue("model")}
          /\ Answer(ApprovedEndpoint("firmware")) \in {Failed, RunValue("firmware")}
      BY AnswerIsRun DEF OneSource
    <3>5. PICK model, firmware, name, release :
            /\ model \in {Failed, RunValue("model")}
            /\ firmware \in {Failed, RunValue("firmware")}
            /\ name \in {Stripped(model), Unstripped(model)}
            /\ release \in {Stripped(firmware), Unstripped(firmware)}
            /\ identity = IdentityOf(ModelOf(model, name), release)
      <4>1. CASE identity = InfoIdentity
        BY <3>3, <4>1 DEF InfoIdentity
      <4>2. CASE identity = SnapshotIdentity
        BY <3>4, <4>2 DEF SnapshotIdentity
      <4>3. QED BY <3>1, <4>1, <4>2
    <3>6. identity.model = ModelOf(model, name) /\ identity.version = RunIdentity.version
      BY <3>5 DEF IdentityOf, RunIdentity
    <3>7. Confidence(identity, ResolveLocationProfile(RunIdentity.version, Shape)) = "verified"
      BY <3>2, <3>6
    <3>8. Confidence(RunIdentity, ResolveLocationProfile(RunIdentity.version, Shape)) = "verified"
      BY <3>2, <3>5, <3>6, <3>7, TrustCarriesOver
    <3>9. QED BY <3>8 DEF RunConfidence
  <2>5. QED BY <2>3, <2>4, StepsOfReport
<1>3. QED BY <1>1, <1>2, TypedHolds, PTL DEF Spec
=============================================================================
