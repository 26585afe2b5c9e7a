----------------------------- MODULE Snapshots -----------------------------
(***************************************************************************)
(* The two read-only snapshots of a camera, camera-info                    *)
(* (camera_snapshot.py) and compatibility-snapshot                         *)
(* (compatibility_snapshot.py), next to what send-location would make of   *)
(* the same camera: each takes model, firmware and DD21 from other places  *)
(* and decodes them in its own way.                                        *)
(*                                                                         *)
(* A value is a text and what surrounds it: nothing, blanks, a line break, *)
(* or bytes that are no ASCII.  Only characteristics with a model, a       *)
(* firmware or DD21 are listed, in the order of discovery; the others are  *)
(* part of camera.shape.                                                   *)
(***************************************************************************)
EXTENDS Capabilities, SequencesExt

CONSTANTS Cameras

VARIABLES
  camera,     \* the camera the commands find: what it advertises and contains
  command,    \* the command that is running
  todo,       \* characteristics it has still to read, by their place
  answers,    \* what the reads returned so far
  report      \* the last report that was printed

vars == <<camera, command, todo, answers, report>>

Commands == {"camera-info", "compatibility-snapshot"}
Idle == "none"
NoText == "none"
NoMode == "none"

\* A read that failed or timed out, or was not made.
Failed == [text |-> NoText, around |-> "failed"]
NoReport == [command |-> Idle]

\* What a value may be surrounded by; a text with blanks around it.
Surroundings == {"nothing", "blanks", "newline", "garbled"}
Padded(text) == text \o " "

Values == [text : STRING \ {NoText}, around : Surroundings]
Items == [service : STRING, uuid : STRING, readable : BOOLEAN, value : Values]

\* Registry entries name a model, and a firmware without blanks around it: no
\* run would ever match another one.
ASSUME SnapshotAssumption ==
  /\ \A c \in Cameras : /\ c.version \in Int /\ c.shape \in Shapes
                        /\ c.characteristics \in Seq(Items)
  /\ \A e \in Verified :
       /\ NormalizeModel(e.model) # ""
       /\ \A c \in Cameras : \A i \in DOMAIN c.characteristics :
            e.firmware # Padded(c.characteristics[i].value.text)

Found == DOMAIN camera.characteristics
At(i) == camera.characteristics[i]
Readable(i) == i # 0 /\ At(i).readable

-----------------------------------------------------------------------------
(* Decoding.                                                               *)

\* decode_identity_value: stripped.
Stripped(value) ==
  IF value.around \in {"failed", "garbled"} \/ value.text = "" THEN NoText ELSE value.text

\* _ascii of sony_info.py: blanks stay, control characters are refused.
Unstripped(value) ==
  CASE value.around \in {"failed", "garbled", "newline"} -> NoText
    [] value.around = "blanks"                           -> Padded(value.text)
    [] value.around = "nothing" /\ value.text = ""       -> NoText
    [] OTHER                                             -> value.text

\* _fallback_model
FallbackModel == camera.name

\* A model as it was decoded; normalize_model strips it.
ModelOf(value, decoded) ==
  IF decoded = NoText THEN FallbackModel ELSE [base |-> value.text, spelling |-> decoded]

\* parse_dd21_mode
Mode(value) ==
  IF value.around = "nothing" /\ value.text \in {"91 bytes", "95 bytes"}
    THEN value.text ELSE NoMode

-----------------------------------------------------------------------------
(* Where the values come from.                                             *)

\* expected_identity_service
ExpectedService(uuid) == IF uuid = "dd21" THEN "location" ELSE "control"

Own(uuid) == {i \in Found : At(i).uuid = uuid /\ At(i).service = ExpectedService(uuid)}

\* _approved_endpoints: what is there twice is ambiguous and is not read.
ApprovedEndpoint(uuid) == IF Cardinality(Own(uuid)) = 1 THEN Max(Own(uuid)) ELSE 0

\* _endpoints_for_service: the last one counts.
RunEndpoint(uuid) == IF Own(uuid) = {} THEN 0 ELSE Max(Own(uuid))

\* What the location service contains, DD21 included.
Shape ==
  [camera.shape EXCEPT !["dd21"] =
     IF Own("dd21") = {} THEN "absent"
     ELSE IF Cardinality(Own("dd21")) > 1 THEN "duplicate"
     ELSE IF \A i \in Own("dd21") : At(i).readable THEN "usable"
     ELSE "unusable"]

\* The places a command goes through, 0 for a characteristic it does not have.
ToRead(c) ==
  IF c = "camera-info"
    THEN [i \in 1 .. Len(camera.characteristics) |-> i]
    ELSE <<ApprovedEndpoint("model"), ApprovedEndpoint("firmware"), ApprovedEndpoint("dd21")>>

Answer(i) == IF i = 0 THEN Failed ELSE answers[i]

\* The places whose field camera-info finds, model in two kinds of
\* characteristics and of any service.
Sources(field) ==
  {i \in Found : At(i).uuid \in
     IF field = "model" THEN {"model", "framed model"} ELSE {field}}

\* _first_field
FirstField(field) ==
  LET decoded == {i \in Sources(field) : Unstripped(answers[i]) # NoText}
  IN  IF decoded = {} THEN Failed ELSE answers[Min(decoded)]

\* DD21 of any service.
InfoDD21_AnyService ==
  LET places == {i \in Found : At(i).uuid = "dd21" /\ At(i).readable}
  IN  IF places = {} THEN Failed ELSE answers[Max(places)]

\* is_dd21: the last readable DD21 of the location service counts.
InfoDD21 ==
  LET places == {i \in Own("dd21") : At(i).readable}
  IN  IF places = {} THEN Failed ELSE answers[Max(places)]

\* _dd21_result: the first DD21 has to be readable.
InfoMode ==
  IF Own("dd21") = {} THEN NoMode
  ELSE IF ~At(Min(Own("dd21"))).readable THEN NoMode
  ELSE Mode(InfoDD21)

IdentityOf(model, firmware) ==
  [model |-> model, firmware |-> firmware, version |-> camera.version]

InfoIdentity ==
  LET model == FirstField("model")
  IN  IdentityOf(ModelOf(model, Unstripped(model)), Unstripped(FirstField("firmware")))

\* A firmware that is taken as it was read.
SnapshotIdentity_Unstripped ==
  LET model == Answer(ApprovedEndpoint("model"))
  IN  IdentityOf(ModelOf(model, Stripped(model)),
                 Unstripped(Answer(ApprovedEndpoint("firmware"))))

SnapshotIdentity ==
  LET model == Answer(ApprovedEndpoint("model"))
  IN  IdentityOf(ModelOf(model, Stripped(model)),
                 Stripped(Answer(ApprovedEndpoint("firmware"))))

\* _read_identity_value, if the read succeeds wherever it can: the endpoint is
\* read without a look at its properties.
RunValue(uuid) ==
  IF Readable(RunEndpoint(uuid)) THEN At(RunEndpoint(uuid)).value ELSE Failed

\* _read_identity of send-location
RunIdentity ==
  IdentityOf(ModelOf(RunValue("model"), Stripped(RunValue("model"))),
             Stripped(RunValue("firmware")))

ReportOf(c, identity, mode) ==
  [command |-> c,
   identity |-> identity,
   profile |-> ResolveCompatibleProfile(identity, Shape),
   confidence |-> Confidence(identity, ResolveLocationProfile(identity.version, Shape)),
   mode |-> mode,
   complete |-> \A i \in Range(ToRead(c)) : Readable(i) => answers[i] # Failed]

-----------------------------------------------------------------------------
Init ==
  /\ camera \in Cameras
  /\ command = Idle
  /\ todo = <<>>
  /\ answers = [i \in Found |-> Failed]
  /\ report = NoReport

\* The camera was found and connected, and its services are known.
Begin(c) ==
  /\ command = Idle
  /\ command' = c
  /\ todo' = ToRead(c)
  /\ answers' = [i \in Found |-> Failed]
  /\ UNCHANGED <<camera, report>>

\* The loop passes over what is not there or not readable.
Skip ==
  /\ todo # <<>> /\ ~Readable(Head(todo))
  /\ todo' = Tail(todo)
  /\ UNCHANGED <<camera, command, answers, report>>

\* The next read, under its timeout.
ReadNext(succeeds) ==
  /\ todo # <<>> /\ Readable(Head(todo))
  /\ answers' = [answers EXCEPT ![Head(todo)] = IF succeeds THEN At(Head(todo)).value ELSE Failed]
  /\ todo' = Tail(todo)
  /\ UNCHANGED <<camera, command, report>>

PrintReport ==
  /\ command # Idle
  /\ todo = <<>>
  /\ report' = IF command = "camera-info"
                 THEN ReportOf(command, InfoIdentity, InfoMode)
                 ELSE ReportOf(command, SnapshotIdentity, Mode(Answer(ApprovedEndpoint("dd21"))))
  /\ command' = Idle
  /\ UNCHANGED <<camera, todo, answers>>

\* The session fails as a whole, at the latest when it is closed: nothing that
\* was read is reported (exit code 2).
SessionFails ==
  /\ command # Idle
  /\ command' = Idle
  /\ todo' = <<>>
  /\ UNCHANGED <<camera, answers, report>>

Next ==
  \/ \E c \in Commands : Begin(c)
  \/ Skip
  \/ \E succeeds \in BOOLEAN : ReadNext(succeeds)
  \/ PrintReport
  \/ SessionFails

Spec == Init /\ [][Next]_vars

-----------------------------------------------------------------------------
Printed == report # NoReport

\* The camera has one model and one firmware characteristic, where they belong.
OneIdentity ==
  \A uuid \in {"model", "firmware"} : Cardinality(Own(uuid)) <= 1

\* No field is offered by two characteristics.
OneSource ==
  \A field \in {"model", "firmware"} : Sources(field) = Own(field) /\ Cardinality(Own(field)) <= 1

RunConfidence ==
  Confidence(RunIdentity, ResolveLocationProfile(RunIdentity.version, Shape))

\* What the compatibility snapshot says of a camera is what send-location will
\* act on, unless a read failed: the same identity, so the same profile,
\* confidence and approval key (compatibility_snapshot.py:122-129 against
\* sony_location.py:200-206).
SnapshotForetellsRun ==
  Printed /\ report.command = "compatibility-snapshot" /\ report.complete /\ OneIdentity =>
    /\ report.identity = RunIdentity
    /\ report.profile = ResolveCompatibleProfile(RunIdentity, Shape)
    /\ report.confidence = RunConfidence

\* The camera is advertised under the model it reports: its owner has not given
\* it the name of another one.
NamedTrue == NormalizeModel(FallbackModel) = NormalizeModel(RunIdentity.model)

\* No snapshot, with whatever reads failed, calls a camera verified that
\* send-location would ask an approval for or refuse, unless it had to take the
\* model from the name and the name is that of another model.
NeverMoreTrusted ==
  Printed /\ report.confidence = "verified" /\ OneSource
          /\ (report.identity.model = FallbackModel => NamedTrue) =>
    RunConfidence = "verified"

\* A packet size next to an executable profile is what the one DD21 of the
\* location service has said in this very session.
ModeIsEvidence ==
  Printed /\ report.mode # NoMode /\ Executable(report.profile) =>
    \E i \in Own("dd21") : Own("dd21") = {i} /\ report.mode = Mode(At(i).value)
=============================================================================
