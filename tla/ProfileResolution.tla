-------------------------- MODULE ProfileResolution --------------------------
(***************************************************************************)
(* The profile resolution of Capabilities over every location service a    *)
(* discovery can return: the service changes one characteristic at a time, *)
(* the advertised protocol version and the firmware change on their own,   *)
(* as they do from one camera, firmware or scan to the next.               *)
(***************************************************************************)
EXTENDS Capabilities

CONSTANTS
  Versions,    \* protocol versions an advertisement carries, NoVersion too
  Firmwares,   \* firmware strings a camera reports, NoFirmware too
  Models       \* model names

\* The protocol version is a number of two bytes where there is one.
ASSUME ResolutionAssumption == Versions \subseteq Nat \cup {NoVersion}

VARIABLES
  identity,    \* SonyIdentity: model, firmware, version
  shape        \* the discovered location service

vars == <<identity, shape>>

Init ==
  /\ identity \in [model : Models, firmware : {NoFirmware}, version : {NoVersion}]
  /\ shape = [c \in Characteristics |-> "absent"]

FindCharacteristic(c, finding) ==
  /\ shape' = [shape EXCEPT ![c] = finding]
  /\ UNCHANGED identity

Identify(i) == identity' = i /\ UNCHANGED shape

Next ==
  \/ \E c \in Characteristics, f \in Findings : FindCharacteristic(c, f)
  \/ \E i \in [model : Models, firmware : Firmwares, version : Versions] : Identify(i)

Spec == Init /\ [][Next]_vars

-----------------------------------------------------------------------------
Resolved == ResolveCompatibleProfile(identity, shape)

PlanActions ==
  LET setup == SetupPlan(Resolved)
      maybe == {setup[i].uuid : i \in DOMAIN setup} \cap Controls
      cleanup == CleanupPlan(maybe)
  IN  {setup[i] : i \in DOMAIN setup} \cup {cleanup[i] : i \in DOMAIN cleanup}

\* Whatever a plan reads, writes or subscribes to, its compensation included,
\* is there once, with the property the operation needs: the "Expected
\* service-owned characteristic is unavailable" errors of a session cannot
\* happen to a resolved profile.
PlanAvailable ==
  Executable(Resolved) =>
    /\ \A a \in PlanActions : shape[a.uuid] = "usable"
    /\ shape["dd11"] = "usable"

\* A session without the controls only goes to a camera that says it is older
\* than the controls and does not show any.
LegacyOnlyByEvidence ==
  Resolved.kind = "legacy" =>
    /\ identity.version \in 0 .. UnlockVersion - 1
    /\ \A c \in RequiredControls : shape[c] = "absent"

\* The registry overrules the shape, blocking before verifying, and only for
\* the identity it names: an unread firmware never matches an entry.
RegistryOverrules ==
  LET byShape == ResolveLocationProfile(identity.version, shape)
      confidence == Confidence(identity, byShape)
      Named(registry) == \E e \in registry : Matches(e, identity, byShape)
  IN  /\ Named(Blocked) => ~Executable(Resolved)
      /\ confidence = "verified" => Named(Verified) /\ ~Named(Blocked)
      /\ identity.firmware = NoFirmware /\ Executable(Resolved)
           => ApprovalRequired(identity, shape)
=============================================================================
