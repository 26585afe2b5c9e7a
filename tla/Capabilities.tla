---------------------------- MODULE Capabilities ----------------------------
(***************************************************************************)
(* Which location profile a camera gets and what has to be approved before *)
(* the client writes to it (sony_capabilities.py).                         *)
(*                                                                         *)
(* A location service is a shape: what discovery found for each of its     *)
(* characteristics.  "usable" has the property the client needs ("write",  *)
(* "read", "notify" or "indicate"), "unusable" lacks it, "duplicate" was   *)
(* found more than once.  Model names are a base and a spelling, since the *)
(* code compares them in a normal form.                                    *)
(***************************************************************************)
EXTENDS Integers, SessionPlan

CONSTANTS
  Verified,   \* VERIFIED_COMPATIBILITY, empty at this commit
  Blocked     \* UNSUPPORTED_COMPATIBILITY, empty at this commit

Characteristics == {"dd01", "dd11", "dd21", "dd30", "dd31", "dd32", "dd33", "other"}
Findings == {"absent", "usable", "unusable", "duplicate"}
Shapes == [Characteristics -> Findings]

NoVersion == -1     \* protocol_version is None
NoFirmware == "none"
UnlockVersion == 65 \* PROTOCOL_VERSION_REQUIRES_UNLOCK

UnsupportedProfile ==
  [kind |-> "unsupported", statusNotifications |-> FALSE,
   timeCorrection |-> FALSE, areaAdjustment |-> FALSE]

\* normalize_model: case, separators and the "LE-" prefix do not count.
NormalizeModel(model) == model.base

-----------------------------------------------------------------------------
(* resolve_location_profile.                                               *)

\* _has_property
HasProperty(shape, c) == shape[c] = "usable"

Present(shape, c) == shape[c] # "absent"

Ambiguous(shape) == \E c \in Characteristics : shape[c] = "duplicate"

\* _validate_core_shape
CoreShapeValid(shape) == HasProperty(shape, "dd11") /\ HasProperty(shape, "dd21")

\* A control shape that is content with one writable control.
ControlShapeValid_EitherWritable(shape) ==
  /\ Present(shape, "dd30") = Present(shape, "dd31")
  /\ Present(shape, "dd30") =>
       HasProperty(shape, "dd30") \/ HasProperty(shape, "dd31")

\* _control_shape: both controls or none, and both writable.
ControlShapeValid(shape) ==
  /\ Present(shape, "dd30") = Present(shape, "dd31")
  /\ Present(shape, "dd30") =>
       HasProperty(shape, "dd30") /\ HasProperty(shape, "dd31")

HasControls(shape) == Present(shape, "dd30") /\ Present(shape, "dd31")

\* A profile of the given kind with _optional_capabilities.
ProfileOf(kind, shape) ==
  [kind |-> kind,
   statusNotifications |-> HasProperty(shape, "dd01"),
   timeCorrection |-> HasProperty(shape, "dd32"),
   areaAdjustment |-> HasProperty(shape, "dd33")]

\* A boundary that lets the first unlocking version pass as an older one.
ResolveVersionShape_OffByOne(version, shape) ==
  CASE version = NoVersion /\ HasControls(shape)        -> ProfileOf("modern", shape)
    [] version > UnlockVersion /\ HasControls(shape)    -> ProfileOf("modern", shape)
    [] /\ version # NoVersion
       /\ version <= UnlockVersion
       /\ ~HasControls(shape)                           -> ProfileOf("legacy", shape)
    [] OTHER                                            -> UnsupportedProfile

\* _resolve_version_shape
ResolveVersionShape(version, shape) ==
  CASE version = NoVersion /\ HasControls(shape)        -> ProfileOf("modern", shape)
    [] version >= UnlockVersion /\ HasControls(shape)   -> ProfileOf("modern", shape)
    [] /\ version # NoVersion
       /\ version < UnlockVersion
       /\ ~HasControls(shape)                           -> ProfileOf("legacy", shape)
    [] OTHER                                            -> UnsupportedProfile

\* resolve_location_profile of a complete discovery
ResolveLocationProfile(version, shape) ==
  IF Ambiguous(shape) \/ ~CoreShapeValid(shape) \/ ~ControlShapeValid(shape)
    THEN UnsupportedProfile
    ELSE ResolveVersionShape(version, shape)

-----------------------------------------------------------------------------
(* The registry and the approval key.                                      *)

\* An entry that also speaks of a camera whose firmware could not be read.
Matches_AnyFirmware(entry, identity, profile) ==
  /\ NormalizeModel(entry.model) = NormalizeModel(identity.model)
  /\ identity.firmware \in {NoFirmware, entry.firmware}
  /\ entry.version = identity.version
  /\ entry.kind = profile.kind

\* An entry speaks of one exact identity and profile kind.
Matches(entry, identity, profile) ==
  /\ identity.firmware # NoFirmware
  /\ NormalizeModel(entry.model) = NormalizeModel(identity.model)
  /\ entry.firmware = identity.firmware
  /\ entry.version = identity.version
  /\ entry.kind = profile.kind

\* A lookup that trusts a verified entry before it sees a blocked one.
Confidence_VerifiedFirst(identity, profile) ==
  IF ~Executable(profile) THEN "unsupported"
  ELSE IF \E e \in Verified : Matches(e, identity, profile) THEN "verified"
  ELSE IF \E e \in Blocked : Matches(e, identity, profile) THEN "unsupported"
  ELSE "experimental"

\* compatibility_for: blocked entries are looked at first.
Confidence(identity, profile) ==
  IF ~Executable(profile) THEN "unsupported"
  ELSE IF \E e \in Blocked : Matches(e, identity, profile) THEN "unsupported"
  ELSE IF \E e \in Verified : Matches(e, identity, profile) THEN "verified"
  ELSE "experimental"

\* resolve_compatible_profile: the registry overrules the shape.
ResolveCompatibleProfile(identity, shape) ==
  LET profile == ResolveLocationProfile(identity.version, shape)
  IN  IF Confidence(identity, profile) = "unsupported"
        THEN UnsupportedProfile ELSE profile

ApprovalRequired(identity, shape) ==
  LET profile == ResolveLocationProfile(identity.version, shape)
  IN  Confidence(identity, profile) = "experimental"

NoKey == [model |-> "none", firmware |-> NoFirmware, version |-> NoVersion,
          profile |-> UnsupportedProfile, purpose |-> "none"]

\* A key that forgets what it was asked for.
ApprovalKey_AnyPurpose(identity, profile, purpose) ==
  [model |-> NormalizeModel(identity.model), firmware |-> identity.firmware,
   version |-> identity.version, profile |-> profile, purpose |-> "any"]

\* A key that forgets the profile.
ApprovalKey_AnyProfile(identity, profile, purpose) ==
  [model |-> NormalizeModel(identity.model), firmware |-> identity.firmware,
   version |-> identity.version, profile |-> UnsupportedProfile, purpose |-> purpose]

\* experimental_approval_key: a digest of exactly this scope.
ApprovalKey(identity, profile, purpose) ==
  [model |-> NormalizeModel(identity.model), firmware |-> identity.firmware,
   version |-> identity.version, profile |-> profile, purpose |-> purpose]
=============================================================================
