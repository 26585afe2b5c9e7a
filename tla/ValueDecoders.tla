--------------------------- MODULE ValueDecoders ---------------------------
(***************************************************************************)
(* What camera-info, the compatibility snapshot and the monitor make of    *)
(* the value of one characteristic (decode_characteristic of sony_info.py):*)
(* its decoder, the summary and the redacted output.                       *)
(*                                                                         *)
(* The camera means something and sends it in a frame; on the way the      *)
(* frame may lose its end, as it does when a read is cut to the size of a  *)
(* packet, or get a byte too many, or the read may fail.  Bytes are        *)
(* numbers; the value of a field is an option, <<v>> or None, so that a    *)
(* name, a number and a text never have to be compared with each other.    *)
(* A warning is <<what it is about, the numbers it says>>; of its wording  *)
(* nothing else is left, and where only public values are warned about,    *)
(* the numbers but a declared length are left out too.  The warnings of a  *)
(* value are a set, as the code always joins them in the same order.       *)
(***************************************************************************)
EXTENDS Integers, Sequences, FiniteSetsExt, SequencesExt

CONSTANT Meanings   \* what a camera may mean by the value of each characteristic

\* The characteristics that are read, by the short form of their UUID.
Uuids == DOMAIN Meanings

Byte == 0 .. 255
None == <<>>

\* What an error may say; all but the last two depend on the state of the camera.
ErrorKinds == {"0x90", "0x9d", "insufficient encryption", "insufficient authentication",
               "timeout", "not connected", "no value"}

VARIABLES
  uuid,       \* the characteristic that is read
  meaning,    \* what the camera means by its value
  value,      \* what arrived of it
  error       \* why the read failed, or "none"

vars == <<uuid, meaning, value, error>>

-----------------------------------------------------------------------------
(* The camera's side of the frames.                                        *)

BE2(n) == <<n \div 256, n % 256>>
BE4(n) == <<0, 0>> \o BE2(n)

\* A frame declares its length, then its type.
Enclosed(type, payload) == <<Len(payload) + 2>> \o type \o payload
Plain(payload) == Enclosed(<<0, 0>>, payload)

Record(record) == <<Len(record.payload) + 2>> \o BE2(record.tag) \o record.payload
Pack(percent) == <<1, 0, 5, 0>> \o BE4(percent)

Frame(u, m) ==
  CASE u \in {"cc0a", "cc0b", "cc0c", "cc15", "cca1", "cc63"} -> m
    [] u \in {"cc06", "cc07", "cc11"} -> Plain(m)
    [] u \in {"cc03", "dd30", "dd31", "dd32", "dd33"} -> IF u = "cc03" THEN Plain(<<m>>) ELSE <<m>>
    [] u = "cc09" -> FlattenSeq([i \in DOMAIN m |-> Record(m[i])])
    [] u = "cc0f" -> Plain(<<2, 3, 1, m.status, 0>> \o BE4(m.shots) \o BE4(m.seconds) \o m.rest)
    [] u = "cc10" -> Plain(<<2, 3, 0>> \o FlattenSeq([i \in DOMAIN m.packs |-> Pack(m.packs[i])])
                           \o BE4(m.reserved) \o <<m.power>>)
    [] u = "cc40" -> Plain(FlattenSeq([i \in DOMAIN m |-> Append(m[i], 10)]))
    [] u = "ccab" -> Plain(m)
    [] u = "dd21" -> <<6, 16, 0, 156, IF m.timezone THEN 2 ELSE 0>> \o m.rest
    [] u \in {"cc0d", "cc12", "ee02", "ee04"} -> Enclosed(BE2(m.type), m.payload)

\* What a camera may mean, as far as its frame can say it: a BSSID that is not
\* framed does not look like a frame, the name of an FTP profile is one line.
\* Every byte of a frame is one, that of its length included.
Text == Seq(Byte)
Short == 0 .. 256 * 256 - 1

\* The ASCII characters that end a line.
Breaks == {10, 11, 12, 13, 28, 29, 30}

Meant(u) ==
  CASE u \in {"cc06", "cc07", "cc0a", "cc0b", "cc11", "cc15", "cca1", "ccab", "cc63"} -> Text
    [] u = "cc0c" -> {m \in Text : Len(m) < 3 \/ m[1] # Len(m) - 1}
    [] u \in {"cc03", "dd30", "dd31", "dd32", "dd33"} -> Byte
    [] u = "cc09" -> Seq([tag : Short, payload : Text])
    [] u = "cc0f" -> [status : Byte, shots : Short, seconds : Short, rest : Text]
    [] u = "cc10" -> [packs : Seq(Short), reserved : Short, power : Byte]
    [] u = "cc40" ->
         {m \in Seq(Text) : \A i \in DOMAIN m :
            m[i] # <<>> /\ \A j \in DOMAIN m[i] : m[i][j] \notin Breaks}
    [] u = "dd21" -> [timezone : BOOLEAN, rest : {<<0>>, <<0, 0>>}]
    [] u \in {"cc0d", "cc12", "ee02", "ee04"} -> [type : Short, payload : Text]
    [] OTHER -> {}

ASSUME DecoderAssumption ==
  \A u \in Uuids : \A m \in Meanings[u] : m \in Meant(u) /\ Frame(u, m) \in Seq(Byte)

Sent == Frame(uuid, meaning)

-----------------------------------------------------------------------------
(* The decoders.                                                           *)

BigEndian(bytes) ==
  LET upTo[i \in 0 .. Len(bytes)] == IF i = 0 THEN 0 ELSE 256 * upTo[i - 1] + bytes[i]
  IN  upTo[Len(bytes)]

\* A ParseResult: partial as soon as there is a warning.
Parsed(fields, warnings) ==
  [status |-> IF warnings = {} THEN "decoded" ELSE "partial", fields |-> fields,
   warnings |-> warnings]

Warn(what, when) == IF when THEN {<<what, <<>>>>} ELSE {}

NoFields == [f \in {} |-> None]

Unknown(what) == [status |-> "unknown", fields |-> NoFields, warnings |-> Warn(what, TRUE)]

Field(name, content) == [f \in {name} |-> content]

With(fields, more) ==
  [f \in DOMAIN fields \cup DOMAIN more |-> IF f \in DOMAIN fields THEN fields[f] ELSE more[f]]

\* bytes.rstrip(b"\x00")
RStrip(bytes) == SubSeq(bytes, 1, Max({0} \cup {i \in DOMAIN bytes : bytes[i] # 0}))

\* _ascii: a text that is not empty, all ASCII and without control characters.
Printable(text) == text # <<>> /\ \A i \in DOMAIN text : text[i] \in 32 .. 126

TextWarnings(text) ==
  CASE Printable(text)                     -> {}
    [] text = <<>>                         -> Warn("empty", TRUE)
    [] \E i \in DOMAIN text : text[i] > 127 -> Warn("not ASCII", TRUE)
    [] OTHER                               -> Warn("control characters", TRUE)

Ascii(bytes, field) ==
  LET text == RStrip(bytes)
  IN  Parsed(Field(field, IF Printable(text) THEN <<text>> ELSE None), TextWarnings(text))

\* A frame that is only refused when it is shorter than it says.
DeclaredLength_AtLeast(bytes) == bytes[1] <= Len(bytes) - 1

DeclaredLength(bytes) == bytes[1] = Len(bytes) - 1

HasHeader(bytes) == Len(bytes) >= 3
Payload(bytes) == SubSeq(bytes, 4, Len(bytes))

LengthWarning(bytes) ==
  IF DeclaredLength(bytes) THEN {} ELSE {<<"declared length", <<bytes[1], Len(bytes) - 1>>>>}

\* _framed_payload
FrameWarnings(bytes) ==
  IF HasHeader(bytes) THEN LengthWarning(bytes) ELSE Warn("no header", TRUE)

\* _framed_ascii: a wrong length is noticed, the text is kept.
FramedAscii(bytes, field) ==
  IF ~HasHeader(bytes) THEN Parsed(Field(field, None), FrameWarnings(bytes))
  ELSE LET text == Ascii(Payload(bytes), field)
       IN  Parsed(text.fields, FrameWarnings(bytes) \cup text.warnings)

\* What does not look like a frame is all text.
Content(bytes) == IF HasHeader(bytes) /\ DeclaredLength(bytes) THEN Payload(bytes) ELSE bytes

\* An optional frame that is warned about as if it were none.
OptionalFramedAscii_SaysLength(bytes, field) ==
  LET text == Ascii(Content(bytes), field)
  IN  Parsed(text.fields, FrameWarnings(bytes) \cup text.warnings)

\* _optional_framed_ascii
OptionalFramedAscii(bytes, field) == Ascii(Content(bytes), field)

\* str.splitlines of an ASCII text, without the empty lines.
Lines(text) ==
  LET End(i) == Max({j \in i .. Len(text) : \A k \in i .. j : text[k] \notin Breaks})
      from[i \in 1 .. Len(text) + 1] ==
        IF i > Len(text) THEN <<>>
        ELSE IF text[i] \in Breaks THEN from[i + 1]
        ELSE <<SubSeq(text, i, End(i))>> \o from[End(i) + 1]
  IN  from[1]

FtpProfiles(bytes) ==
  LET text == RStrip(Payload(bytes))
      ascii == \A i \in DOMAIN text : text[i] < 128
  IN  Parsed(Field("ftp_profile_names",
                   IF HasHeader(bytes) /\ ascii THEN <<Lines(text)>> ELSE None),
             FrameWarnings(bytes) \cup Warn("not ASCII", ~ascii))

PushTransfer(bytes) ==
  IF Payload(bytes) = <<>>
    THEN Parsed(NoFields, FrameWarnings(bytes) \cup Warn("no state byte", TRUE))
  ELSE LET code == bytes[4]
           state == CASE code = 1 -> "idle" [] code = 2 -> "ready" [] OTHER -> "unknown"
       IN  Parsed([push_transfer_code |-> <<code>>, push_transfer_state |-> <<state>>],
                  FrameWarnings(bytes) \cup Warn("unknown state", state = "unknown"))

\* Records that take what is there of a record that is cut.
Records_TakesRest(bytes) ==
  LET from[i \in 1 .. Len(bytes) + 256] ==
        IF i > Len(bytes) THEN [records |-> <<>>, whole |-> TRUE]
        ELSE IF bytes[i] < 2 \/ i + 2 > Len(bytes) THEN [records |-> <<>>, whole |-> FALSE]
        ELSE LET end  == i + bytes[i]
                 rest == from[end + 1]
             IN  [records |-> <<[tag |-> BigEndian(SubSeq(bytes, i + 1, i + 2)),
                                 payload |-> SubSeq(bytes, i + 3,
                                               IF end < Len(bytes) THEN end ELSE Len(bytes))]>>
                              \o rest.records,
                  whole |-> rest.whole /\ end <= Len(bytes)]
  IN  from[1]

\* _parse_length_tagged_records: the records up to the first that is not whole.
Records(bytes) ==
  LET from[i \in 1 .. Len(bytes) + 1] ==
        IF i > Len(bytes) THEN [records |-> <<>>, whole |-> TRUE]
        ELSE IF bytes[i] < 2 \/ i + bytes[i] > Len(bytes) THEN [records |-> <<>>, whole |-> FALSE]
        ELSE LET end  == i + bytes[i]
                 rest == from[end + 1]
             IN  [records |-> <<[tag |-> BigEndian(SubSeq(bytes, i + 1, i + 2)),
                                 payload |-> SubSeq(bytes, i + 3, end)]>> \o rest.records,
                  whole |-> rest.whole]
  IN  from[1]

StatusNames ==
  [tag \in {2, 3, 5, 7, 8, 9, 10} |->
     CASE tag = 2 -> "image_transfer_available" [] tag = 3 -> "remote_control_available"
       [] tag = 5 -> "time_setting_complete"    [] tag = 7 -> "live_streaming"
       [] tag = 8 -> "movie_recording"          [] tag = 9 -> "streaming_mode"
       [] tag = 10 -> "background_transfer_available"]

WifiState(code) ==
  IF code < 4 THEN <<"terminated", "launching", "launched", "terminating">>[code + 1]
  ELSE "unknown"

\* The fields of the records that count, one for each tag; a flag stays the
\* number it is, of which the code shows 0 and 1 as False and True.
StatusFields(parsed, counts) ==
  LET Number(i) == BigEndian(parsed.records[i].payload)
      tags == {parsed.records[i].tag : i \in counts}
      At(tag) == CHOOSE i \in counts : parsed.records[i].tag = tag
      known == [name \in {StatusNames[t] : t \in tags \cap DOMAIN StatusNames} |->
                  <<Number(At(CHOOSE t \in DOMAIN StatusNames : StatusNames[t] = name))>>]
      wifi == IF 1 \notin tags THEN NoFields
              ELSE [wifi_state_code |-> <<Number(At(1))>>,
                    wifi_state      |-> <<WifiState(Number(At(1)))>>]
      unknown == tags \ (DOMAIN StatusNames \cup {1})
      rest == IF unknown = {} THEN NoFields
              ELSE Field("unknown_tags", <<{<<t, Number(At(t))>> : t \in unknown}>>)
      again == SelectSeq([i \in DOMAIN parsed.records |-> i], LAMBDA i : i \notin counts)
      twice == IF counts = DOMAIN parsed.records THEN NoFields
               ELSE Field("duplicate_tags",
                          <<[n \in DOMAIN again |-> parsed.records[again[n]].tag]>>)
      odd == 1 \in tags /\ WifiState(Number(At(1))) = "unknown"
  IN  Parsed(With(With(known, wifi), With(rest, twice)),
             Warn("broken record", ~parsed.whole) \cup Warn("unknown state", odd)
             \cup Warn("duplicate tags", counts # DOMAIN parsed.records)
             \cup Warn("unknown tags", unknown # {}))

\* Of two records with one tag, the later one.
CameraStatus_LastWins(bytes) ==
  LET parsed == Records(bytes)
  IN  StatusFields(parsed, {i \in DOMAIN parsed.records :
                              \A j \in DOMAIN parsed.records :
                                j > i => parsed.records[j].tag # parsed.records[i].tag})

\* _decode_camera_status: of two records with one tag the first one counts.
CameraStatus(bytes) ==
  LET parsed == Records(bytes)
  IN  StatusFields(parsed, {i \in DOMAIN parsed.records :
                              \A j \in DOMAIN parsed.records :
                                j < i => parsed.records[j].tag # parsed.records[i].tag})

PowerState(code) ==
  CASE code = 0 -> "indefinite" [] code = 1 -> "not_powered" [] code = 3 -> "usb_power"
    [] OTHER -> "unknown"

\* Six bytes, packs of eight, a trailer of five.
Battery(bytes) ==
  LET size == Len(bytes) - 11
      At(n) == 6 + 8 * (n - 1)
      batteries == [n \in 1 .. size \div 8 |->
                      [slot_flags |-> bytes[At(n) + 1], position_code |-> bytes[At(n) + 2],
                       level_code |-> bytes[At(n) + 3], reserved_code |-> bytes[At(n) + 4],
                       remaining_percent |-> BigEndian(SubSeq(bytes, At(n) + 5, At(n) + 8))]]
      power == bytes[Len(bytes)]
  IN  IF size < 0 THEN Parsed(NoFields, Warn("truncated frame", TRUE))
      ELSE Parsed([protocol_version |-> <<bytes[4]>>, feature_flags |-> <<bytes[5]>>,
                   battery_group_code |-> <<bytes[6]>>, batteries |-> <<batteries>>,
                   external_power_code |-> <<power>>,
                   external_power_state |-> <<PowerState(power)>>],
                  LengthWarning(bytes)
                  \cup Warn("reserved bytes",
                            SubSeq(bytes, Len(bytes) - 4, Len(bytes) - 1) # <<0, 0, 0, 0>>)
                  \cup Warn("truncated pack", size % 8 # 0)
                  \cup Warn("percentage",
                            \E n \in DOMAIN batteries : batteries[n].remaining_percent > 100)
                  \cup Warn("no pack", batteries = <<>>))

\* _decode_media: the primary slot only, and therefore always partial.
Media(bytes) ==
  IF Len(bytes) < 16 THEN Parsed(NoFields, Warn("truncated frame", TRUE))
  ELSE Parsed([protocol_version |-> <<bytes[4]>>, media_flags |-> <<bytes[5]>>,
               primary_slot |-> <<[position_code |-> bytes[6], status_code |-> bytes[7],
                   status |-> IF bytes[7] < 3
                                THEN <<"absent", "present", "format_required">>[bytes[7] + 1]
                                ELSE "unknown",
                   reserved_code |-> bytes[8],
                   remaining_shots |-> BigEndian(SubSeq(bytes, 9, 12)),
                   remaining_recording_seconds |-> BigEndian(SubSeq(bytes, 13, 16))]>>,
               unparsed_trailing_bytes |-> <<Len(bytes) - 16>>],
              LengthWarning(bytes) \cup Warn("trailing bytes", TRUE))

WifiBand(bytes) ==
  Parsed(IF Len(bytes) < 5 THEN NoFields
         ELSE [message_code |-> <<bytes[4]>>, wifi_band_code |-> <<bytes[5]>>],
         FrameWarnings(bytes)
         \cup Warn(IF Len(bytes) < 5 THEN "no band code" ELSE "not verified", TRUE))

\* parse_dd21_mode
LocationFeature(bytes) ==
  IF /\ Len(bytes) \in {6, 7}
     /\ SubSeq(bytes, 1, 4) = <<6, 16, 0, 156>>
     /\ bytes[5] \in {0, 2}
     /\ \A i \in 6 .. Len(bytes) : bytes[i] = 0
    THEN Parsed([timezone_supported |-> <<bytes[5] = 2>>,
                 location_packet_size |-> <<IF bytes[5] = 2 THEN 95 ELSE 91>>,
                 feature_flags |-> <<bytes[5]>>], {})
    ELSE Parsed([timezone_supported |-> None, location_packet_size |-> None],
                Warn("unknown mode", TRUE))

\* _single_bool; the code of a value that is none is left in a field of its own.
SingleBool(bytes, field) ==
  IF Len(bytes) = 1 /\ bytes[1] < 2 THEN Parsed(Field(field, <<bytes[1] = 1>>), {})
  ELSE Parsed(With(Field(field, None),
                   IF Len(bytes) = 1 THEN Field(field \o "_code", <<bytes[1]>>)
                   ELSE NoFields),
              Warn(IF Len(bytes) = 1 THEN "no boolean code" ELSE "not one byte", TRUE))

\* _decode_framing_only
FramingOnly(bytes) ==
  IF ~HasHeader(bytes) THEN Unknown("no header")
  ELSE Parsed([declared_length |-> <<bytes[1]>>,
               message_type    |-> <<BigEndian(SubSeq(bytes, 2, 3))>>,
               payload_length  |-> <<Len(bytes) - 3>>],
              FrameWarnings(bytes) \cup Warn("not verified", TRUE))

\* CHARACTERISTIC_SPECS: the decoders ...
Decoded(u, bytes) ==
  CASE u = "cc03" -> PushTransfer(bytes)      [] u = "cc09" -> CameraStatus(bytes)
    [] u = "cc0f" -> Media(bytes)             [] u = "cc10" -> Battery(bytes)
    [] u = "cc40" -> FtpProfiles(bytes)       [] u = "ccab" -> WifiBand(bytes)
    [] u = "dd21" -> LocationFeature(bytes)
    [] u = "cc0a" -> Ascii(bytes, "firmware_version")
    [] u = "cc0b" -> Ascii(bytes, "model")
    [] u = "cc11" -> FramedAscii(bytes, "model")
    [] u = "cc06" -> OptionalFramedAscii(bytes, "ssid")
    [] u = "cc07" -> OptionalFramedAscii(bytes, "password")
    [] u = "cc0c" -> OptionalFramedAscii(bytes, "bssid")
    [] u = "dd30" -> SingleBool(bytes, "location_locked")
    [] u = "dd31" -> SingleBool(bytes, "location_transfer_enabled")
    [] u = "dd32" -> SingleBool(bytes, "time_correction_enabled")
    [] u = "dd33" -> SingleBool(bytes, "area_adjustment_enabled")
    [] u \in {"cc0d", "cc12", "ee02", "ee04"} -> FramingOnly(bytes)
    [] OTHER -> Unknown("no decoder")

\* ... and the sensitivity; what is not in the table is not public either.
Sensitivity(u) ==
  CASE u \in {"cc06", "cc0c", "cc40"} -> "network"
    [] u = "cc07" -> "secret"
    [] u \in {"cc15", "cc16", "cc17", "cca2", "cca7", "ee02", "ee04"} -> "identifier"
    [] u \in {"cca1", "ccad", "ccaf", "ccb0"} -> "identifier"
    [] u \in {"cc03", "cc09", "cc0a", "cc0b", "cc0d", "cc0f", "cc10", "cc11", "cc12", "ccab",
              "dd21", "dd30", "dd31", "dd32", "dd33"} -> "public"
    [] OTHER -> "unknown"

\* _error_status; a read without a value is an error too.
ErrorStatus(e) == IF e \in {"not connected", "no value"} THEN "error" ELSE "unavailable"

\* decode_characteristic; no decoder raises, so no payload is ever malformed.
DecodeCharacteristic(u, bytes, e) ==
  LET parsed == IF e = "none" THEN Decoded(u, bytes)
                ELSE [status |-> ErrorStatus(e), fields |-> NoFields, warnings |-> {}]
  IN  [uuid |-> u, status |-> parsed.status, fields |-> parsed.fields,
       raw |-> IF e # "none" THEN None ELSE <<bytes>>, warnings |-> parsed.warnings, error |-> e]

-----------------------------------------------------------------------------
(* What is shown.                                                          *)

\* to_dict without show_sensitive
Redacted(reading) == Sensitivity(reading.uuid) # "public"

\* DecodedCharacteristic.to_dict, with include_raw and without show_sensitive;
\* the warning is never redacted.
ToDict(reading) ==
  [uuid |-> reading.uuid, status |-> reading.status, error |-> reading.error,
   warning   |-> reading.warnings,
   fields    |-> IF Redacted(reading) THEN [f \in DOMAIN reading.fields |-> None]
                 ELSE reading.fields,
   raw       |-> IF Redacted(reading) THEN None ELSE reading.raw,
   value_len |-> IF reading.raw = None THEN None ELSE <<Len(reading.raw[1])>>]

\* _first_field
FirstField(readings, field) ==
  LET has == {i \in DOMAIN readings : /\ field \in DOMAIN readings[i].fields
                                      /\ readings[i].fields[field] # None}
  IN  IF has = {} THEN None ELSE readings[Min(has)].fields[field]

SummaryFields ==
  {"model", "firmware_version", "external_power_state", "primary_slot", "wifi_state",
   "image_transfer_available", "remote_control_available", "time_setting_complete",
   "live_streaming", "movie_recording", "streaming_mode", "background_transfer_available",
   "timezone_supported", "location_packet_size", "location_locked",
   "location_transfer_enabled", "time_correction_enabled", "area_adjustment_enabled"}

\* snapshot_summary; camera_status and location leave out what is None.
Summary(readings) ==
  LET batteries == FirstField(readings, "batteries")
      percent == IF batteries = None \/ batteries[1] = <<>> THEN None
                 ELSE <<batteries[1][1].remaining_percent>>
  IN  With([f \in SummaryFields |-> FirstField(readings, f)], Field("battery_percent", percent))

Reading == DecodeCharacteristic(uuid, value, error)

-----------------------------------------------------------------------------
Init ==
  /\ uuid \in Uuids
  /\ meaning \in Meanings[uuid]
  /\ value = Sent
  /\ error = "none"

\* The end of the frame is lost.
Cut ==
  /\ error = "none" /\ value # <<>> /\ Len(value) <= Len(Sent)
  /\ value' = Front(value)
  /\ UNCHANGED <<uuid, meaning, error>>

\* The frame gets a byte too many.
Extend(byte) ==
  /\ error = "none" /\ value = Sent
  /\ value' = Append(value, byte)
  /\ UNCHANGED <<uuid, meaning, error>>

ReadFails(e) ==
  /\ error = "none" /\ value = Sent
  /\ error' = e
  /\ UNCHANGED <<uuid, meaning, value>>

Next ==
  \/ Cut
  \/ \E byte \in {0, 2, 65} : Extend(byte)
  \/ \E e \in ErrorKinds : ReadFails(e)

Spec == Init /\ [][Next]_vars

-----------------------------------------------------------------------------
(* Properties.                                                             *)

\* What a decoder can make out to the last byte.
Understood ==
  CASE uuid \in {"cc06", "cc07", "cc0a", "cc0b", "cc0c", "cc11"} -> Printable(RStrip(meaning))
    [] uuid = "cc03" -> meaning \in {1, 2}
    [] uuid \in {"dd30", "dd31", "dd32", "dd33"} -> meaning \in {0, 1}
    [] uuid = "cc09" ->
         /\ \A i, j \in DOMAIN meaning : meaning[i].tag = meaning[j].tag => i = j
         /\ \A i \in DOMAIN meaning :
              \/ meaning[i].tag \in DOMAIN StatusNames
              \/ meaning[i].tag = 1 /\ BigEndian(meaning[i].payload) < 4
    [] uuid = "cc10" -> /\ meaning.packs # <<>> /\ meaning.reserved = 0
                        /\ \A i \in DOMAIN meaning.packs : meaning.packs[i] <= 100
    [] uuid = "cc40" -> \A i \in DOMAIN meaning : \A j \in DOMAIN meaning[i] : meaning[i][j] < 128
    [] uuid = "dd21" -> TRUE
    [] OTHER -> FALSE

\* A frame that arrives as it was sent is decoded exactly if every code of it
\* is known (decode_characteristic), and says what the camera means by it: each
\* flag as its first record has it, each battery, each profile by its name.
FramesReadBack ==
  LET fields == Reading.fields
  IN  error = "none" /\ value = Sent =>
        /\ Reading.status = "decoded" <=> Understood
        /\ uuid = "cc09" => \A i \in DOMAIN meaning :
             (/\ meaning[i].tag \in DOMAIN StatusNames
              /\ \A j \in 1 .. i - 1 : meaning[j].tag # meaning[i].tag)
             => fields[StatusNames[meaning[i].tag]] = <<BigEndian(meaning[i].payload)>>
        /\ uuid = "cc10" => /\ [i \in DOMAIN meaning.packs |->
                                 fields["batteries"][1][i].remaining_percent] = meaning.packs
                            /\ fields["external_power_code"] = <<meaning.power>>
        /\ uuid = "cc40" /\ Understood => fields["ftp_profile_names"] = <<meaning>>
        /\ uuid = "dd21" => fields["timezone_supported"] = <<meaning.timezone>>

\* A frame that lost its end or gained a byte never passes for decoded where a
\* length is declared (_framed_payload, _decode_battery, _single_bool), and a
\* camera status only if it lost whole records.  Of an SSID or a password, which
\* need no frame, nothing may be left that looks like a text but the length.
WrongLengthNoticed ==
  error = "none" /\ value # Sent /\ Reading.status = "decoded" =>
    /\ uuid \notin {"cc03", "cc10", "cc11", "cc40", "dd30", "dd31", "dd32", "dd33"}
    /\ uuid \in {"cc06", "cc07"} => RStrip(value) = <<Head(value)>>
    /\ uuid = "cc09" => \E n \in 0 .. Len(meaning) - 1 :
                          value = Frame("cc09", SubSeq(meaning, 1, n))

\* What the summary says of a camera status, the media, the first battery or the
\* location settings is what the camera means or is missing, however little of
\* the frame arrives.  Not so the external power state, the last byte of
\* whatever there is of a battery frame, and texts, whose end may be missing.
CutShowsNothingFalse ==
  LET shown == Summary(<<Reading>>)
      whole == Summary(<<DecodeCharacteristic(uuid, Sent, "none")>>)
  IN  Len(value) <= Len(Sent) =>
        \A f \in DOMAIN shown \ {"external_power_state", "model", "firmware_version"} :
          shown[f] \in {None, whole[f]}

\* What kind of text some bytes are.
KindOfText(bytes) ==
  CASE \E i \in DOMAIN bytes : bytes[i] > 127 -> "not ASCII"
    [] \A i \in DOMAIN bytes : bytes[i] = 0   -> "empty"
    [] Printable(RStrip(bytes))              -> "printable"
    [] OTHER                                 -> "with control characters"

\* What the redacted output gives away of a value that is not public besides its
\* length: of an SSID, a BSSID or a password only the kind of text; of the other
\* frames the length they declare, their first byte, if that is wrong, and of
\* the names of FTP profiles whether they are ASCII.
GivenAway(u, bytes) ==
  LET declared == IF HasHeader(bytes) /\ ~DeclaredLength(bytes) THEN <<bytes[1]>> ELSE None
  IN  CASE u \in {"cc06", "cc07", "cc0c"} -> <<KindOfText(Content(bytes)), None>>
        [] u = "cc40" ->
             <<IF KindOfText(Payload(bytes)) = "not ASCII" THEN "not ASCII" ELSE "ASCII", declared>>
        [] u \in {"ee02", "ee04"} -> <<"no text", declared>>
        [] OTHER -> <<"no text", None>>

\* The masks of the redacted output are not undone by what stands next to them,
\* the status, the warnings, which are never redacted, the raw bytes and the
\* summary: two values of a characteristic that is not public, whole, cut or too
\* long, print alike as soon as their lengths and what is given away agree
\* (DecodedCharacteristic.to_dict, snapshot_summary; src/README.md:86
\* "unknown/sensitive raw remains redacted").
RedactedAlike ==
  Sensitivity(uuid) # "public" /\ error = "none" =>
    \A other \in Meanings[uuid] : \A byte \in {0, 2, 65} :
      LET bytes   == SubSeq(Append(Frame(uuid, other), byte), 1, Len(value))
          reading == DecodeCharacteristic(uuid, bytes, "none")
      IN  /\ Len(value) <= Len(Frame(uuid, other)) + 1
          /\ GivenAway(uuid, bytes) = GivenAway(uuid, value)
          => /\ ToDict(reading) = ToDict(Reading)
             /\ Summary(<<reading>>) = Summary(<<Reading>>)
=============================================================================
