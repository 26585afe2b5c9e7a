---------------------------- MODULE MCSnapshots ----------------------------
(* Cameras for Snapshots: models and firmwares in every spelling, missing,   *)
(* unreadable, twice, out of place, or other than the camera's name, and a   *)
(* registry that knows one model as verified and another as blocked.         *)
EXTENDS Snapshots

Value(text, around) == [text |-> text, around |-> around]
Item(service, uuid, readable, value) ==
  [service |-> service, uuid |-> uuid, readable |-> readable, value |-> value]

A7(spelling) == [base |-> "ILCE-7CM2", spelling |-> spelling]

Spellings == {"nothing", "blanks", "newline", "garbled"}

ModelItems ==
  {<<>>} \cup
  {<<Item("control", "model", r, Value("ILCE-7CM2", s))>> : r \in BOOLEAN, s \in Spellings} \cup
  {<<Item("control", "framed model", TRUE, Value("ILCE-7CM2", "nothing")),
     Item("control", "model", TRUE, Value("", s))>> : s \in {"nothing", "blanks"}} \cup
  {<<Item("control", "model", r, Value("ILCE-1", s))>> :
     r \in BOOLEAN, s \in {"nothing", "newline"}} \cup
  {<<Item("control", "model", TRUE, Value("ILCE-1", "nothing")),
     Item("control", "model", TRUE, Value("ILCE-7CM2", "nothing"))>>}

FirmwareItems ==
  {<<>>} \cup
  {<<Item("control", "firmware", r, Value(v, s))>> :
     r \in BOOLEAN, s \in Spellings, v \in {"1.0", "2.0"}} \cup
  {<<Item("elsewhere", "firmware", TRUE, Value("2.0", "nothing")),
     Item("control", "firmware", TRUE, Value("1.0", "nothing"))>>,
   <<Item("control", "firmware", TRUE, Value("2.0", "nothing")),
     Item("control", "firmware", TRUE, Value("1.0", "nothing"))>>}

DD21Item(service, readable, size) == Item(service, "dd21", readable, Value(size, "nothing"))

DD21Items ==
  {<<>>, <<DD21Item("location", TRUE, "95 bytes")>>, <<DD21Item("location", TRUE, "7 bytes")>>,
   <<DD21Item("location", FALSE, "95 bytes")>>,
   <<DD21Item("location", TRUE, "95 bytes"), DD21Item("elsewhere", TRUE, "91 bytes")>>,
   <<DD21Item("location", TRUE, "95 bytes"), DD21Item("location", TRUE, "91 bytes")>>}

MCShape ==
  [c \in Characteristics |-> IF c \in {"dd11", "dd30", "dd31"} THEN "usable" ELSE "absent"]

MCCameras ==
  {[name |-> A7(n), version |-> 100, shape |-> MCShape, characteristics |-> m \o f \o d] :
     n \in {"LE-ILCE-7CM2"}, m \in ModelItems, f \in FirmwareItems, d \in DD21Items}
  \cup
  {[name |-> [base |-> "mine", spelling |-> "mine"], version |-> 100, shape |-> MCShape,
    characteristics |-> m \o f \o <<DD21Item("location", TRUE, "91 bytes")>>] :
     m \in ModelItems, f \in FirmwareItems}

Entry(model) ==
  [model |-> [base |-> model, spelling |-> model], firmware |-> "1.0", version |-> 100,
   kind |-> "modern"]

MCVerified == {Entry("ILCE-7CM2")}
MCBlocked == {Entry("ILCE-1")}
=============================================================================
