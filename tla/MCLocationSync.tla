--------------------------- MODULE MCLocationSync ---------------------------
(* Cameras for LocationSync: two bodies of one model and firmware, one of    *)
(* which offers DD01 notifications; another model with an older protocol and *)
(* without controls, whose second EE01 characteristic cannot be written; and *)
(* one whose location service cannot be used.                                *)
EXTENDS LocationSync

Shape(usable) ==
  [c \in Characteristics |-> IF c \in usable THEN "usable" ELSE "absent"]

Modern == {"dd11", "dd21", "dd30", "dd31"}

Body7C2(shape) ==
  [model |-> Model("ILCE-7CM2", "ILCE-7CM2"),
   name |-> Model("ILCE-7CM2", "LE-ilce-7cm2"),
   firmware |-> "1.0", version |-> 100, shape |-> shape, ee01 |-> <<"usable">>]

Old ==
  [model |-> Model("ILCE-7M3", "ILCE-7M3"), name |-> Model("a7iii", "a7iii"),
   firmware |-> "1.0", version |-> 64, shape |-> Shape({"dd11", "dd21"}),
   ee01 |-> <<"usable", "unusable">>]

Unusable ==
  [model |-> Model("ILCE-1", "ILCE-1"), name |-> Model("ILCE-1", "ILCE-1"),
   firmware |-> "1.0", version |-> 100, shape |-> Shape({"dd11"}), ee01 |-> <<>>]

MCCameras == {Body7C2(Shape(Modern \cup {"dd01"})), Body7C2(Shape(Modern)),
              Old, Unusable}
=============================================================================
