------------------------- MODULE MCProfileResolution -------------------------
(* Values for ProfileResolution: a model that is spelt differently in the    *)
(* registry and by the camera, and a registry with one entry in both lists,  *)
(* a firmware nobody has listed, and one version that is only listed for     *)
(* another kind of profile.                                                  *)
EXTENDS ProfileResolution

A7C2 == [base |-> "ILCE-7CM2", spelling |-> "ILCE-7CM2"]
A7C2LE == [base |-> "ILCE-7CM2", spelling |-> "LE-ilce_7cm2"]

MCModels == {A7C2LE}
MCVersions == {NoVersion, 64, 65, 100}
MCFirmwares == {NoFirmware, "1.0", "2.0"}

Entry(firmware, version, kind) ==
  [model |-> A7C2, firmware |-> firmware, version |-> version, kind |-> kind]

MCVerified == {Entry("1.0", 100, "modern"), Entry("2.0", 100, "modern"),
               Entry("2.0", 64, "legacy")}
MCBlocked == {Entry("2.0", 100, "modern")}
=============================================================================
