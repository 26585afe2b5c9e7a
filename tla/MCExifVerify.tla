---------------------------- MODULE MCExifVerify ----------------------------
(* Values for ExifVerify: a zone whose clock is first put forward by two     *)
(* seconds and later put back again.                                         *)
EXTENDS ExifVerify

MCChanges == {[at |-> 4, offset |-> 8], [at |-> 10, offset |-> 4]}
=============================================================================
