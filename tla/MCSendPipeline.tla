--------------------------- MODULE MCSendPipeline ----------------------------
(* Alice, who is among the receivers herself, has two devices.  s1 and s2  *)
(* are a request from d1 and its retry from d2; s3 is a request of its own.*)
EXTENDS SendPipeline

CONSTANTS s1, s2, s3, i1, i2, d1, d2, alice, bob

MC_IdOf == [s \in Sends |-> IF s = s3 THEN i2 ELSE i1]

MC_UserOf == [d \in Devices |-> alice]

MC_SentBy == [s \in Sends |-> IF s = s2 THEN d2 ELSE d1]
=============================================================================
