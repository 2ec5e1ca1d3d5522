---------------------------- MODULE MCMqPublisher ----------------------------
(* Four events for a queue of two.                                         *)
EXTENDS MqPublisher

CONSTANTS e1, e2, e3, e4
=============================================================================
