---------------------------- MODULE MCMqConsumer -----------------------------
(* m1 and m2 are one envelope published twice, m3 is no envelope and m4    *)
(* makes the parser throw.                                                 *)
EXTENDS MqConsumer

CONSTANTS m1, m2, m3, m4, a

MC_MsgIdOf == [m \in Messages |-> a]

MC_Body == [m \in Messages |->
              IF m = m3 THEN "bad" ELSE IF m = m4 THEN "throws" ELSE "envelope"]

\* The handler of the envelope may come to any end.
MC_Outcome == [i \in MsgIds |-> ConsumeResults]
=============================================================================
