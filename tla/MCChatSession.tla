---------------------------- MODULE MCChatSession ----------------------------
(* A small population of connections for ChatSession: c1 and c2 carry the  *)
(* same device id, and so displace each other; c3 has no device id and     *)
(* gets a fallback name, so that it displaces by eviction only.            *)
EXTENDS ChatSession, TLC

CONSTANTS c1, c2, c3, u1, d1

MC_UserOf == [c \in Conns |-> u1]

MC_Fallback == [c \in Conns |-> IF c = c3 THEN NoDevice ELSE d1]

\* c1 and c2 have the same token, so exchanging them changes nothing.
MC_Symmetry == Permutations({c1, c2})
=============================================================================
