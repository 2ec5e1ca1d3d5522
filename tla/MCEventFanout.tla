---------------------------- MODULE MCEventFanout ----------------------------
(* Two connections of Alice and one of Bob, and every payload with lists   *)
(* of at most three ids whose other members are those its type has.        *)
EXTENDS EventFanout

CONSTANTS c1, c2, c3, alice, bob

MC_UserOf == [c \in Conns |-> IF c = c3 THEN bob ELSE alice]

Lists == UNION {[1..n -> Ids] : n \in 0..3}

MC_Payloads ==
    {[type |-> t, from |-> f, to |-> o, has_ids |-> h, ids |-> s] :
        t \in Types, f \in Ids, o \in Ids, h \in BOOLEAN, s \in Lists}

MC_Shaped ==
    {p \in MC_Payloads :
        /\ p.type \notin HasFrom => p.from = NoUser
        /\ p.type \notin HasTo => p.to = NoUser
        /\ p.type \notin HasIds => ~p.has_ids
        /\ ~p.has_ids => p.ids = << >>}
=============================================================================
