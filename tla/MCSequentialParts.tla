-------------------------- MODULE MCSequentialParts ---------------------------
(* Three keys for two places, the empty key, and a clock that may go back;  *)
(* members of every kind in every place of a frame and of a token; up to    *)
(* three latencies.                                                         *)
EXTENDS SequentialParts, TLC

CONSTANTS k1, k2, k3

MC_Symmetry == Permutations({k1, k2, k3})

Whole(n) == Number("int", n)
Object == Json("object")

-----------------------------------------------------------------------------
Sound ==
    [opcode |-> "text", json |-> "object", type |-> Text("msg.send"), seq |-> Whole(1),
     data |-> Object, clientMsgId |-> Text("id"), conversationId |-> Whole(1),
     content |-> Text("x"), sentAt |-> Missing, messageId |-> Whole(1)]

Odd == [Sound EXCEPT !.data = Text("x")]

FrameTypes ==
    {Text(t) : t \in {"", "ping", "msg.send", "msg.ack", "msg.read", "bye", "other"}}
        \cup {Missing, Object, Json("bool")}

AnyFrame ==
    {[f EXCEPT !.opcode = o, !.json = j, !.type = t, !.seq = s] :
        f \in {Sound, Odd}, o \in {"text", "binary"}, j \in {"bad", "other", "object"},
        t \in FrameTypes,
        s \in {Missing, Whole(1), Json("uint"), Number("real", 1), Text("1"), Json("null")}}

SendFrames ==
    {[Sound EXCEPT !.clientMsgId = i, !.conversationId = c, !.content = x, !.sentAt = a] :
        i \in {Missing, Text(""), Text("id"), Object},
        c \in {Missing, Whole(0), Whole(1), Json("uint"), Text("1")},
        x \in {Text(""), Text("x"), Text("xxx"), Object},
        a \in {Missing, Text("now"), Object}}

AckFrames ==
    {[Sound EXCEPT !.type = Text(t), !.messageId = i, !.conversationId = c] :
        t \in {"msg.ack", "msg.read"}, i \in {Missing, Whole(-1), Whole(1), Text("1")},
        c \in {Missing, Whole(1), Object}}

MC_Frames ==
    [frame : AnyFrame \cup SendFrames \cup AckFrames,
     env : [authorized : BOOLEAN, within_limit : BOOLEAN, publishes : BOOLEAN,
            logs_info : BOOLEAN]]

-----------------------------------------------------------------------------
Good ==
    [three_parts |-> TRUE, header_object |-> TRUE, payload_object |-> TRUE, signed |-> TRUE,
     alg |-> Text("HS256"), iss |-> Text("business"), exp |-> Whole(3), iat |-> Whole(1),
     sub |-> Whole(5), did |-> Text("d")]

MadeUp ==
    {[Good EXCEPT !.three_parts = p, !.header_object = h, !.payload_object = b, !.signed = s,
                  !.alg = a, !.iss = i] :
        p \in BOOLEAN, h \in BOOLEAN, b \in BOOLEAN, s \in BOOLEAN,
        a \in {Text("HS256"), Text("none"), Missing, Object},
        i \in {Text("business"), Text("other"), Missing, Object}}

Claims ==
    {[Good EXCEPT !.exp = e, !.iat = i, !.sub = s, !.did = d] :
        e \in {Missing, Text("3")} \cup {Whole(n) : n \in -1..MaxInt},
        i \in {Missing, Text("3")} \cup {Whole(n) : n \in -1..MaxInt},
        s \in {Missing, Text("x"), Object} \cup {Whole(n) : n \in {-20, -1, 0, 5, 16, 20}},
        d \in {Missing, Text("d"), Object}}

MC_Tokens == [token : MadeUp \cup Claims, now : {1, 3, 5}]

-----------------------------------------------------------------------------
MC_HistBuckets == <<1, 3>>

MC_Latencies == BoundedSeq([created : 0..3, now : 0..4], 3)
=============================================================================
