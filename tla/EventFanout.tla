----------------------------- MODULE EventFanout -----------------------------
(***************************************************************************)
(* How an event of the business service is fanned out to connections: the  *)
(* handlers of MqToWsDispatcher and PushToUser (dispatch/mq_to_ws.cc).     *)
(*                                                                         *)
(* A handler works out whom the event addresses and then pushes to one     *)
(* user after the other; each push takes a fresh snapshot of the user's    *)
(* connections, while connections come and go.  Handlers share nothing but *)
(* the session registry, which they only read, so one handler stands for   *)
(* all.  Of OnChatMsgSend this is the part for the receivers; the sender's *)
(* devices are the subject of SendPipeline.                                *)
(*                                                                         *)
(* A member that is missing reads as 0 (NoUser); one of the wrong type     *)
(* (Bad) makes jsoncpp throw where it is read, which DispatchToScheduler   *)
(* turns into NACK_REQUEUE.                                                *)
(***************************************************************************)
EXTENDS Integers, Sequences, FiniteSets, SequencesExt

CONSTANTS
    Conns,
    Users,
    UserOf,    \* UserOf[c]: the user whose connection c is
    NoUser,    \* user id 0
    Bad,       \* not an id
    Payloads   \* payloads the business service may send

\* The members of a payload that the handlers read: one user, another one, and
\* the list or lists, which may be missing.  What each type calls them is said
\* at Recipients.
Types == {"chat.msg.send", "chat.msg.replay", "chat.msg.recall", "chat.friend.request",
          "chat.friend.accept", "chat.conversation.created",
          "chat.conversation.member_changed"}

Ids == Users \cup {NoUser, Bad}

\* The handlers that read each member: the others have no use for it.
HasFrom == {"chat.msg.send", "chat.msg.recall", "chat.friend.accept"}
HasTo   == {"chat.msg.replay", "chat.friend.request", "chat.friend.accept"}
HasIds  == {"chat.msg.send", "chat.msg.recall", "chat.conversation.created",
            "chat.conversation.member_changed"}

ASSUME FanoutAssumption ==
    /\ UserOf \in [Conns -> Users]
    /\ NoUser \notin Users /\ Bad \notin Users /\ NoUser # Bad
    /\ \A p \in Payloads :
          /\ p.type \in Types /\ p.from \in Ids /\ p.to \in Ids
          /\ p.has_ids \in BOOLEAN /\ p.ids \in Seq(Ids)
          /\ p.type \notin HasFrom => p.from = NoUser
          /\ p.type \notin HasTo => p.to = NoUser
          /\ p.type \notin HasIds => ~p.has_ids
          /\ ~p.has_ids => p.ids = << >>

VARIABLES
    life,       \* life[c]: "new", "listed" in the registry, or "gone" from it
    payload,    \* the event being handled
    pc,         \* "idle", "pushing" or "done"
    todo,       \* the ids the handler has still to push to, skip or stumble over
    told,       \* users pushed to; pushed_users of OnChatMsgSend
    result,     \* the ConsumeResult
    scheduled,  \* scheduled[c]: frames of the event scheduled for c
    resident    \* history: connections listed ever since the handler began

vars == <<life, payload, pc, todo, told, result, scheduled, resident>>

Listed == {c \in Conns : life[c] = "listed"}

TypeOK ==
    /\ life \in [Conns -> {"new", "listed", "gone"}]
    /\ payload.type \in Types
    /\ pc \in {"idle", "pushing", "done"}
    /\ todo \in Seq(Ids) /\ told \subseteq Users
    /\ result \in {"none", "ACK", "NACK_REQUEUE", "NACK_DROP"}
    /\ scheduled \in [Conns -> Nat]
    /\ resident \subseteq Listed

Init ==
    /\ life \in [Conns -> {"new", "listed"}]
    /\ payload \in Payloads
    /\ pc = "idle"
    /\ todo = << >> /\ told = {} /\ result = "none"
    /\ scheduled = [c \in Conns |-> 0]
    /\ resident = {}

-----------------------------------------------------------------------------
\* Mutant: users are pushed to while the ids are being read.
Gathered_OnTheFly(S) == SetToSeq(S \ {NoUser})

\* All ids are read before the first push; a std::set leaves out repetitions.
Gathered(S) == IF Bad \in S THEN <<Bad>> ELSE SetToSeq(S \ {NoUser})

\* Ids are read one by one, with a push after each; the sender before them.
Streamed(p) == IF p.from = Bad THEN <<Bad>> ELSE p.ids

\* The ids the handler of each type goes through, in order.
Recipients(p) ==
    CASE p.type \in {"chat.msg.replay", "chat.friend.request"} -> Gathered({p.to})
      [] p.type = "chat.friend.accept"   -> Gathered({p.from, p.to})
      [] p.type = "chat.msg.recall"      -> Gathered({p.from} \cup Range(p.ids))
      [] p.type = "chat.conversation.member_changed" -> Gathered(Range(p.ids))
      [] p.type \in {"chat.msg.send", "chat.conversation.created"} -> Streamed(p)

\* A target of 0, or a conversation without members.
Refused(p) ==
    \/ p.type \in {"chat.msg.replay", "chat.friend.request"} /\ p.to = NoUser
    \/ p.type = "chat.conversation.created" /\ ~p.has_ids

-----------------------------------------------------------------------------
Return(r) == pc' = "done" /\ result' = r

OnEnvelope ==
    /\ pc = "idle"
    /\ resident' = Listed
    /\ IF Refused(payload)
         THEN Return("NACK_DROP") /\ UNCHANGED todo
         ELSE pc' = "pushing" /\ todo' = Recipients(payload) /\ UNCHANGED result
    /\ UNCHANGED <<life, payload, told, scheduled>>

\* Mutant: the loop is left after the first connection.
PushToUser_First(u) ==
    LET conns == {c \in Listed : UserOf[c] = u}
    IN  scheduled' = [c \in Conns |->
            IF conns # {} /\ c = (CHOOSE x \in conns : TRUE)
              THEN scheduled[c] + 1 ELSE scheduled[c]]

\* A task with the frame for each connection GetByUser finds.
PushToUser(u) ==
    scheduled' = [c \in Conns |->
        IF c \in Listed /\ UserOf[c] = u THEN scheduled[c] + 1 ELSE scheduled[c]]

\* Nobody is user 0, and the sender's own devices have been seen to.
Skipped(u) == u = NoUser \/ (payload.type = "chat.msg.send" /\ u = payload.from)

\* Mutant: nobody remembers who has been told.
PushedBefore_Never(u) == FALSE

\* Only OnChatMsgSend looks; the sets of the others have no repetitions.
PushedBefore(u) == payload.type = "chat.msg.send" /\ u \in told

PushNext ==
    /\ pc = "pushing" /\ todo # << >> /\ Head(todo) # Bad
    /\ todo' = Tail(todo)
    /\ IF Skipped(Head(todo)) \/ PushedBefore(Head(todo))
         THEN UNCHANGED <<told, scheduled>>
         ELSE told' = told \cup {Head(todo)} /\ PushToUser(Head(todo))
    /\ UNCHANGED <<life, payload, pc, result, resident>>

Throw ==
    /\ pc = "pushing" /\ todo # << >> /\ Head(todo) = Bad
    /\ Return("NACK_REQUEUE")
    /\ UNCHANGED <<life, payload, todo, told, scheduled, resident>>

Finish ==
    /\ pc = "pushing" /\ todo = << >>
    /\ Return("ACK")
    /\ UNCHANGED <<life, payload, todo, told, scheduled, resident>>

Connect(c) ==
    /\ life[c] = "new"
    /\ life' = [life EXCEPT ![c] = "listed"]
    /\ UNCHANGED <<payload, pc, todo, told, result, scheduled, resident>>

Disconnect(c) ==
    /\ life[c] = "listed"
    /\ life' = [life EXCEPT ![c] = "gone"]
    /\ resident' = resident \ {c}
    /\ UNCHANGED <<payload, pc, todo, told, result, scheduled>>

Next ==
    \/ OnEnvelope \/ PushNext \/ Throw \/ Finish
    \/ \E c \in Conns : Connect(c) \/ Disconnect(c)

Spec == Init /\ [][Next]_vars

-----------------------------------------------------------------------------
(* Safety.                                                                 *)

\* The users an event names, the sender of a message excepted.
Addressed(p) ==
    (({p.from, p.to} \cup Range(p.ids)) \cap Users)
        \ (IF p.type = "chat.msg.send" THEN {p.from} ELSE {})

\* An event that was acknowledged was scheduled for every connection of every
\* user it names that was listed throughout, and for nobody else's, although
\* each handler reads the members in its own way and the table changes between
\* one user and the next.
Announced ==
    result = "ACK" =>
        \A c \in Conns :
            IF UserOf[c] \in Addressed(payload)
              THEN c \in resident => scheduled[c] > 0
              ELSE scheduled[c] = 0

Times(u, ids) == Cardinality({i \in DOMAIN ids : ids[i] = u})

\* No connection gets an event twice, however often and in whatever member its
\* user is named: but for chat.conversation.created, whose members are pushed
\* to as often as they are listed.
AnnouncedOnce ==
    \A c \in Conns :
        scheduled[c] =<
            IF payload.type = "chat.conversation.created"
              THEN Times(UserOf[c], payload.ids) ELSE 1

\* An event that ends in the dead-letter queue, or in a requeue that its msgId
\* being marked turns into a drop, was pushed to nobody: but for the two
\* handlers that push while they read.
AllOrNobody ==
    result \in {"NACK_DROP", "NACK_REQUEUE"}
            /\ payload.type \notin {"chat.msg.send", "chat.conversation.created"} =>
        \A c \in Conns : scheduled[c] = 0
=============================================================================
