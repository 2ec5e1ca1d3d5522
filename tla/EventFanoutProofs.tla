-------------------------- MODULE EventFanoutProofs --------------------------
(***************************************************************************)
(* The safety properties of EventFanout for any connections and users, any *)
(* payloads with lists of any length, and any coming and going of          *)
(* connections while the users are pushed to.                              *)
(***************************************************************************)
EXTENDS EventFanout, FiniteSetTheorems, SequenceTheorems,
        FunctionTheorems, TLAPS

-----------------------------------------------------------------------------
(* Whom a handler that collects pushes to.                                 *)

\* A list names finitely many users.
LEMMA RangeIsFinite ==
    ASSUME NEW S, NEW s \in Seq(S)
    PROVE  IsFiniteSet(Range(s)) /\ Range(s) \subseteq S
<1>1. Len(s) \in Nat /\ s \in [1..Len(s) -> S] /\ DOMAIN s = 1..Len(s)
  BY LenProperties
<1>2. s \in Surjection(1..Len(s), Range(s))
  BY <1>1 DEF Surjection, Range
<1>3. IsFiniteSet(1..Len(s))
  BY <1>1, FS_Interval
<1> QED BY <1>1, <1>2, <1>3, FS_Surjection DEF Range

\* The order a std::set has does not matter: some sequence holds each of its
\* members once, and every such sequence holds them all.
LEMMA SetAsSeq ==
    ASSUME NEW S, IsFiniteSet(S)
    PROVE  /\ SetToSeq(S) \in Seq(S)
           /\ IsInjective(SetToSeq(S))
           /\ Range(SetToSeq(S)) = S
<1> DEFINE n == Cardinality(S)
           f == SetToSeq(S)
<1>1. n \in Nat /\ Bijection(1..n, S) # {}
  BY FS_CardinalityType DEF ExistsBijection
<1>2. \E g \in [1..n -> S] : IsInjective(g)
  BY <1>1 DEF Bijection, Injection
<1>3. f \in [1..n -> S] /\ IsInjective(f)
  BY <1>2 DEF SetToSeq
<1>4. Cardinality(1..n) = n
  BY <1>1, FS_Interval
<1>5. f \in Injection(1..n, S)
  BY <1>3 DEF Injection
<1> HIDE DEF f, n
<1>6. f \in Surjection(1..n, S)
  BY <1>4, <1>5, FS_Injection DEF n
<1>7. Range(f) = S
  BY <1>6, Fun_SurjectionProperties
<1> QED BY <1>1, <1>3, <1>7 DEF f

\* Reading everything first leaves a malformed id on its own, or the users among
\* the ids, each of them once.
LEMMA GatheredIs ==
    ASSUME NEW S \in SUBSET Ids, IsFiniteSet(S)
    PROVE  \/ Gathered(S) = <<Bad>>
           \/ /\ Gathered(S) \in Seq(Users) /\ IsInjective(Gathered(S))
              /\ Range(Gathered(S)) = S \cap Users
<1>1. CASE Bad \in S
  BY <1>1 DEF Gathered
<1>2. CASE Bad \notin S
  <2> DEFINE T == S \ {NoUser}
  <2>1. IsFiniteSet(T) /\ T = S \cap Users
    BY <1>2, FS_RemoveElement, FanoutAssumption DEF Ids
  <2> HIDE DEF T
  <2>2. SetToSeq(T) \in Seq(T) /\ IsInjective(SetToSeq(T)) /\ Range(SetToSeq(T)) = T
    BY <2>1, SetAsSeq
  <2>3. T \subseteq Users
    BY <2>1
  <2>4. SetToSeq(T) \in Seq(Users)
    BY <2>2, <2>3
  <2> QED BY <1>2, <2>1, <2>2, <2>4 DEF Gathered, T
<1> QED BY <1>1, <1>2

\* The types whose handlers read all ids before the first push.
Collects(p) == p.type \notin {"chat.msg.send", "chat.conversation.created"}

\* Each of them gathers whom the event names, whether its type names them by two
\* members, by a list, or by a member and a list.
LEMMA CollectedIs ==
    ASSUME NEW p \in Payloads, Collects(p)
    PROVE  \/ Recipients(p) = <<Bad>>
           \/ /\ Recipients(p) \in Seq(Users) /\ IsInjective(Recipients(p))
              /\ Range(Recipients(p)) = Addressed(p)
<1> DEFINE Named == {p.from, p.to} \cup Range(p.ids)
<1>1. /\ p.type \in Types /\ p.from \in Ids /\ p.to \in Ids
      /\ p.ids \in Seq(Ids)
      /\ p.type \notin HasFrom => p.from = NoUser
      /\ p.type \notin HasTo => p.to = NoUser
      /\ p.type \notin HasIds => p.ids = << >>
      /\ NoUser \notin Users
  BY FanoutAssumption
<1>2. IsFiniteSet(Range(p.ids)) /\ Range(p.ids) \subseteq Ids
  BY <1>1, RangeIsFinite
<1>3. ASSUME NEW x PROVE IsFiniteSet({x})
  BY FS_Singleton
<1>4. /\ IsFiniteSet({p.to}) /\ IsFiniteSet({p.from})
      /\ IsFiniteSet({p.from} \cup {p.to})
      /\ IsFiniteSet({p.from} \cup Range(p.ids))
  BY <1>2, <1>3, FS_Union
<1>5. {p.from, p.to} = {p.from} \cup {p.to}
  OBVIOUS
<1>6. Range(<< >>) = {}
  BY DEF Range
<1>7. PICK S \in {{p.to}, {p.from, p.to}, {p.from} \cup Range(p.ids), Range(p.ids)} :
          Recipients(p) = Gathered(S) /\ S \cap Users = Named \cap Users
  <2>1. CASE p.type \in {"chat.msg.replay", "chat.friend.request"}
    <3>1. Recipients(p) = Gathered({p.to}) /\ p.from = NoUser /\ p.ids = << >>
      BY <1>1, <2>1 DEF Recipients, HasFrom, HasIds
    <3> QED BY <1>1, <1>6, <3>1
  <2>2. CASE p.type = "chat.friend.accept"
    <3>1. Recipients(p) = Gathered({p.from, p.to}) /\ p.ids = << >>
      BY <1>1, <2>2 DEF Recipients, HasIds
    <3> QED BY <1>1, <1>6, <3>1
  <2>3. CASE p.type = "chat.msg.recall"
    <3>1. Recipients(p) = Gathered({p.from} \cup Range(p.ids)) /\ p.to = NoUser
      BY <1>1, <2>3 DEF Recipients, HasTo
    <3> QED BY <1>1, <3>1
  <2>4. CASE p.type = "chat.conversation.member_changed"
    <3>1. Recipients(p) = Gathered(Range(p.ids)) /\ p.to = NoUser /\ p.from = NoUser
      BY <1>1, <2>4 DEF Recipients, HasTo, HasFrom
    <3> QED BY <1>1, <3>1
  <2> QED BY <1>1, <2>1, <2>2, <2>3, <2>4 DEF Collects, Types
<1>8. IsFiniteSet(S) /\ S \subseteq Ids
  BY <1>1, <1>2, <1>4, <1>5
<1>9. Addressed(p) = Named \cap Users
  BY DEF Addressed, Collects
<1> HIDE DEF Named
<1> QED BY <1>7, <1>8, <1>9, GatheredIs

\* The two other handlers go through a list as it is, unless the sender's id is
\* malformed.
LEMMA StreamedIs ==
    ASSUME NEW p \in Payloads, ~Collects(p)
    PROVE  \/ Recipients(p) = <<Bad>>
           \/ /\ Recipients(p) = p.ids
              /\ Addressed(p) = {u \in Range(p.ids) \cap Users :
                                    ~(p.type = "chat.msg.send" /\ u = p.from)}
<1>1. /\ p.type \notin HasTo => p.to = NoUser
      /\ p.type \notin HasFrom => p.from = NoUser
      /\ NoUser \notin Users
  BY FanoutAssumption
<1>2. CASE p.type = "chat.msg.send"
  <2>1. p.to = NoUser
    BY <1>1, <1>2 DEF HasTo
  <2> QED BY <1>1, <1>2, <2>1 DEF Recipients, Streamed, Addressed
<1>3. CASE p.type = "chat.conversation.created"
  <2>1. p.to = NoUser /\ p.from = NoUser
    BY <1>1, <1>3 DEF HasTo, HasFrom
  <2> QED BY <1>1, <1>3, <2>1 DEF Recipients, Streamed, Addressed
<1> QED BY <1>2, <1>3 DEF Collects

\* Whatever the type, a handler goes through ids, misses no user the event
\* addresses unless it stumbles, and finds no other user but the sender.
LEMMA RecipientsAre ==
    ASSUME NEW p \in Payloads
    PROVE  /\ Recipients(p) \in Seq(Ids)
           /\ Bad \in Range(Recipients(p)) \/ Addressed(p) \subseteq Range(Recipients(p))
           /\ \A u \in Range(Recipients(p)) \cap Users :
                 u \in Addressed(p) \/ (p.type = "chat.msg.send" /\ u = p.from)
<1>1. CASE Recipients(p) = <<Bad>>
  <2>1. Range(<<Bad>>) = {Bad}
    <3>1. <<Bad>> \in [1..1 -> {Bad}] /\ DOMAIN <<Bad>> = 1..1 /\ <<Bad>>[1] = Bad
      OBVIOUS
    <3> QED BY <3>1 DEF Range
  <2> QED BY <1>1, <2>1, FanoutAssumption DEF Ids
<1>2. CASE Collects(p) /\ Recipients(p) # <<Bad>>
  <2>1. Recipients(p) \in Seq(Users) /\ Range(Recipients(p)) = Addressed(p)
    BY <1>2, CollectedIs
  <2>2. Users \subseteq Ids
    BY DEF Ids
  <2>3. Recipients(p) \in Seq(Ids)
    BY <2>1, <2>2
  <2> QED BY <2>1, <2>3
<1>3. CASE ~Collects(p) /\ Recipients(p) # <<Bad>>
  <2>1. /\ Recipients(p) = p.ids
        /\ Addressed(p) = {u \in Range(p.ids) \cap Users :
                              ~(p.type = "chat.msg.send" /\ u = p.from)}
    BY <1>3, StreamedIs
  <2>2. p.ids \in Seq(Ids)
    BY FanoutAssumption
  <2> QED BY <2>1, <2>2
<1> QED BY <1>1, <1>2, <1>3

-----------------------------------------------------------------------------
(* All or nobody.                                                          *)

Quiet == \A c \in Conns : scheduled[c] = 0

\* While a collecting handler pushes, nothing it could stumble over is left; if
\* it is to stumble, it has pushed nothing.
StumblesFirst ==
    /\ payload \in Payloads
    /\ pc # "done" => result = "none"
    /\ pc = "idle" => Quiet
    /\ Collects(payload) =>
          /\ pc = "pushing" => todo \in Seq(Users) \/ (todo = <<Bad>> /\ Quiet)
          /\ result \in {"NACK_DROP", "NACK_REQUEUE"} => Quiet

LEMMA InitStumbles == Init => StumblesFirst
BY DEF Init, StumblesFirst, Quiet

LEMMA NextStumbles == StumblesFirst /\ [Next]_vars => StumblesFirst'
<1> SUFFICES ASSUME StumblesFirst, [Next]_vars PROVE StumblesFirst'
  OBVIOUS
<1> USE DEF StumblesFirst
<1>1. CASE OnEnvelope
  <2>1. /\ payload' = payload /\ UNCHANGED scheduled /\ pc = "idle" /\ result = "none"
        /\ pc' \in {"done", "pushing"}
    BY <1>1 DEF OnEnvelope, Return
  <2>2. Quiet /\ Quiet'
    BY <2>1 DEF Quiet
  <2>3. pc' = "pushing" => todo' = Recipients(payload) /\ result' = result
    BY <1>1 DEF OnEnvelope, Return
  <2>4. Collects(payload) /\ pc' = "pushing" => todo' = <<Bad>> \/ todo' \in Seq(Users)
    BY <2>3, CollectedIs
  <2>5. Collects(payload') = Collects(payload)
    BY <2>1
  <2> QED BY <2>1, <2>2, <2>3, <2>4, <2>5
<1>2. CASE PushNext
  <2>1. /\ UNCHANGED <<payload, pc, result>> /\ pc = "pushing"
        /\ todo # << >> /\ Head(todo) # Bad /\ todo' = Tail(todo)
    BY <1>2 DEF PushNext
  <2>2. ASSUME Collects(payload) PROVE todo' \in Seq(Users)
    <3>1. todo \in Seq(Users)
      BY <2>1, <2>2
    <3> QED BY <2>1, <3>1, HeadTailProperties
  <2>3. Collects(payload') = Collects(payload)
    BY <2>1
  <2> QED BY <2>1, <2>2, <2>3
<1>3. CASE Throw
  <2>1. /\ UNCHANGED <<payload, scheduled>> /\ pc = "pushing" /\ pc' = "done"
        /\ todo # << >> /\ Head(todo) = Bad
    BY <1>3 DEF Throw, Return
  <2>2. ASSUME Collects(payload) PROVE Quiet
    <3>1. ASSUME todo \in Seq(Users) PROVE FALSE
      BY <2>1, <3>1, HeadTailProperties, FanoutAssumption
    <3> QED BY <2>1, <2>2, <3>1
  <2>3. Collects(payload') = Collects(payload) /\ Quiet' = Quiet
    BY <2>1 DEF Quiet
  <2> QED BY <2>1, <2>2, <2>3
<1>4. CASE Finish
  <2>1. /\ UNCHANGED payload /\ pc' = "done" /\ result' = "ACK"
    BY <1>4 DEF Finish, Return
  <2> QED BY <2>1
<1>5. ASSUME NEW c \in Conns, Connect(c) \/ Disconnect(c) PROVE StumblesFirst'
  <2>1. UNCHANGED <<payload, pc, todo, result, scheduled>>
    BY <1>5 DEF Connect, Disconnect
  <2> QED BY <2>1 DEF Quiet, Collects
<1>6. CASE UNCHANGED vars
  BY <1>6 DEF vars, Quiet, Collects
<1> QED BY <1>1, <1>2, <1>3, <1>4, <1>5, <1>6 DEF Next

\* However long the lists, and wherever in them a malformed id stands: what a
\* collecting handler refuses it has told to nobody.
THEOREM RefusedReachesNobody == Spec => []AllOrNobody
<1>1. StumblesFirst => AllOrNobody
  BY DEF StumblesFirst, AllOrNobody, Collects, Quiet
<1> QED BY <1>1, InitStumbles, NextStumbles, PTL DEF Spec

-----------------------------------------------------------------------------
(* Everybody addressed, nobody else.                                       *)

\* Who has been told is just who has been pushed to.
Pushed ==
    \A c \in Conns :
        IF UserOf[c] \in told
          THEN c \in resident => scheduled[c] > 0
          ELSE scheduled[c] = 0

\* What a pushing handler goes through will have told everybody addressed, and
\* the users it is not going to skip are among them.
Ahead ==
    /\ Bad \in Range(todo) \/ Addressed(payload) \subseteq told \cup Range(todo)
    /\ \A u \in Range(todo) \cap Users : u \in Addressed(payload) \/ Skipped(u)

Fanned ==
    /\ payload \in Payloads /\ todo \in Seq(Ids)
    /\ scheduled \in [Conns -> Nat] /\ resident \subseteq Listed
    /\ told \subseteq Addressed(payload)
    /\ pc # "done" => result = "none"
    /\ pc = "idle" => told = {}
    /\ pc = "pushing" => Ahead
    /\ result = "ACK" => Addressed(payload) \subseteq told
    /\ Pushed

\* Taking an id off the list.
LEMMA HeadAndTail ==
    ASSUME NEW S, NEW s \in Seq(S), s # << >>
    PROVE  /\ Head(s) \in S /\ Tail(s) \in Seq(S)
           /\ Range(s) = {Head(s)} \cup Range(Tail(s))
           /\ Len(Tail(s)) = Len(s) - 1 /\ Len(s) \in Nat \ {0}
           /\ Head(s) = s[1]
           /\ \A i \in 1..Len(Tail(s)) : Tail(s)[i] = s[i+1]
<1>1. Len(s) \in Nat /\ DOMAIN s = 1..Len(s) /\ Len(s) # 0
  BY LenProperties, EmptySeq
<1>2. /\ Head(s) \in S /\ Head(s) = s[1] /\ Tail(s) \in Seq(S)
      /\ Len(Tail(s)) = Len(s) - 1
      /\ \A i \in 1..Len(Tail(s)) : Tail(s)[i] = s[i+1]
  BY <1>1, HeadTailProperties
<1>3. DOMAIN Tail(s) = 1..(Len(s) - 1)
  BY <1>2, LenProperties
<1>4. \A i \in 2..Len(s) : i - 1 \in 1..(Len(s) - 1) /\ s[i] = Tail(s)[i-1]
  BY <1>1, <1>2
<1>5. ASSUME NEW x PROVE x \in Range(s) <=> x \in {Head(s)} \cup Range(Tail(s))
  <2>1. x \in Range(s) <=> \E i \in 1..Len(s) : x = s[i]
    BY <1>1 DEF Range
  <2>2. x \in Range(Tail(s)) <=> \E i \in 1..(Len(s) - 1) : x = Tail(s)[i]
    BY <1>3 DEF Range
  <2>3. ASSUME NEW i \in 1..Len(s), x = s[i]
        PROVE  x = Head(s) \/ \E j \in 1..(Len(s) - 1) : x = Tail(s)[j]
    <3>1. i = 1 \/ i \in 2..Len(s)
      BY <1>1
    <3> QED BY <1>2, <1>4, <2>3, <3>1
  <2>4. ASSUME NEW j \in 1..(Len(s) - 1), x = Tail(s)[j]
        PROVE  \E i \in 1..Len(s) : x = s[i]
    <3>1. j + 1 \in 1..Len(s) /\ x = s[j+1]
      BY <1>1, <1>2, <2>4
    <3> QED BY <3>1
  <2>5. 1 \in 1..Len(s)
    BY <1>1
  <2> QED BY <1>2, <2>1, <2>2, <2>3, <2>4, <2>5
<1>6. Range(s) = {Head(s)} \cup Range(Tail(s))
  BY <1>5
<1> QED BY <1>1, <1>2, <1>6

LEMMA InitFanned == Init => Fanned
<1> SUFFICES ASSUME Init PROVE Fanned
  OBVIOUS
<1>1. /\ payload \in Payloads /\ pc = "idle" /\ todo = << >> /\ told = {}
      /\ result = "none" /\ scheduled = [c \in Conns |-> 0] /\ resident = {}
  BY DEF Init
<1>2. Pushed
  BY <1>1 DEF Pushed
<1>3. todo \in Seq(Ids)
  BY <1>1
<1> QED BY <1>1, <1>2, <1>3 DEF Fanned

\* A push to u: those told are one more, and so are their frames.
LEMMA PushTells ==
    ASSUME Fanned, NEW u \in Users, PushToUser(u), told' = told \cup {u},
           UNCHANGED <<life, resident>>
    PROVE  Pushed' /\ scheduled' \in [Conns -> Nat]
<1>1. /\ scheduled \in [Conns -> Nat] /\ resident \subseteq Listed /\ Pushed
  BY DEF Fanned
<1>2. scheduled' = [c \in Conns |->
            IF c \in Listed /\ UserOf[c] = u THEN scheduled[c] + 1 ELSE scheduled[c]]
  BY DEF PushToUser
<1>3. scheduled' \in [Conns -> Nat]
  BY <1>1, <1>2
<1>4. ASSUME NEW c \in Conns
      PROVE  IF UserOf[c] \in told'
               THEN c \in resident' => scheduled'[c] > 0 ELSE scheduled'[c] = 0
  <2>1. /\ scheduled[c] \in Nat
        /\ scheduled'[c] = IF c \in Listed /\ UserOf[c] = u
                             THEN scheduled[c] + 1 ELSE scheduled[c]
    BY <1>1, <1>2
  <2>2. IF UserOf[c] \in told THEN c \in resident => scheduled[c] > 0 ELSE scheduled[c] = 0
    BY <1>1 DEF Pushed
  <2>3. c \in resident => c \in Listed
    BY <1>1
  <2>4. resident' = resident /\ told' = told \cup {u}
    OBVIOUS
  <2> HIDE DEF Listed
  <2> QED BY <2>1, <2>2, <2>3, <2>4
<1> QED BY <1>3, <1>4 DEF Pushed

LEMMA NextFanned == Fanned /\ [Next]_vars => Fanned'
<1> SUFFICES ASSUME Fanned, [Next]_vars PROVE Fanned'
  OBVIOUS
<1>0. /\ payload \in Payloads /\ todo \in Seq(Ids)
      /\ scheduled \in [Conns -> Nat] /\ resident \subseteq Listed
      /\ told \subseteq Addressed(payload)
      /\ pc # "done" => result = "none"
      /\ pc = "idle" => told = {}
      /\ pc = "pushing" => Ahead
      /\ result = "ACK" => Addressed(payload) \subseteq told
      /\ Pushed
  BY DEF Fanned
<1>1. CASE OnEnvelope
  <2>1. /\ UNCHANGED <<life, payload, told, scheduled>>
        /\ pc = "idle" /\ resident' = Listed /\ result = "none"
    BY <1>0, <1>1 DEF OnEnvelope
  <2>2. /\ pc' \in {"done", "pushing"}
        /\ result' \in {"NACK_DROP", "none"} /\ (pc' = "pushing" => result' = "none")
        /\ todo' = todo \/ todo' = Recipients(payload)
        /\ pc' = "pushing" => todo' = Recipients(payload)
    BY <2>1, <1>1 DEF OnEnvelope, Return
  <2>3. todo' \in Seq(Ids)
    BY <1>0, <2>2, RecipientsAre
  <2>4. told = {} /\ told' = {}
    BY <1>0, <2>1
  <2>5. Pushed'
    <3>1. \A c \in Conns : scheduled'[c] = 0
      BY <1>0, <2>1, <2>4 DEF Pushed
    <3> QED BY <2>4, <3>1 DEF Pushed
  <2>6. ASSUME pc' = "pushing" PROVE Ahead'
    <3>1. Bad \in Range(todo') \/ Addressed(payload) \subseteq Range(todo')
      BY <1>0, <2>2, <2>6, RecipientsAre
    <3>2. \A u \in Range(todo') \cap Users :
              u \in Addressed(payload) \/ (payload.type = "chat.msg.send" /\ u = payload.from)
      BY <1>0, <2>2, <2>6, RecipientsAre
    <3>3. payload' = payload
      BY <2>1
    <3> QED BY <2>4, <3>1, <3>2, <3>3 DEF Ahead, Skipped
  <2>7. resident' \subseteq Listed' /\ scheduled' \in [Conns -> Nat] /\ payload' \in Payloads
    BY <1>0, <2>1 DEF Listed
  <2> QED BY <2>2, <2>3, <2>4, <2>5, <2>6, <2>7 DEF Fanned
<1>2. CASE PushNext
  <2> DEFINE u == Head(todo)
  <2>1. /\ UNCHANGED <<life, payload, pc, result, resident>> /\ pc = "pushing"
        /\ todo # << >> /\ u # Bad /\ todo' = Tail(todo)
        /\ result = "none"
    BY <1>0, <1>2 DEF PushNext
  <2>2. /\ u \in Ids /\ todo' \in Seq(Ids)
        /\ Range(todo) = {u} \cup Range(todo')
    BY <1>0, <2>1, HeadAndTail
  <2>3. Ahead /\ payload' = payload
    BY <1>0, <2>1
  <2>4. resident' \subseteq Listed'
    BY <1>0, <2>1 DEF Listed
  <2>5. CASE Skipped(u) \/ PushedBefore(u)
    <3>1. UNCHANGED <<told, scheduled>>
      BY <1>2, <2>5 DEF PushNext
    <3>2. Pushed'
      BY <1>0, <2>1, <3>1 DEF Pushed
    <3>3. u \in Addressed(payload) => u \in told
      BY <2>5, FanoutAssumption DEF Skipped, PushedBefore, Addressed
    <3>4. Ahead'
      BY <2>1, <2>2, <2>3, <3>1, <3>3 DEF Ahead, Skipped
    <3> QED BY <1>0, <2>1, <2>2, <2>4, <3>1, <3>2, <3>4 DEF Fanned
  <2>6. CASE ~(Skipped(u) \/ PushedBefore(u))
    <3>1. told' = told \cup {u} /\ PushToUser(u)
      BY <1>2, <2>6 DEF PushNext
    <3>2. u \in Users
      BY <2>1, <2>2, <2>6 DEF Ids, Skipped
    <3>3. Pushed' /\ scheduled' \in [Conns -> Nat]
      BY <2>1, <3>1, <3>2, PushTells
    <3>4. u \in Addressed(payload)
      BY <2>2, <2>3, <2>6, <3>2 DEF Ahead
    <3>5. Ahead'
      BY <2>1, <2>2, <2>3, <3>1 DEF Ahead, Skipped
    <3>6. told' \subseteq Addressed(payload')
      BY <1>0, <2>3, <3>1, <3>4
    <3> HIDE DEF u
    <3> QED BY <1>0, <2>1, <2>2, <2>4, <3>3, <3>5, <3>6 DEF Fanned
  <2> QED BY <2>5, <2>6
<1>3. CASE Throw
  <2>1. /\ UNCHANGED <<life, payload, todo, told, scheduled, resident>>
        /\ pc' = "done" /\ result' = "NACK_REQUEUE"
    BY <1>3 DEF Throw, Return
  <2> QED BY <1>0, <2>1 DEF Fanned, Listed, Pushed
<1>4. CASE Finish
  <2>1. /\ UNCHANGED <<life, payload, todo, told, scheduled, resident>>
        /\ pc' = "done" /\ result' = "ACK" /\ pc = "pushing" /\ todo = << >>
    BY <1>4 DEF Finish, Return
  <2>2. Range(todo) = {}
    BY <2>1 DEF Range
  <2>3. Addressed(payload) \subseteq told
    BY <1>0, <2>1, <2>2 DEF Ahead
  <2> QED BY <1>0, <2>1, <2>3 DEF Fanned, Listed, Pushed
<1>5. ASSUME NEW c \in Conns, Connect(c) \/ Disconnect(c) PROVE Fanned'
  <2>1. UNCHANGED <<payload, pc, todo, told, result, scheduled>>
    BY <1>5 DEF Connect, Disconnect
  <2>2. resident' \subseteq resident
    BY <1>5 DEF Connect, Disconnect
  <2>3. resident' \subseteq Listed'
    <3>1. \A x \in resident' : x \in Conns /\ life[x] = "listed"
      BY <1>0, <2>2 DEF Listed
    <3>2. CASE Connect(c)
      <4>1. life[c] = "new" /\ life' = [life EXCEPT ![c] = "listed"]
        BY <3>2 DEF Connect
      <4>2. \A x \in resident' : life'[x] = life[x]
        BY <3>1, <4>1
      <4> QED BY <3>1, <4>2 DEF Listed
    <3>3. CASE Disconnect(c)
      <4>1. life' = [life EXCEPT ![c] = "gone"] /\ c \notin resident'
        BY <3>3 DEF Disconnect
      <4>2. \A x \in resident' : life'[x] = life[x]
        BY <3>1, <4>1
      <4> QED BY <3>1, <4>2 DEF Listed
    <3> QED BY <1>5, <3>2, <3>3
  <2>4. Pushed'
    BY <1>0, <2>1, <2>2 DEF Pushed
  <2>5. Ahead' = Ahead
    BY <2>1 DEF Ahead, Skipped
  <2> QED BY <1>0, <2>1, <2>3, <2>4, <2>5 DEF Fanned
<1>6. CASE UNCHANGED vars
  <2>1. UNCHANGED <<life, payload, pc, todo, told, result, scheduled, resident>>
    BY <1>6 DEF vars
  <2> QED BY <1>0, <2>1 DEF Fanned, Listed, Pushed, Ahead, Skipped
<1> QED BY <1>1, <1>2, <1>3, <1>4, <1>5, <1>6 DEF Next

\* Whoever comes and goes while it is pushed: an acknowledged event was scheduled
\* for all connections of the users it names that stayed, and for no others'.
THEOREM EverybodyAddressed == Spec => []Announced
<1>1. Fanned => Announced
  BY DEF Fanned, Pushed, Announced
<1> QED BY <1>1, InitFanned, NextFanned, PTL DEF Spec

\* Fanned carries all types but those of three variables.
OtherTypes ==
    /\ life \in [Conns -> {"new", "listed", "gone"}]
    /\ pc \in {"idle", "pushing", "done"}
    /\ result \in {"none", "ACK", "NACK_REQUEUE", "NACK_DROP"}

\* What a handler goes through is ids to the end, and whom it has told are users,
\* whatever the payload has where an id should be.
THEOREM TypeCorrect == Spec => []TypeOK
<1>1. Init => OtherTypes
  BY DEF Init, OtherTypes
<1>2. OtherTypes /\ [Next]_vars => OtherTypes'
  BY DEF OtherTypes, Next, vars, OnEnvelope, PushNext, Throw, Finish, Return, Connect,
         Disconnect
<1>3. Fanned /\ OtherTypes => TypeOK
  <2>1. Addressed(payload) \subseteq Users
    BY DEF Addressed
  <2> QED BY <2>1, FanoutAssumption DEF Fanned, OtherTypes, TypeOK
<1> QED BY <1>1, <1>2, <1>3, InitFanned, NextFanned, PTL DEF Spec

-----------------------------------------------------------------------------
(* Once, or as often as listed.                                            *)

\* Where u stands among the first k ids.
Places(u, ids, k) == {i \in 1..k : ids[i] = u}

\* Places are finitely many, and one more id adds at most one.
LEMMA OneMorePlace ==
    ASSUME NEW ids, NEW u, NEW k \in Nat
    PROVE  /\ Cardinality(Places(u, ids, k)) \in Nat
           /\ Cardinality(Places(u, ids, k+1)) =
                Cardinality(Places(u, ids, k)) + (IF ids[k+1] = u THEN 1 ELSE 0)
<1>1. IsFiniteSet(1..k)
  BY FS_Interval
<1>2. IsFiniteSet(Places(u, ids, k)) /\ k + 1 \notin Places(u, ids, k)
  <2>1. Places(u, ids, k) \subseteq 1..k
    BY DEF Places
  <2> QED BY <1>1, <2>1, FS_Subset
<1>3. 1..(k+1) = (1..k) \cup {k+1}
  OBVIOUS
<1>4. CASE ids[k+1] = u
  <2>1. Places(u, ids, k+1) = Places(u, ids, k) \cup {k+1}
    BY <1>3, <1>4 DEF Places
  <2> QED BY <1>2, <1>4, <2>1, FS_AddElement, FS_CardinalityType
<1>5. CASE ids[k+1] # u
  <2>1. Places(u, ids, k+1) = Places(u, ids, k)
    BY <1>3, <1>5 DEF Places
  <2>2. Cardinality(Places(u, ids, k)) \in Nat
    BY <1>2, FS_CardinalityType
  <2> QED BY <1>5, <2>1, <2>2
<1> QED BY <1>4, <1>5

LEMMA PlacesWithin ==
    ASSUME NEW ids \in Seq(Ids), NEW k \in 0..Len(ids), NEW u
    PROVE  Cardinality(Places(u, ids, k)) =< Times(u, ids)
<1>1. Len(ids) \in Nat /\ DOMAIN ids = 1..Len(ids)
  BY LenProperties
<1>2. Places(u, ids, k) \subseteq {i \in DOMAIN ids : ids[i] = u}
  BY <1>1 DEF Places
<1>3. IsFiniteSet({i \in DOMAIN ids : ids[i] = u})
  <2>1. IsFiniteSet(1..Len(ids))
    BY <1>1, FS_Interval
  <2> QED BY <1>1, <2>1, FS_Subset
<1> QED BY <1>2, <1>3, FS_Subset DEF Times

Created == payload.type = "chat.conversation.created"

\* The handler of chat.conversation.created, k ids into the list.
AfterIds(k) ==
    /\ pc = "pushing" =>
          /\ Len(todo) = Len(payload.ids) - k
          /\ \A i \in 1..Len(todo) : todo[i] = payload.ids[i+k]
    /\ \A c \in Conns :
          scheduled[c] =< Cardinality(Places(UserOf[c], payload.ids, k))

\* The ids a collecting handler has before it are new to it, and the handler of
\* chat.msg.send knows whom it has told.
Once ==
    /\ Fanned
    /\ Collects(payload) /\ pc = "pushing" =>
          todo = <<Bad>> \/ (IsInjective(todo) /\ Range(todo) \cap told = {})
    /\ ~Created => \A c \in Conns : scheduled[c] =< 1
    /\ Created => \E k \in 0..Len(payload.ids) : pc # "idle" => AfterIds(k)

LEMMA InitOnce == Init => Once
<1> SUFFICES ASSUME Init PROVE Once
  OBVIOUS
<1>1. Fanned /\ pc = "idle" /\ \A c \in Conns : scheduled[c] = 0
  BY InitFanned DEF Init
<1>2. 0 \in 0..Len(payload.ids)
  BY <1>1, FanoutAssumption, LenProperties DEF Fanned
<1> QED BY <1>1, <1>2 DEF Once

\* The rest of a sequence without repetitions does not hold its head.
LEMMA TailIsNew ==
    ASSUME NEW S, NEW s \in Seq(S), s # << >>, IsInjective(s)
    PROVE  IsInjective(Tail(s)) /\ Head(s) \notin Range(Tail(s))
<1>1. /\ Tail(s) \in Seq(S) /\ Len(Tail(s)) = Len(s) - 1 /\ Len(s) \in Nat \ {0}
      /\ Head(s) = s[1]
      /\ \A i \in 1..Len(Tail(s)) : Tail(s)[i] = s[i+1]
  BY HeadAndTail
<1>2. DOMAIN s = 1..Len(s) /\ DOMAIN Tail(s) = 1..(Len(s) - 1)
  BY <1>1, LenProperties
<1>3. \A i \in 1..(Len(s) - 1) : i + 1 \in DOMAIN s /\ 1 \in DOMAIN s /\ i + 1 # 1
  BY <1>1, <1>2
<1>4. \A a, b \in DOMAIN s : s[a] = s[b] => a = b
  BY DEF IsInjective
<1>5. IsInjective(Tail(s))
  <2>1. ASSUME NEW a \in 1..(Len(s) - 1), NEW b \in 1..(Len(s) - 1), Tail(s)[a] = Tail(s)[b]
        PROVE  a = b
    <3>1. s[a+1] = s[b+1]
      BY <1>1, <2>1
    <3>2. a + 1 = b + 1
      BY <1>3, <1>4, <3>1
    <3> QED BY <1>1, <3>2
  <2> QED BY <1>2, <2>1 DEF IsInjective
<1>6. Head(s) \notin Range(Tail(s))
  <2>1. ASSUME NEW a \in 1..(Len(s) - 1), Tail(s)[a] = Head(s) PROVE FALSE
    <3>1. s[a+1] = s[1]
      BY <1>1, <2>1
    <3> QED BY <1>3, <1>4, <3>1
  <2> QED BY <1>2, <2>1 DEF Range
<1> QED BY <1>5, <1>6

\* A push adds one frame at most, and none for the connections of others.
LEMMA PushAddsOne ==
    ASSUME Fanned, PushNext, NEW c \in Conns
    PROVE  /\ scheduled[c] \in Nat /\ scheduled'[c] \in Nat
           /\ scheduled'[c] # scheduled[c] =>
                 /\ scheduled'[c] = scheduled[c] + 1 /\ Head(todo) = UserOf[c]
                 /\ ~PushedBefore(Head(todo)) /\ ~Skipped(Head(todo))
                 /\ told' = told \cup {Head(todo)}
<1>1. scheduled \in [Conns -> Nat]
  BY DEF Fanned
<1>2. CASE Skipped(Head(todo)) \/ PushedBefore(Head(todo))
  <2>1. scheduled' = scheduled
    BY <1>2 DEF PushNext
  <2> QED BY <1>1, <2>1
<1>3. CASE ~(Skipped(Head(todo)) \/ PushedBefore(Head(todo)))
  <2>1. PushToUser(Head(todo)) /\ told' = told \cup {Head(todo)}
    BY <1>3 DEF PushNext
  <2>2. scheduled'[c] = IF c \in Listed /\ UserOf[c] = Head(todo)
                          THEN scheduled[c] + 1 ELSE scheduled[c]
    BY <2>1 DEF PushToUser
  <2>3. scheduled[c] \in Nat
    BY <1>1
  <2> QED BY <1>3, <2>1, <2>2, <2>3
<1> QED BY <1>2, <1>3

LEMMA NextOnce == Once /\ [Next]_vars => Once'
<1> SUFFICES ASSUME Once, [Next]_vars PROVE Once'
  OBVIOUS
<1>0. /\ Fanned
      /\ payload \in Payloads /\ todo \in Seq(Ids)
      /\ pc = "idle" => told = {} /\ \A c \in Conns : scheduled[c] = 0
      /\ payload.ids \in Seq(Ids) /\ Len(payload.ids) \in Nat
  <2>1. Fanned /\ payload \in Payloads
    BY DEF Once, Fanned
  <2>2. payload.ids \in Seq(Ids)
    BY <2>1, FanoutAssumption
  <2> QED BY <2>1, <2>2, LenProperties DEF Fanned, Pushed
<1>f. Fanned'
  BY <1>0, NextFanned
<1>1. CASE OnEnvelope
  <2>1. /\ UNCHANGED <<payload, told, scheduled>> /\ pc = "idle"
        /\ pc' \in {"done", "pushing"}
        /\ pc' = "pushing" => todo' = Recipients(payload)
        /\ pc' # "pushing" => Refused(payload)
    BY <1>1 DEF OnEnvelope, Return
  <2>2. told' = {} /\ \A c \in Conns : scheduled'[c] = 0
    BY <1>0, <2>1
  <2>3. ASSUME Collects(payload), pc' = "pushing"
        PROVE  todo' = <<Bad>> \/ (IsInjective(todo') /\ Range(todo') \cap told' = {})
    BY <1>0, <2>1, <2>2, <2>3, CollectedIs
  <2>4. ASSUME Created PROVE AfterIds(0)'
    <3>1. payload.from = NoUser /\ payload.from # Bad
      BY <1>0, <2>4, FanoutAssumption DEF Created, HasFrom
    <3>2. Recipients(payload) = payload.ids
      BY <2>4, <3>1 DEF Created, Recipients, Streamed
    <3>3. pc' = "pushing" => todo' = payload.ids
      BY <2>1, <3>2
    <3>4. payload' = payload
      BY <2>1
    <3>5. \A c \in Conns : Cardinality(Places(UserOf[c], payload.ids, 0)) \in Nat
      BY OneMorePlace
    <3>6. \A c \in Conns : scheduled'[c] =< Cardinality(Places(UserOf[c], payload.ids, 0))
      BY <2>2, <3>5
    <3>7. /\ Len(payload.ids) = Len(payload.ids) - 0
          /\ \A i \in 1..Len(payload.ids) : payload.ids[i] = payload.ids[i+0]
      BY <1>0
    <3> QED BY <3>3, <3>4, <3>6, <3>7 DEF AfterIds
  <2>5. 0 \in 0..Len(payload.ids)
    BY <1>0
  <2>6. payload' = payload /\ Created' = Created /\ Collects(payload') = Collects(payload)
    BY <2>1 DEF Created
  <2>7. Created' => \E k \in 0..Len(payload'.ids) : pc' # "idle" => AfterIds(k)'
    BY <2>4, <2>5, <2>6
  <2> QED BY <1>f, <2>2, <2>3, <2>6, <2>7 DEF Once
<1>2. CASE PushNext
  <2>1. /\ UNCHANGED <<payload, pc>> /\ pc = "pushing" /\ todo # << >>
        /\ Head(todo) # Bad /\ todo' = Tail(todo)
        /\ told' \in {told, told \cup {Head(todo)}}
    BY <1>2 DEF PushNext
  <2>2. payload' = payload /\ Created' = Created /\ Collects(payload') = Collects(payload)
    BY <2>1 DEF Created
  <2>3. ASSUME Collects(payload)
        PROVE  /\ IsInjective(todo) /\ Range(todo) \cap told = {}
               /\ IsInjective(todo') /\ Range(todo') \cap told' = {}
    <3>1. Head(<<Bad>>) = Bad
      OBVIOUS
    <3>2. IsInjective(todo) /\ Range(todo) \cap told = {}
      BY <2>1, <2>3, <3>1 DEF Once
    <3>3. Range(todo) = {Head(todo)} \cup Range(todo')
      BY <1>0, <2>1, HeadAndTail
    <3>4. IsInjective(todo') /\ Head(todo) \notin Range(todo')
      BY <1>0, <2>1, <3>2, TailIsNew
    <3> QED BY <2>1, <3>2, <3>3, <3>4
  <2>4. ASSUME ~Created, NEW c \in Conns PROVE scheduled'[c] =< 1
    <3>1. CASE scheduled'[c] = scheduled[c]
      BY <2>4, <3>1 DEF Once
    <3>2. CASE scheduled'[c] # scheduled[c]
      <4>1. /\ scheduled'[c] = scheduled[c] + 1 /\ Head(todo) = UserOf[c]
            /\ ~PushedBefore(Head(todo))
        BY <1>0, <1>2, <3>2, PushAddsOne
      <4>2. Head(todo) \notin told
        <5>1. CASE Collects(payload)
          BY <1>0, <2>1, <2>3, <5>1, HeadAndTail
        <5>2. CASE ~Collects(payload)
          BY <2>4, <4>1, <5>2 DEF Collects, Created, PushedBefore
        <5> QED BY <5>1, <5>2
      <4>3. scheduled[c] = 0
        BY <1>0, <4>1, <4>2 DEF Fanned, Pushed
      <4> QED BY <4>1, <4>3
    <3> QED BY <3>1, <3>2
  <2>5. ASSUME Created
        PROVE  \E k \in 0..Len(payload.ids) : AfterIds(k)'
    <3>1. PICK k \in 0..Len(payload.ids) : AfterIds(k)
      BY <2>1, <2>5 DEF Once
    <3>2. /\ Len(todo) = Len(payload.ids) - k
          /\ \A i \in 1..Len(todo) : todo[i] = payload.ids[i+k]
          /\ \A c \in Conns :
                scheduled[c] =< Cardinality(Places(UserOf[c], payload.ids, k))
      BY <2>1, <3>1 DEF AfterIds
    <3>3. /\ Len(todo') = Len(todo) - 1 /\ Len(todo) \in Nat \ {0}
          /\ Head(todo) = todo[1]
          /\ \A i \in 1..Len(todo') : todo'[i] = todo[i+1]
      BY <1>0, <2>1, HeadAndTail
    <3>4. k + 1 \in 0..Len(payload.ids) /\ k \in Nat
      BY <1>0, <3>2, <3>3
    <3>5. Head(todo) = payload.ids[k+1]
      <4>1. 1 \in 1..Len(todo) /\ 1 + k = k + 1
        BY <3>3, <3>4
      <4> QED BY <3>2, <3>3, <4>1
    <3>6. /\ Len(todo') = Len(payload.ids) - (k+1)
          /\ \A i \in 1..Len(todo') : todo'[i] = payload.ids[i+(k+1)]
      <4>1. Len(todo') = Len(payload.ids) - (k+1)
        BY <1>0, <3>2, <3>3, <3>4
      <4>2. ASSUME NEW i \in 1..Len(todo') PROVE todo'[i] = payload.ids[i+(k+1)]
        <5>1. i + 1 \in 1..Len(todo) /\ (i+1)+k = i+(k+1)
          BY <3>3, <3>4
        <5> QED BY <3>2, <3>3, <5>1
      <4> QED BY <4>1, <4>2
    <3>7. ASSUME NEW c \in Conns
          PROVE  scheduled'[c] =< Cardinality(Places(UserOf[c], payload.ids, k+1))
      <4> DEFINE now  == Cardinality(Places(UserOf[c], payload.ids, k))
                 then == Cardinality(Places(UserOf[c], payload.ids, k+1))
      <4>1. /\ now \in Nat
            /\ then = now + (IF payload.ids[k+1] = UserOf[c] THEN 1 ELSE 0)
        BY <3>4, OneMorePlace
      <4>2. /\ scheduled[c] \in Nat /\ scheduled'[c] \in Nat
            /\ scheduled'[c] # scheduled[c] =>
                  scheduled'[c] = scheduled[c] + 1 /\ Head(todo) = UserOf[c]
        BY <1>0, <1>2, PushAddsOne
      <4>3. scheduled[c] =< now
        BY <3>2
      <4> HIDE DEF now, then
      <4>4. scheduled'[c] =< then
        BY <3>5, <4>1, <4>2, <4>3
      <4> QED BY <4>4 DEF then
    <3>8. AfterIds(k+1)'
      BY <2>2, <3>6, <3>7 DEF AfterIds
    <3> QED BY <3>4, <3>8
  <2>6. Created' => \E k \in 0..Len(payload'.ids) : pc' # "idle" => AfterIds(k)'
    BY <2>2, <2>5
  <2> QED BY <1>f, <2>2, <2>3, <2>4, <2>6 DEF Once
<1>3. ASSUME \/ Throw \/ Finish \/ UNCHANGED vars
             \/ \E c \in Conns : Connect(c) \/ Disconnect(c)
      PROVE  Once'
  <2>1. /\ UNCHANGED <<payload, todo, told, scheduled>>
        /\ pc' = pc \/ (pc = "pushing" /\ pc' = "done")
    BY <1>3 DEF Throw, Finish, Return, Connect, Disconnect, vars
  <2>2. /\ payload' = payload /\ Created' = Created
        /\ Collects(payload') = Collects(payload)
    BY <2>1 DEF Created
  <2>3. \A k \in 0..Len(payload.ids) :
            (pc # "idle" => AfterIds(k)) => (pc' # "idle" => AfterIds(k)')
    BY <2>1, <2>2 DEF AfterIds
  <2> QED BY <1>f, <2>1, <2>2, <2>3 DEF Once
<1> QED BY <1>1, <1>2, <1>3 DEF Next

\* However often and in whatever member a user is named, each of its connections
\* gets the event once; of chat.conversation.created, once per place in the list.
THEOREM OnceEach == Spec => []AnnouncedOnce
<1>1. Once => AnnouncedOnce
  <2> SUFFICES ASSUME Once, NEW c \in Conns
               PROVE  scheduled[c] =< IF Created THEN Times(UserOf[c], payload.ids) ELSE 1
    BY DEF AnnouncedOnce, Created
  <2>1. CASE ~Created
    BY <2>1 DEF Once
  <2>2. CASE Created
    <3>1. PICK k \in 0..Len(payload.ids) : pc # "idle" => AfterIds(k)
      BY <2>2 DEF Once
    <3>2. /\ payload.ids \in Seq(Ids) /\ scheduled[c] \in Nat
          /\ Len(payload.ids) \in Nat
      BY FanoutAssumption, LenProperties DEF Once, Fanned
    <3>3. Cardinality(Places(UserOf[c], payload.ids, k)) \in Nat
      BY <3>1, <3>2, OneMorePlace
    <3>4. Cardinality(Places(UserOf[c], payload.ids, k)) =< Times(UserOf[c], payload.ids)
      BY <3>1, <3>2, PlacesWithin
    <3>5. scheduled[c] =< Cardinality(Places(UserOf[c], payload.ids, k))
      <4>1. CASE pc = "idle"
        <5>1. scheduled[c] = 0
          BY <4>1 DEF Once, Fanned, Pushed
        <5> QED BY <3>3, <5>1
      <4>2. CASE pc # "idle"
        BY <3>1, <4>2 DEF AfterIds
      <4> QED BY <4>1, <4>2
    <3>6. Times(UserOf[c], payload.ids) \in Int
      <4>1. Len(payload.ids) \in 0..Len(payload.ids)
        BY <3>2
      <4>2. DOMAIN payload.ids = 1..Len(payload.ids)
        BY <3>2, LenProperties
      <4>3. Times(UserOf[c], payload.ids)
              = Cardinality(Places(UserOf[c], payload.ids, Len(payload.ids)))
        BY <4>2 DEF Times, Places
      <4> QED BY <3>2, <4>3, OneMorePlace
    <3> QED BY <2>2, <3>2, <3>3, <3>4, <3>5, <3>6
  <2> QED BY <2>1, <2>2
<1> QED BY <1>1, InitOnce, NextOnce, PTL DEF Spec
=============================================================================
