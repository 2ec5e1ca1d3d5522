---------------------------- MODULE SendPipeline -----------------------------
(***************************************************************************)
(* The life of a msg.send: the fiber of the sender's connection enters the *)
(* request in the pending map and publishes it (dispatch/ws_to_mq.cc); the *)
(* business service (external) persists it and publishes chat.msg.send;    *)
(* the handler of that event takes the request out of the pending map,     *)
(* answers the device it came from, and pushes msg.new to the other        *)
(* devices of the sender and to the receivers (dispatch/mq_to_ws.cc).  A   *)
(* timer sweeps requests that have waited too long.                        *)
(*                                                                         *)
(* The queues in between are those of MqPublisher and MqConsumer: what is  *)
(* published may be refused at once, lost later, or overtaken, and each    *)
(* chat.msg.send reaches its handler at most once.  Handlers run as tasks  *)
(* of an IOManager, several of them at a time when the consumer has given  *)
(* up waiting.  The pending map is keyed by the clientMsgId alone.         *)
(***************************************************************************)
EXTENDS Integers, FiniteSets, Functions

CONSTANTS
    Sends,        \* msg.send requests that pass the checks of HandleMsgSend
    ClientMsgIds,
    IdOf,         \* IdOf[s]: the clientMsgId of s; a retry has the same
    Devices,
    Users,
    UserOf,       \* UserOf[d]: the user whose device d is
    SentBy,       \* SentBy[s]: the device whose connection s came in on
    Receivers,    \* users in the "receivers" of the event
    NoSend,       \* no entry was pending
    PendingTtl,   \* chat.pending_send_ttl_seconds, in ticks
    MaxRepeats    \* bound: events the business service publishes once more

ASSUME PipelineAssumption ==
    /\ IdOf \in [Sends -> ClientMsgIds]
    /\ UserOf \in [Devices -> Users]
    /\ SentBy \in [Sends -> Devices]
    /\ Receivers \subseteq Users
    /\ NoSend \notin Sends
    /\ PendingTtl \in Nat
    /\ MaxRepeats \in Nat

VARIABLES
    pc,             \* how far HandleMsgSend has come with each request
    m_pending_map,  \* clientMsgId -> the request waiting under it
    age,            \* now - created_ms of the entry, saturating at PendingTtl
    upstream,       \* published, on the way to the business service
    persisted,      \* the business service has a message for the request
    downstream,     \* downstream[s]: chat.msg.send events of s not yet handled
    repeats,        \* events published once more so far
    handlers,       \* handlers between TakePending and the pushes
    online,         \* devices with a connection in the session registry
    resp200,        \* resp200[s]: msg.send.resp frames sent with the seq of s
    resp503,        \* requests answered "mq unavailable"
    news,           \* news[d]: requests whose message was pushed to d as msg.new
    (* history, of requests that are not retried *)
    swept,          \* requests swept from the map
    missed,         \* requests taken when the device they came from was not
                    \* connected
    steady          \* steady[s]: other devices of the sender online ever since
                    \* s was entered in the map

queues == <<upstream, persisted, downstream, repeats>>
frames == <<resp200, resp503, news>>
history == <<swept, missed, steady>>
vars == <<pc, m_pending_map, age, queues, handlers, online, frames, history>>

PCs == {"idle", "inserted", "failed", "published", "refused"}

TypeOK ==
    /\ pc \in [Sends -> PCs]
    /\ DOMAIN m_pending_map \subseteq ClientMsgIds
    /\ \A i \in DOMAIN m_pending_map : m_pending_map[i] \in Sends
    /\ age \in [ClientMsgIds -> 0..PendingTtl]
    /\ upstream \subseteq Sends /\ persisted \subseteq Sends
    /\ downstream \in [Sends -> Nat] /\ repeats \in 0..MaxRepeats
    /\ handlers \subseteq [event : Sends, pending : Sends \cup {NoSend}]
    /\ online \subseteq Devices
    /\ resp200 \in [Sends -> Nat] /\ resp503 \subseteq Sends
    /\ news \in [Devices -> SUBSET Sends]
    /\ swept \subseteq Sends /\ missed \subseteq Sends
    /\ steady \in [Sends -> SUBSET online]

Init ==
    /\ pc = [s \in Sends |-> "idle"]
    /\ m_pending_map = [i \in {} |-> NoSend]
    /\ age = [i \in ClientMsgIds |-> 0]
    /\ upstream = {} /\ persisted = {} /\ repeats = 0
    /\ downstream = [s \in Sends |-> 0]
    /\ handlers = {}
    /\ online = {}
    /\ resp200 = [s \in Sends |-> 0] /\ resp503 = {}
    /\ news = [d \in Devices |-> {}]
    /\ swept = {} /\ missed = {}
    /\ steady = [s \in Sends |-> {}]

-----------------------------------------------------------------------------
(* The pending map; each operation holds m_pending_mutex.                  *)

Pending(i) == IF i \in DOMAIN m_pending_map THEN m_pending_map[i] ELSE NoSend

Insert(s) ==
    m_pending_map' = [i \in DOMAIN m_pending_map \cup {IdOf[s]} |->
                        IF i = IdOf[s] THEN s ELSE m_pending_map[i]]

Erase(I) == m_pending_map' = Restrict(m_pending_map, DOMAIN m_pending_map \ I)

-----------------------------------------------------------------------------
(* HandleMsgSend.                                                          *)

\* No other request has the clientMsgId of s: the client has not retried it.
Lone(s) == \A x \in Sends : IdOf[x] = IdOf[s] => x = s

OtherDevices(s) == {d \in online \ {SentBy[s]} : UserOf[d] = UserOf[SentBy[s]]}

Goto(s, from, to) ==
    /\ pc[s] = from
    /\ pc' = [pc EXCEPT ![s] = to]

\* The entry of an earlier request with the same clientMsgId is overwritten.  The
\* connection may have left the session registry before its fiber comes here.
InsertPending(s) ==
    /\ Goto(s, "idle", "inserted")
    /\ Insert(s)
    /\ age' = [age EXCEPT ![IdOf[s]] = 0]
    /\ steady' = [steady EXCEPT ![s] = IF Lone(s) THEN OtherDevices(s) ELSE {}]
    /\ UNCHANGED <<queues, handlers, online, frames, swept, missed>>

PublishAccepted(s) ==
    /\ Goto(s, "inserted", "published")
    /\ upstream' = upstream \cup {s}
    /\ UNCHANGED <<m_pending_map, age, persisted, downstream, repeats, handlers, online,
                   frames, history>>

PublishRefused(s) ==
    /\ Goto(s, "inserted", "failed")
    /\ UNCHANGED <<m_pending_map, age, queues, handlers, online, frames, history>>

\* Mutant: the error is sent and the entry stays.
ErasePending_Stays(s) ==
    /\ Goto(s, "failed", "refused")
    /\ resp503' = resp503 \cup {s}
    /\ UNCHANGED <<m_pending_map, age, queues, handlers, online, resp200, news, history>>

\* The key is erased, whichever request is there, and "mq unavailable" sent.
ErasePending(s) ==
    /\ Goto(s, "failed", "refused")
    /\ Erase({IdOf[s]})
    /\ resp503' = resp503 \cup {s}
    /\ UNCHANGED <<age, queues, handlers, online, resp200, news, history>>

-----------------------------------------------------------------------------
(* The publisher's queue, the business service, the consumer's queue.      *)

LostUpstream(s) ==
    /\ s \in upstream
    /\ upstream' = upstream \ {s}
    /\ UNCHANGED <<pc, m_pending_map, age, persisted, downstream, repeats, handlers, online,
                   frames, history>>

\* A message is persisted once per clientMsgId, and announced.
BusinessPersist(s) ==
    /\ s \in upstream
    /\ upstream' = upstream \ {s}
    /\ IF \E x \in persisted : IdOf[x] = IdOf[s]
         THEN UNCHANGED <<persisted, downstream>>
         ELSE /\ persisted' = persisted \cup {s}
              /\ downstream' = [downstream EXCEPT ![s] = @ + 1]
    /\ UNCHANGED <<pc, m_pending_map, age, repeats, handlers, online, frames, history>>

\* It is announced once more, under another msgId.
BusinessRepeat(s) ==
    /\ s \in persisted /\ repeats < MaxRepeats
    /\ repeats' = repeats + 1
    /\ downstream' = [downstream EXCEPT ![s] = @ + 1]
    /\ UNCHANGED <<pc, m_pending_map, age, upstream, persisted, handlers, online, frames, history>>

-----------------------------------------------------------------------------
(* OnChatMsgSend.                                                          *)

\* Mutant: the request is found and not erased.
TakePending_Leaves(s) ==
    LET handler == [event |-> s, pending |-> Pending(IdOf[s])]
    IN  /\ downstream[s] > 0 /\ handler \notin handlers
        /\ downstream' = [downstream EXCEPT ![s] = @ - 1]
        /\ handlers' = handlers \cup {handler}
        /\ UNCHANGED <<pc, m_pending_map, age, upstream, persisted, repeats, online, frames, history>>

TakePending(s) ==
    LET handler == [event |-> s, pending |-> Pending(IdOf[s])]
    IN  /\ downstream[s] > 0 /\ handler \notin handlers
        /\ downstream' = [downstream EXCEPT ![s] = @ - 1]
        /\ Erase({IdOf[s]})
        /\ handlers' = handlers \cup {handler}
        /\ UNCHANGED <<pc, age, upstream, persisted, repeats, online, frames, history>>

OnlineOf(u) == {d \in online : UserOf[d] = u}

\* Mutant: the devices of the sender are not told apart.
Push_ToAll(h) ==
    LET sender  == UserOf[SentBy[h.event]]
        targets == UNION {OnlineOf(u) : u \in Receivers \cup {sender}}
        found   == h.pending # NoSend /\ SentBy[h.pending] \in OnlineOf(sender)
    IN  /\ h \in handlers
        /\ handlers' = handlers \ {h}
        /\ news' = [d \in Devices |-> IF d \in targets THEN news[d] \cup {h.event} ELSE news[d]]
        /\ resp200' = IF found THEN [resp200 EXCEPT ![h.pending] = @ + 1] ELSE resp200
        /\ missed' = missed \cup ({h.pending} \cap {s \in Sends : Lone(s) /\ ~found})
        /\ UNCHANGED <<pc, m_pending_map, age, queues, online, resp503, swept, steady>>

\* Mutant: the other devices are told only along with an answer.
Push_OnlyAnswered(h) ==
    LET sender  == UserOf[SentBy[h.event]]
        found   == h.pending # NoSend /\ SentBy[h.pending] \in OnlineOf(sender)
        others  == IF found THEN OnlineOf(sender) \ {SentBy[h.pending]} ELSE {}
        targets == others \cup UNION {OnlineOf(u) : u \in Receivers \ {sender}}
    IN  /\ h \in handlers
        /\ handlers' = handlers \ {h}
        /\ news' = [d \in Devices |-> IF d \in targets THEN news[d] \cup {h.event} ELSE news[d]]
        /\ resp200' = IF found THEN [resp200 EXCEPT ![h.pending] = @ + 1] ELSE resp200
        /\ missed' = missed \cup ({h.pending} \cap {s \in Sends : Lone(s) /\ ~found})
        /\ UNCHANGED <<pc, m_pending_map, age, queues, online, resp503, swept, steady>>

\* GetByUser of the sender, if a request was pending, and of the receivers, and
\* a frame for each connection found: the answer for the device the request
\* came from, msg.new for the others.
Push(h) ==
    LET sender  == UserOf[SentBy[h.event]]
        others  == IF h.pending = NoSend THEN {}
                     ELSE OnlineOf(sender) \ {SentBy[h.pending]}
        targets == others \cup UNION {OnlineOf(u) : u \in Receivers \ {sender}}
        found   == h.pending # NoSend /\ SentBy[h.pending] \in OnlineOf(sender)
    IN  /\ h \in handlers
        /\ handlers' = handlers \ {h}
        /\ news' = [d \in Devices |-> IF d \in targets THEN news[d] \cup {h.event} ELSE news[d]]
        /\ resp200' = IF found THEN [resp200 EXCEPT ![h.pending] = @ + 1] ELSE resp200
        /\ missed' = missed \cup ({h.pending} \cap {s \in Sends : Lone(s) /\ ~found})
        /\ UNCHANGED <<pc, m_pending_map, age, queues, online, resp503, swept, steady>>

-----------------------------------------------------------------------------
(* The timer of onServerReady, the clock, and the sessions.                *)

\* Mutant: the deadline lies in the future, everything is swept.
SweepPending_All ==
    /\ Erase(DOMAIN m_pending_map)
    /\ swept' = swept \cup {s \in Sends : Lone(s) /\ Pending(IdOf[s]) = s /\ age[IdOf[s]] = PendingTtl}
    /\ UNCHANGED <<pc, age, queues, handlers, online, frames, missed, steady>>

\* Mutant: the deadline is never reached.
SweepPending_NotDue ==
    /\ Erase({})
    /\ UNCHANGED <<pc, age, queues, handlers, online, frames, history>>

SweepPending ==
    LET old == {i \in DOMAIN m_pending_map : age[i] = PendingTtl}
    IN  /\ Erase(old)
        /\ swept' = swept \cup {s \in Sends : Lone(s) /\ IdOf[s] \in old}
        /\ UNCHANGED <<pc, age, queues, handlers, online, frames, missed, steady>>

Tick ==
    /\ age' = [i \in ClientMsgIds |->
                 IF i \in DOMAIN m_pending_map /\ age[i] < PendingTtl THEN age[i] + 1 ELSE age[i]]
    /\ UNCHANGED <<pc, m_pending_map, queues, handlers, online, frames, history>>

Connect(d) ==
    /\ online' = online \cup {d}
    /\ UNCHANGED <<pc, m_pending_map, age, queues, handlers, frames, history>>

Disconnect(d) ==
    /\ online' = online \ {d}
    /\ steady' = [s \in Sends |-> steady[s] \ {d}]
    /\ UNCHANGED <<pc, m_pending_map, age, queues, handlers, frames, swept, missed>>

-----------------------------------------------------------------------------
Next ==
    \/ \E s \in Sends :
          \/ InsertPending(s) \/ PublishAccepted(s) \/ PublishRefused(s) \/ ErasePending(s)
          \/ LostUpstream(s) \/ BusinessPersist(s) \/ BusinessRepeat(s)
          \/ TakePending(s)
    \/ \E h \in handlers : Push(h)
    \/ SweepPending \/ Tick
    \/ \E d \in Devices : Connect(d) \/ Disconnect(d)

Spec == Init /\ [][Next]_vars

\* Time passes and the timer is recurring.
Fairness == WF_vars(Tick) /\ WF_vars(SweepPending)

FairSpec == Spec /\ Fairness

-----------------------------------------------------------------------------
(* Safety.                                                                 *)

\* A request that is not retried is answered at most once, by 200 or by 503,
\* whatever the business service repeats and whenever the event comes.
AnsweredOnce ==
    \A s \in Sends :
        Lone(s) => resp200[s] + (IF s \in resp503 THEN 1 ELSE 0) =< 1

\* The device a message was sent from never gets it back as msg.new, which
\* would show it twice there.
NoEcho == \A s \in Sends : Lone(s) => s \notin news[SentBy[s]]

\* The event of a request that is not retried has been handled.
Announced(s) == Lone(s) /\ downstream[s] = 0 /\ (\A h \in handlers : h.event # s)

\* When the event of a request has been handled, the request was answered,
\* unless it had waited longer than the TTL or its device was gone: the entry
\* is in the map before the event can come, and nobody else takes it out.
AnsweredUnlessExcused ==
    \A s \in persisted :
        Announced(s) =>
            resp200[s] > 0 \/ s \in swept \cup missed

\* The other devices of the sender, too, hear of a message only through the
\* entry in the pending map: one that stayed online since the request came in
\* has been told of it when its event has been handled, whether or not the
\* device that sent it could be answered, unless the entry had been swept.
OwnDevicesTold ==
    \A s \in persisted :
        Announced(s) =>
            s \in swept \/ \A d \in steady[s] : s \in news[d]

\* A request that was refused leaves nothing in the map that a later event
\* could answer.
RefusedIsNotPending ==
    \A i \in DOMAIN m_pending_map : pc[m_pending_map[i]] # "refused"

-----------------------------------------------------------------------------
(* Liveness, under FairSpec.                                               *)

\* The pending map does not leak: an entry is taken, erased, overwritten or
\* swept.
PendingLeaves == \A s \in Sends : Pending(IdOf[s]) = s ~> Pending(IdOf[s]) # s
=============================================================================
