----------------------------- MODULE MqConsumer ------------------------------
(***************************************************************************)
(* The consumer of chat.delivery.queue (chat/mq/consumer.cc) with its AMQP *)
(* client (chat/mq/amqp_client.cc), between the broker (external) and the  *)
(* handler MqToWsDispatcher::OnEnvelope, which it runs on an IOManager.    *)
(*                                                                         *)
(* A message is what the broker holds once; two messages with one msgId    *)
(* are two publications of the same envelope.  The consumer thread is one  *)
(* loop; pc says where in it the thread is.  It waits at most five seconds *)
(* for the handler, which may run after that, or never.  The backoff       *)
(* between attempts to connect is a sleep, so an attempt that fails leaves *)
(* the state as it was.  consumer_auto_ack is false, its default; startMq  *)
(* passes a handler and a scheduler, so that DispatchToScheduler always    *)
(* schedules.                                                              *)
(***************************************************************************)
EXTENDS LruCache, SequencesExt

CONSTANTS
    Messages,   \* messages published by the business service
    NoMessage,  \* no delivery in hand
    MsgIds,     \* their msgIds
    MsgIdOf,    \* MsgIdOf[m]: the msgId in the envelope of m
    Body,       \* Body[m]: what EnvelopeFromString makes of the body of m
    Outcome,    \* Outcome[i]: what the handler may make of the envelope i
    Prefetch,   \* rabbitmq.consumer.prefetch
    MaxDrops,   \* bound: how often the connection to the broker is lost
    MaxStarts   \* bound: the process ends of its own account until this start

\* Bodies: an envelope; not an envelope; JSON with a field of the wrong type, on
\* which jsoncpp's asString or asInt throws and nobody in Run catches.
Bodies == {"envelope", "bad", "throws"}

\* enum class ConsumeResult; a handler that throws counts as NACK_REQUEUE.
ConsumeResults == {"ACK", "NACK_REQUEUE", "NACK_DROP"}

ASSUME ConsumerAssumption ==
    /\ NoMessage \notin Messages
    /\ MsgIdOf \in [Messages -> MsgIds]
    /\ EmptyKey \notin MsgIds  \* EnvelopeFromJson refuses it
    /\ Body \in [Messages -> Bodies]
    /\ Outcome \in [MsgIds -> SUBSET ConsumeResults]
    /\ Prefetch \in Nat
    /\ MaxDrops \in Nat
    /\ MaxStarts \in Nat \ {0}

VARIABLES
    (* the broker, external *)
    queue,      \* chat.delivery.queue: messages ready for delivery
    unacked,    \* delivered on the consumer's channel, not yet settled
    acked,      \* settled by basic.ack
    dead,       \* routed to chat.dlq
    drops,      \* connections lost so far
    (* the AMQP client *)
    link,       \* "none": m_connected is false; "up"; "lost": m_connected is
                \* true but the broker has given the connection up
    setup,      \* the set-up calls answered since the last Connect
    buffered,   \* deliveries received and not yet returned by Consume
    (* the consumer thread *)
    m_running,
    m_idempotency,
    pc,
    delivery,   \* local variable of Run
    promise,    \* the shared state of the promise Run waits for
    (* the IOManager *)
    tasks,      \* tasks[m]: handler tasks for m scheduled and not yet run
    (* history *)
    starts,     \* starts of the process, saturating at MaxStarts
    handled,    \* handled[i]: handler runs for i since the process started
    verdicts,   \* verdicts[i]: what the handler has ever said of i
    lost        \* msgIds whose scheduled task died with the process

broker == <<queue, unacked, acked, dead, drops>>
client == <<link, setup, buffered>>
history == <<starts, handled, verdicts, lost>>
vars == <<broker, client, m_running, m_idempotency, pc, delivery, promise, tasks, history>>

\* The calls that make a connection one to consume on, in their order.
SetUpCalls == {"OpenChannel", "DeclareForConsumer", "StartConsume"}

PCs == SetUpCalls \cup  \* in EnsureConnected, waiting for the answer to that call
       {"down",     \* no process, or no thread yet
        "top",      \* at the head of the loop
        "consume",  \* connected, in Consume
        "parse",    \* Consume has returned a delivery
        "waiting",  \* the handler is scheduled
        "settle",   \* the result is known
        "exited",   \* Run has returned
        "stopped"}  \* Stop has joined the thread and closed the client

TypeOK ==
    /\ queue \in Seq(Messages) /\ unacked \in Seq(Messages)
    /\ acked \subseteq Messages /\ dead \subseteq Messages
    /\ drops \in 0..MaxDrops
    /\ link \in {"none", "up", "lost"} /\ setup \subseteq SetUpCalls
    /\ buffered \in Seq(Messages)
    /\ m_running \in BOOLEAN
    /\ pc \in PCs
    /\ delivery \in Messages \cup {NoMessage}
    /\ promise \in ConsumeResults \cup {"none"}
    /\ pc = "settle" => promise # "none"
    /\ tasks \in [Messages -> Nat]
    /\ starts \in 0..MaxStarts
    /\ handled \in [MsgIds -> Nat]
    /\ verdicts \in [MsgIds -> SUBSET ConsumeResults]
    /\ lost \subseteq MsgIds

Init ==
    /\ queue = << >> /\ unacked = << >> /\ acked = {} /\ dead = {} /\ drops = 0
    /\ link = "none" /\ setup = {} /\ buffered = << >>
    /\ m_running = FALSE
    /\ m_idempotency = EmptyCache
    /\ pc = "down"
    /\ delivery = NoMessage
    /\ promise = "none"
    /\ tasks = [m \in Messages |-> 0]
    /\ starts = 0
    /\ handled = [i \in MsgIds |-> 0]
    /\ verdicts = [i \in MsgIds |-> {}] /\ lost = {}

-----------------------------------------------------------------------------
(* The broker.                                                             *)

AtBroker(m) == m \in Range(queue) \cup Range(unacked) \cup acked \cup dead

BusinessPublish(m) ==
    /\ ~AtBroker(m)
    /\ queue' = Append(queue, m)
    /\ UNCHANGED <<unacked, acked, dead, drops, client, m_running, m_idempotency, pc,
                   delivery, promise, tasks, history>>

\* Once the channel is consumed on, up to Prefetch unsettled messages are pushed
\* to the consumer; 0 is no limit.
Deliver ==
    /\ link = "up" /\ "StartConsume" \in setup
    /\ queue # << >> /\ (Prefetch = 0 \/ Len(unacked) < Prefetch)
    /\ queue' = Tail(queue)
    /\ unacked' = Append(unacked, Head(queue))
    /\ buffered' = Append(buffered, Head(queue))
    /\ UNCHANGED <<acked, dead, drops, link, setup, m_running, m_idempotency, pc,
                   delivery, promise, tasks, history>>

\* When the channel is gone its unsettled messages return to the queue, before
\* the ones that were never delivered.
Requeue ==
    /\ queue' = unacked \o queue
    /\ unacked' = << >>

LinkDrop ==
    /\ link = "up" /\ drops < MaxDrops
    /\ link' = "lost"
    /\ Requeue
    /\ drops' = drops + 1
    /\ UNCHANGED <<acked, dead, setup, buffered, m_running, m_idempotency, pc, delivery,
                   promise, tasks, history>>

-----------------------------------------------------------------------------
(* AmqpClient.                                                             *)

\* Mutant: received deliveries survive the connection.
Close_KeepsBuffer ==
    /\ link' = "none"
    /\ UNCHANGED <<setup, buffered>>
    /\ Requeue

\* Close: what was received and not consumed goes with the connection.
Close ==
    /\ link' = "none"
    /\ buffered' = << >>
    /\ UNCHANGED setup
    /\ Requeue

\* A settlement that reaches the broker: basic.ack, or basic.nack with requeue
\* to the head of the queue or without it to the dead-letter exchange.
SettleAtBroker(m, result) ==
    /\ unacked' = RemoveFirst(unacked, m)
    /\ acked' = IF result = "ACK" THEN acked \cup {m} ELSE acked
    /\ dead' = IF result = "NACK_DROP" THEN dead \cup {m} ELSE dead
    /\ queue' = IF result = "NACK_REQUEUE" THEN <<m>> \o queue ELSE queue

\* Ack or Nack returns true.  On a lost link the frame may still be accepted by
\* the socket, and goes nowhere.
Sent(m, result) ==
    /\ IF link = "up" THEN SettleAtBroker(m, result)
                      ELSE UNCHANGED <<queue, unacked, acked, dead>>
    /\ UNCHANGED <<drops, client>>

\* Ack or Nack returns false.
NotSent == link = "lost" /\ UNCHANGED <<broker, client>>

-----------------------------------------------------------------------------
(* The consumer thread.                                                    *)

Goto(from, to) == pc = from /\ pc' = to

\* The loop condition holds, and IsConnected is true: it looks only at the flag
\* Connect has set.
AlreadyConnected ==
    /\ m_running /\ link # "none"
    /\ Goto("top", "consume")
    /\ UNCHANGED <<broker, client, m_running, m_idempotency, delivery, promise, tasks, history>>

\* Connect: socket and login.
Connect ==
    /\ m_running /\ link = "none"
    /\ Goto("top", "OpenChannel")
    /\ link' = "up" /\ setup' = {}
    /\ UNCHANGED <<broker, buffered, m_running, m_idempotency, delivery, promise, tasks, history>>

\* The broker answers the call the thread waits for.
Answered(call, to) ==
    /\ link = "up"
    /\ Goto(call, to)
    /\ setup' = setup \cup {call}
    /\ UNCHANGED <<broker, link, buffered, m_running, m_idempotency, delivery, promise, tasks,
                   history>>

OpenChannel == Answered("OpenChannel", "DeclareForConsumer")

DeclareForConsumer == Answered("DeclareForConsumer", "StartConsume")

StartConsume == Answered("StartConsume", "consume")

\* The connection is lost, or the broker refuses the call, which the bound on
\* lost connections counts too.
CallFails ==
    /\ link = "lost" \/ drops < MaxDrops
    /\ drops' = IF link = "lost" THEN drops ELSE drops + 1

\* Mutant: a refused consume leaves the connection as it is.
SetUpFails_NotClosed ==
    /\ CallFails
    /\ IF pc = "StartConsume"
         THEN Goto("StartConsume", "top") /\ UNCHANGED <<queue, unacked, client>>
         ELSE pc \in SetUpCalls /\ pc' = "top" /\ Close
    /\ UNCHANGED <<acked, dead, m_running, m_idempotency, delivery, promise, tasks, history>>

\* EnsureConnected closes the client and returns false.
SetUpFails ==
    /\ CallFails
    /\ pc \in SetUpCalls /\ pc' = "top"
    /\ Close
    /\ UNCHANGED <<acked, dead, m_running, m_idempotency, delivery, promise, tasks, history>>

LeaveLoop ==
    /\ ~m_running
    /\ Goto("top", "exited")
    /\ UNCHANGED <<broker, client, m_running, m_idempotency, delivery, promise, tasks, history>>

\* Consume returns a delivery; a Stop seen now leaves it unsettled.
ConsumeGot ==
    /\ buffered # << >>
    /\ Goto("consume", IF m_running THEN "parse" ELSE "exited")
    /\ delivery' = IF m_running THEN Head(buffered) ELSE delivery
    /\ buffered' = Tail(buffered)
    /\ UNCHANGED <<broker, link, setup, m_running, m_idempotency, promise, tasks, history>>

\* Mutant: Consume waits without a timeout.
ConsumeTimeout_Never ==
    /\ buffered = << >> /\ link = "lost"
    /\ Goto("consume", IF m_running THEN "top" ELSE "exited")
    /\ UNCHANGED <<broker, client, m_running, m_idempotency, delivery, promise, tasks, history>>

ConsumeTimeout ==
    /\ buffered = << >>
    /\ Goto("consume", IF m_running THEN "top" ELSE "exited")
    /\ UNCHANGED <<broker, client, m_running, m_idempotency, delivery, promise, tasks, history>>

ConsumeError ==
    /\ buffered = << >> /\ link = "lost"
    /\ IF m_running
         THEN Goto("consume", "top") /\ Close
         ELSE Goto("consume", "exited") /\ UNCHANGED <<queue, unacked, client>>
    /\ UNCHANGED <<acked, dead, drops, m_running, m_idempotency, delivery, promise, tasks, history>>

\* Mutant: good envelopes are rejected too.
DropBadEnvelope_AlsoGood ==
    /\ Goto("parse", "top")
    /\ Body[delivery] # "throws"
    /\ Sent(delivery, "ACK") \/ NotSent
    /\ delivery' = NoMessage
    /\ UNCHANGED <<m_running, m_idempotency, promise, tasks, history>>

\* A body that is no envelope is acknowledged and dropped; whether the Ack went
\* out is not looked at.
DropBadEnvelope ==
    /\ Goto("parse", "top")
    /\ Body[delivery] = "bad"
    /\ Sent(delivery, "ACK") \/ NotSent
    /\ delivery' = NoMessage
    /\ UNCHANGED <<m_running, m_idempotency, promise, tasks, history>>

\* Mutant: the message is marked, not the envelope in it.
Marked_ByMessage == TryMark(m_idempotency, delivery, 0)

\* Messages are redelivered within the x-message-ttl of the queue, which is the
\* TTL of the cache, so the clock stands still as far as TryMark can tell.  (An
\* envelope published once more after that time is a new one to the cache.)
Marked == TryMark(m_idempotency, MsgIdOf[delivery], 0)

\* Mutant: the duplicate is skipped without an Ack.
DropDuplicate_NoAck ==
    /\ Goto("parse", "top")
    /\ Body[delivery] = "envelope" /\ ~Marked.ok
    /\ m_idempotency' = Marked.cache
    /\ delivery' = NoMessage
    /\ UNCHANGED <<broker, client, m_running, promise, tasks, history>>

DropDuplicate ==
    /\ Goto("parse", "top")
    /\ Body[delivery] = "envelope" /\ ~Marked.ok
    /\ m_idempotency' = Marked.cache
    /\ Sent(delivery, "ACK") \/ NotSent
    /\ delivery' = NoMessage
    /\ UNCHANGED <<m_running, promise, tasks, history>>

\* DispatchToScheduler, up to the wait.
Dispatch ==
    /\ Goto("parse", "waiting")
    /\ Body[delivery] = "envelope" /\ Marked.ok
    /\ m_idempotency' = Marked.cache
    /\ tasks' = [tasks EXCEPT ![delivery] = @ + 1]
    /\ promise' = "none"
    /\ UNCHANGED <<broker, client, m_running, delivery, history>>

WaitReady ==
    /\ Goto("waiting", "settle")
    /\ promise # "none"
    /\ UNCHANGED <<broker, client, m_running, m_idempotency, delivery, promise, tasks, history>>

\* Mutant: a timeout counts as a failed message.
WaitTimeout_Drops ==
    /\ Goto("waiting", "settle")
    /\ promise = "none"
    /\ promise' = "NACK_DROP"
    /\ UNCHANGED <<broker, client, m_running, m_idempotency, delivery, tasks, history>>

\* Five seconds have passed: NACK_REQUEUE, and the task stays scheduled.
WaitTimeout ==
    /\ Goto("waiting", "settle")
    /\ promise = "none"
    /\ promise' = "NACK_REQUEUE"
    /\ UNCHANGED <<broker, client, m_running, m_idempotency, delivery, tasks, history>>

\* Ack, Nack with requeue or Nack without; a failure closes the client.
Settle ==
    /\ Goto("settle", "top")
    /\ \/ Sent(delivery, promise)
       \/ link = "lost" /\ Close /\ UNCHANGED <<acked, dead, drops>>
    /\ delivery' = NoMessage
    /\ promise' = "none"
    /\ UNCHANGED <<m_running, m_idempotency, tasks, history>>

-----------------------------------------------------------------------------
(* The IOManager.                                                          *)

\* A scheduled task runs the handler and sets its promise, which is the one Run
\* waits for, or one that Run has given up.
HandlerRun(m) ==
    /\ tasks[m] > 0
    /\ tasks' = [tasks EXCEPT ![m] = @ - 1]
    /\ handled' = [handled EXCEPT ![MsgIdOf[m]] = @ + 1]
    /\ \E r \in Outcome[MsgIdOf[m]] :
          /\ verdicts' = [verdicts EXCEPT ![MsgIdOf[m]] = @ \cup {r}]
          /\ \/ /\ pc = "waiting" /\ delivery = m /\ promise = "none"
                /\ promise' = r
             \/ /\ pc = "waiting" /\ delivery = m => promise # "none" \/ tasks[m] > 1
                /\ UNCHANGED promise
    /\ UNCHANGED <<broker, client, m_running, m_idempotency, pc, delivery, starts, lost>>

-----------------------------------------------------------------------------
(* The process: MyModule::startMq and stopMq, and its end.                 *)

Start ==
    /\ Goto("down", "top")
    /\ m_running' = TRUE
    /\ starts' = IF starts < MaxStarts THEN starts + 1 ELSE starts
    /\ UNCHANGED <<broker, client, m_idempotency, delivery, promise, tasks, handled,
                   verdicts, lost>>

Stop ==
    /\ m_running /\ starts < MaxStarts
    /\ m_running' = FALSE
    /\ UNCHANGED <<broker, client, m_idempotency, pc, delivery, promise, tasks, history>>

StopJoined ==
    /\ ~m_running
    /\ Goto("exited", "stopped")
    /\ Close
    /\ UNCHANGED <<acked, dead, drops, m_running, m_idempotency, delivery, promise, tasks, history>>

\* The memory of the process is gone; the broker sees the connection close.
ProcessEnds ==
    /\ pc' = "down"
    /\ Close
    /\ m_running' = FALSE
    /\ m_idempotency' = EmptyCache
    /\ delivery' = NoMessage
    /\ promise' = "none"
    /\ tasks' = [m \in Messages |-> 0]
    /\ handled' = [i \in MsgIds |-> 0]
    /\ lost' = lost \cup {MsgIdOf[m] : m \in {x \in Messages : tasks[x] > 0}}
    /\ UNCHANGED <<acked, dead, drops, starts, verdicts>>

Crash == pc # "down" /\ starts < MaxStarts /\ ProcessEnds

Exit == pc = "stopped" /\ ProcessEnds

\* The exception of EnvelopeFromJson leaves the thread: std::terminate.
ParseThrows == pc = "parse" /\ Body[delivery] = "throws" /\ ProcessEnds

-----------------------------------------------------------------------------
Next ==
    \/ \E m \in Messages : BusinessPublish(m) \/ HandlerRun(m)
    \/ Deliver \/ LinkDrop
    \/ AlreadyConnected \/ Connect \/ LeaveLoop
    \/ OpenChannel \/ DeclareForConsumer \/ StartConsume \/ SetUpFails
    \/ ConsumeGot \/ ConsumeTimeout \/ ConsumeError
    \/ DropBadEnvelope \/ DropDuplicate \/ Dispatch \/ ParseThrows
    \/ WaitReady \/ WaitTimeout \/ Settle
    \/ Start \/ Stop \/ StopJoined \/ Crash \/ Exit

Spec == Init /\ [][Next]_vars

\* The thread runs; Consume and the wait return; the broker delivers, can be
\* reached in the end and loses the connection finitely often; a lost link is
\* noticed in the end (AMQP heartbeat), though Consume may time out on it many
\* times before; a stopped or dead process is started again.  The handler need
\* not run in time.
Fairness ==
    /\ WF_vars(Deliver)
    /\ WF_vars(AlreadyConnected \/ Connect \/ LeaveLoop)
    /\ WF_vars(OpenChannel \/ DeclareForConsumer \/ StartConsume \/ SetUpFails)
    /\ WF_vars(ConsumeGot) /\ WF_vars(ConsumeTimeout /\ ~m_running) /\ SF_vars(ConsumeError)
    /\ WF_vars(DropBadEnvelope \/ DropDuplicate \/ Dispatch \/ ParseThrows)
    /\ WF_vars(WaitReady \/ WaitTimeout)
    /\ WF_vars(Settle)
    /\ WF_vars(Start) /\ WF_vars(StopJoined) /\ WF_vars(Exit)

FairSpec == Spec /\ Fairness

-----------------------------------------------------------------------------
(* Safety.                                                                 *)

\* Within one process the handler runs at most once for a msgId, although the
\* broker redelivers after a lost connection, a requeue or a timeout whose task
\* runs later, and the business service may publish the envelope twice.  (The
\* cache must have room for the ids: Capacity >= Cardinality(MsgIds).)
HandledAtMostOnce == \A i \in MsgIds : handled[i] =< 1

\* An envelope is acknowledged only when its handler has run, or is scheduled
\* and will run, or was scheduled in a process that died: a duplicate is
\* acknowledged before the first copy has been handled, so a crash between the
\* two loses the message, and nothing else does.
AckedWasDispatched ==
    \A m \in acked :
        Body[m] = "envelope" =>
            \/ verdicts[MsgIdOf[m]] # {} \/ MsgIdOf[m] \in lost
            \/ \E x \in Messages : MsgIdOf[x] = MsgIdOf[m] /\ tasks[x] > 0

\* Of all the consumer does, only the handler's own NACK_DROP sends a message to
\* chat.dlq: no timeout, duplicate, bad body or lost connection does.  (Messages
\* that expire in the queue go there too; expiry is not modelled.)
DeadByHandlerOnly ==
    \A m \in dead : Body[m] = "envelope" /\ "NACK_DROP" \in verdicts[MsgIdOf[m]]

\* A delivery tag is used on the channel it came from: while the link is up the
\* delivery in hand is the oldest unsettled message of this channel, and the
\* rest are the ones still buffered.  (A tag carried across a reconnection
\* would settle some other message.)
TagIsOfThisChannel ==
    link = "up" /\ pc # "exited" =>
        unacked = IF pc \in {"parse", "waiting", "settle"}
                    THEN <<delivery>> \o buffered
                    ELSE buffered

\* Consume is called on a connection that is consumed on.  On any other it would
\* time out, which is no error, and IsConnected would go on to be true: the
\* consumer would wait for ever.  So every failure after Connect must close.
SetUpBeforeConsume == pc = "consume" => link # "none" /\ setup = SetUpCalls

-----------------------------------------------------------------------------
(* Liveness, under FairSpec.                                               *)

\* A message whose body throws brings the process down each time it comes back,
\* and what is behind it waits.
Poisoned == \E m \in Messages : Body[m] = "throws" /\ AtBroker(m)

\* No message circulates for ever: one that is requeued is settled as its own
\* duplicate when it comes back, unless the queue is poisoned.
EventuallySettled ==
    \A m \in Messages : AtBroker(m) ~> m \in acked \cup dead \/ Poisoned

\* Stop returns: the thread it joins leaves its loop, wherever Stop found it.
StopReturns == ~m_running /\ pc # "down" ~> pc \in {"stopped", "down"}
=============================================================================
