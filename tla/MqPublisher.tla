----------------------------- MODULE MqPublisher -----------------------------
(***************************************************************************)
(* The publisher to business.exchange (chat/mq/publisher.cc): a bounded    *)
(* queue filled by any fiber, and one thread that sends what it takes from *)
(* the queue over an AMQP connection (chat/mq/amqp_client.cc) to the       *)
(* broker (external).                                                      *)
(*                                                                         *)
(* Publisher confirms are not used, so the thread knows only what the      *)
(* socket told it.  The backoff after a failed connection is a sleep: it   *)
(* delays the thread and changes nothing else.                             *)
(***************************************************************************)
EXTENDS Naturals, Sequences, SequencesExt

CONSTANTS
    Events,         \* the events callers publish, each once
    NoEvent,        \* the thread has no task
    QueueCapacity,  \* rabbitmq.publisher.queue_capacity
    MaxDrops,       \* bound: how often the connection to the broker is lost
    MaxStarts       \* bound: the process ends of its own account until this start

ASSUME PublisherAssumption ==
    /\ NoEvent \notin Events
    /\ QueueCapacity \in Nat
    /\ MaxDrops \in Nat
    /\ MaxStarts \in Nat \ {0}

VARIABLES
    m_queue,    \* MqPublisher::m_queue
    m_running,
    pc,
    task,       \* local variable of Run
    link,       \* "none": m_connected is false; "up"; "lost": m_connected is
                \* true but the broker has given the connection up
    setup,      \* the set-up calls answered since the last Connect
    wire,       \* written to the socket and not yet received
    exchange,   \* received by business.exchange, in order
    result,     \* result[e]: how mq_publish_total counted e ("fail" of a full
                \* queue is told to the caller, hence "refused"); history:
                \* "died" if the process ended with e in memory
    accepted,   \* history: events Publish returned true for
    drops,      \* connections lost so far
    starts      \* starts of the process, saturating at MaxStarts

thread == <<m_running, pc, task>>
broker == <<link, setup, wire, exchange, drops>>
vars == <<m_queue, thread, broker, result, accepted, starts>>

\* The calls that make a connection one to publish on, in their order.
SetUpCalls == {"OpenChannel", "DeclareBusinessExchange", "DeclareChatTopology"}

PCs == SetUpCalls \cup  \* in EnsureConnected, waiting for the answer to that call
       {"down",     \* no process, or no thread yet
        "top",      \* at the head of the loop
        "waiting",  \* in wait_for on an empty queue
        "have",     \* a task has been taken
        "send",     \* connected
        "exited",   \* Run has returned
        "stopped"}  \* Stop has joined the thread and closed the client

TypeOK ==
    /\ m_queue \in Seq(Events) /\ Len(m_queue) =< QueueCapacity
    /\ m_running \in BOOLEAN
    /\ pc \in PCs
    /\ task \in Events \cup {NoEvent}
    /\ link \in {"none", "up", "lost"} /\ setup \subseteq SetUpCalls
    /\ wire \in Seq(Events) /\ exchange \in Seq(Events)
    /\ result \in [Events -> {"none", "refused", "ok", "fail", "died"}]
    /\ accepted \subseteq Events
    /\ drops \in 0..MaxDrops
    /\ starts \in 0..MaxStarts

Init ==
    /\ m_queue = << >>
    /\ m_running = FALSE /\ pc = "down" /\ task = NoEvent
    /\ link = "none" /\ setup = {} /\ wire = << >> /\ exchange = << >> /\ drops = 0
    /\ result = [e \in Events |-> "none"]
    /\ accepted = {}
    /\ starts = 0

InHand == IF task = NoEvent THEN << >> ELSE <<task>>

\* Accepted and on the way, the oldest first.
Backlog == wire \o InHand \o m_queue

-----------------------------------------------------------------------------
(* Publish, called by any fiber while the process lives: also before Start *)
(* and after Stop, it looks only at the queue.                             *)

Fresh(e) == e \notin accepted /\ result[e] = "none"

Publish(e) ==
    /\ Fresh(e)
    /\ Len(m_queue) < QueueCapacity
    /\ m_queue' = Append(m_queue, e)
    /\ accepted' = accepted \cup {e}
    /\ UNCHANGED <<thread, broker, result, starts>>

\* Queue full: the event is dropped and the caller told.
PublishRefused(e) ==
    /\ Fresh(e)
    /\ Len(m_queue) >= QueueCapacity
    /\ result' = [result EXCEPT ![e] = "refused"]
    /\ UNCHANGED <<m_queue, thread, broker, accepted, starts>>

-----------------------------------------------------------------------------
(* Run.                                                                    *)

Goto(from, to) == pc = from /\ pc' = to

\* Under m_mutex: an empty queue is waited on, otherwise its front is taken.  The
\* loop condition is read before; a Stop that comes in between changes nothing
\* the thread looks at until it is back at the head, so the two are one step.
TakeTask(from) ==
    /\ m_queue # << >>
    /\ Goto(from, "have")
    /\ task' = Head(m_queue)
    /\ m_queue' = Tail(m_queue)

Take ==
    /\ m_running
    /\ TakeTask("top")
    /\ UNCHANGED <<m_running, broker, result, accepted, starts>>

Wait ==
    /\ m_running /\ m_queue = << >>
    /\ Goto("top", "waiting")
    /\ UNCHANGED <<m_queue, m_running, task, broker, result, accepted, starts>>

\* Mutant: a wait without a timeout, and Stop's notification comes before it.
Wake_NotifiedOnly ==
    /\ TakeTask("waiting")
    /\ UNCHANGED <<m_running, broker, result, accepted, starts>>

\* Notified, or 500 ms have passed: the queue is looked at once more.
Wake ==
    /\ \/ TakeTask("waiting")
       \/ /\ m_queue = << >>
          /\ Goto("waiting", "top")
          /\ UNCHANGED <<m_queue, task>>
    /\ UNCHANGED <<m_running, broker, result, accepted, starts>>

LeaveLoop ==
    /\ ~m_running
    /\ Goto("top", "exited")
    /\ UNCHANGED <<m_queue, m_running, task, broker, result, accepted, starts>>

-----------------------------------------------------------------------------
(* EnsureConnected, before each task.                                      *)

\* IsConnected looks only at the flag Connect has set: how far the connection
\* has been set up, or that it is lost, is not in it.
AlreadyConnected ==
    /\ link # "none"
    /\ Goto("have", "send")
    /\ UNCHANGED <<m_queue, m_running, task, broker, result, accepted, starts>>

\* Connect: socket and login.  What a connection that died with its process
\* still had to deliver has arrived by now or never will.
Connect ==
    /\ link = "none"
    /\ Goto("have", "OpenChannel")
    /\ link' = "up" /\ setup' = {} /\ wire' = << >>
    /\ UNCHANGED <<m_queue, m_running, task, exchange, drops, result, accepted, starts>>

\* The broker answers the call the thread waits for.
Answered(call, to) ==
    /\ link = "up"
    /\ Goto(call, to)
    /\ setup' = setup \cup {call}
    /\ UNCHANGED <<m_queue, m_running, task, link, wire, exchange, drops, result, accepted,
                   starts>>

OpenChannel == Answered("OpenChannel", "DeclareBusinessExchange")

\* DeclareForPublisher: the exchange it publishes to, then the consumer's queues.
DeclareBusinessExchange == Answered("DeclareBusinessExchange", "DeclareChatTopology")

DeclareChatTopology == Answered("DeclareChatTopology", "send")

Counted(r) == result' = [result EXCEPT ![task] = r]

\* Mutant: the dropped task is not counted.
GiveUp_NotCounted ==
    /\ pc' = "top"
    /\ task' = NoEvent
    /\ UNCHANGED <<m_queue, m_running, result, accepted, starts>>

\* EnsureConnected returns false: the task in hand is dropped.
GiveUp ==
    /\ pc' = "top"
    /\ Counted("fail")
    /\ task' = NoEvent
    /\ UNCHANGED <<m_queue, m_running, accepted, starts>>

\* Connect closes what it has opened.
ConnectFails ==
    /\ pc = "have" /\ link = "none"
    /\ GiveUp
    /\ UNCHANGED broker

\* Mutant: a failed OpenChannel leaves the connection as it is.
SetUpFails_NotClosed ==
    /\ pc \in SetUpCalls
    /\ GiveUp
    /\ link' = IF pc = "OpenChannel" THEN link ELSE "none"
    /\ UNCHANGED <<setup, wire, exchange, drops>>

\* The broker refuses the call (a queue declared before with other arguments) or
\* the connection is gone; the client is closed.
SetUpFails ==
    /\ pc \in SetUpCalls
    /\ GiveUp
    /\ link' = "none"
    /\ UNCHANGED <<setup, wire, exchange, drops>>

-----------------------------------------------------------------------------
(* AmqpClient::Publish.                                                    *)

\* amqp_basic_publish returns ok, which on a lost link means that the socket
\* took the frame and nobody will read it.
SendOk ==
    /\ Goto("send", "top")
    /\ wire' = IF link = "up" THEN Append(wire, task) ELSE wire
    /\ Counted("ok")
    /\ task' = NoEvent
    /\ UNCHANGED <<m_queue, m_running, link, setup, exchange, drops, accepted, starts>>

\* Mutant: the task goes back to the queue, at its end.
SendFails_RequeuesLast ==
    /\ link = "lost"
    /\ Goto("send", "top")
    /\ m_queue' = Append(m_queue, task)
    /\ task' = NoEvent
    /\ link' = "none"
    /\ UNCHANGED <<m_running, setup, wire, exchange, drops, result, accepted, starts>>

\* Mutant: the task is counted as failed and tried again.
SendFails_RetriesCounted ==
    /\ link = "lost"
    /\ Goto("send", "have")
    /\ Counted("fail")
    /\ link' = "none"
    /\ UNCHANGED <<m_queue, m_running, task, setup, wire, exchange, drops, accepted, starts>>

\* Mutant: the loop is left on an error.
SendFails_Breaks ==
    /\ link = "lost"
    /\ Goto("send", "exited")
    /\ Counted("fail")
    /\ task' = NoEvent
    /\ link' = "none"
    /\ UNCHANGED <<m_queue, m_running, setup, wire, exchange, drops, accepted, starts>>

\* It returns an error: the task is dropped and the client closed.
SendFails ==
    /\ link = "lost"
    /\ Goto("send", "top")
    /\ Counted("fail")
    /\ task' = NoEvent
    /\ link' = "none"
    /\ UNCHANGED <<m_queue, m_running, setup, wire, exchange, drops, accepted, starts>>

-----------------------------------------------------------------------------
(* The broker.                                                             *)

Receive ==
    /\ wire # << >>
    /\ exchange' = Append(exchange, Head(wire))
    /\ wire' = Tail(wire)
    /\ UNCHANGED <<m_queue, thread, link, setup, drops, result, accepted, starts>>

\* What was on the wire is gone with the connection.
LinkDrop ==
    /\ link = "up" /\ drops < MaxDrops
    /\ link' = "lost"
    /\ wire' = << >>
    /\ drops' = drops + 1
    /\ UNCHANGED <<m_queue, thread, setup, exchange, result, accepted, starts>>

-----------------------------------------------------------------------------
(* The process: MyModule::startMq and stopMq, and its end.                 *)

Start ==
    /\ Goto("down", "top")
    /\ m_running' = TRUE
    /\ starts' = IF starts < MaxStarts THEN starts + 1 ELSE starts
    /\ UNCHANGED <<m_queue, task, broker, result, accepted>>

Stop ==
    /\ m_running /\ starts < MaxStarts
    /\ m_running' = FALSE
    /\ UNCHANGED <<m_queue, pc, task, broker, result, accepted, starts>>

\* The thread is joined and the client closed: the closing handshake comes
\* after what is on the wire, so the broker reads that first.
StopJoined ==
    /\ ~m_running
    /\ Goto("exited", "stopped")
    /\ link' = "none"
    /\ exchange' = exchange \o wire
    /\ wire' = << >>
    /\ UNCHANGED <<m_queue, m_running, task, setup, drops, result, accepted, starts>>

\* The queue is in memory; nothing of it is left.
ProcessEnds ==
    /\ pc' = "down" /\ m_running' = FALSE
    /\ m_queue' = << >> /\ task' = NoEvent
    /\ result' = [e \in Events |-> IF e \in Range(InHand \o m_queue) THEN "died" ELSE result[e]]
    /\ link' = "none"
    /\ UNCHANGED <<setup, wire, exchange, drops, accepted, starts>>

Crash == pc # "down" /\ starts < MaxStarts /\ ProcessEnds

-----------------------------------------------------------------------------
Next ==
    \/ \E e \in Events : Publish(e) \/ PublishRefused(e)
    \/ Take \/ Wait \/ Wake \/ LeaveLoop
    \/ AlreadyConnected \/ Connect \/ ConnectFails
    \/ OpenChannel \/ DeclareBusinessExchange \/ DeclareChatTopology \/ SetUpFails
    \/ SendOk \/ SendFails
    \/ Receive \/ LinkDrop
    \/ Start \/ Stop \/ StopJoined \/ Crash

Spec == Init /\ [][Next]_vars

\* The thread runs, its waits and its calls return, Stop goes on once the
\* thread has left its loop.  No caller has to publish, and the broker need
\* neither be reachable nor receive.
Fairness ==
    /\ WF_vars(Take) /\ WF_vars(Wake) /\ WF_vars(LeaveLoop)
    /\ WF_vars(AlreadyConnected \/ Connect \/ ConnectFails)
    /\ WF_vars(OpenChannel \/ DeclareBusinessExchange \/ DeclareChatTopology \/ SetUpFails)
    /\ WF_vars(SendOk \/ SendFails)
    /\ WF_vars(StopJoined)

FairSpec == Spec /\ Fairness

-----------------------------------------------------------------------------
(* Safety.                                                                 *)

\* The publisher is a lossy FIFO: the broker never sees an event twice, out of
\* order, or one that was refused, across reconnections, a stop with a
\* full queue, and crashes.
Fifo == INSTANCE LossyFifo WITH backlog <- Backlog, arrived <- exchange

ImplementsLossyFifo == Fifo!Spec

\* What was counted as failed, or refused (the client was sent a 503), does not
\* reach the business service later: the client may send it again.
FailedNeverArrives ==
    \A e \in Events :
        result[e] \in {"refused", "fail"} => e \notin Range(Backlog) \cup Range(exchange)

\* No event vanishes without a trace: what Publish accepted is in the queue or
\* in the hands of the thread until it is counted ok or failed, through
\* reconnections and Stop, unless the process ends.
NoSilentLoss ==
    \A e \in accepted :
        e \in Range(InHand \o m_queue) <=> result[e] = "none"

\* Nothing is published on a half-made connection: IsConnected is true as soon
\* as Connect has returned, and answers for the channel and the topology only
\* because every failure after it closes the client.
SetUpBeforeSend == pc = "send" => link # "none" /\ setup = SetUpCalls

-----------------------------------------------------------------------------
(* Liveness, under FairSpec.                                               *)

\* An accepted event is sent or given up, unless the publisher is stopped: a
\* broker that cannot be reached empties the queue rather than filling it.
QueueDrains ==
    \A e \in Events :
        e \in Range(m_queue) /\ m_running ~> result[e] # "none" \/ ~m_running

\* Stop returns: the thread it joins leaves its loop, wherever Stop found it.
StopReturns == ~m_running /\ pc # "down" ~> pc \in {"stopped", "down"}

-----------------------------------------------------------------------------
(* What the configuration says, and the code does not do.                  *)

\* "rabbitmq publisher confirm" is on by default: an event counted ok has been
\* received by the broker, or will be.
OkMeansReceived ==
    \A e \in Events :
        result[e] = "ok" => e \in Range(wire) \cup Range(exchange)
=============================================================================
