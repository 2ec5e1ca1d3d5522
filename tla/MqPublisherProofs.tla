-------------------------- MODULE MqPublisherProofs ---------------------------
(***************************************************************************)
(* The safety invariants of MqPublisher hold for any events, capacity of   *)
(* the queue, number of lost connections and of starts, and the publisher  *)
(* implements LossyFifo.                                                   *)
(***************************************************************************)
EXTENDS MqPublisher, SequenceTheorems, TLAPS

-----------------------------------------------------------------------------
(* Sequences.                                                              *)

\* No element occurs twice.
Distinct(s) == \A i, j \in 1..Len(s) : s[i] = s[j] => i = j

\* What is in a sequence after Append.
LEMMA RangeAppend ==
    ASSUME NEW S, NEW s \in Seq(S), NEW e \in S
    PROVE  /\ Append(s, e) \in Seq(S) /\ Len(Append(s, e)) = Len(s) + 1
           /\ Range(Append(s, e)) = Range(s) \cup {e}
<1>1. Append(s, e) \in Seq(S) /\ Len(Append(s, e)) = Len(s) + 1
  OBVIOUS
<1>2. /\ Append(s, e)[Len(s) + 1] = e
      /\ \A i \in 1..Len(s) : Append(s, e)[i] = s[i]
  OBVIOUS
<1>3. DOMAIN Append(s, e) = 1..(Len(s) + 1) /\ DOMAIN s = 1..Len(s) /\ Len(s) \in Nat
  OBVIOUS
<1>4. \A i \in 1..(Len(s) + 1) : i \in 1..Len(s) \/ i = Len(s) + 1
  BY <1>3
<1>5. 1..Len(s) \subseteq 1..(Len(s) + 1) /\ Len(s) + 1 \in 1..(Len(s) + 1)
  BY <1>3
<1>6. ASSUME NEW x PROVE x \in Range(Append(s, e)) <=> x \in Range(s) \/ x = e
  BY <1>2, <1>3, <1>4, <1>5 DEF Range
<1> QED BY <1>1, <1>6

\* Appending something new keeps the elements distinct.
LEMMA DistinctAppend ==
    ASSUME NEW S, NEW s \in Seq(S), NEW e \in S, Distinct(s), e \notin Range(s)
    PROVE  Distinct(Append(s, e))
<1>1. \A i \in 1..Len(s) : s[i] # e
  BY DEF Range
<1>2. /\ Append(s, e)[Len(s) + 1] = e
      /\ \A i \in 1..Len(s) : Append(s, e)[i] = s[i]
      /\ Len(Append(s, e)) = Len(s) + 1 /\ Len(s) \in Nat
  OBVIOUS
<1>3. \A i \in 1..(Len(s) + 1) : i \in 1..Len(s) \/ i = Len(s) + 1
  BY <1>2
<1> QED BY <1>1, <1>2, <1>3 DEF Distinct

\* Taking the front: the rest holds everything else.
LEMMA RangeTail ==
    ASSUME NEW S, NEW s \in Seq(S), s # << >>
    PROVE  /\ Head(s) \in S /\ Tail(s) \in Seq(S) /\ Len(Tail(s)) = Len(s) - 1
           /\ Head(s) \in Range(s)
           /\ Range(s) = Range(Tail(s)) \cup {Head(s)}
           /\ Distinct(s) => Distinct(Tail(s)) /\ Head(s) \notin Range(Tail(s))
<1>1. /\ Len(s) \in Nat \ {0} /\ Head(s) = s[1] /\ Head(s) \in S
      /\ Tail(s) \in Seq(S) /\ Len(Tail(s)) = Len(s) - 1
      /\ DOMAIN s = 1..Len(s) /\ DOMAIN Tail(s) = 1..(Len(s) - 1)
      /\ \A i \in 1..(Len(s) - 1) : Tail(s)[i] = s[i + 1]
  OBVIOUS
<1>2. 1 \in 1..Len(s) /\ \A i \in 1..(Len(s) - 1) : i + 1 \in 1..Len(s) /\ i + 1 # 1
  BY <1>1
<1>3. \A i \in 1..Len(s) : i = 1 \/ (i - 1 \in 1..(Len(s) - 1) /\ (i - 1) + 1 = i)
  BY <1>1
<1>4. ASSUME NEW x PROVE x \in Range(s) <=> x \in Range(Tail(s)) \/ x = Head(s)
  <2>1. x \in Range(Tail(s)) \/ x = Head(s) => x \in Range(s)
    BY <1>1, <1>2 DEF Range
  <2>2. ASSUME x \in Range(s) PROVE x \in Range(Tail(s)) \/ x = Head(s)
    <3>1. PICK i \in 1..Len(s) : x = s[i]
      BY <1>1, <2>2 DEF Range
    <3>2. CASE i = 1
      BY <1>1, <3>1, <3>2
    <3>3. CASE i # 1
      <4>1. i - 1 \in 1..(Len(s) - 1) /\ (i - 1) + 1 = i
        BY <1>3, <3>3
      <4>2. Tail(s)[i - 1] = x
        BY <1>1, <3>1, <4>1
      <4> QED BY <1>1, <4>1, <4>2 DEF Range
    <3> QED BY <3>2, <3>3
  <2> QED BY <2>1, <2>2
<1>5. Distinct(s) => Distinct(Tail(s)) /\ Head(s) \notin Range(Tail(s))
  <2> SUFFICES ASSUME Distinct(s) PROVE Distinct(Tail(s)) /\ Head(s) \notin Range(Tail(s))
    OBVIOUS
  <2>1. \A i, j \in 1..(Len(s) - 1) : i + 1 = j + 1 => i = j
    BY <1>1
  <2>2. Distinct(Tail(s))
    BY <1>1, <1>2, <2>1 DEF Distinct
  <2>3. Head(s) \notin Range(Tail(s))
    BY <1>1, <1>2 DEF Distinct, Range
  <2> QED BY <2>2, <2>3
<1> QED BY <1>1, <1>4, <1>5

-----------------------------------------------------------------------------
(* Types.                                                                  *)

\* The queue and the thread are empty at the start.
LEMMA InitType == Init => TypeOK
<1>1. << >> \in Seq(Events) /\ Len(<< >>) =< QueueCapacity
  BY EmptySeq, PublisherAssumption
<1> SUFFICES ASSUME Init PROVE TypeOK
  OBVIOUS
<1>2. m_running \in BOOLEAN /\ pc \in PCs /\ link \in {"none", "up", "lost"} /\ setup \subseteq SetUpCalls
  BY DEF Init, PCs
<1>3. drops \in 0..MaxDrops /\ starts \in 0..MaxStarts
  BY PublisherAssumption DEF Init
<1>4. result \in [Events -> {"none", "refused", "ok", "fail", "died"}] /\ accepted \subseteq Events
  BY DEF Init
<1> QED BY <1>1, <1>2, <1>3, <1>4 DEF Init, TypeOK

\* What the thread takes is the front, and the queue gets shorter.
LEMMA TakeTaskType ==
    ASSUME TypeOK, NEW from, TakeTask(from)
    PROVE  /\ m_queue # << >> /\ task' = Head(m_queue) /\ m_queue' = Tail(m_queue)
           /\ task' \in Events /\ m_queue' \in Seq(Events) /\ Len(m_queue') =< QueueCapacity
           /\ pc = from /\ pc' = "have"
<1>1. m_queue \in Seq(Events) /\ Len(m_queue) \in Nat /\ Len(m_queue) =< QueueCapacity
  BY DEF TypeOK
<1>2. m_queue # << >> /\ task' = Head(m_queue) /\ m_queue' = Tail(m_queue) /\ pc = from /\ pc' = "have"
  BY DEF TakeTask, Goto
<1>3. /\ Head(m_queue) \in Events /\ Tail(m_queue) \in Seq(Events)
      /\ Len(Tail(m_queue)) = Len(m_queue) - 1
  BY <1>1, <1>2, RangeTail
<1> QED BY <1>1, <1>2, <1>3, PublisherAssumption

\* The thread holds a task from the moment it has taken it until it is counted.
TaskInHand ==
    task # NoEvent <=> pc \in {"have", "send"} \cup SetUpCalls

Types == TypeOK /\ TaskInHand

\* Every step keeps the types, and the task in hand where it should be.
LEMMA NextTypes == Types /\ [Next]_vars => Types'
<1> SUFFICES ASSUME Types, [Next]_vars PROVE Types'
  OBVIOUS
<1> USE PublisherAssumption DEF Types, TypeOK, TaskInHand, PCs, SetUpCalls, Goto, thread, broker
<1>1. ASSUME NEW e \in Events, Publish(e) PROVE Types'
  <2>1. m_queue' \in Seq(Events) /\ Len(m_queue') = Len(m_queue) + 1
    BY <1>1, RangeAppend DEF Publish
  <2>2. Len(m_queue') =< QueueCapacity
    BY <1>1, <2>1 DEF Publish
  <2> QED BY <1>1, <2>1, <2>2 DEF Publish
<1>2. ASSUME NEW e \in Events, PublishRefused(e) PROVE Types'
  BY <1>2 DEF PublishRefused
<1>3. CASE Take
  BY <1>3, TakeTaskType DEF Take
<1>4. CASE Wait \/ LeaveLoop
  BY <1>4 DEF Wait, LeaveLoop
<1>5. CASE Wake
  BY <1>5, TakeTaskType DEF Wake
<1>6. CASE AlreadyConnected \/ Connect
  BY <1>6, EmptySeq DEF AlreadyConnected, Connect
<1>7. CASE OpenChannel \/ DeclareBusinessExchange \/ DeclareChatTopology
  BY <1>7 DEF OpenChannel, DeclareBusinessExchange, DeclareChatTopology, Answered
<1>8. CASE ConnectFails \/ SetUpFails
  BY <1>8 DEF ConnectFails, SetUpFails, GiveUp, Counted
<1>9. CASE SendOk
  <2>1. task \in Events
    BY <1>9 DEF SendOk
  <2>2. wire' \in Seq(Events)
    BY <1>9, <2>1, RangeAppend DEF SendOk
  <2> QED BY <1>9, <2>2 DEF SendOk, Counted
<1>10. CASE SendFails
  BY <1>10 DEF SendFails, Counted
<1>11. CASE Receive
  <2>1. Head(wire) \in Events /\ wire' \in Seq(Events)
    BY <1>11, RangeTail DEF Receive
  <2>2. exchange' \in Seq(Events)
    BY <1>11, <2>1, RangeAppend DEF Receive
  <2> QED BY <1>11, <2>1, <2>2 DEF Receive
<1>12. CASE LinkDrop
  BY <1>12 DEF LinkDrop
<1>13. CASE Start \/ Stop
  <2>1. starts' \in 0..MaxStarts
    BY <1>13 DEF Start, Stop
  <2>2. UNCHANGED <<m_queue, task, broker, result, accepted>> /\ pc' \in PCs /\ m_running' \in BOOLEAN
    BY <1>13 DEF Start, Stop
  <2>3. TaskInHand'
    BY <1>13 DEF Start, Stop
  <2> QED BY <2>1, <2>2, <2>3
<1>14. CASE StopJoined
  BY <1>14 DEF StopJoined
<1>15. CASE Crash
  <2>1. m_queue' = << >> /\ task' = NoEvent /\ pc' = "down" /\ m_running' = FALSE /\ link' = "none"
        /\ UNCHANGED <<setup, wire, exchange, drops, accepted, starts>>
    BY <1>15 DEF Crash, ProcessEnds
  <2>2. result' \in [Events -> {"none", "refused", "ok", "fail", "died"}]
    BY <1>15 DEF Crash, ProcessEnds
  <2>3. << >> \in Seq(Events) /\ Len(<< >>) =< QueueCapacity
    BY EmptySeq
  <2>4. TypeOK'
    BY <2>1, <2>2, <2>3
  <2> QED BY <2>1, <2>4
<1>16. CASE UNCHANGED vars
  BY <1>16 DEF vars
<1> QED
  BY <1>1, <1>2, <1>3, <1>4, <1>5, <1>6, <1>7, <1>8, <1>9, <1>10, <1>11, <1>12, <1>13, <1>14,
     <1>15, <1>16
  DEF Next

\* MqPublisher is type correct: its queue never holds more than the capacity.
THEOREM TypeCorrect == Spec => []TypeOK
<1>1. Init => Types
  BY InitType, PublisherAssumption DEF Types, TaskInHand, Init, SetUpCalls
<1>2. Types => TypeOK
  BY DEF Types
<1> QED BY <1>1, <1>2, NextTypes, PTL DEF Spec

-----------------------------------------------------------------------------
(* Setting up.                                                             *)

\* How far the connection has been set up can be told from where the thread is;
\* anywhere but in EnsureConnected a connection is either whole or closed.
SetUpSoFar ==
    /\ pc \in SetUpCalls => link # "none"
    /\ pc = "OpenChannel" => setup = {}
    /\ pc = "DeclareBusinessExchange" => setup = {"OpenChannel"}
    /\ pc = "DeclareChatTopology" => setup = {"OpenChannel", "DeclareBusinessExchange"}
    /\ pc \notin SetUpCalls /\ link # "none" => setup = SetUpCalls
    /\ pc = "send" => link # "none"

\* Every step keeps this: each call is made after the answer to the one before,
\* and every failure closes the client.
LEMMA NextSetUp == TypeOK /\ SetUpSoFar /\ [Next]_vars => SetUpSoFar'
<1> SUFFICES ASSUME TypeOK, SetUpSoFar, [Next]_vars PROVE SetUpSoFar'
  OBVIOUS
<1> USE DEF SetUpSoFar, SetUpCalls, Goto, thread, broker
<1>1. CASE (\E e \in Events : Publish(e) \/ PublishRefused(e)) \/ Receive \/ Stop \/ UNCHANGED vars
  BY <1>1 DEF Publish, PublishRefused, Receive, Stop, vars
<1>2. CASE Take \/ Wake \/ Wait \/ LeaveLoop \/ Start
  BY <1>2 DEF Take, Wake, TakeTask, Wait, LeaveLoop, Start
<1>3. CASE AlreadyConnected \/ Connect
  BY <1>3 DEF AlreadyConnected, Connect
<1>4. CASE OpenChannel \/ DeclareBusinessExchange \/ DeclareChatTopology
  BY <1>4 DEF OpenChannel, DeclareBusinessExchange, DeclareChatTopology, Answered
<1>5. CASE ConnectFails \/ SetUpFails
  BY <1>5 DEF ConnectFails, SetUpFails, GiveUp
<1>6. CASE SendOk \/ SendFails
  BY <1>6 DEF SendOk, SendFails
<1>7. CASE LinkDrop
  BY <1>7 DEF LinkDrop
<1>8. CASE StopJoined \/ Crash
  BY <1>8 DEF StopJoined, Crash, ProcessEnds
<1> QED BY <1>1, <1>2, <1>3, <1>4, <1>5, <1>6, <1>7, <1>8 DEF Next

\* SetUpBeforeSend of EnsureConnected: IsConnected looks only at Connect's flag,
\* and yet no event goes out on a half-made connection.
THEOREM SetUpFirst == Spec => []SetUpBeforeSend
<1>1. Init => SetUpSoFar
  BY DEF Init, SetUpSoFar, SetUpCalls
<1>2. SetUpSoFar => SetUpBeforeSend
  BY DEF SetUpSoFar, SetUpBeforeSend, SetUpCalls
<1> QED BY <1>1, <1>2, TypeCorrect, NextSetUp, PTL DEF Spec

-----------------------------------------------------------------------------
(* Accounting.                                                             *)

\* In the hands of the thread or in the queue.
InMemory(e) == e = task \/ e \in Range(m_queue)

\* The same as a sequence.
LEMMA InMemoryMeans ==
    ASSUME TypeOK, NEW e \in Events
    PROVE  e \in Range(InHand \o m_queue) <=> InMemory(e)
<1>1. m_queue \in Seq(Events) /\ InHand \in Seq(Events)
  BY DEF TypeOK, InHand
<1>2. Range(InHand \o m_queue) = Range(InHand) \cup Range(m_queue)
  BY <1>1, RangeConcatenation
<1>3. e \in Range(InHand) <=> e = task
  <2>1. DOMAIN << >> = {} /\ DOMAIN <<task>> = {1} /\ <<task>>[1] = task
    OBVIOUS
  <2> QED BY <2>1, PublisherAssumption DEF InHand, Range
<1> QED BY <1>2, <1>3 DEF InMemory

\* The queue holds no event twice, nor the one in hand; what is in memory has been
\* accepted and is not counted; what is accepted and not counted is in memory; and
\* what has left for the broker is counted ok.
Accounts ==
    /\ Distinct(m_queue) /\ task \notin Range(m_queue)
    /\ \A e \in Events : InMemory(e) => e \in accepted /\ result[e] = "none"
    /\ \A e \in accepted : result[e] = "none" => InMemory(e)
    /\ \A e \in Range(wire) \cup Range(exchange) : result[e] = "ok"

\* There is nothing to account for at the start.
LEMMA InitAccounts == Init => Accounts
<1>1. DOMAIN << >> = {}
  OBVIOUS
<1>2. Range(<< >>) = {} /\ Distinct(<< >>)
  BY <1>1 DEF Range, Distinct
<1> QED BY <1>2, PublisherAssumption DEF Init, Accounts, InMemory

\* Taking moves an event from the queue into the hand.
LEMMA TakeAccounts ==
    ASSUME Types, Accounts, NEW from, from \in {"top", "waiting"}, TakeTask(from),
           UNCHANGED <<wire, exchange, result, accepted>>
    PROVE  Accounts'
<1>1. m_queue \in Seq(Events) /\ m_queue # << >> /\ task' = Head(m_queue) /\ m_queue' = Tail(m_queue)
  BY TakeTaskType DEF Types, TypeOK
<1>2. task = NoEvent
  BY DEF Types, TaskInHand, TakeTask, Goto, SetUpCalls
<1>3. /\ Range(m_queue) = Range(m_queue') \cup {task'}
      /\ Distinct(m_queue') /\ task' \notin Range(m_queue')
  BY <1>1, RangeTail DEF Accounts
<1>4. \A e \in Events : InMemory(e)' <=> InMemory(e)
  BY <1>2, <1>3, PublisherAssumption DEF InMemory
<1>5. accepted \subseteq Events
  BY DEF Types, TypeOK
<1> QED BY <1>3, <1>4, <1>5 DEF Accounts

\* Counting the task in hand lets go of it.
LEMMA CountAccounts ==
    ASSUME Types, Accounts, task # NoEvent, NEW r \in {"ok", "fail"}, Counted(r), task' = NoEvent,
           UNCHANGED <<m_queue, exchange, accepted>>,
           wire' = wire \/ (r = "ok" /\ wire' = Append(wire, task))
    PROVE  Accounts'
<1>1. /\ task \in Events /\ m_queue \in Seq(Events) /\ wire \in Seq(Events) /\ exchange \in Seq(Events)
      /\ result \in [Events -> {"none", "refused", "ok", "fail", "died"}] /\ accepted \subseteq Events
  BY DEF Types, TypeOK
<1>2. Range(m_queue) \subseteq Events /\ Range(wire) \subseteq Events /\ Range(exchange) \subseteq Events
  BY <1>1, RangeOfSeq
<1>3. result'[task] = r /\ \A e \in Events \ {task} : result'[e] = result[e]
  BY <1>1 DEF Counted
<1>4. \A e \in Events : InMemory(e)' <=> InMemory(e) /\ e # task
  BY PublisherAssumption DEF InMemory, Accounts
<1>5. Range(wire') \subseteq Range(wire) \cup (IF r = "ok" THEN {task} ELSE {})
  <2>1. Range(Append(wire, task)) = Range(wire) \cup {task}
    BY <1>1, RangeAppend
  <2>2. CASE wire' = wire
    BY <2>2
  <2>3. CASE r = "ok" /\ wire' = Append(wire, task)
    BY <2>1, <2>3
  <2> QED BY <2>2, <2>3
<1>6. result[task] = "none"
  BY <1>1 DEF Accounts, InMemory
<1>7. NoEvent \notin Range(m_queue)
  BY <1>2, PublisherAssumption
<1>8. \A e \in Range(wire') \cup Range(exchange') : result'[e] = "ok"
  BY <1>2, <1>3, <1>5, <1>6 DEF Accounts
<1>9. /\ \A e \in Events : InMemory(e)' => e \in accepted' /\ result'[e] = "none"
      /\ \A e \in accepted' : result'[e] = "none" => InMemory(e)'
  BY <1>1, <1>3, <1>4 DEF Accounts
<1> QED BY <1>7, <1>8, <1>9 DEF Accounts

\* Every step keeps the accounts.
LEMMA NextAccounts == Types /\ Accounts /\ [Next]_vars => Accounts'
<1> SUFFICES ASSUME Types, Accounts, [Next]_vars PROVE Accounts'
  OBVIOUS
<1> USE PublisherAssumption DEF thread, broker
<1>a. /\ task \in Events \cup {NoEvent} /\ m_queue \in Seq(Events)
      /\ wire \in Seq(Events) /\ exchange \in Seq(Events)
      /\ result \in [Events -> {"none", "refused", "ok", "fail", "died"}] /\ accepted \subseteq Events
  BY DEF Types, TypeOK
<1>b. Range(m_queue) \subseteq Events /\ Range(wire) \subseteq Events /\ Range(exchange) \subseteq Events
  BY <1>a, RangeOfSeq
<1>1. ASSUME NEW e \in Events, Publish(e) PROVE Accounts'
  <2>1. /\ e \notin accepted /\ result[e] = "none"
        /\ m_queue' = Append(m_queue, e) /\ accepted' = accepted \cup {e}
        /\ UNCHANGED <<task, wire, exchange, result>>
    BY <1>1 DEF Publish, Fresh
  <2>2. ~InMemory(e)
    BY <2>1 DEF Accounts
  <2>3. Range(m_queue') = Range(m_queue) \cup {e} /\ Distinct(m_queue')
    BY <2>1, <2>2, <1>a, RangeAppend, DistinctAppend DEF Accounts, InMemory
  <2>4. \A x : InMemory(x)' <=> InMemory(x) \/ x = e
    BY <2>1, <2>3 DEF InMemory
  <2>5. task' \notin Range(m_queue')
    BY <2>1, <2>2, <2>3 DEF Accounts, InMemory
  <2> QED BY <2>1, <2>3, <2>4, <2>5 DEF Accounts
<1>2. ASSUME NEW e \in Events, PublishRefused(e) PROVE Accounts'
  <2>1. /\ e \notin accepted /\ result[e] = "none" /\ result' = [result EXCEPT ![e] = "refused"]
        /\ UNCHANGED <<m_queue, task, wire, exchange, accepted>>
    BY <1>2 DEF PublishRefused, Fresh
  <2>2. \A x \in Events : x # e => result'[x] = result[x]
    BY <2>1, <1>a
  <2>3. ~InMemory(e) /\ e \notin Range(wire) \cup Range(exchange)
    BY <2>1 DEF Accounts
  <2>4. \A x : InMemory(x)' <=> InMemory(x)
    BY <2>1 DEF InMemory
  <2> QED BY <2>1, <2>2, <2>3, <2>4, <1>a, <1>b DEF Accounts
<1>3. ASSUME UNCHANGED <<m_queue, task, result, accepted>>,
             Range(wire') \cup Range(exchange') \subseteq Range(wire) \cup Range(exchange)
      PROVE  Accounts'
  <2>1. \A e : InMemory(e)' <=> InMemory(e)
    BY <1>3 DEF InMemory
  <2> QED BY <1>3, <2>1 DEF Accounts
<1>c. Range(<< >>) = {} /\ Distinct(<< >>)
  <2>1. DOMAIN << >> = {}
    OBVIOUS
  <2> QED BY <2>1 DEF Range, Distinct
<1>4. CASE Take
  BY <1>4, TakeAccounts DEF Take
<1>5. CASE Wake
  <2>1. CASE TakeTask("waiting")
    BY <1>5, <2>1, TakeAccounts DEF Wake
  <2>2. CASE UNCHANGED <<m_queue, task>>
    BY <1>5, <2>2, <1>3 DEF Wake
  <2> QED BY <1>5, <2>1, <2>2 DEF Wake
<1>6. CASE Wait \/ LeaveLoop \/ AlreadyConnected \/ Connect
  <2>1. UNCHANGED <<m_queue, task, result, accepted, exchange>> /\ (wire' = wire \/ wire' = << >>)
    BY <1>6 DEF Wait, LeaveLoop, AlreadyConnected, Connect
  <2> QED BY <2>1, <1>3, <1>c
<1>7. CASE OpenChannel \/ DeclareBusinessExchange \/ DeclareChatTopology
  BY <1>7, <1>3 DEF OpenChannel, DeclareBusinessExchange, DeclareChatTopology, Answered
<1>8. CASE ConnectFails \/ SetUpFails
  <2>1. task # NoEvent
    BY <1>8 DEF ConnectFails, SetUpFails, Types, TaskInHand
  <2>2. Counted("fail") /\ task' = NoEvent /\ UNCHANGED <<m_queue, exchange, accepted, wire>>
    BY <1>8 DEF ConnectFails, SetUpFails, GiveUp
  <2> QED BY <2>1, <2>2, CountAccounts
<1>9. CASE SendOk \/ SendFails
  <2>1. task # NoEvent
    BY <1>9 DEF SendOk, SendFails, Goto, Types, TaskInHand
  <2>2. task' = NoEvent /\ UNCHANGED <<m_queue, exchange, accepted>>
    BY <1>9 DEF SendOk, SendFails
  <2>3. CASE SendOk
    <3>1. Counted("ok") /\ (wire' = wire \/ wire' = Append(wire, task))
      BY <2>3 DEF SendOk
    <3> QED BY <2>1, <2>2, <3>1, CountAccounts
  <2>4. CASE SendFails
    <3>1. Counted("fail") /\ wire' = wire
      BY <2>4 DEF SendFails
    <3> QED BY <2>1, <2>2, <3>1, CountAccounts
  <2> QED BY <1>9, <2>3, <2>4
<1>10. CASE Receive
  <2>1. wire # << >> /\ exchange' = Append(exchange, Head(wire)) /\ wire' = Tail(wire)
        /\ UNCHANGED <<m_queue, task, result, accepted>>
    BY <1>10 DEF Receive
  <2>2. Range(wire) = Range(wire') \cup {Head(wire)} /\ Head(wire) \in Events
    BY <2>1, <1>a, RangeTail
  <2>3. Range(exchange') = Range(exchange) \cup {Head(wire)}
    BY <2>1, <2>2, <1>a, RangeAppend
  <2> QED BY <2>1, <2>2, <2>3, <1>3
<1>11. CASE LinkDrop
  BY <1>11, <1>3, <1>c DEF LinkDrop
<1>12. CASE Start \/ Stop
  BY <1>12, <1>3 DEF Start, Stop
<1>13. CASE StopJoined
  <2>1. exchange' = exchange \o wire /\ wire' = << >> /\ UNCHANGED <<m_queue, task, result, accepted>>
    BY <1>13 DEF StopJoined
  <2>2. Range(exchange') = Range(exchange) \cup Range(wire)
    BY <2>1, <1>a, RangeConcatenation
  <2> QED BY <2>1, <2>2, <1>3, <1>c
<1>14. CASE Crash
  <2>1. /\ m_queue' = << >> /\ task' = NoEvent /\ UNCHANGED <<wire, exchange, accepted>>
        /\ result' = [e \in Events |-> IF e \in Range(InHand \o m_queue) THEN "died" ELSE result[e]]
    BY <1>14 DEF Crash, ProcessEnds
  <2>2. \A e \in Events : e \in Range(InHand \o m_queue) <=> InMemory(e)
    BY InMemoryMeans DEF Types
  <2>3. \A e \in Events : result'[e] = IF InMemory(e) THEN "died" ELSE result[e]
    BY <2>1, <2>2
  <2>4. \A e \in Events : ~InMemory(e)'
    BY <2>1, <1>c DEF InMemory
  <2> QED BY <2>1, <2>3, <2>4, <1>a, <1>b, <1>c DEF Accounts
<1>15. CASE UNCHANGED vars
  BY <1>15, <1>3 DEF vars
<1> QED
  BY <1>1, <1>2, <1>4, <1>5, <1>6, <1>7, <1>8, <1>9, <1>10, <1>11, <1>12, <1>13, <1>14, <1>15
  DEF Next

\* The whole invariant holds in every behaviour.
LEMMA AlwaysAccounts == Spec => [](Types /\ Accounts)
<1>1. Init => Types
  BY InitType, PublisherAssumption DEF Types, TaskInHand, Init, SetUpCalls
<1> QED BY <1>1, InitAccounts, NextTypes, NextAccounts, PTL DEF Spec

\* NoSilentLoss of Publish and Run: an accepted event is in memory or counted.
THEOREM NothingLostSilently == Spec => []NoSilentLoss
<1>1. Types /\ Accounts => NoSilentLoss
  BY InMemoryMeans DEF Types, TypeOK, Accounts, NoSilentLoss
<1> QED BY <1>1, AlwaysAccounts, PTL

\* FailedNeverArrives of Run: an event is counted failed only when it has left the
\* memory, and nothing on the way to the broker is counted anything but ok.
THEOREM FailedStaysAway == Spec => []FailedNeverArrives
<1>1. ASSUME Types, Accounts, NEW e \in Events, e \in Range(Backlog) \cup Range(exchange)
      PROVE  result[e] \in {"none", "ok"}
  <2>1. wire \in Seq(Events) /\ InHand \in Seq(Events) /\ m_queue \in Seq(Events)
    BY <1>1 DEF Types, TypeOK, InHand
  <2>2. /\ Range((wire \o InHand) \o m_queue) = Range(wire \o InHand) \cup Range(m_queue)
        /\ Range(wire \o InHand) = Range(wire) \cup Range(InHand)
        /\ Range(InHand \o m_queue) = Range(InHand) \cup Range(m_queue)
    <3>1. wire \o InHand \in Seq(Events)
      BY <2>1, ConcatProperties
    <3>2. Range((wire \o InHand) \o m_queue) = Range(wire \o InHand) \cup Range(m_queue)
      BY <2>1, <3>1, RangeConcatenation
    <3> QED BY <2>1, <3>2, RangeConcatenation
  <2>3. Backlog = (wire \o InHand) \o m_queue
    BY <2>1, ConcatAssociative DEF Backlog
  <2>4. Range(Backlog) = Range(wire) \cup Range(InHand \o m_queue)
    BY <2>2, <2>3
  <2> QED BY <1>1, <2>4, InMemoryMeans DEF Types, Accounts
<1>2. Types /\ Accounts => FailedNeverArrives
  BY <1>1 DEF FailedNeverArrives
<1> QED BY <1>2, AlwaysAccounts, PTL
-----------------------------------------------------------------------------
(* The publisher implements LossyFifo.                                     *)

\* Runs of a sequence: the front, and what is left without the middle.
LEMMA Runs ==
    ASSUME NEW S, NEW a \in Seq(S), NEW b \in Seq(S), NEW c \in Seq(S)
    PROVE  LET s == a \o b \o c
           IN  /\ Len(s) = Len(a) + Len(b) + Len(c)
               /\ SubSeq(s, 1, Len(a)) = a
               /\ SubSeq(s, Len(a) + 1, Len(s)) = b \o c
               /\ SubSeq(s, Len(a) + Len(b) + 1, Len(s)) = c
<1> DEFINE s == a \o b \o c
<1>1. /\ a \o b \in Seq(S) /\ b \o c \in Seq(S)
      /\ Len(a \o b) = Len(a) + Len(b) /\ Len(b \o c) = Len(b) + Len(c)
      /\ Len(a) \in Nat /\ Len(b) \in Nat /\ Len(c) \in Nat
  BY ConcatProperties, LenProperties
<1>2. s = a \o (b \o c)
  BY ConcatAssociative
<1>3. Len(s) = Len(a) + Len(b) + Len(c)
  BY <1>1, ConcatProperties
<1>4. SubSeq(s, 1, Len(a)) = a
  BY <1>1, <1>2, SubSeqOfConcat1, SubSeqFull
<1>5. SubSeq(s, Len(a) + 1, Len(s)) = b \o c
  BY <1>1, <1>2, <1>3, SubSeqOfConcat2, SubSeqFull
<1>6. SubSeq(s, Len(a) + Len(b) + 1, Len(s)) = c
  BY <1>1, <1>3, SubSeqOfConcat2, SubSeqFull
<1> QED BY <1>3, <1>4, <1>5, <1>6

\* Concatenation of events.
LEMMA Concat ==
    ASSUME NEW a \in Seq(Events), NEW b \in Seq(Events), NEW c \in Seq(Events)
    PROVE  /\ a \o b \in Seq(Events)
           /\ (a \o b) \o c = a \o (b \o c)
           /\ a \o << >> = a /\ << >> \o a = a
           /\ Range(a \o b) = Range(a) \cup Range(b)
BY ConcatProperties, ConcatAssociative, ConcatEmptySeq, RangeConcatenation

\* A run that goes is a step of LossyFifo, or nothing.
LEMMA LosesRun ==
    ASSUME NEW a \in Seq(Events), NEW b \in Seq(Events), NEW c \in Seq(Events),
           Backlog = a \o b \o c, Backlog' = a \o c, exchange' = exchange
    PROVE  [Fifo!Next]_Fifo!vars
<1>1. Len(a) \in Nat /\ Len(b) \in Nat /\ Len(c) \in Nat /\ Len(Backlog) = Len(a) + Len(b) + Len(c)
  BY Runs, LenProperties
<1>2. CASE b = << >>
  <2>1. a \o b = a
    BY <1>2, ConcatEmptySeq
  <2> QED BY <2>1 DEF Fifo!vars
<1>3. CASE b # << >>
  <2>1. Len(a) \in 0..Len(Backlog) /\ Len(b) \in 1..(Len(Backlog) - Len(a))
    BY <1>1, <1>3, EmptySeq
  <2>2. SubSeq(Backlog, 1, Len(a)) = a /\ SubSeq(Backlog, Len(a) + Len(b) + 1, Len(Backlog)) = c
    BY Runs
  <2>3. Fifo!Lose(Len(a), Len(b))
    BY <2>2 DEF Fifo!Lose
  <2> QED BY <2>1, <2>3 DEF Fifo!Next
<1> QED BY <1>2, <1>3

\* The front that arrives is a step of LossyFifo, or nothing.
LEMMA ArrivesRun ==
    ASSUME NEW a \in Seq(Events), NEW b \in Seq(Events), exchange \in Seq(Events),
           Backlog = a \o b, Backlog' = b, exchange' = exchange \o a
    PROVE  [Fifo!Next]_Fifo!vars
<1>1. << >> \in Seq(Events) /\ a \o b = << >> \o a \o b
  BY EmptySeq, ConcatEmptySeq
<1>2. a \o << >> \o b = a \o b /\ exchange \o << >> = exchange
  BY ConcatEmptySeq
<1>3. /\ Len(a) \in Nat /\ Len(b) \in Nat /\ Len(Backlog) = Len(a) + Len(b)
      /\ SubSeq(Backlog, 1, Len(a)) = a /\ SubSeq(Backlog, Len(a) + 1, Len(Backlog)) = b
  <2>1. Len(<< >>) = 0 /\ << >> \o b = b
    BY EmptySeq, ConcatEmptySeq
  <2> QED BY <1>1, <1>2, <2>1, Runs, LenProperties
<1>4. CASE a = << >>
  <2>1. << >> \o b = b
    BY ConcatEmptySeq
  <2> QED BY <1>2, <1>4, <2>1 DEF Fifo!vars
<1>5. CASE a # << >>
  <2>1. Len(a) \in 1..Len(Backlog)
    BY <1>3, <1>5, EmptySeq
  <2>2. Fifo!Arrive(Len(a))
    BY <1>3 DEF Fifo!Arrive
  <2> QED BY <2>1, <2>2 DEF Fifo!Next
<1> QED BY <1>4, <1>5

\* Every step of the publisher is one of LossyFifo or changes neither the backlog
\* nor what has arrived.
LEMMA NextRefines ==
    ASSUME Types, Accounts, [Next]_vars
    PROVE  [Fifo!Next]_Fifo!vars
<1> USE DEF thread, broker
<1>1. /\ wire \in Seq(Events) /\ InHand \in Seq(Events) /\ m_queue \in Seq(Events)
      /\ << >> \in Seq(Events) /\ exchange \in Seq(Events)
  BY DEF Types, TypeOK, InHand
<1>2. /\ wire \o InHand \in Seq(Events) /\ InHand \o m_queue \in Seq(Events)
      /\ Backlog = wire \o InHand \o m_queue /\ Backlog = wire \o (InHand \o m_queue)
      /\ Backlog = << >> \o wire \o (InHand \o m_queue)
      /\ << >> \o (InHand \o m_queue) = << >> \o InHand \o m_queue
      /\ << >> \o (InHand \o m_queue) = InHand \o m_queue
      /\ wire \o << >> = wire
  <2>1. /\ wire \o InHand \in Seq(Events) /\ InHand \o m_queue \in Seq(Events)
        /\ wire \o << >> = wire /\ << >> \o wire = wire /\ << >> \o InHand = InHand
    BY <1>1, ConcatProperties, ConcatEmptySeq
  <2>2. << >> \o (InHand \o m_queue) = InHand \o m_queue
    BY <2>1, ConcatEmptySeq
  <2>3. Backlog = wire \o (InHand \o m_queue)
    BY <1>1, Concat DEF Backlog
  <2> QED BY <2>1, <2>2, <2>3 DEF Backlog
<1>3. CASE UNCHANGED <<wire, task, m_queue, exchange>>
  BY <1>3 DEF Backlog, InHand, Fifo!vars
<1>4. ASSUME wire' = << >>, UNCHANGED <<task, m_queue, exchange>>
      PROVE  [Fifo!Next]_Fifo!vars
  <2>1. Backlog' = << >> \o (InHand \o m_queue)
    BY <1>2, <1>4 DEF Backlog, InHand
  <2> QED BY <1>1, <1>2, <1>4, <2>1, LosesRun
<1>5. ASSUME task' = NoEvent, UNCHANGED <<wire, m_queue, exchange>>
      PROVE  [Fifo!Next]_Fifo!vars
  <2>1. Backlog' = wire \o m_queue
    BY <1>2, <1>5 DEF Backlog, InHand
  <2> QED BY <1>1, <1>2, <1>5, <2>1, LosesRun
<1>6. ASSUME NEW e \in Events, Publish(e) PROVE [Fifo!Next]_Fifo!vars
  <2>1. m_queue' = m_queue \o <<e>> /\ UNCHANGED <<wire, task, exchange>>
    BY <1>1, <1>6, AppendIsConcat DEF Publish
  <2>2. Backlog' = Append(Backlog, e)
    <3>1. <<e>> \in Seq(Events)
      OBVIOUS
    <3>2. Backlog' = wire \o InHand \o (m_queue \o <<e>>)
      BY <2>1 DEF Backlog, InHand
    <3>3. Backlog' = (wire \o InHand \o m_queue) \o <<e>>
      BY <1>1, <1>2, <3>1, <3>2, Concat
    <3> QED BY <1>1, <1>2, <3>3, ConcatProperties, AppendIsConcat
  <2>3. e \notin Range(Backlog) \cup Range(exchange)
    <3>1. wire \in Seq(Events) /\ InHand \o m_queue \in Seq(Events)
      BY <1>1, <1>2
    <3>2. \A a, b \in Seq(Events) : Range(a \o b) = Range(a) \cup Range(b)
      BY RangeConcatenation
    <3>3. Range(Backlog) = Range(wire) \cup Range(InHand \o m_queue)
      BY <1>2, <3>1, <3>2
    <3> QED BY <1>6, <3>3, InMemoryMeans DEF Publish, Fresh, Accounts, Types
  <2> QED BY <2>1, <2>2, <2>3 DEF Fifo!Next, Fifo!Put, Fifo!Range, Range
<1>7. ASSUME TakeTask("top") \/ TakeTask("waiting"), UNCHANGED <<wire, exchange>>
      PROVE  [Fifo!Next]_Fifo!vars
  <2>1. /\ m_queue # << >> /\ task' = Head(m_queue) /\ m_queue' = Tail(m_queue)
        /\ task' \in Events /\ (pc = "top" \/ pc = "waiting")
    BY <1>7, TakeTaskType DEF Types
  <2>2. InHand = << >> /\ InHand' = <<Head(m_queue)>>
    BY <2>1, PublisherAssumption DEF Types, TaskInHand, InHand, SetUpCalls
  <2>3. m_queue = <<Head(m_queue)>> \o Tail(m_queue)
    BY <1>1, <2>1, HeadTailProperties
  <2>4. Backlog' = wire \o <<Head(m_queue)>> \o Tail(m_queue)
    BY <1>7, <2>1, <2>2 DEF Backlog
  <2>5. <<Head(m_queue)>> \in Seq(Events) /\ Tail(m_queue) \in Seq(Events)
    BY <1>1, <2>1
  <2>6. Backlog' = wire \o m_queue
    <3> DEFINE h == <<Head(m_queue)>>
               t == Tail(m_queue)
    <3>1. /\ wire \in Seq(Events) /\ h \in Seq(Events) /\ t \in Seq(Events)
          /\ m_queue = h \o t /\ Backlog' = (wire \o h) \o t
      BY <1>1, <2>3, <2>4, <2>5
    <3> HIDE DEF h, t
    <3>2. (wire \o h) \o t = wire \o (h \o t)
      BY <3>1, Concat
    <3> QED BY <3>1, <3>2
  <2> QED BY <1>2, <1>7, <2>2, <2>6 DEF Fifo!vars
<1>8. CASE SendOk
  <2>1. task \in Events /\ UNCHANGED <<m_queue, exchange>> /\ task' = NoEvent
    BY <1>8 DEF SendOk, Goto, Types, TypeOK, TaskInHand
  <2>2. CASE wire' = Append(wire, task)
    <3>1. InHand = <<task>> /\ InHand' = << >>
      BY <2>1, PublisherAssumption DEF InHand
    <3>2. wire' = wire \o InHand
      BY <1>1, <2>1, <2>2, <3>1, AppendIsConcat
    <3>3. wire' \o << >> = wire'
      BY <1>2, <3>2, ConcatEmptySeq
    <3> QED BY <2>1, <3>1, <3>2, <3>3 DEF Backlog, Fifo!vars
  <2> QED BY <1>8, <1>5, <2>1, <2>2 DEF SendOk
<1>9. CASE Receive
  <2>1. /\ wire # << >> /\ wire' = Tail(wire) /\ exchange' = Append(exchange, Head(wire))
        /\ UNCHANGED <<task, m_queue>>
    BY <1>9 DEF Receive
  <2>2. /\ wire = <<Head(wire)>> \o Tail(wire) /\ Tail(wire) \in Seq(Events)
        /\ Head(wire) \in Events /\ <<Head(wire)>> \in Seq(Events)
    BY <1>1, <2>1, HeadTailProperties
  <2>3. exchange' = exchange \o <<Head(wire)>>
    BY <1>1, <2>1, <2>2, AppendIsConcat
  <2>4. Backlog' = Tail(wire) \o (InHand \o m_queue)
    <3>1. Backlog' = Tail(wire) \o InHand \o m_queue
      BY <2>1 DEF Backlog, InHand
    <3> DEFINE t == Tail(wire)
    <3>2. InHand \in Seq(Events) /\ m_queue \in Seq(Events) /\ t \in Seq(Events)
      BY <1>1, <2>2
    <3> HIDE DEF t
    <3>3. (t \o InHand) \o m_queue = t \o (InHand \o m_queue)
      BY <3>2, Concat
    <3> QED BY <3>1, <3>3 DEF t
  <2>5. Backlog = <<Head(wire)>> \o (Tail(wire) \o (InHand \o m_queue))
    BY <1>2, <2>2, ConcatAssociative
  <2>6. Tail(wire) \o (InHand \o m_queue) \in Seq(Events)
    BY <1>2, <2>2, ConcatProperties
  <2> QED BY <1>1, <2>2, <2>3, <2>4, <2>5, <2>6, ArrivesRun
<1>10. CASE StopJoined
  <2>1. /\ exchange' = exchange \o wire /\ wire' = << >> /\ UNCHANGED <<task, m_queue>>
    BY <1>10 DEF StopJoined
  <2>2. Backlog' = InHand \o m_queue
    BY <1>2, <2>1 DEF Backlog, InHand
  <2> QED BY <1>1, <1>2, <2>1, <2>2, ArrivesRun
<1>11. CASE Crash
  <2>1. /\ m_queue' = << >> /\ task' = NoEvent /\ UNCHANGED <<wire, exchange>>
    BY <1>11 DEF Crash, ProcessEnds
  <2>2. InHand' = << >> /\ wire \o << >> \o << >> = wire \o << >>
    BY <1>2, <2>1 DEF InHand
  <2>3. Backlog' = wire \o << >> /\ Backlog = wire \o (InHand \o m_queue) \o << >>
    BY <1>1, <1>2, <2>1, <2>2, ConcatEmptySeq, ConcatProperties DEF Backlog
  <2> QED BY <1>1, <1>2, <2>1, <2>3, LosesRun
<1>12. CASE \/ \E e \in Events : PublishRefused(e)
            \/ Wait \/ LeaveLoop \/ AlreadyConnected
            \/ OpenChannel \/ DeclareBusinessExchange \/ DeclareChatTopology
            \/ Start \/ Stop \/ UNCHANGED vars
  BY <1>3, <1>12 DEF PublishRefused, Wait, LeaveLoop, AlreadyConnected, OpenChannel,
     DeclareBusinessExchange, DeclareChatTopology, Answered, Start, Stop, vars
<1>13. CASE Connect \/ LinkDrop
  BY <1>4, <1>13 DEF Connect, LinkDrop
<1>14. CASE ConnectFails \/ SetUpFails \/ SendFails
  BY <1>5, <1>14 DEF ConnectFails, SetUpFails, GiveUp, SendFails
<1>15. CASE Take \/ Wake
  BY <1>3, <1>7, <1>15 DEF Take, Wake
<1> QED
  BY <1>6, <1>8, <1>9, <1>10, <1>11, <1>12, <1>13, <1>14, <1>15 DEF Next

\* ImplementsLossyFifo of the publisher: whatever is lost on the way, events reach
\* the broker in the order of Publish and at most once.
THEOREM IsLossyFifo == Spec => ImplementsLossyFifo
<1>1. Init => Fifo!Init
  BY EmptySeq, ConcatEmptySeq DEF Init, Fifo!Init, Backlog, InHand
<1>2. Types /\ Accounts /\ [Next]_vars => [Fifo!Next]_Fifo!vars
  BY NextRefines
<1> QED BY <1>1, <1>2, AlwaysAccounts, PTL DEF Spec, ImplementsLossyFifo, Fifo!Spec
=============================================================================
