--------------------------- MODULE MqConsumerProofs ---------------------------
(***************************************************************************)
(* Safety invariants of MqConsumer for any messages, msgIds, handler,      *)
(* prefetch count, and number of lost connections and of starts.           *)
(***************************************************************************)
EXTENDS MqConsumer, SequenceTheorems, FiniteSetTheorems, TLAPS

-----------------------------------------------------------------------------
(* Sequences.                                                              *)

\* Settling the oldest delivery takes the front away.
LEMMA RemoveOldest ==
    ASSUME NEW m \in Messages, NEW s \in Seq(Messages)
    PROVE  RemoveFirst(<<m>> \o s, m) = s
<1> DEFINE t == <<m>> \o s
           I == {i \in 1..Len(t) : t[i] = m}
<1>1. t \in Seq(Messages) /\ Len(t) = Len(s) + 1 /\ t[1] = m /\ Len(s) \in Nat
  OBVIOUS
<1>2. 1 \in I /\ \A i \in I : i \in Nat /\ 1 =< i
  BY <1>1
<1>3. Min(I) = 1
  <2> HIDE DEF I
  <2>1. \A x \in I : (\A y \in I : x =< y) => x = 1
    BY <1>2
  <2> QED BY <1>2, <2>1 DEF Min
<1>4. /\ \E i \in 1..Len(t) : t[i] = m
      /\ SelectInSeq(t, LAMBDA v : v = m) = 1
  BY <1>1, <1>2, <1>3 DEF SelectInSeq
<1>5. RemoveFirst(t, m) = RemoveAt(t, 1)
  BY <1>2, <1>3, <1>4 DEF RemoveFirst, SelectInSeq
<1>6. SubSeq(t, 1, 0) = << >> /\ SubSeq(t, 2, Len(t)) = s
  BY <1>1
<1> QED BY <1>1, <1>5, <1>6 DEF RemoveAt

\* A delivery appended behind the oldest one and the rest.
LEMMA AppendBehind ==
    ASSUME NEW m \in Messages, NEW s \in Seq(Messages), NEW x \in Messages
    PROVE  Append(<<m>> \o s, x) = <<m>> \o Append(s, x)
<1>1. <<m>> \in Seq(Messages) /\ <<x>> \in Seq(Messages) /\ <<m>> \o s \in Seq(Messages)
  OBVIOUS
<1>2. Append(s, x) = s \o <<x>> /\ Append(<<m>> \o s, x) = (<<m>> \o s) \o <<x>>
  BY <1>1, AppendIsConcat
<1>3. (<<m>> \o s) \o <<x>> = <<m>> \o (s \o <<x>>)
  BY <1>1, ConcatAssociative
<1> QED BY <1>2, <1>3

-----------------------------------------------------------------------------
(* Types and delivery tags.                                                *)

\* The places in Run where a delivery is in hand.
Holding == {"parse", "waiting", "settle"}

\* A closed client has neither deliveries nor unsettled messages, and there is no
\* client without a thread.
ClosedIsEmpty ==
    /\ link = "none" => unacked = << >> /\ buffered = << >>
    /\ pc \in {"down", "stopped"} => link = "none"

\* Types need the tags, since settling keeps the types only for the delivery
\* that is in hand.
TypesAndTags ==
    /\ TypeOK
    /\ pc \in Holding => delivery \in Messages
    /\ ClosedIsEmpty
    /\ TagIsOfThisChannel

\* Nothing is delivered at the start.
LEMMA InitTypesAndTags == Init => TypesAndTags
<1> SUFFICES ASSUME Init PROVE TypesAndTags
  OBVIOUS
<1>1. << >> \in Seq(Messages)
  BY EmptySeq
<1>2. /\ drops \in 0..MaxDrops /\ starts \in 0..MaxStarts /\ tasks \in [Messages -> Nat]
      /\ handled \in [MsgIds -> Nat] /\ verdicts \in [MsgIds -> SUBSET ConsumeResults]
  BY ConsumerAssumption DEF Init
<1>3. /\ m_running \in BOOLEAN /\ pc \in PCs /\ link \in {"none", "up", "lost"}
      /\ delivery \in Messages \cup {NoMessage} /\ promise \in ConsumeResults \cup {"none"}
      /\ acked \subseteq Messages /\ dead \subseteq Messages /\ lost \subseteq MsgIds
  BY DEF Init, PCs
<1>4. TypeOK
  BY <1>1, <1>2, <1>3 DEF Init, TypeOK
<1> QED BY <1>4 DEF Init, TypesAndTags, Holding, ClosedIsEmpty, TagIsOfThisChannel

\* Settling the delivery in hand on a channel that is up leaves what is buffered.
LEMMA SettledTags ==
    ASSUME TypesAndTags, pc \in Holding, NEW r \in ConsumeResults, Sent(delivery, r)
    PROVE  /\ UNCHANGED <<link, setup, buffered, drops>>
           /\ queue' \in Seq(Messages) /\ unacked' \in Seq(Messages)
           /\ acked' \subseteq Messages /\ dead' \subseteq Messages
           /\ link = "up" => unacked' = buffered
           /\ link # "up" => unacked' = unacked
<1> USE DEF TypesAndTags
<1>1. delivery \in Messages /\ queue \in Seq(Messages) /\ unacked \in Seq(Messages)
      /\ buffered \in Seq(Messages) /\ acked \subseteq Messages /\ dead \subseteq Messages
  BY DEF TypeOK
<1>2. CASE link = "up"
  <2>1. SettleAtBroker(delivery, r) /\ UNCHANGED <<drops, link, setup, buffered>>
    BY <1>2 DEF Sent, client
  <2>2. unacked = <<delivery>> \o buffered
    BY <1>2 DEF TagIsOfThisChannel, Holding
  <2>3. unacked' = buffered
    BY <2>1, <2>2, <1>1, RemoveOldest DEF SettleAtBroker
  <2>4. <<delivery>> \o queue \in Seq(Messages)
    BY <1>1
  <2>5. queue' \in Seq(Messages) /\ acked' \subseteq Messages /\ dead' \subseteq Messages
    BY <2>1, <2>4, <1>1 DEF SettleAtBroker
  <2> QED BY <1>1, <1>2, <2>1, <2>3, <2>5
<1>3. CASE link # "up"
  BY <1>1, <1>3 DEF Sent, client
<1> QED BY <1>2, <1>3

\* Every step keeps types and tags: the broker delivers to the end of both lists,
\* Consume takes the front into the hand, and whatever breaks the connection
\* empties them.
LEMMA NextTypesAndTags == TypesAndTags /\ [Next]_vars => TypesAndTags'
<1> SUFFICES ASSUME TypesAndTags, [Next]_vars PROVE TypesAndTags'
  OBVIOUS
<1> USE ConsumerAssumption
    DEF TypesAndTags, TypeOK, PCs, Holding, ClosedIsEmpty, Goto, broker, client, history
<1>a. << >> \in Seq(Messages) /\ unacked \o queue \in Seq(Messages)
  BY EmptySeq, ConcatProperties
<1>1. ASSUME NEW m \in Messages, BusinessPublish(m) PROVE TypesAndTags'
  <2>1. queue' \in Seq(Messages)
    BY <1>1, AppendProperties DEF BusinessPublish
  <2> QED BY <1>1, <2>1 DEF BusinessPublish, TagIsOfThisChannel
<1>2. ASSUME NEW m \in Messages, HandlerRun(m) PROVE TypesAndTags'
  <2>1. MsgIdOf[m] \in MsgIds /\ tasks' \in [Messages -> Nat] /\ handled' \in [MsgIds -> Nat]
    BY <1>2 DEF HandlerRun
  <2>2. PICK r \in Outcome[MsgIdOf[m]] :
            /\ verdicts' = [verdicts EXCEPT ![MsgIdOf[m]] = @ \cup {r}]
            /\ promise' = r \/ promise' = promise
            /\ promise = "none" \/ promise' = promise
    BY <1>2 DEF HandlerRun
  <2>3. r \in ConsumeResults
    BY <2>1, <2>2
  <2>4. verdicts' \in [MsgIds -> SUBSET ConsumeResults] /\ promise' \in ConsumeResults \cup {"none"}
    BY <2>1, <2>2, <2>3
  <2>5. UNCHANGED <<broker, client, m_running, pc, delivery, starts, lost>>
    BY <1>2 DEF HandlerRun
  <2>6. pc = "settle" => promise' = promise
    BY <2>2
  <2> QED BY <2>1, <2>4, <2>5, <2>6 DEF TagIsOfThisChannel
<1>3. CASE Deliver
  <2>1. /\ queue # << >> /\ link = "up" /\ queue' = Tail(queue)
        /\ unacked' = Append(unacked, Head(queue)) /\ buffered' = Append(buffered, Head(queue))
        /\ UNCHANGED <<acked, dead, drops, link, setup, m_running, pc, delivery, promise, tasks, history>>
    BY <1>3 DEF Deliver
  <2>2. Head(queue) \in Messages /\ Tail(queue) \in Seq(Messages)
    BY <2>1, HeadTailProperties
  <2>3. unacked' \in Seq(Messages) /\ buffered' \in Seq(Messages)
    BY <2>1, <2>2, AppendProperties
  <2>4. ASSUME delivery \in Messages
        PROVE  Append(<<delivery>> \o buffered, Head(queue)) = <<delivery>> \o Append(buffered, Head(queue))
    BY <2>2, <2>4, AppendBehind
  <2>5. TagIsOfThisChannel'
    BY <2>1, <2>4 DEF TagIsOfThisChannel
  <2>6. TypeOK'
    BY <2>1, <2>2, <2>3
  <2> QED BY <2>1, <2>5, <2>6
<1>4. CASE LinkDrop
  BY <1>4, <1>a DEF LinkDrop, Requeue, TagIsOfThisChannel
<1>5. CASE AlreadyConnected \/ LeaveLoop
  BY <1>5 DEF AlreadyConnected, LeaveLoop, TagIsOfThisChannel
<1>5a. CASE Connect
  <2>1. /\ pc' = "OpenChannel" /\ link' = "up" /\ setup' = {}
        /\ UNCHANGED <<broker, buffered, m_running, delivery, promise, tasks, history>>
        /\ unacked = << >> /\ buffered = << >>
    BY <1>5a DEF Connect
  <2>2. TagIsOfThisChannel'
    BY <2>1 DEF TagIsOfThisChannel
  <2> QED BY <2>1, <2>2 DEF SetUpCalls
<1>5b. ASSUME NEW call \in SetUpCalls, NEW to \in SetUpCalls \cup {"consume"}, Answered(call, to)
       PROVE  TypesAndTags'
  BY <1>5b DEF Answered, SetUpCalls, TagIsOfThisChannel
<1>5c. CASE OpenChannel \/ DeclareForConsumer \/ StartConsume
  BY <1>5b, <1>5c DEF OpenChannel, DeclareForConsumer, StartConsume, SetUpCalls
<1>5d. CASE SetUpFails
  <2>1. pc \in SetUpCalls /\ drops' \in 0..MaxDrops
    BY <1>5d DEF SetUpFails, CallFails
  <2> QED BY <1>5d, <1>a, <2>1 DEF SetUpFails, Close, Requeue, SetUpCalls, TagIsOfThisChannel
<1>6. CASE ConsumeGot
  <2>1. /\ buffered # << >> /\ pc = "consume" /\ pc' = IF m_running THEN "parse" ELSE "exited"
        /\ delivery' = IF m_running THEN Head(buffered) ELSE delivery
        /\ buffered' = Tail(buffered)
        /\ UNCHANGED <<broker, link, setup, m_running, promise, tasks, history>>
    BY <1>6 DEF ConsumeGot
  <2>2. /\ Head(buffered) \in Messages /\ Tail(buffered) \in Seq(Messages)
        /\ buffered = <<Head(buffered)>> \o Tail(buffered)
    BY <2>1, HeadTailProperties
  <2>3. TagIsOfThisChannel'
    BY <2>1, <2>2 DEF TagIsOfThisChannel
  <2> QED BY <2>1, <2>2, <2>3
<1>7. CASE ConsumeTimeout
  BY <1>7 DEF ConsumeTimeout, TagIsOfThisChannel
<1>8. CASE ConsumeError
  BY <1>8, <1>a DEF ConsumeError, Close, Requeue, TagIsOfThisChannel
<1>9. CASE DropBadEnvelope \/ DropDuplicate
  <2>1. /\ pc = "parse" /\ pc' = "top"
        /\ Sent(delivery, "ACK") \/ NotSent
        /\ delivery' = NoMessage /\ UNCHANGED <<m_running, promise, tasks, history>>
    BY <1>9 DEF DropBadEnvelope, DropDuplicate
  <2>2. CASE Sent(delivery, "ACK")
    <3>1. /\ UNCHANGED <<link, setup, buffered, drops>>
          /\ queue' \in Seq(Messages) /\ unacked' \in Seq(Messages)
          /\ acked' \subseteq Messages /\ dead' \subseteq Messages
          /\ link = "up" => unacked' = buffered
          /\ link # "up" => unacked' = unacked
      BY <2>1, <2>2, SettledTags DEF ConsumeResults
    <3> QED BY <2>1, <3>1 DEF TagIsOfThisChannel
  <2>3. CASE NotSent
    BY <2>1, <2>3 DEF NotSent, TagIsOfThisChannel
  <2> QED BY <2>1, <2>2, <2>3
<1>10. CASE Dispatch
  <2>1. /\ pc = "parse" /\ pc' = "waiting" /\ promise' = "none"
        /\ tasks' = [tasks EXCEPT ![delivery] = @ + 1]
        /\ UNCHANGED <<broker, client, m_running, delivery, history>>
    BY <1>10 DEF Dispatch
  <2>2. TagIsOfThisChannel'
    BY <2>1 DEF TagIsOfThisChannel
  <2> QED BY <2>1, <2>2 DEF TagIsOfThisChannel
<1>11. CASE WaitReady \/ WaitTimeout
  BY <1>11 DEF WaitReady, WaitTimeout, TagIsOfThisChannel, ConsumeResults
<1>12. CASE Settle
  <2>1. /\ pc = "settle" /\ pc' = "top" /\ delivery' = NoMessage /\ promise' = "none"
        /\ UNCHANGED <<m_running, tasks, history>>
        /\ promise \in ConsumeResults
    BY <1>12 DEF Settle
  <2>2. CASE Sent(delivery, promise)
    <3>1. /\ UNCHANGED <<link, setup, buffered, drops>>
          /\ queue' \in Seq(Messages) /\ unacked' \in Seq(Messages)
          /\ acked' \subseteq Messages /\ dead' \subseteq Messages
          /\ link = "up" => unacked' = buffered
          /\ link # "up" => unacked' = unacked
      BY <2>1, <2>2, SettledTags
    <3> QED BY <2>1, <3>1 DEF TagIsOfThisChannel
  <2>3. CASE link = "lost" /\ Close /\ UNCHANGED <<acked, dead, drops>>
    BY <2>1, <2>3, <1>a DEF Close, Requeue, TagIsOfThisChannel
  <2> QED BY <1>12, <2>2, <2>3 DEF Settle
<1>13. CASE Start \/ Stop
  <2>1. starts' \in 0..MaxStarts
    BY <1>13 DEF Start, Stop
  <2> QED BY <1>13, <2>1 DEF Start, Stop, TagIsOfThisChannel
<1>14. CASE StopJoined
  BY <1>14, <1>a DEF StopJoined, Close, Requeue, TagIsOfThisChannel
<1>15. ASSUME ProcessEnds PROVE TypesAndTags'
  <2>1. /\ pc' = "down" /\ link' = "none" /\ buffered' = << >> /\ unacked' = << >>
        /\ queue' = unacked \o queue /\ m_running' = FALSE /\ delivery' = NoMessage
        /\ promise' = "none" /\ UNCHANGED <<acked, dead, drops, setup, starts, verdicts>>
    BY <1>15 DEF ProcessEnds, Close, Requeue
  <2>2. tasks' \in [Messages -> Nat] /\ handled' \in [MsgIds -> Nat] /\ lost' \subseteq MsgIds
    BY <1>15 DEF ProcessEnds
  <2> QED BY <2>1, <2>2, <1>a DEF TagIsOfThisChannel
<1>16. CASE UNCHANGED vars
  BY <1>16 DEF vars, TagIsOfThisChannel
<1> QED
  BY <1>1, <1>2, <1>3, <1>4, <1>5, <1>6, <1>7, <1>8, <1>9, <1>10, <1>11, <1>12, <1>13, <1>14,
     <1>15, <1>16, <1>5a, <1>5c, <1>5d
  DEF Next, Crash, Exit, ParseThrows

\* TagIsOfThisChannel of Run, Consume and Close: while the connection is up the
\* delivery in hand is the oldest unsettled one of its channel.
THEOREM TagsInOrder == Spec => []TagIsOfThisChannel
<1>1. TypesAndTags => TagIsOfThisChannel
  BY DEF TypesAndTags
<1> QED BY <1>1, InitTypesAndTags, NextTypesAndTags, PTL DEF Spec

\* TypeOK of the whole: delivered, buffered and settled messages are messages.
THEOREM TypeCorrect == Spec => []TypeOK
<1>1. TypesAndTags => TypeOK
  BY DEF TypesAndTags
<1> QED BY <1>1, InitTypesAndTags, NextTypesAndTags, PTL DEF Spec

-----------------------------------------------------------------------------
(* Setting up.                                                             *)

\* How far the connection has been set up can be told from where the thread is;
\* anywhere but in EnsureConnected a connection is either whole or closed.
SetUpSoFar ==
    /\ pc \in SetUpCalls => link # "none"
    /\ pc = "OpenChannel" => setup = {}
    /\ pc = "DeclareForConsumer" => setup = {"OpenChannel"}
    /\ pc = "StartConsume" => setup = {"OpenChannel", "DeclareForConsumer"}
    /\ pc \notin SetUpCalls /\ link # "none" => setup = SetUpCalls
    /\ pc = "consume" => link # "none"

\* Every step keeps this: each call is made after the answer to the one before,
\* and every failure closes the client.
LEMMA NextSetUp == SetUpSoFar /\ [Next]_vars => SetUpSoFar'
<1> SUFFICES ASSUME SetUpSoFar, [Next]_vars PROVE SetUpSoFar'
  OBVIOUS
<1> USE DEF SetUpSoFar, SetUpCalls, Goto, broker, client
<1>1. CASE AlreadyConnected \/ Connect \/ LeaveLoop
  BY <1>1 DEF AlreadyConnected, Connect, LeaveLoop
<1>2. CASE OpenChannel \/ DeclareForConsumer \/ StartConsume
  BY <1>2 DEF OpenChannel, DeclareForConsumer, StartConsume, Answered
<1>3. CASE SetUpFails
  BY <1>3 DEF SetUpFails, Close
<1>4. CASE ConsumeGot \/ ConsumeTimeout \/ ConsumeError
  BY <1>4 DEF ConsumeGot, ConsumeTimeout, ConsumeError, Close
<1>5. CASE DropBadEnvelope \/ DropDuplicate
  BY <1>5 DEF DropBadEnvelope, DropDuplicate, Sent, NotSent
<1>6. CASE Dispatch \/ WaitReady \/ WaitTimeout
  BY <1>6 DEF Dispatch, WaitReady, WaitTimeout
<1>7. CASE Settle
  BY <1>7 DEF Settle, Sent, Close
<1>8. CASE (\E m \in Messages : BusinessPublish(m) \/ HandlerRun(m)) \/ Deliver \/ UNCHANGED vars
  BY <1>8 DEF BusinessPublish, HandlerRun, Deliver, vars
<1>9. CASE LinkDrop
  BY <1>9 DEF LinkDrop
<1>10. CASE Start \/ Stop \/ StopJoined
  BY <1>10 DEF Start, Stop, StopJoined, Close
<1>11. CASE Crash \/ Exit \/ ParseThrows
  BY <1>11 DEF Crash, Exit, ParseThrows, ProcessEnds, Close
<1> QED
  BY <1>1, <1>2, <1>3, <1>4, <1>5, <1>6, <1>7, <1>8, <1>9, <1>10, <1>11 DEF Next

\* SetUpBeforeConsume of EnsureConnected: the consumer never waits on a channel
\* that is not consumed on.
THEOREM SetUpFirst == Spec => []SetUpBeforeConsume
<1>1. Init => SetUpSoFar
  BY DEF Init, SetUpSoFar, SetUpCalls
<1>2. SetUpSoFar => SetUpBeforeConsume
  BY DEF SetUpSoFar, SetUpBeforeConsume, SetUpCalls
<1> QED BY <1>1, <1>2, NextSetUp, PTL DEF Spec

-----------------------------------------------------------------------------
(* What the cache can know.                                                *)

\* Whatever is swept or trimmed, the cache knows no key but those it knew and the
\* one it is asked to mark, and it refuses only a key it knew, or the empty one.
LEMMA TryMarkKnows ==
    ASSUME NEW cache, NEW k, k # EmptyKey, NEW now
    PROVE  /\ DOMAIN TryMark(cache, k, now).cache.index \subseteq DOMAIN cache.index \cup {k}
           /\ ~TryMark(cache, k, now).ok => /\ k \in DOMAIN cache.index
                                            /\ DOMAIN TryMark(cache, k, now).cache.index \subseteq DOMAIN cache.index
<1>1. ASSUME NEW c, NEW n PROVE DOMAIN Keep(c, n).index \subseteq DOMAIN c.index
  BY DEF Keep, Restrict
<1> DEFINE swept == Sweep(cache, now)
<1>2. DOMAIN swept.index \subseteq DOMAIN cache.index
  BY <1>1 DEF Sweep
<1>3. ASSUME NEW c PROVE DOMAIN Trim(c).index \subseteq DOMAIN c.index
  BY <1>1 DEF Trim
<1>4. DOMAIN Mark(swept, k, now).index \subseteq DOMAIN swept.index \cup {k}
  BY <1>3 DEF Mark
<1>5. Remembers(swept, k, now) => k \in DOMAIN swept.index
  BY DEF Remembers
<1>6. TryMark(cache, k, now) = IF Remembers(swept, k, now)
                                 THEN [ok |-> FALSE, cache |-> swept]
                                 ELSE [ok |-> TRUE, cache |-> Mark(swept, k, now)]
  BY DEF TryMark
<1> HIDE DEF swept
<1> QED BY <1>2, <1>4, <1>5, <1>6

-----------------------------------------------------------------------------
(* What becomes of an envelope.                                            *)

\* The envelope has reached its handler, or will, or died with the process.
Reached(i) ==
    \/ verdicts[i] # {} \/ i \in lost
    \/ \E x \in Messages : MsgIdOf[x] = i /\ tasks[x] > 0

\* What the cache knows, what Run waits for or settles, and what was acknowledged
\* has reached its handler; NACK_DROP is never anybody's word but the handler's.
Accounts ==
    /\ \A i \in DOMAIN m_idempotency.index : Reached(i)
    /\ pc \in {"waiting", "settle"} => Body[delivery] = "envelope" /\ Reached(MsgIdOf[delivery])
    /\ promise = "NACK_DROP" =>
          pc \in {"waiting", "settle"} /\ "NACK_DROP" \in verdicts[MsgIdOf[delivery]]
    /\ AckedWasDispatched /\ DeadByHandlerOnly

\* Nothing is known at the start.
LEMMA InitAccounts == Init => Accounts
BY DEF Init, Accounts, EmptyCache, AckedWasDispatched, DeadByHandlerOnly

\* No step takes back that an envelope has reached its handler: a task runs, or
\* dies with the process.
LEMMA ReachedStays ==
    ASSUME TypesAndTags, [Next]_vars, NEW i, Reached(i) PROVE Reached(i)'
<1> USE ConsumerAssumption DEF Reached
<1>a. tasks \in [Messages -> Nat] /\ verdicts \in [MsgIds -> SUBSET ConsumeResults]
  BY DEF TypesAndTags, TypeOK
<1>1. ASSUME NEW m \in Messages, HandlerRun(m) PROVE Reached(i)'
  <2>1. PICK r : verdicts' = [verdicts EXCEPT ![MsgIdOf[m]] = @ \cup {r}]
    BY <1>1 DEF HandlerRun
  <2>2. tasks' = [tasks EXCEPT ![m] = @ - 1] /\ lost' = lost
    BY <1>1 DEF HandlerRun
  <2>3. verdicts'[MsgIdOf[m]] # {}
    BY <2>1, <1>a
  <2>4. verdicts[i] # {} => verdicts'[i] # {}
    BY <2>1, <1>a
  <2>5. \A x \in Messages : x # m => tasks'[x] = tasks[x]
    BY <2>2, <1>a
  <2> QED BY <2>2, <2>3, <2>4, <2>5
<1>2. CASE Dispatch
  BY <1>2, <1>a DEF Dispatch, history
<1>3. CASE ProcessEnds
  BY <1>3, <1>a DEF ProcessEnds
<1>4. ASSUME UNCHANGED <<tasks, verdicts, lost>> PROVE Reached(i)'
  BY <1>4
<1> QED
  BY <1>1, <1>2, <1>3, <1>4
  DEF Next, vars, history, BusinessPublish, Deliver, LinkDrop, AlreadyConnected, Connect, LeaveLoop,
      OpenChannel, DeclareForConsumer, StartConsume, Answered, SetUpFails, ConsumeGot,
      ConsumeTimeout, ConsumeError, DropBadEnvelope, DropDuplicate, ParseThrows, WaitReady, WaitTimeout,
      Settle, Start, Stop, StopJoined, Crash, Exit

\* Nor does any step take back a verdict.
LEMMA VerdictsStay ==
    ASSUME TypesAndTags, [Next]_vars, NEW i PROVE verdicts[i] \subseteq verdicts'[i]
<1>a. verdicts \in [MsgIds -> SUBSET ConsumeResults]
  BY DEF TypesAndTags, TypeOK
<1>1. ASSUME NEW m \in Messages, HandlerRun(m) PROVE verdicts[i] \subseteq verdicts'[i]
  BY <1>1, <1>a DEF HandlerRun
<1>2. ASSUME UNCHANGED verdicts PROVE verdicts[i] \subseteq verdicts'[i]
  BY <1>2
<1> QED
  BY <1>1, <1>2
  DEF Next, vars, history, BusinessPublish, Deliver, LinkDrop, AlreadyConnected, Connect, LeaveLoop,
      OpenChannel, DeclareForConsumer, StartConsume, Answered, SetUpFails, ConsumeGot,
      ConsumeTimeout, ConsumeError, DropBadEnvelope, DropDuplicate, Dispatch, ParseThrows, WaitReady,
      WaitTimeout, Settle, Start, Stop, StopJoined, Crash, Exit, ProcessEnds

\* Every step keeps the accounts: Dispatch schedules what it marks, a duplicate is
\* one the cache knows, and the result Run settles with is the handler's or
\* NACK_REQUEUE.
LEMMA NextAccounts == TypesAndTags /\ Accounts /\ [Next]_vars => Accounts'
<1> SUFFICES ASSUME TypesAndTags, Accounts, [Next]_vars PROVE Accounts'
  OBVIOUS
<1> DEFINE Known == \A i \in DOMAIN m_idempotency.index : Reached(i)
           Held == pc \in {"waiting", "settle"} => Body[delivery] = "envelope" /\ Reached(MsgIdOf[delivery])
           Dropped == promise = "NACK_DROP" =>
                         pc \in {"waiting", "settle"} /\ "NACK_DROP" \in verdicts[MsgIdOf[delivery]]
           Settled == AckedWasDispatched /\ DeadByHandlerOnly
<1> USE DEF Goto, broker, client, history
<1>a. Known /\ Held /\ Dropped /\ Settled
  BY DEF Accounts
<1>b. \A i : Reached(i) => Reached(i)'
  BY ReachedStays
<1>c. \A i : verdicts[i] \subseteq verdicts'[i]
  BY VerdictsStay
<1>d. pc \in Holding => delivery \in Messages
  BY DEF TypesAndTags
<1>1. ASSUME UNCHANGED m_idempotency PROVE Known'
  BY <1>1, <1>a, <1>b
<1>2. ASSUME UNCHANGED delivery, pc' \in {"waiting", "settle"} => pc \in {"waiting", "settle"} PROVE Held'
  BY <1>2, <1>a, <1>b
<1>3. ASSUME UNCHANGED <<promise, delivery>>, pc \in {"waiting", "settle"} => pc' \in {"waiting", "settle"}
      PROVE  Dropped'
  BY <1>3, <1>a, <1>c
<1>e. /\ AckedWasDispatched <=> \A m \in acked : Body[m] = "envelope" => Reached(MsgIdOf[m])
      /\ AckedWasDispatched' <=> \A m \in acked' : Body[m] = "envelope" => Reached(MsgIdOf[m])'
  BY DEF AckedWasDispatched, Reached
<1>4. ASSUME \A m \in acked' \ acked : Body[m] = "envelope" => Reached(MsgIdOf[m]),
             \A m \in dead' \ dead : Body[m] = "envelope" /\ "NACK_DROP" \in verdicts[MsgIdOf[m]]
      PROVE  Settled'
  <2>1. AckedWasDispatched'
    BY <1>4, <1>a, <1>b, <1>e
  <2>2. DeadByHandlerOnly'
    BY <1>4, <1>a, <1>c DEF DeadByHandlerOnly
  <2> QED BY <2>1, <2>2
<1>f. ASSUME Known', Held', Dropped', Settled' PROVE Accounts'
  BY <1>f DEF Accounts
<1> HIDE DEF Known, Held, Dropped, Settled
<1>5. ASSUME UNCHANGED <<m_idempotency, delivery, promise, acked, dead>>,
             pc' \in {"waiting", "settle"} <=> pc \in {"waiting", "settle"}
      PROVE  Accounts'
  BY <1>5, <1>1, <1>2, <1>3, <1>4, <1>f
<1>6. CASE (\E m \in Messages : BusinessPublish(m)) \/ Deliver \/ LinkDrop
             \/ AlreadyConnected \/ Connect \/ LeaveLoop
             \/ OpenChannel \/ DeclareForConsumer \/ StartConsume \/ SetUpFails
             \/ ConsumeTimeout \/ ConsumeError \/ WaitReady \/ Start \/ Stop \/ StopJoined \/ UNCHANGED vars
  BY <1>6, <1>5
  DEF vars, BusinessPublish, Deliver, LinkDrop, AlreadyConnected, Connect, LeaveLoop, OpenChannel,
      DeclareForConsumer, StartConsume, Answered, SetUpFails, SetUpCalls, ConsumeTimeout, ConsumeError,
      WaitReady, Start, Stop, StopJoined
<1>7. ASSUME NEW m \in Messages, HandlerRun(m) PROVE Accounts'
  <2>1. UNCHANGED <<m_idempotency, delivery, pc, acked, dead>>
    BY <1>7 DEF HandlerRun
  <2>2. ASSUME promise' # promise PROVE Dropped'
    <3>1. PICK r \in Outcome[MsgIdOf[m]] :
              /\ verdicts' = [verdicts EXCEPT ![MsgIdOf[m]] = @ \cup {r}]
              /\ pc = "waiting" /\ delivery = m /\ promise' = r
      BY <1>7, <2>2 DEF HandlerRun
    <3>2. MsgIdOf[m] \in MsgIds /\ verdicts \in [MsgIds -> SUBSET ConsumeResults]
      BY ConsumerAssumption DEF TypesAndTags, TypeOK
    <3>3. r \in verdicts'[MsgIdOf[delivery']]
      BY <2>1, <3>1, <3>2
    <3> QED BY <2>1, <3>1, <3>3 DEF Dropped
  <2>3. Dropped'
    BY <2>1, <2>2, <1>3
  <2> QED BY <2>1, <2>3, <1>1, <1>2, <1>4, <1>f
<1>8. CASE ConsumeGot
  <2>1. pc = "consume" /\ pc' \notin {"waiting", "settle"} /\ UNCHANGED <<m_idempotency, promise, acked, dead>>
    BY <1>8 DEF ConsumeGot
  <2>2. Held' /\ Dropped'
    BY <2>1, <1>a DEF Held, Dropped
  <2> QED BY <2>1, <2>2, <1>1, <1>4, <1>f
<1>9. CASE DropBadEnvelope \/ DropDuplicate
  <2>1. pc = "parse" /\ pc' = "top" /\ UNCHANGED promise
    BY <1>9 DEF DropBadEnvelope, DropDuplicate
  <2>2. Held' /\ Dropped'
    BY <2>1, <1>a DEF Held, Dropped
  <2>3. acked' \subseteq acked \cup {delivery} /\ dead' \subseteq dead
    BY <1>9 DEF DropBadEnvelope, DropDuplicate, Sent, SettleAtBroker, NotSent
  <2>4. CASE DropBadEnvelope
    BY <2>2, <2>3, <2>4, <1>1, <1>4, <1>f DEF DropBadEnvelope
  <2>5. CASE DropDuplicate
    <3>1. /\ MsgIdOf[delivery] \in DOMAIN m_idempotency.index
          /\ DOMAIN m_idempotency'.index \subseteq DOMAIN m_idempotency.index
      <4>1. MsgIdOf[delivery] # EmptyKey
        BY <2>5, <1>d, ConsumerAssumption DEF DropDuplicate, Holding
      <4> QED BY <2>5, <4>1, TryMarkKnows DEF DropDuplicate, Marked
    <3>2. Known' /\ Reached(MsgIdOf[delivery])
      BY <3>1, <1>a, <1>b DEF Known
    <3> QED BY <2>2, <2>3, <3>2, <1>4, <1>f
  <2> QED BY <1>9, <2>4, <2>5
<1>10. CASE Dispatch
  <2>1. /\ pc = "parse" /\ pc' = "waiting" /\ Body[delivery] = "envelope" /\ promise' = "none"
        /\ m_idempotency' = Marked.cache /\ tasks' = [tasks EXCEPT ![delivery] = @ + 1]
        /\ UNCHANGED <<delivery, acked, dead>>
    BY <1>10 DEF Dispatch
  <2>2. Reached(MsgIdOf[delivery])'
    <3>1. delivery \in Messages /\ tasks \in [Messages -> Nat]
      BY <2>1, <1>d DEF Holding, TypesAndTags, TypeOK
    <3>2. tasks'[delivery] > 0
      BY <2>1, <3>1
    <3> QED BY <2>1, <3>1, <3>2 DEF Reached
  <2>3. DOMAIN m_idempotency'.index \subseteq DOMAIN m_idempotency.index \cup {MsgIdOf[delivery]}
    <3>1. DOMAIN Marked.cache.index \subseteq DOMAIN m_idempotency.index \cup {MsgIdOf[delivery]}
      <4>1. MsgIdOf[delivery] # EmptyKey
        BY <2>1, <1>d, ConsumerAssumption DEF Holding
      <4> QED BY <4>1, TryMarkKnows DEF Marked
    <3> QED BY <2>1, <3>1
  <2>4. Known'
    <3> SUFFICES ASSUME NEW i \in DOMAIN m_idempotency'.index PROVE Reached(i)'
      BY DEF Known
    <3>1. CASE i = MsgIdOf[delivery]
      BY <2>1, <2>2, <3>1 DEF Reached
    <3>2. CASE i # MsgIdOf[delivery]
      BY <2>3, <3>2, <1>a, <1>b DEF Known
    <3> QED BY <3>1, <3>2
  <2>5. Held' /\ Dropped'
    BY <2>1, <2>2 DEF Held, Dropped
  <2> QED BY <2>1, <2>4, <2>5, <1>4, <1>f
<1>11. CASE WaitTimeout
  <2>1. pc = "waiting" /\ pc' = "settle" /\ promise' = "NACK_REQUEUE" /\ UNCHANGED <<m_idempotency, delivery, acked, dead>>
    BY <1>11 DEF WaitTimeout
  <2>2. Dropped'
    BY <2>1 DEF Dropped
  <2> QED BY <2>1, <2>2, <1>1, <1>2, <1>4, <1>f
<1>12. CASE Settle
  <2>1. pc = "settle" /\ pc' = "top" /\ promise' = "none" /\ UNCHANGED m_idempotency
    BY <1>12 DEF Settle
  <2>2. Held' /\ Dropped'
    BY <2>1 DEF Held, Dropped
  <2>3. /\ acked' \subseteq acked \cup {delivery}
        /\ dead' \subseteq dead \cup (IF promise = "NACK_DROP" THEN {delivery} ELSE {})
    BY <1>12 DEF Settle, Sent, SettleAtBroker
  <2>4. Body[delivery] = "envelope" /\ Reached(MsgIdOf[delivery])
        /\ (promise = "NACK_DROP" => "NACK_DROP" \in verdicts[MsgIdOf[delivery]])
    BY <2>1, <1>a DEF Held, Dropped
  <2> QED BY <2>1, <2>2, <2>3, <2>4, <1>1, <1>4, <1>f
<1>13. ASSUME ProcessEnds PROVE Accounts'
  <2>1. pc' = "down" /\ promise' = "none" /\ m_idempotency' = EmptyCache /\ UNCHANGED <<acked, dead>>
    BY <1>13 DEF ProcessEnds
  <2>2. Known' /\ Held' /\ Dropped'
    BY <2>1 DEF Known, Held, Dropped, EmptyCache
  <2> QED BY <2>1, <2>2, <1>4, <1>f
<1> QED
  BY <1>6, <1>7, <1>8, <1>9, <1>10, <1>11, <1>12, <1>13 DEF Next, Crash, Exit, ParseThrows

\* The whole invariant holds in every behaviour.
LEMMA AlwaysAccounts == Spec => []Accounts
BY InitTypesAndTags, NextTypesAndTags, InitAccounts, NextAccounts, PTL DEF Spec

\* AckedWasDispatched of Run: only a crash between the acknowledgement of a
\* duplicate and the first copy's handler can lose a message.
THEOREM AckedReachedHandler == Spec => []AckedWasDispatched
<1>1. Accounts => AckedWasDispatched
  BY DEF Accounts
<1> QED BY <1>1, AlwaysAccounts, PTL

\* DeadByHandlerOnly of Run: no timeout, duplicate, bad body or lost connection
\* sends a message to chat.dlq.
THEOREM OnlyHandlerKills == Spec => []DeadByHandlerOnly
<1>1. Accounts => DeadByHandlerOnly
  BY DEF Accounts
<1> QED BY <1>1, AlwaysAccounts, PTL
-----------------------------------------------------------------------------
(* At most once.  Two things must hold of the cache: it has room for every *)
(* msgId, and none expires, which Run's use of it at one time says.        *)

\* There are no more msgIds than the cache has places.
Room == IsFiniteSet(MsgIds) /\ Cardinality(MsgIds) =< Capacity

\* The cache holds one unexpired node for each key it knows, all of them msgIds.
Holds(c) ==
    /\ DOMAIN c.index \subseteq MsgIds
    /\ c.index = [k \in DOMAIN c.index |-> Node(k, 0)]
    /\ c.lru \in Seq({Node(k, 0) : k \in MsgIds})
    /\ Len(c.lru) = Cardinality(DOMAIN c.index)

\* Nothing has expired, so Sweep forgets nothing.
LEMMA SweepKeepsAll ==
    ASSUME Room, NEW c, Holds(c)
    PROVE  Sweep(c, 0).lru = c.lru /\ Sweep(c, 0).index = c.index
<1> DEFINE L == Len(c.lru)
           Nodes == {Node(k, 0) : k \in MsgIds}
<1>1. c.lru \in Seq(Nodes) /\ L \in Nat /\ \A n \in 1..L : c.lru[n] \in Nodes
  BY ElementOfSeq, LenProperties DEF Holds
<1>2. L =< Capacity
  <2>1. Cardinality(DOMAIN c.index) =< Cardinality(MsgIds) /\ Cardinality(MsgIds) \in Nat
    BY FS_Subset, FS_CardinalityType DEF Room, Holds
  <2> QED BY <1>1, <2>1, LruAssumption DEF Room, Holds
<1>3. Alive(c, 0) = 1..L
  <2>1. \A x \in Nodes : x.expire_at > 0
    BY LruAssumption DEF Node
  <2> QED BY <1>1, <1>2, <2>1, LruAssumption DEF Alive
<1>4. Max({0} \cup (1..L)) = L
  <2>1. L \in {0} \cup (1..L) /\ \A y \in {0} \cup (1..L) : L >= y
    BY <1>1
  <2>2. \A x \in {0} \cup (1..L) : (\A y \in {0} \cup (1..L) : x >= y) => x = L
    BY <1>1, <2>1
  <2> QED BY <2>1, <2>2 DEF Max
<1>5. Sweep(c, 0) = Keep(c, L)
  BY <1>3, <1>4 DEF Sweep
<1>6. SubSeq(c.lru, 1, L) = c.lru
  BY <1>1, SubSeqFull
<1>7. {c.lru[i].key : i \in L+1..L} = {}
  BY <1>1
<1>8. Restrict(c.index, DOMAIN c.index) = c.index
  BY DEF Restrict, Holds
<1>9. Sweep(c, 0) = [lru |-> c.lru, index |-> c.index]
  <2>1. DOMAIN c.index \ {c.lru[i].key : i \in L+1..L} = DOMAIN c.index
    BY <1>7
  <2> QED BY <1>5, <1>6, <1>8, <2>1 DEF Keep
<1> QED BY <1>9

\* A msgId the cache knows is refused; one it does not know is accepted, and known
\* from then on with all the others.
LEMMA TryMarkHolds ==
    ASSUME Room, NEW c, Holds(c), NEW k \in MsgIds
    PROVE  LET t == TryMark(c, k, 0)
           IN  /\ t.ok <=> k \notin DOMAIN c.index
               /\ Holds(t.cache)
               /\ DOMAIN t.cache.index = DOMAIN c.index \cup {k}
<1> DEFINE swept == Sweep(c, 0)
           new == [lru |-> <<Node(k, 0)>> \o c.lru,
                   index |-> [x \in DOMAIN c.index \cup {k} |->
                                IF x = k THEN Node(k, 0) ELSE c.index[x]]]
           Nodes == {Node(x, 0) : x \in MsgIds}
<1>1. swept.lru = c.lru /\ swept.index = c.index
  BY SweepKeepsAll
<1>2. Holds(swept)
  BY <1>1 DEF Holds
<1>3. Remembers(swept, k, 0) <=> k \in DOMAIN c.index
  <2>1. Node(k, 0).expire_at > 0
    BY LruAssumption DEF Node
  <2> QED BY <1>1, <2>1 DEF Remembers, Holds
<1>4. TryMark(c, k, 0) = IF Remembers(swept, k, 0)
                           THEN [ok |-> FALSE, cache |-> swept]
                           ELSE [ok |-> TRUE, cache |-> Mark(swept, k, 0)]
  BY ConsumerAssumption DEF TryMark
<1>5. ASSUME k \notin DOMAIN c.index PROVE Mark(swept, k, 0) = new /\ Holds(new)
  <2>1. IsFiniteSet(DOMAIN c.index) /\ IsFiniteSet(DOMAIN c.index \cup {k})
    BY FS_Subset, FS_AddElement DEF Room, Holds
  <2>2. Cardinality(DOMAIN c.index \cup {k}) = Cardinality(DOMAIN c.index) + 1
    BY <1>5, <2>1, FS_AddElement
  <2>3. /\ c.lru \in Seq(Nodes) /\ <<Node(k, 0)>> \in Seq(Nodes) /\ Len(<<Node(k, 0)>>) = 1
        /\ Len(c.lru) = Cardinality(DOMAIN c.index)
    BY DEF Holds
  <2>4. new.lru \in Seq(Nodes) /\ Len(new.lru) = Len(c.lru) + 1
    BY <2>3, ConcatProperties, LenProperties
  <2>5. /\ new.index = [x \in DOMAIN c.index \cup {k} |-> Node(x, 0)]
        /\ DOMAIN new.index = DOMAIN c.index \cup {k}
    BY DEF Holds
  <2>6. Holds(new)
    <3> HIDE DEF new
    <3> QED BY <2>2, <2>3, <2>4, <2>5 DEF Holds
  <2>7. Len(new.lru) =< Capacity
    <3>1. DOMAIN c.index \cup {k} \subseteq MsgIds
      BY DEF Holds
    <3>2. Cardinality(DOMAIN c.index \cup {k}) =< Cardinality(MsgIds)
      BY <3>1, FS_Subset DEF Room
    <3>3. Cardinality(MsgIds) \in Nat /\ Cardinality(DOMAIN c.index) \in Nat
      BY <2>1, FS_CardinalityType DEF Room
    <3> QED BY <2>2, <2>3, <2>4, <3>2, <3>3, LruAssumption DEF Room
  <2>8. Trim(new) = new
    <3>1. ~(Len(new.lru) > Capacity)
      BY <2>3, <2>4, <2>7, LenProperties, LruAssumption
    <3> QED BY <3>1 DEF Trim
  <2>9. Mark(swept, k, 0) = Trim(new)
    BY <1>1, <1>5 DEF Mark, Without
  <2> QED BY <2>6, <2>8, <2>9
<1>6. CASE k \in DOMAIN c.index
  <2>1. TryMark(c, k, 0) = [ok |-> FALSE, cache |-> swept]
    BY <1>3, <1>4, <1>6
  <2> HIDE DEF swept
  <2> QED BY <1>1, <1>2, <1>6, <2>1
<1>7. CASE k \notin DOMAIN c.index
  <2>1. TryMark(c, k, 0) = [ok |-> TRUE, cache |-> new]
    BY <1>3, <1>4, <1>5, <1>7
  <2>2. DOMAIN new.index = DOMAIN c.index \cup {k}
    OBVIOUS
  <2> HIDE DEF new
  <2> QED BY <1>5, <1>7, <2>1, <2>2
<1> QED BY <1>6, <1>7

\* A msgId is handled or about to be at most once, and only if the cache knows it.
Once ==
    /\ Holds(m_idempotency)
    /\ \A m \in Messages :
          /\ tasks[m] =< 1
          /\ tasks[m] > 0 =>
                /\ MsgIdOf[m] \in DOMAIN m_idempotency.index
                /\ handled[MsgIdOf[m]] = 0
                /\ \A x \in Messages : tasks[x] > 0 /\ MsgIdOf[x] = MsgIdOf[m] => x = m
    /\ \A i \in MsgIds :
          /\ handled[i] =< 1
          /\ handled[i] > 0 => i \in DOMAIN m_idempotency.index

\* An empty cache holds.
LEMMA EmptyHolds == Holds(EmptyCache)
<1>1. DOMAIN EmptyCache.index = {} /\ EmptyCache.lru = << >>
  BY DEF EmptyCache
<1>2. Len(<< >>) = 0 /\ << >> \in Seq({Node(k, 0) : k \in MsgIds})
  BY EmptySeq
<1>3. EmptyCache.index = [k \in {} |-> Node(k, 0)]
  BY DEF EmptyCache
<1> QED BY <1>1, <1>2, <1>3, FS_EmptySet DEF Holds

\* Every step keeps this: only Dispatch makes a task, of a msgId the cache did not
\* know, and only the task handles it; the end of the process clears all three.
LEMMA NextOnce ==
    ASSUME Room, TypesAndTags, Once, [Next]_vars
    PROVE  Once'
<1> USE ConsumerAssumption DEF Goto, broker, client, history
<1>a. tasks \in [Messages -> Nat] /\ handled \in [MsgIds -> Nat]
  BY DEF TypesAndTags, TypeOK
<1>1. ASSUME UNCHANGED <<m_idempotency, tasks, handled>> PROVE Once'
  BY <1>1 DEF Once
<1>2. ASSUME NEW m \in Messages, HandlerRun(m) PROVE Once'
  <2>1. /\ tasks[m] > 0 /\ tasks' = [tasks EXCEPT ![m] = @ - 1]
        /\ handled' = [handled EXCEPT ![MsgIdOf[m]] = @ + 1] /\ UNCHANGED m_idempotency
    BY <1>2 DEF HandlerRun
  <2>2. /\ MsgIdOf[m] \in MsgIds /\ tasks[m] = 1 /\ handled[MsgIdOf[m]] = 0
        /\ MsgIdOf[m] \in DOMAIN m_idempotency.index
    BY <1>a, <2>1 DEF Once
  <2>3. tasks'[m] = 0 /\ \A x \in Messages : x # m => tasks'[x] = tasks[x]
    BY <1>a, <2>1, <2>2
  <2>4. /\ handled'[MsgIdOf[m]] = 1
        /\ \A i \in MsgIds : i # MsgIdOf[m] => handled'[i] = handled[i]
    BY <1>a, <2>1, <2>2
  <2>5. \A x \in Messages : tasks'[x] > 0 => x # m /\ tasks[x] > 0 /\ MsgIdOf[x] # MsgIdOf[m] /\ MsgIdOf[x] \in MsgIds
    BY <2>1, <2>3 DEF Once
  <2> QED BY <2>1, <2>2, <2>3, <2>4, <2>5 DEF Once
<1>3. CASE Dispatch
  <2> DEFINE k == MsgIdOf[delivery]
  <2>1. /\ pc = "parse" /\ Marked.ok /\ m_idempotency' = Marked.cache
        /\ tasks' = [tasks EXCEPT ![delivery] = @ + 1] /\ UNCHANGED handled
    BY <1>3 DEF Dispatch
  <2>2. delivery \in Messages /\ k \in MsgIds
    BY <2>1 DEF TypesAndTags, Holding
  <2>3. /\ k \notin DOMAIN m_idempotency.index /\ Holds(m_idempotency')
        /\ DOMAIN m_idempotency'.index = DOMAIN m_idempotency.index \cup {k}
    BY <2>1, <2>2, TryMarkHolds DEF Once, Marked
  <2>4. handled[k] = 0 /\ \A x \in Messages : MsgIdOf[x] = k => tasks[x] = 0
    BY <1>a, <2>2, <2>3 DEF Once
  <2>5. tasks'[delivery] = 1 /\ \A x \in Messages : x # delivery => tasks'[x] = tasks[x]
    BY <1>a, <2>1, <2>2, <2>4
  <2>6. \A x \in Messages : tasks'[x] > 0 => x = delivery \/ (tasks[x] > 0 /\ MsgIdOf[x] # k)
    BY <2>4, <2>5
  <2> HIDE DEF k
  <2>7. ASSUME NEW m \in Messages, tasks'[m] > 0
        PROVE  /\ MsgIdOf[m] \in DOMAIN m_idempotency'.index
               /\ handled'[MsgIdOf[m]] = 0
               /\ \A x \in Messages : tasks'[x] > 0 /\ MsgIdOf[x] = MsgIdOf[m] => x = m
    <3>1. CASE m = delivery
      BY <2>1, <2>3, <2>4, <2>6, <3>1 DEF k
    <3>2. CASE m # delivery
      BY <2>1, <2>3, <2>5, <2>6, <2>7, <3>2 DEF Once, k
    <3> QED BY <3>1, <3>2
  <2>8. \A m \in Messages : tasks'[m] =< 1
    BY <2>5 DEF Once
  <2> QED BY <2>1, <2>3, <2>7, <2>8 DEF Once
<1>4. CASE DropDuplicate
  <2>1. /\ pc = "parse" /\ ~Marked.ok /\ m_idempotency' = Marked.cache /\ UNCHANGED <<tasks, handled>>
    BY <1>4 DEF DropDuplicate
  <2>2. MsgIdOf[delivery] \in MsgIds
    BY <2>1 DEF TypesAndTags, Holding
  <2>3. /\ MsgIdOf[delivery] \in DOMAIN m_idempotency.index /\ Holds(m_idempotency')
        /\ DOMAIN m_idempotency'.index = DOMAIN m_idempotency.index \cup {MsgIdOf[delivery]}
    BY <2>1, <2>2, TryMarkHolds DEF Once, Marked
  <2>4. DOMAIN m_idempotency'.index = DOMAIN m_idempotency.index
    BY <2>3
  <2> QED BY <2>1, <2>3, <2>4 DEF Once
<1>5. ASSUME ProcessEnds PROVE Once'
  <2>1. /\ m_idempotency' = EmptyCache /\ tasks' = [m \in Messages |-> 0]
        /\ handled' = [i \in MsgIds |-> 0]
    BY <1>5 DEF ProcessEnds
  <2> QED BY <2>1, EmptyHolds DEF Once
<1> QED
  BY <1>1, <1>2, <1>3, <1>4, <1>5
  DEF Next, vars, BusinessPublish, Deliver, LinkDrop, AlreadyConnected, Connect, LeaveLoop,
      OpenChannel, DeclareForConsumer, StartConsume, Answered, SetUpFails, ConsumeGot, ConsumeTimeout,
      ConsumeError, DropBadEnvelope, ParseThrows, WaitReady, WaitTimeout, Settle, Start, Stop,
      StopJoined, Crash, Exit

\* HandledAtMostOnce of TryMark and Run: redelivery, requeue, a handler that is
\* late and an envelope published twice lead to one run of the handler, as long
\* as the cache has room for the msgIds.
THEOREM AtMostOnce ==
    ASSUME Room PROVE Spec => []HandledAtMostOnce
<1>1. Init => Once
  BY EmptyHolds DEF Init, Once
<1>2. Once => HandledAtMostOnce
  BY DEF Once, HandledAtMostOnce
<1>3. TypesAndTags /\ Once /\ [Next]_vars => Once'
  BY NextOnce
<1> QED BY <1>1, <1>2, <1>3, InitTypesAndTags, NextTypesAndTags, PTL DEF Spec
=============================================================================
