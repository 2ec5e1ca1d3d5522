-------------------------- MODULE SendPipelineProofs --------------------------
(***************************************************************************)
(* The safety invariants of SendPipeline hold for any requests, retries,   *)
(* devices, users and receivers.  Each section adds one layer of the       *)
(* inductive invariant: types, how the map and the events agree, what a    *)
(* request may still receive, and that it is always somewhere.             *)
(***************************************************************************)
EXTENDS SendPipeline, TLAPS

-----------------------------------------------------------------------------
(* Types.                                                                  *)

\* Nothing is on its way at the start.
LEMMA InitType == Init => TypeOK
BY PipelineAssumption DEF Init, TypeOK, PCs

\* What the map holds under a key is a request, or nothing.
LEMMA PendingType ==
    ASSUME TypeOK, NEW i \in ClientMsgIds
    PROVE  /\ Pending(i) \in Sends \cup {NoSend}
           /\ Pending(i) # NoSend <=> i \in DOMAIN m_pending_map
BY PipelineAssumption DEF TypeOK, Pending

\* The map after an entry has been made or overwritten.
LEMMA AfterInsert ==
    ASSUME NEW s \in Sends, Insert(s)
    PROVE  /\ DOMAIN m_pending_map' = DOMAIN m_pending_map \cup {IdOf[s]}
           /\ m_pending_map'[IdOf[s]] = s
           /\ \A i \in DOMAIN m_pending_map' :
                 i # IdOf[s] => i \in DOMAIN m_pending_map /\ m_pending_map'[i] = m_pending_map[i]
BY DEF Insert

\* The map after the entries under some keys have gone.
LEMMA AfterErase ==
    ASSUME NEW I, Erase(I)
    PROVE  /\ DOMAIN m_pending_map' = DOMAIN m_pending_map \ I
           /\ \A i \in DOMAIN m_pending_map' : m_pending_map'[i] = m_pending_map[i]
BY DEF Erase, Restrict

\* Every step keeps the types.
LEMMA NextType == TypeOK /\ [Next]_vars => TypeOK'
<1> SUFFICES ASSUME TypeOK, [Next]_vars PROVE TypeOK'
  OBVIOUS
<1> USE PipelineAssumption DEF TypeOK, PCs, Goto, queues, frames, history
<1>1. ASSUME NEW s \in Sends, InsertPending(s) PROVE TypeOK'
  <2>1. OtherDevices(s) \subseteq online
    BY DEF OtherDevices
  <2>2. IdOf[s] \in ClientMsgIds /\ Insert(s)
    BY <1>1 DEF InsertPending
  <2>3. DOMAIN m_pending_map' \subseteq ClientMsgIds
        /\ \A i \in DOMAIN m_pending_map' : m_pending_map'[i] \in Sends
    BY <2>2, AfterInsert
  <2>4. steady' \in [Sends -> SUBSET online]
    BY <1>1, <2>1 DEF InsertPending
  <2> QED BY <1>1, <2>2, <2>3, <2>4 DEF InsertPending
<1>2. ASSUME NEW s \in Sends, PublishAccepted(s) PROVE TypeOK'
  BY <1>2 DEF PublishAccepted
<1>3. ASSUME NEW s \in Sends, PublishRefused(s) PROVE TypeOK'
  BY <1>3 DEF PublishRefused
<1>4. ASSUME NEW s \in Sends, ErasePending(s) PROVE TypeOK'
  <2>1. Erase({IdOf[s]})
    BY <1>4 DEF ErasePending
  <2>2. DOMAIN m_pending_map' \subseteq ClientMsgIds
        /\ \A i \in DOMAIN m_pending_map' : m_pending_map'[i] \in Sends
    BY <2>1, AfterErase
  <2> QED BY <1>4, <2>2 DEF ErasePending
<1>5. ASSUME NEW s \in Sends, LostUpstream(s) PROVE TypeOK'
  BY <1>5 DEF LostUpstream
<1>6. ASSUME NEW s \in Sends, BusinessPersist(s) PROVE TypeOK'
  BY <1>6 DEF BusinessPersist
<1>7. ASSUME NEW s \in Sends, BusinessRepeat(s) PROVE TypeOK'
  BY <1>7 DEF BusinessRepeat
<1>8. ASSUME NEW s \in Sends, TakePending(s) PROVE TypeOK'
  <2>1. Pending(IdOf[s]) \in Sends \cup {NoSend}
    BY PendingType
  <2>2. Erase({IdOf[s]})
    BY <1>8 DEF TakePending
  <2>3. DOMAIN m_pending_map' \subseteq ClientMsgIds
        /\ \A i \in DOMAIN m_pending_map' : m_pending_map'[i] \in Sends
    BY <2>2, AfterErase
  <2> QED BY <1>8, <2>1, <2>3 DEF TakePending
<1>9. ASSUME NEW h \in handlers, Push(h) PROVE TypeOK'
  BY <1>9 DEF Push
<1>10. CASE SweepPending
  BY <1>10, AfterErase DEF SweepPending
<1>11. CASE Tick
  BY <1>11 DEF Tick
<1>12. ASSUME NEW d \in Devices, Connect(d) \/ Disconnect(d) PROVE TypeOK'
  BY <1>12 DEF Connect, Disconnect
<1>13. CASE UNCHANGED vars
  BY <1>13 DEF vars
<1> QED BY <1>1, <1>2, <1>3, <1>4, <1>5, <1>6, <1>7, <1>8, <1>9, <1>10, <1>11, <1>12, <1>13 DEF Next

\* The pending map holds requests under identifiers, the counts are counts: the
\* model of msg.send is type correct.
THEOREM TypeCorrect == Spec => []TypeOK
BY InitType, NextType, PTL DEF Spec

-----------------------------------------------------------------------------
(* How the map, the events and the handlers agree.                         *)

\* An entry is filed under the identifier of its request.
Filed == \A i \in DOMAIN m_pending_map : IdOf[m_pending_map[i]] = i

\* Only a request that Publish has accepted goes upstream, is persisted or
\* announced.
EventsOfPublished ==
    /\ \A s \in upstream \cup persisted : pc[s] = "published"
    /\ \A s \in Sends : downstream[s] > 0 => pc[s] = "published"
    /\ \A h \in handlers : pc[h.event] = "published"

\* What a handler has taken has the identifier of its event: it is the request
\* announced, or a retry of it.
TakenByItsEvent == \A h \in handlers : h.pending # NoSend => IdOf[h.pending] = IdOf[h.event]

Agree == Filed /\ RefusedIsNotPending /\ EventsOfPublished /\ TakenByItsEvent

\* There is nothing to agree on at the start.
LEMMA InitAgree == Init => Agree
BY DEF Init, Agree, Filed, RefusedIsNotPending, EventsOfPublished, TakenByItsEvent

\* Every step keeps the agreement.  A refused request erases the entry under its
\* identifier, whosever it is, and Filed says that its own is nowhere else.
LEMMA NextAgree == TypeOK /\ Agree /\ [Next]_vars => Agree'
<1> SUFFICES ASSUME TypeOK, Agree, [Next]_vars PROVE Agree'
  OBVIOUS
<1> USE PipelineAssumption DEF Agree, Filed, RefusedIsNotPending, Goto, queues, frames, history
<1>a. DOMAIN m_pending_map \subseteq ClientMsgIds /\ \A i \in DOMAIN m_pending_map : m_pending_map[i] \in Sends
  BY DEF TypeOK
<1>b. \A s \in Sends : downstream[s] \in Nat
  BY DEF TypeOK
<1>c. \A h \in handlers : h.event \in Sends /\ h.pending \in Sends \cup {NoSend}
  BY DEF TypeOK
<1>d. pc \in [Sends -> PCs] /\ upstream \subseteq Sends /\ persisted \subseteq Sends
      /\ downstream \in [Sends -> Nat]
  BY DEF TypeOK
<1>1. ASSUME NEW s \in Sends, InsertPending(s) PROVE Agree'
  <2>1. Insert(s) /\ pc' = [pc EXCEPT ![s] = "inserted"] /\ pc[s] = "idle"
    BY <1>1 DEF InsertPending
  <2>4. \A i \in DOMAIN m_pending_map' :
           \/ i = IdOf[s] /\ m_pending_map'[i] = s
           \/ i # IdOf[s] /\ i \in DOMAIN m_pending_map /\ m_pending_map'[i] = m_pending_map[i]
    BY <2>1, AfterInsert
  <2>2. Filed' /\ RefusedIsNotPending'
    BY <2>1, <2>4, <1>a, <1>d
  <2>3. EventsOfPublished' /\ TakenByItsEvent'
    BY <1>1, <2>1, <1>c, <1>d DEF InsertPending, EventsOfPublished, TakenByItsEvent
  <2> QED BY <2>2, <2>3
<1>2. ASSUME NEW s \in Sends, PublishAccepted(s) \/ PublishRefused(s) PROVE Agree'
  BY <1>2, <1>a, <1>c, <1>d
  DEF PublishAccepted, PublishRefused, EventsOfPublished, TakenByItsEvent
<1>3. ASSUME NEW s \in Sends, ErasePending(s) PROVE Agree'
  <2>1. Erase({IdOf[s]}) /\ pc' = [pc EXCEPT ![s] = "refused"] /\ pc[s] = "failed"
    BY <1>3 DEF ErasePending
  <2>4. \A i \in DOMAIN m_pending_map' :
           i # IdOf[s] /\ i \in DOMAIN m_pending_map /\ m_pending_map'[i] = m_pending_map[i]
    BY <2>1 DEF Erase, Restrict
  <2>2. Filed' /\ RefusedIsNotPending'
    BY <2>1, <2>4, <1>a, <1>d
  <2>3. EventsOfPublished' /\ TakenByItsEvent'
    BY <1>3, <2>1, <1>c, <1>d DEF ErasePending, EventsOfPublished, TakenByItsEvent
  <2> QED BY <2>2, <2>3
<1>4. ASSUME NEW s \in Sends, LostUpstream(s) \/ BusinessPersist(s) \/ BusinessRepeat(s)
      PROVE  Agree'
  BY <1>4, <1>c, <1>d
  DEF LostUpstream, BusinessPersist, BusinessRepeat, EventsOfPublished, TakenByItsEvent
<1>5. ASSUME NEW s \in Sends, TakePending(s) PROVE Agree'
  <2>1. Erase({IdOf[s]}) /\ UNCHANGED <<pc, upstream, persisted>>
    BY <1>5 DEF TakePending
  <2>5. \A i \in DOMAIN m_pending_map' :
           i \in DOMAIN m_pending_map /\ m_pending_map'[i] = m_pending_map[i]
    BY <2>1, AfterErase
  <2>2. Filed' /\ RefusedIsNotPending'
    BY <2>1, <2>5, <1>a
  <2>3. Pending(IdOf[s]) # NoSend => IdOf[Pending(IdOf[s])] = IdOf[s]
    BY DEF Pending
  <2>4. EventsOfPublished' /\ TakenByItsEvent'
    BY <1>5, <2>1, <2>3, <1>c, <1>d DEF TakePending, EventsOfPublished, TakenByItsEvent
  <2> QED BY <2>2, <2>4
<1>6. CASE SweepPending
  <2>1. PICK I : Erase(I)
    BY <1>6 DEF SweepPending
  <2>3. \A i \in DOMAIN m_pending_map' :
           i \in DOMAIN m_pending_map /\ m_pending_map'[i] = m_pending_map[i]
    BY <2>1, AfterErase
  <2>2. Filed' /\ RefusedIsNotPending'
    BY <1>6, <2>3 DEF SweepPending
  <2> QED BY <1>6, <2>2 DEF SweepPending, EventsOfPublished, TakenByItsEvent
<1>7. ASSUME NEW h \in handlers, Push(h) PROVE Agree'
  BY <1>7, <1>c DEF Push, EventsOfPublished, TakenByItsEvent
<1>8. CASE Tick \/ (\E d \in Devices : Connect(d) \/ Disconnect(d)) \/ UNCHANGED vars
  BY <1>8 DEF Tick, Connect, Disconnect, vars, EventsOfPublished, TakenByItsEvent
<1> QED BY <1>1, <1>2, <1>3, <1>4, <1>5, <1>6, <1>7, <1>8 DEF Next

\* A refused request leaves nothing in the map that a later event could answer:
\* RefusedIsNotPending holds of HandleMsgSend's Insert, Publish and erase.
THEOREM NothingRefusedWaits == Spec => []RefusedIsNotPending
<1>1. Agree => RefusedIsNotPending
  BY DEF Agree
<1> QED BY <1>1, TypeCorrect, InitAgree, NextAgree, PTL DEF Spec

-----------------------------------------------------------------------------
(* No echo.                                                                *)

\* For a request that is not retried, the handler either finds it and leaves its
\* device out, or finds nothing and leaves all devices of the sender out.
LEMMA NextNoEcho == TypeOK /\ Agree /\ NoEcho /\ [Next]_vars => NoEcho'
<1> SUFFICES ASSUME TypeOK, Agree, NoEcho, [Next]_vars PROVE NoEcho'
  OBVIOUS
<1> USE PipelineAssumption DEF NoEcho, Lone
<1>1. ASSUME UNCHANGED news PROVE NoEcho'
  BY <1>1
<1>2. ASSUME NEW h \in handlers, Push(h), NEW s \in Sends, Lone(s) PROVE s \notin news'[SentBy[s]]
  <2>1. news \in [Devices -> SUBSET Sends] /\ h.event \in Sends /\ h.pending \in Sends \cup {NoSend}
    BY DEF TypeOK
  <2>2. CASE h.event # s
    BY <1>2, <2>1, <2>2 DEF Push
  <2>3. CASE h.event = s
    <3>1. h.pending \in {s, NoSend}
      BY <1>2, <2>1, <2>3 DEF Agree, TakenByItsEvent
    <3> DEFINE targets == (IF h.pending = NoSend THEN {} ELSE OnlineOf(UserOf[SentBy[s]]) \ {SentBy[h.pending]})
                            \cup UNION {OnlineOf(u) : u \in Receivers \ {UserOf[SentBy[s]]}}
    <3>2. news' = [d \in Devices |-> IF d \in targets THEN news[d] \cup {s} ELSE news[d]]
      BY <1>2, <2>3 DEF Push
    <3>3. SentBy[s] \notin targets
      BY <3>1 DEF OnlineOf
    <3> HIDE DEF targets
    <3> QED BY <3>2, <3>3, <1>2
  <2> QED BY <2>2, <2>3
<1>3. ASSUME NEW h \in handlers, Push(h) PROVE NoEcho'
  BY <1>2, <1>3
<1> QED
  BY <1>1, <1>3
  DEF Next, vars, queues, frames, history, InsertPending, PublishAccepted, PublishRefused, ErasePending,
      LostUpstream, BusinessPersist, BusinessRepeat, TakePending, SweepPending, Tick, Connect, Disconnect

\* NoEcho of OnChatMsgSend: the device a message was sent from does not get it
\* back as msg.new.
THEOREM Echoless == Spec => []NoEcho
<1>1. Init => NoEcho
  BY PipelineAssumption DEF Init, NoEcho
<1> QED BY <1>1, TypeCorrect, InitAgree, NextAgree, NextNoEcho, PTL DEF Spec

-----------------------------------------------------------------------------
(* The way of a request that is not retried.                               *)

\* It waits in the map.
Waits(s) == Pending(IdOf[s]) = s

\* A handler has taken it.
Taken(s) == \E h \in handlers : h.pending = s

\* A handler that has taken it is at work on its own event, so there is only one.
LEMMA TakenForm ==
    ASSUME TypeOK, Agree, NEW s \in Sends, Lone(s), NEW h \in handlers, h.pending = s
    PROVE  h = [event |-> s, pending |-> s]
<1>1. h \in [event : Sends, pending : Sends \cup {NoSend}]
  BY DEF TypeOK
<1>2. h.event = s
  BY <1>1, PipelineAssumption DEF Agree, TakenByItsEvent, Lone
<1> QED BY <1>1, <1>2

\* Waiting is having an entry of its own.
LEMMA WaitsMeans ==
    ASSUME NEW s \in Sends
    PROVE  /\ Waits(s) <=> IdOf[s] \in DOMAIN m_pending_map /\ m_pending_map[IdOf[s]] = s
           /\ Waits(s)' <=> IdOf[s] \in DOMAIN m_pending_map' /\ m_pending_map'[IdOf[s]] = s
BY PipelineAssumption DEF Waits, Pending

\* Nobody else has its identifier, so that only its own Insert concerns it.
LEMMA WaitsInsert ==
    ASSUME NEW s \in Sends, Lone(s), NEW x \in Sends, Insert(x)
    PROVE  Waits(s)' <=> x = s \/ Waits(s)
<1>1. x # s => IdOf[x] # IdOf[s]
  BY DEF Lone
<1>2. /\ DOMAIN m_pending_map' = DOMAIN m_pending_map \cup {IdOf[x]}
      /\ m_pending_map'[IdOf[x]] = x
      /\ \A i \in DOMAIN m_pending_map' :
            i # IdOf[x] => i \in DOMAIN m_pending_map /\ m_pending_map'[i] = m_pending_map[i]
  BY AfterInsert
<1> QED BY <1>1, <1>2, WaitsMeans

\* It waits on unless its identifier is erased.
LEMMA WaitsErase ==
    ASSUME NEW s \in Sends, NEW I, Erase(I)
    PROVE  Waits(s)' <=> Waits(s) /\ IdOf[s] \notin I
<1>1. /\ DOMAIN m_pending_map' = DOMAIN m_pending_map \ I
      /\ \A i \in DOMAIN m_pending_map' : m_pending_map'[i] = m_pending_map[i]
  BY DEF Erase, Restrict
<1> QED BY <1>1, WaitsMeans

\* It is in one place at most: in the map, with one handler, answered once, or
\* refused.
AtOnePlace ==
    /\ \A s \in Sends : Lone(s) =>
          /\ Taken(s) \/ resp200[s] > 0 => pc[s] = "published"
          /\ Waits(s) => ~Taken(s)
          /\ Waits(s) \/ Taken(s) => resp200[s] = 0
          /\ resp200[s] =< 1
    /\ \A s \in resp503 : pc[s] = "refused"

\* At the start it is nowhere.
LEMMA InitAtOnePlace == Init => AtOnePlace
BY PipelineAssumption DEF Init, AtOnePlace, Taken, Waits, Pending

\* Every step leaves it at one place: TakePending erases what it hands to the
\* handler, the handler ends with its answer, and Insert comes before all that.
LEMMA NextAtOnePlace == TypeOK /\ Agree /\ AtOnePlace /\ [Next]_vars => AtOnePlace'
<1> SUFFICES ASSUME TypeOK, Agree, AtOnePlace, [Next]_vars PROVE AtOnePlace'
  OBVIOUS
<1> USE PipelineAssumption DEF Goto, queues, frames, history
<1>a. /\ pc \in [Sends -> PCs] /\ resp200 \in [Sends -> Nat] /\ resp503 \subseteq Sends
      /\ \A s \in Sends : downstream[s] \in Nat
      /\ \A h \in handlers : h.event \in Sends /\ h.pending \in Sends \cup {NoSend}
  BY DEF TypeOK
<1>1. ASSUME NEW x \in Sends, InsertPending(x) PROVE AtOnePlace'
  <2>1. /\ Insert(x) /\ pc[x] = "idle" /\ pc' = [pc EXCEPT ![x] = "inserted"]
        /\ UNCHANGED <<handlers, resp200, resp503>>
    BY <1>1 DEF InsertPending
  <2>2. \A s \in Sends : Taken(s)' <=> Taken(s)
    BY <2>1 DEF Taken
  <2>3. \A s \in Sends : Lone(s) => (Waits(s)' <=> x = s \/ Waits(s))
    BY <2>1, WaitsInsert
  <2> QED BY <2>1, <2>2, <2>3, <1>a DEF AtOnePlace
<1>2. ASSUME UNCHANGED <<m_pending_map, handlers, resp200, resp503>>,
             \A s \in Sends : pc[s] \in {"published", "refused"} => pc'[s] = pc[s]
      PROVE  AtOnePlace'
  <2>1. \A s \in Sends : (Taken(s)' <=> Taken(s)) /\ (Waits(s)' <=> Waits(s))
    BY <1>2 DEF Taken, Waits, Pending
  <2> QED BY <1>2, <2>1, <1>a DEF AtOnePlace
<1>3. ASSUME NEW I, Erase(I), UNCHANGED <<handlers, resp200>>,
             \A s \in Sends : pc[s] \in {"published", "refused"} => pc'[s] = pc[s],
             \A s \in resp503' : pc'[s] = "refused"
      PROVE  AtOnePlace'
  <2>1. \A s \in Sends : Taken(s)' <=> Taken(s)
    BY <1>3 DEF Taken
  <2>2. \A s \in Sends : Waits(s)' => Waits(s)
    BY <1>3, WaitsErase
  <2> QED BY <1>3, <2>1, <2>2, <1>a DEF AtOnePlace
<1>4. ASSUME NEW x \in Sends, ErasePending(x) PROVE AtOnePlace'
  <2>1. /\ Erase({IdOf[x]}) /\ UNCHANGED <<handlers, resp200>>
        /\ pc[x] = "failed" /\ pc' = [pc EXCEPT ![x] = "refused"] /\ resp503' = resp503 \cup {x}
    BY <1>4 DEF ErasePending
  <2>2. \A s \in Sends : pc[s] \in {"published", "refused"} => pc'[s] = pc[s]
    BY <2>1, <1>a
  <2>3. \A s \in resp503' : pc'[s] = "refused"
    BY <2>1, <1>a DEF AtOnePlace
  <2> QED BY <2>1, <2>2, <2>3, <1>3
<1>5. ASSUME NEW x \in Sends, TakePending(x) PROVE AtOnePlace'
  <2>1. /\ Erase({IdOf[x]}) /\ UNCHANGED <<pc, resp200, resp503>>
        /\ handlers' = handlers \cup {[event |-> x, pending |-> Pending(IdOf[x])]}
        /\ downstream[x] > 0
    BY <1>5 DEF TakePending
  <2>2. pc[x] = "published"
    BY <2>1 DEF Agree, EventsOfPublished
  <2>3. \A s \in Sends : Lone(s) => (Taken(s)' <=> Taken(s) \/ (s = x /\ Waits(x)))
    <3>1. \A s \in Sends : Lone(s) /\ Pending(IdOf[x]) = s => s = x
      BY DEF Agree, Filed, Lone, Pending
    <3>2. \A s : Taken(s)' <=> Taken(s) \/ Pending(IdOf[x]) = s
      <4> DEFINE p == Pending(IdOf[x])
                 new == [event |-> x, pending |-> p]
      <4>1. handlers' = handlers \cup {new} /\ new.pending = p
        BY <2>1
      <4> HIDE DEF p, new
      <4>2. \A s : Taken(s)' <=> Taken(s) \/ p = s
        BY <4>1 DEF Taken
      <4> QED BY <4>2 DEF p
    <3> QED BY <3>1, <3>2 DEF Waits
  <2>4. \A s \in Sends : Waits(s)' => Waits(s)
    BY <2>1, WaitsErase
  <2>5. ~Waits(x)'
    BY <2>1, WaitsErase
  <2> QED BY <2>1, <2>2, <2>3, <2>4, <2>5, <1>a DEF AtOnePlace
<1>6. ASSUME NEW h \in handlers, Push(h) PROVE AtOnePlace'
  <2>1. /\ UNCHANGED <<pc, m_pending_map, resp503>> /\ handlers' = handlers \ {h}
        /\ \/ UNCHANGED resp200
           \/ h.pending \in Sends /\ resp200' = [resp200 EXCEPT ![h.pending] = @ + 1]
    BY <1>6, <1>a DEF Push
  <2>2. \A s \in Sends : (Taken(s)' => Taken(s)) /\ (Waits(s)' <=> Waits(s))
    BY <2>1 DEF Taken, Waits, Pending
  <2>3. ASSUME NEW s \in Sends, Lone(s), h.pending = s PROVE Taken(s) /\ ~Taken(s)'
    BY <2>1, <2>3, TakenForm DEF Taken
  <2> QED BY <2>1, <2>2, <2>3, <1>a DEF AtOnePlace
<1>7. CASE SweepPending
  <2>1. \E I : Erase(I)
    BY <1>7 DEF SweepPending
  <2>2. UNCHANGED <<handlers, resp200, resp503, pc>>
    BY <1>7 DEF SweepPending
  <2> QED BY <2>1, <2>2, <1>3, <1>a DEF AtOnePlace
<1>8. ASSUME NEW x \in Sends, PublishAccepted(x) \/ PublishRefused(x) PROVE AtOnePlace'
  <2>1. /\ UNCHANGED <<m_pending_map, handlers, resp200, resp503>>
        /\ pc[x] = "inserted" /\ \E to \in PCs : pc' = [pc EXCEPT ![x] = to]
    BY <1>8 DEF PublishAccepted, PublishRefused, PCs
  <2> QED BY <2>1, <1>2, <1>a
<1>9. ASSUME UNCHANGED <<pc, m_pending_map, handlers, resp200, resp503>> PROVE AtOnePlace'
  BY <1>9, <1>2
<1> QED
  BY <1>1, <1>4, <1>5, <1>6, <1>7, <1>8, <1>9
  DEF Next, vars, LostUpstream, BusinessPersist, BusinessRepeat, Tick, Connect, Disconnect

\* AnsweredOnce of HandleMsgSend and OnChatMsgSend: one answer, 200 or 503, to a
\* request that is not retried, whatever the business service repeats.
THEOREM OneAnswer == Spec => []AnsweredOnce
<1>1. TypeOK /\ AtOnePlace => AnsweredOnce
  BY DEF AtOnePlace, AnsweredOnce, TypeOK
<1> QED BY <1>1, TypeCorrect, InitAgree, NextAgree, InitAtOnePlace, NextAtOnePlace, PTL DEF Spec

-----------------------------------------------------------------------------
(* It is always somewhere.                                                 *)

\* The request is under way: in the map, or with a handler.
UnderWay(s) == Waits(s) \/ Taken(s)

\* Once it has been entered, a request that is neither retried nor refused is
\* under way, swept, or done with: answered or missed, and the other devices
\* told.  When its event has been handled it does not wait any more.
AtSomePlace ==
    \A s \in Sends : Lone(s) =>
       /\ pc[s] \in {"idle", "refused"} \/ s \in swept \/ UnderWay(s)
             \/ ((resp200[s] > 0 \/ s \in missed) /\ \A d \in steady[s] : s \in news[d])
       /\ \A d \in steady[s] : d # SentBy[s] /\ UserOf[d] = UserOf[SentBy[s]]
       /\ s \in persisted /\ downstream[s] = 0 => ~Waits(s)

\* Nothing has been entered at the start.
LEMMA InitAtSomePlace == Init => AtSomePlace
BY DEF Init, AtSomePlace

\* Every step keeps track of it: an entry that is erased is handed to the handler,
\* refused or swept, and a handler ends by answering and telling.
LEMMA NextAtSomePlace == TypeOK /\ Agree /\ AtOnePlace /\ AtSomePlace /\ [Next]_vars => AtSomePlace'
<1> SUFFICES ASSUME TypeOK, Agree, AtSomePlace, [Next]_vars PROVE AtSomePlace'
  OBVIOUS
<1> USE PipelineAssumption DEF Goto, queues, frames, history, Lone
<1>a. /\ pc \in [Sends -> PCs] /\ resp200 \in [Sends -> Nat] /\ downstream \in [Sends -> Nat]
      /\ news \in [Devices -> SUBSET Sends] /\ steady \in [Sends -> SUBSET online] /\ online \subseteq Devices
      /\ upstream \subseteq Sends /\ persisted \subseteq Sends
      /\ \A h \in handlers : h.event \in Sends /\ h.pending \in Sends \cup {NoSend}
  BY DEF TypeOK
<1>1. ASSUME NEW x \in Sends, InsertPending(x) PROVE AtSomePlace'
  <2>1. /\ Insert(x) /\ pc[x] = "idle" /\ pc' = [pc EXCEPT ![x] = "inserted"]
        /\ steady' = [steady EXCEPT ![x] = IF Lone(x) THEN OtherDevices(x) ELSE {}]
        /\ UNCHANGED <<handlers, resp200, swept, missed, news, persisted, downstream>>
    BY <1>1 DEF InsertPending
  <2>2. \A s \in Sends : Taken(s)' <=> Taken(s)
    BY <2>1 DEF Taken
  <2>3. \A s \in Sends : Lone(s) => (Waits(s)' <=> x = s \/ Waits(s))
    BY <2>1, WaitsInsert
  <2>4. x \notin persisted
    BY <2>1 DEF Agree, EventsOfPublished
  <2>5. \A s \in Sends : s # x => pc'[s] = pc[s] /\ steady'[s] = steady[s]
    BY <2>1, <1>a
  <2>6. \A d \in steady'[x] : d # SentBy[x] /\ UserOf[d] = UserOf[SentBy[x]]
    BY <2>1, <1>a DEF OtherDevices
  <2> HIDE DEF Lone
  <2> QED BY <2>1, <2>2, <2>3, <2>4, <2>5, <2>6, <1>a DEF AtSomePlace, UnderWay
<1>2. ASSUME UNCHANGED <<m_pending_map, handlers, resp200, news, missed, swept>>,
             \A s \in Sends : pc'[s] \in {"idle", "refused"} \/ pc[s] \notin {"idle", "refused"},
             \A s \in Sends : steady'[s] \subseteq steady[s],
             \A s \in Sends : s \in persisted' /\ downstream'[s] = 0 =>
                                s \in persisted /\ downstream[s] = 0
      PROVE  AtSomePlace'
  <2>1. \A s \in Sends : (Taken(s)' <=> Taken(s)) /\ (Waits(s)' <=> Waits(s))
    BY <1>2 DEF Taken, Waits, Pending
  <2> HIDE DEF Lone
  <2> QED BY <1>2, <2>1, <1>a DEF AtSomePlace, UnderWay
<1>3. ASSUME NEW x \in Sends, ErasePending(x) PROVE AtSomePlace'
  <2>1. /\ Erase({IdOf[x]}) /\ pc' = [pc EXCEPT ![x] = "refused"]
        /\ UNCHANGED <<handlers, resp200, swept, missed, news, steady, persisted, downstream>>
    BY <1>3 DEF ErasePending
  <2>2. \A s \in Sends : Taken(s)' <=> Taken(s)
    BY <2>1 DEF Taken
  <2>3. \A s \in Sends : Lone(s) => (Waits(s)' <=> Waits(s) /\ s # x)
    <3>1. \A s \in Sends : Waits(s)' <=> Waits(s) /\ IdOf[s] # IdOf[x]
      BY <2>1, WaitsErase
    <3> QED BY <3>1 DEF Lone
  <2>4. \A s \in Sends : pc'[s] = IF s = x THEN "refused" ELSE pc[s]
    BY <2>1, <1>a
  <2> HIDE DEF Lone
  <2> QED BY <2>1, <2>2, <2>3, <2>4 DEF AtSomePlace, UnderWay
<1>4. ASSUME NEW x \in Sends, TakePending(x) PROVE AtSomePlace'
  <2> DEFINE new == [event |-> x, pending |-> Pending(IdOf[x])]
  <2>1. /\ Erase({IdOf[x]}) /\ handlers' = handlers \cup {new}
        /\ downstream' = [downstream EXCEPT ![x] = @ - 1]
        /\ UNCHANGED <<pc, resp200, swept, missed, news, steady, persisted>>
    BY <1>4 DEF TakePending
  <2>2. Waits(x) => Taken(x)'
    <3>1. new.pending = Pending(IdOf[x]) /\ new \in handlers'
      BY <2>1
    <3> HIDE DEF new
    <3> QED BY <3>1 DEF Taken, Waits
  <2>3. \A s : Taken(s) => Taken(s)'
    BY <2>1 DEF Taken
  <2>4. \A s \in Sends : Lone(s) => (Waits(s)' <=> Waits(s) /\ s # x)
    <3>1. \A s \in Sends : Waits(s)' <=> Waits(s) /\ IdOf[s] # IdOf[x]
      BY <2>1, WaitsErase
    <3> QED BY <3>1 DEF Lone
  <2>5. \A s \in Sends : s # x => downstream'[s] = downstream[s]
    BY <2>1, <1>a
  <2> HIDE DEF Lone, new
  <2> QED BY <2>1, <2>2, <2>3, <2>4, <2>5 DEF AtSomePlace, UnderWay
<1>5. ASSUME NEW h \in handlers, Push(h) PROVE AtSomePlace'
  <2>1. /\ UNCHANGED <<pc, m_pending_map, swept, steady, persisted, downstream>>
        /\ handlers' = handlers \ {h}
        /\ \A s \in Sends : resp200'[s] >= resp200[s]
        /\ missed \subseteq missed'
        /\ \A d \in Devices : news[d] \subseteq news'[d]
    BY <1>5, <1>a DEF Push
  <2>2. \A s \in Sends : Waits(s)' <=> Waits(s)
    BY <2>1 DEF Waits, Pending
  <2>3. \A s \in Sends : h.pending # s /\ Taken(s) => Taken(s)'
    BY <2>1 DEF Taken
  <2>4. ASSUME NEW s \in Sends, Lone(s), h.pending = s
        PROVE  (resp200'[s] > 0 \/ s \in missed') /\ \A d \in steady[s] : s \in news'[d]
    <3>1. h.event = s /\ s # NoSend
      BY <2>4, TakenForm
    <3>2. resp200'[s] > 0 \/ s \in missed'
      BY <1>5, <2>4, <3>1, <1>a DEF Push
    <3>3. ASSUME NEW d \in steady[s] PROVE s \in news'[d]
      <4>1. d \in online /\ d \in Devices /\ d # SentBy[s] /\ UserOf[d] = UserOf[SentBy[s]]
        BY <1>a, <2>4, <3>3 DEF AtSomePlace
      <4>2. d \in OnlineOf(UserOf[SentBy[s]]) \ {SentBy[s]}
        BY <4>1 DEF OnlineOf
      <4> QED BY <1>5, <2>4, <3>1, <4>1, <4>2, <1>a DEF Push
    <3> QED BY <3>2, <3>3
  <2> HIDE DEF Lone
  <2>5. ASSUME NEW s \in Sends, Lone(s), h.pending # s,
               (resp200[s] > 0 \/ s \in missed) /\ \A d \in steady[s] : s \in news[d]
        PROVE  (resp200'[s] > 0 \/ s \in missed') /\ \A d \in steady[s] : s \in news'[d]
    <3>1. resp200[s] > 0 => resp200'[s] > 0
      BY <1>5, <1>a DEF Push
    <3>2. steady[s] \subseteq Devices
      BY <1>a
    <3> QED BY <2>1, <2>5, <3>1, <3>2
  <2>6. UNCHANGED <<pc, swept, steady, persisted, downstream>>
    BY <2>1
  <2> QED BY <2>2, <2>3, <2>4, <2>5, <2>6 DEF AtSomePlace, UnderWay
<1>6. CASE SweepPending
  <2> DEFINE old == {i \in DOMAIN m_pending_map : age[i] = PendingTtl}
  <2>1. /\ Erase(old) /\ swept' = swept \cup {s \in Sends : Lone(s) /\ IdOf[s] \in old}
        /\ UNCHANGED <<pc, handlers, resp200, missed, news, steady, persisted, downstream>>
    BY <1>6 DEF SweepPending
  <2> HIDE DEF old
  <2>2. \A s \in Sends : Taken(s)' <=> Taken(s)
    BY <2>1 DEF Taken
  <2>3. \A s \in Sends : Waits(s)' <=> Waits(s) /\ IdOf[s] \notin old
    BY <2>1, WaitsErase
  <2> HIDE DEF Lone
  <2> QED BY <2>1, <2>2, <2>3 DEF AtSomePlace, UnderWay
<1>7. ASSUME NEW x \in Sends, PublishAccepted(x) \/ PublishRefused(x) PROVE AtSomePlace'
  <2>1. /\ UNCHANGED <<m_pending_map, handlers, resp200, news, missed, swept, steady, persisted, downstream>>
        /\ pc[x] = "inserted" /\ \A s \in Sends : s # x => pc'[s] = pc[s]
    BY <1>7, <1>a DEF PublishAccepted, PublishRefused
  <2> QED BY <2>1, <1>2
<1>8. ASSUME NEW x \in Sends, BusinessPersist(x) \/ BusinessRepeat(x) PROVE AtSomePlace'
  <2>1. /\ UNCHANGED <<pc, m_pending_map, handlers, resp200, news, missed, swept, steady>>
        /\ \A s \in Sends : s \in persisted' /\ downstream'[s] = 0 =>
                              s \in persisted /\ downstream[s] = 0
    BY <1>8, <1>a DEF BusinessPersist, BusinessRepeat
  <2> QED BY <2>1, <1>2
<1>9. ASSUME UNCHANGED <<pc, m_pending_map, handlers, resp200, news, missed, swept, persisted, downstream>>,
             \A s \in Sends : steady'[s] \subseteq steady[s]
      PROVE  AtSomePlace'
  BY <1>9, <1>2
<1>10. ASSUME NEW x \in Sends, LostUpstream(x) PROVE AtSomePlace'
  BY <1>10, <1>9 DEF LostUpstream
<1>11. ASSUME NEW d \in Devices, Connect(d) \/ Disconnect(d) PROVE AtSomePlace'
  BY <1>11, <1>9, <1>a DEF Connect, Disconnect
<1>12. CASE Tick \/ UNCHANGED vars
  BY <1>12, <1>9 DEF Tick, vars
<1> QED BY <1>1, <1>3, <1>4, <1>5, <1>6, <1>7, <1>8, <1>10, <1>11, <1>12 DEF Next

\* The whole invariant.
Tracked == TypeOK /\ Agree /\ AtOnePlace /\ AtSomePlace

\* It holds in every behaviour.
LEMMA AlwaysTracked == Spec => []Tracked
<1>1. Init => Tracked
  BY InitType, InitAgree, InitAtOnePlace, InitAtSomePlace DEF Tracked
<1>2. Tracked /\ [Next]_vars => Tracked'
  BY NextType, NextAgree, NextAtOnePlace, NextAtSomePlace DEF Tracked
<1> QED BY <1>1, <1>2, PTL DEF Spec

\* When the event of a request has been handled, nothing of it is under way: a
\* handler that had taken it would be at work on its event.
LEMMA AnnouncedIsDone ==
    ASSUME Tracked, NEW s \in persisted, Announced(s)
    PROVE  /\ s \in Sends /\ Lone(s) /\ ~UnderWay(s)
           /\ pc[s] = "published"
<1>1. s \in Sends /\ Lone(s) /\ pc[s] = "published" /\ ~Waits(s)
  BY DEF Tracked, TypeOK, Agree, EventsOfPublished, Announced, AtSomePlace
<1>2. ~Taken(s)
  <2> SUFFICES ASSUME NEW h \in handlers, h.pending = s PROVE FALSE
    BY DEF Taken
  <2> QED BY <1>1, TakenForm DEF Tracked, Announced
<1> QED BY <1>1, <1>2 DEF UnderWay

\* AnsweredUnlessExcused of HandleMsgSend and OnChatMsgSend: inserting before
\* publishing makes sure that the event finds the entry.
THEOREM EveryoneAnswered == Spec => []AnsweredUnlessExcused
<1>1. Tracked => AnsweredUnlessExcused
  BY AnnouncedIsDone DEF Tracked, AtSomePlace, AnsweredUnlessExcused
<1> QED BY <1>1, AlwaysTracked, PTL

\* OwnDevicesTold of OnChatMsgSend: with the entry there, the sender's other
\* devices hear of the message, even when the one that sent it has gone.
THEOREM OwnDevicesHear == Spec => []OwnDevicesTold
<1>1. Tracked => OwnDevicesTold
  BY AnnouncedIsDone DEF Tracked, AtSomePlace, OwnDevicesTold
<1> QED BY <1>1, AlwaysTracked, PTL
=============================================================================
