-------------------------- MODULE ChatSessionProofs --------------------------
(***************************************************************************)
(* The safety invariants of ChatSession hold for any connections, users,   *)
(* devices, limits and clock bound.                                        *)
(***************************************************************************)
EXTENDS ChatSession, SessionRegistryProofs

-----------------------------------------------------------------------------
(* The invariants of ChatSession.                                          *)

\* Every variable keeps its type: the table holds finitely many devices per
\* user, and pc, the clocks and the presence events stay in their ranges.  And
\* the table is well formed after every Add and every Remove.
TypeAndTable == TypeOK /\ RegistryWellFormed

\* The empty table is typed and well formed.
LEMMA InitTypeAndTable == Init => TypeAndTable
BY SessionAssumption
   DEF Init, TypeAndTable, TypeOK, RegistryType, RegistryWellFormed, WellFormed,
       EmptyMap, PCs, PresenceEvents

\* Every step of a fiber, a task or the timer keeps the types and the table: only
\* OnConnectAdd and OnCloseRemove write m_conns.
LEMMA NextTypeAndTable == TypeAndTable /\ [Next]_vars => TypeAndTable'
<1> SUFFICES ASSUME TypeAndTable, [Next]_vars
             PROVE  TypeAndTable'
  OBVIOUS
<1> USE DEF TypeAndTable
<1>1. ASSUME NEW c \in Conns, OnConnectReject(c) PROVE TypeAndTable'
  BY <1>1 DEF OnConnectReject, Goto, TypeOK, RegistryWellFormed, PCs
<1>2. ASSUME NEW c \in Conns, OnConnectCheck(c) PROVE TypeAndTable'
  BY <1>2 DEF OnConnectCheck, Goto, TypeOK, RegistryWellFormed, PCs, IsUserOnline
<1>3. ASSUME NEW c \in Conns, OnConnectAdd(c) PROVE TypeAndTable'
  <2>1. PICK t \in login_at[c]..now :
            /\ login_at' = [login_at EXCEPT ![c] = t]
            /\ idle' = [idle EXCEPT ![c] = IdleSince(t)]
    BY <1>3 DEF OnConnectAdd
  <2>2. PICK E \in EvictionChoices(WithConn(m_conns, c), login_at') :
            /\ m_conns' = Add(m_conns, c, E)
            /\ displaced' = [displaced EXCEPT ![c] = Displaced(m_conns, c, E)]
    BY <1>3 DEF OnConnectAdd
  <2>3. RegistryType(m_conns') /\ WellFormed(m_conns')
    BY <2>2, AddWellFormed DEF TypeOK, RegistryWellFormed
  <2>4. t \in 0..MaxNow /\ IdleSince(t) \in 0..HeartbeatTimeout
    BY <2>1, SessionAssumption DEF TypeOK, IdleSince
  <2>5. Displaced(m_conns, c, E) \subseteq Conns
    <3>1. Get(m_conns, c) \subseteq Conns
      BY ByDeviceType, RegistryAssumption DEF Get, TypeOK
    <3>2. E \subseteq DOMAIN WithConn(m_conns, c)
      BY DEF EvictionChoices
    <3>3. \A d \in DOMAIN WithConn(m_conns, c) : WithConn(m_conns, c)[d] \in Conns
      BY WithConnType DEF TypeOK
    <3> QED BY <3>1, <3>2, <3>3 DEF Displaced, Evicted
  <2>6. /\ login_at' \in [Conns -> 0..MaxNow]
        /\ idle' \in [Conns -> 0..HeartbeatTimeout]
    BY <2>1, <2>4 DEF TypeOK
  <2>7. pc' \in [Conns -> PCs]
    BY <1>3 DEF OnConnectAdd, Goto, TypeOK, PCs
  <2> QED BY <1>3, <2>2, <2>3, <2>5, <2>6, <2>7
          DEF OnConnectAdd, TypeOK, RegistryWellFormed
<1>4. ASSUME NEW c \in Conns, OnConnectPublish(c) PROVE TypeAndTable'
  <2>1. reported' \in [Users -> PresenceEvents] /\ refused' \subseteq Users
    <3>1. CASE first_device[c]
      BY <1>4, <3>1, RegistryAssumption
         DEF OnConnectPublish, PublishPresence, TypeOK, PresenceEvents
    <3>2. CASE ~first_device[c]
      BY <1>4, <3>2 DEF OnConnectPublish, TypeOK
    <3> QED BY <3>1, <3>2
  <2>2. pc' \in [Conns -> PCs]
    BY <1>4 DEF OnConnectPublish, Goto, TypeOK, PCs
  <2> QED BY <1>4, <2>1, <2>2 DEF OnConnectPublish, TypeOK, RegistryWellFormed
<1>5. ASSUME NEW c \in Conns, FrameReceived(c) PROVE TypeAndTable'
  BY <1>5 DEF FrameReceived, Goto, TypeOK, RegistryWellFormed, PCs
<1>6. ASSUME NEW c \in Conns, HandleFrame(c) PROVE TypeAndTable'
  BY <1>6, SessionAssumption
     DEF HandleFrame, TouchKeyOf, Goto, TypeOK, RegistryWellFormed, PCs
<1>7. ASSUME NEW c \in Conns, HandleLastFrame(c) PROVE TypeAndTable'
  BY <1>7, SessionAssumption
     DEF HandleLastFrame, TouchKeyOf, Goto, TypeOK, RegistryWellFormed, PCs
<1>8. ASSUME NEW c \in Conns, ConnectionLost(c) PROVE TypeAndTable'
  BY <1>8 DEF ConnectionLost, Goto, TypeOK, RegistryWellFormed, PCs
<1>9. ASSUME NEW c \in Conns, OnCloseRemove(c) PROVE TypeAndTable'
  <2>1. RegistryType(m_conns') /\ WellFormed(m_conns')
    BY <1>9, RemoveWellFormed DEF OnCloseRemove, TypeOK, RegistryWellFormed
  <2> QED BY <1>9, <2>1 DEF OnCloseRemove, Goto, TypeOK, RegistryWellFormed, PCs
<1>10. ASSUME NEW c \in Conns, OnCloseCheck(c) PROVE TypeAndTable'
  BY <1>10 DEF OnCloseCheck, Goto, TypeOK, RegistryWellFormed, PCs
<1>11. ASSUME NEW c \in Conns, OnClosePublish(c) PROVE TypeAndTable'
  BY <1>11, RegistryAssumption
     DEF OnClosePublish, PublishPresence, Goto, TypeOK, RegistryWellFormed, PCs, PresenceEvents
<1>12. ASSUME NEW c \in Conns, CloseTask(c) PROVE TypeAndTable'
  BY <1>12 DEF CloseTask, TypeOK, RegistryWellFormed
<1>13. CASE HeartbeatSweep
  BY <1>13 DEF HeartbeatSweep, TypeOK, RegistryWellFormed
<1>14. CASE Tick
  <2>1. now' \in 0..MaxNow
    BY <1>14, SessionAssumption DEF Tick, TypeOK
  <2>2. idle' \in [Conns -> 0..HeartbeatTimeout]
    BY <1>14, SessionAssumption DEF Tick, TypeOK
  <2> QED BY <1>14, <2>1, <2>2 DEF Tick, TypeOK, RegistryWellFormed
<1>15. CASE UNCHANGED vars
  BY <1>15 DEF vars, TypeOK, RegistryWellFormed
<1>16. ASSUME NEW c \in Conns, OnConnectKick(c) PROVE TypeAndTable'
  BY <1>16 DEF OnConnectKick, Goto, TypeOK, RegistryWellFormed, PCs
<1> QED
  BY <1>1, <1>2, <1>3, <1>4, <1>5, <1>6, <1>7, <1>8, <1>9, <1>10, <1>11, <1>12,
     <1>13, <1>14, <1>15, <1>16 DEF Next

\* Type correctness of ChatSession.
THEOREM TypeCorrect == Spec => []TypeOK
BY InitTypeAndTable, NextTypeAndTable, PTL DEF Spec, TypeAndTable

\* The registry is well formed whatever fibers interleave: no user is online
\* without a connection, none has more than MaxDevices, none is misfiled.
THEOREM TableWellFormed == Spec => []RegistryWellFormed
BY InitTypeAndTable, NextTypeAndTable, PTL DEF Spec, TypeAndTable

-----------------------------------------------------------------------------
(* No ghosts.                                                              *)

\* At the start nothing is registered.
LEMMA InitNoGhost == Init => NoGhost
BY DEF Init, NoGhost, Registered, EmptyMap

\* Only OnConnectAdd enters a connection, when it is in service; and the one
\* step that takes a connection out of service for good, OnCloseRemove, erases
\* its key, whoever is filed there.
LEMMA NextNoGhost == TypeOK /\ NoGhost /\ [Next]_vars => NoGhost'
<1> SUFFICES ASSUME TypeOK, NoGhost, [Next]_vars
             PROVE  NoGhost'
  OBVIOUS
<1>1. ASSUME NEW c \in Conns, OnConnectReject(c) PROVE NoGhost'
  BY <1>1 DEF OnConnectReject, Goto, TypeOK, NoGhost, InService, Registered
<1>2. ASSUME NEW c \in Conns, OnConnectCheck(c) PROVE NoGhost'
  BY <1>2 DEF OnConnectCheck, Goto, TypeOK, NoGhost, InService, Registered
<1>3. ASSUME NEW c \in Conns, OnConnectAdd(c) PROVE NoGhost'
  <2>1. PICK E \in SUBSET DOMAIN WithConn(m_conns, c) : m_conns' = Add(m_conns, c, E)
    BY <1>3 DEF OnConnectAdd, EvictionChoices
  <2>2. \A x \in Conns : Registered(m_conns', x) => x = c \/ Registered(m_conns, x)
    BY <2>1, AddRegistered DEF TypeOK
  <2> QED BY <1>3, <2>2 DEF OnConnectAdd, Goto, TypeOK, NoGhost, InService
<1>4. ASSUME NEW c \in Conns, OnConnectPublish(c) PROVE NoGhost'
  BY <1>4 DEF OnConnectPublish, Goto, TypeOK, NoGhost, InService, Registered
<1>5. ASSUME NEW c \in Conns, FrameReceived(c) PROVE NoGhost'
  BY <1>5 DEF FrameReceived, Goto, TypeOK, NoGhost, InService, Registered
<1>6. ASSUME NEW c \in Conns, HandleFrame(c) PROVE NoGhost'
  BY <1>6 DEF HandleFrame, Goto, TypeOK, NoGhost, InService, Registered
<1>7. ASSUME NEW c \in Conns, HandleLastFrame(c) PROVE NoGhost'
  BY <1>7 DEF HandleLastFrame, Goto, TypeOK, NoGhost, InService, Registered
<1>8. ASSUME NEW c \in Conns, ConnectionLost(c) PROVE NoGhost'
  BY <1>8 DEF ConnectionLost, Goto, TypeOK, NoGhost, InService, Registered
<1>9. ASSUME NEW c \in Conns, OnCloseRemove(c) PROVE NoGhost'
  <2>1. \A x \in Conns : Registered(m_conns', x) => Registered(m_conns, x) /\ ~SameKey(x, c)
    BY <1>9, RemoveRegistered DEF OnCloseRemove, TypeOK
  <2>2. ~Registered(m_conns', c)
    BY <2>1 DEF SameKey
  <2> QED BY <1>9, <2>1, <2>2 DEF OnCloseRemove, Goto, TypeOK, NoGhost, InService
<1>10. ASSUME NEW c \in Conns, OnCloseCheck(c) PROVE NoGhost'
  BY <1>10 DEF OnCloseCheck, Goto, TypeOK, NoGhost, InService, Registered
<1>11. ASSUME NEW c \in Conns, OnClosePublish(c) PROVE NoGhost'
  BY <1>11 DEF OnClosePublish, Goto, TypeOK, NoGhost, InService, Registered
<1>12. ASSUME NEW c \in Conns, CloseTask(c) PROVE NoGhost'
  BY <1>12 DEF CloseTask, NoGhost, InService, Registered
<1>13. CASE HeartbeatSweep
  BY <1>13 DEF HeartbeatSweep, NoGhost, InService, Registered
<1>14. CASE Tick
  BY <1>14 DEF Tick, NoGhost, InService, Registered
<1>15. CASE UNCHANGED vars
  BY <1>15 DEF vars, NoGhost, InService, Registered
<1>16. ASSUME NEW c \in Conns, OnConnectKick(c) PROVE NoGhost'
  BY <1>16 DEF OnConnectKick, Goto, TypeOK, NoGhost, InService, Registered
<1> QED
  BY <1>1, <1>2, <1>3, <1>4, <1>5, <1>6, <1>7, <1>8, <1>9, <1>10, <1>11, <1>12,
     <1>13, <1>14, <1>15, <1>16 DEF Next

\* What is filed in the table is in service or about to be removed: a closed
\* connection is never found, pushed to, or swept.
THEOREM NoGhosts == Spec => []NoGhost
BY TypeCorrect, InitNoGhost, NextNoGhost, PTL DEF Spec

-----------------------------------------------------------------------------
(* Presence.                                                               *)

\* The inductive form of PresenceSettles: somebody between Add and the end of
\* onClose is still there to report a user offline who is reported online.
PresenceBacked ==
    \A u \in Users :
        reported[u] = "online" /\ u \notin refused
            => \E c \in Conns : UserOf[c] = u /\ InTransit(c)

\* At the start nobody is reported online.
LEMMA InitPresenceBacked == Init => PresenceBacked
BY DEF Init, PresenceBacked

\* An online user has a connection that is not finished: the one the table
\* holds, which is no ghost.
LEMMA OnlineHasConn ==
    ASSUME TypeOK, RegistryWellFormed, NoGhost,
           NEW u \in Users, IsUserOnline(m_conns, u)
    PROVE  \E x \in Conns : UserOf[x] = u /\ (InService(x) \/ pc[x] = "closing")
<1>1. PICK d \in DOMAIN m_conns[u] : TRUE
  BY DEF IsUserOnline, RegistryWellFormed, WellFormed
<1>2. /\ m_conns[u][d] \in Conns
      /\ UserOf[m_conns[u][d]] = u
      /\ DeviceId(m_conns[u][d]) = d
  BY <1>1 DEF IsUserOnline, TypeOK, RegistryType, RegistryWellFormed, WellFormed
<1>3. Registered(m_conns, m_conns[u][d])
  BY <1>1, <1>2 DEF IsUserOnline, Registered
<1> QED BY <1>2, <1>3 DEF NoGhost

\* PresenceBacked is kept: the connection that carries the duty to report its user
\* offline hands it on when OnCloseCheck finds the user online.
LEMMA NextPresenceBacked ==
    TypeAndTable /\ NoGhost /\ PresenceBacked /\ [Next]_vars => PresenceBacked'
<1> SUFFICES ASSUME TypeAndTable, NoGhost, PresenceBacked, [Next]_vars
             PROVE  PresenceBacked'
  OBVIOUS
<1> USE DEF TypeAndTable
<1>1. ASSUME NEW c \in Conns, OnConnectReject(c) PROVE PresenceBacked'
  BY <1>1 DEF OnConnectReject, Goto, TypeOK, PresenceBacked, InTransit, InService
<1>2. ASSUME NEW c \in Conns, OnConnectCheck(c) PROVE PresenceBacked'
  BY <1>2 DEF OnConnectCheck, Goto, TypeOK, PresenceBacked, InTransit, InService
<1>3. ASSUME NEW c \in Conns, OnConnectAdd(c) PROVE PresenceBacked'
  BY <1>3 DEF OnConnectAdd, Goto, TypeOK, PresenceBacked, InTransit, InService
<1>4. ASSUME NEW c \in Conns, OnConnectPublish(c) PROVE PresenceBacked'
  <2>1. pc' = [pc EXCEPT ![c] = "open"] /\ pc[c] = "kicked"
    BY <1>4 DEF OnConnectPublish, Goto
  <2>2. \A x \in Conns : InTransit(x) => InTransit(x)'
    BY <2>1 DEF TypeOK, InTransit, InService
  <2>3. InTransit(c)'
    BY <2>1 DEF TypeOK, InTransit, InService
  <2>4. \A u \in Users : u # UserOf[c] => reported'[u] = reported[u]
    BY <1>4 DEF OnConnectPublish, PublishPresence, TypeOK
  <2>5. refused \subseteq refused'
    BY <1>4 DEF OnConnectPublish, PublishPresence
  <2> QED BY <2>2, <2>3, <2>4, <2>5 DEF PresenceBacked
<1>5. ASSUME NEW c \in Conns, FrameReceived(c) PROVE PresenceBacked'
  BY <1>5 DEF FrameReceived, Goto, TypeOK, PresenceBacked, InTransit, InService
<1>6. ASSUME NEW c \in Conns, HandleFrame(c) PROVE PresenceBacked'
  BY <1>6 DEF HandleFrame, Goto, TypeOK, PresenceBacked, InTransit, InService
<1>7. ASSUME NEW c \in Conns, HandleLastFrame(c) PROVE PresenceBacked'
  BY <1>7 DEF HandleLastFrame, Goto, TypeOK, PresenceBacked, InTransit, InService
<1>8. ASSUME NEW c \in Conns, ConnectionLost(c) PROVE PresenceBacked'
  BY <1>8 DEF ConnectionLost, Goto, TypeOK, PresenceBacked, InTransit, InService
<1>9. ASSUME NEW c \in Conns, OnCloseRemove(c) PROVE PresenceBacked'
  BY <1>9 DEF OnCloseRemove, Goto, TypeOK, PresenceBacked, InTransit, InService
<1>10. ASSUME NEW c \in Conns, OnCloseCheck(c) PROVE PresenceBacked'
  <2>1. CASE IsUserOnline(m_conns, UserOf[c])
    <3>1. pc' = [pc EXCEPT ![c] = "closed"] /\ pc[c] = "removed"
      BY <1>10, <2>1 DEF OnCloseCheck, Goto
    <3>2. PICK x \in Conns : UserOf[x] = UserOf[c] /\ (InService(x) \/ pc[x] = "closing")
      BY <2>1, OnlineHasConn, RegistryAssumption
    <3>3. InTransit(x)'
      BY <3>1, <3>2 DEF TypeOK, InTransit, InService
    <3>4. \A y \in Conns \ {c} : InTransit(y) => InTransit(y)'
      BY <3>1 DEF TypeOK, InTransit, InService
    <3>5. UNCHANGED <<reported, refused>>
      BY <1>10 DEF OnCloseCheck
    <3> QED BY <3>2, <3>3, <3>4, <3>5 DEF PresenceBacked
  <2>2. CASE ~IsUserOnline(m_conns, UserOf[c])
    BY <1>10, <2>2 DEF OnCloseCheck, Goto, TypeOK, PresenceBacked, InTransit, InService
  <2> QED BY <2>1, <2>2
<1>11. ASSUME NEW c \in Conns, OnClosePublish(c) PROVE PresenceBacked'
  <2>1. \A x \in Conns \ {c} : InTransit(x) => InTransit(x)'
    BY <1>11 DEF OnClosePublish, Goto, TypeOK, InTransit, InService
  <2>2. \A u \in Users : u # UserOf[c] => reported'[u] = reported[u]
    BY <1>11 DEF OnClosePublish, PublishPresence, TypeOK
  <2>3. reported'[UserOf[c]] = "offline" \/ UserOf[c] \in refused'
    BY <1>11, RegistryAssumption DEF OnClosePublish, PublishPresence, TypeOK
  <2>4. refused \subseteq refused'
    BY <1>11 DEF OnClosePublish, PublishPresence
  <2> QED BY <2>1, <2>2, <2>3, <2>4 DEF PresenceBacked
<1>12. ASSUME NEW c \in Conns, CloseTask(c) PROVE PresenceBacked'
  BY <1>12 DEF CloseTask, PresenceBacked, InTransit, InService
<1>13. CASE HeartbeatSweep
  BY <1>13 DEF HeartbeatSweep, PresenceBacked, InTransit, InService
<1>14. CASE Tick
  BY <1>14 DEF Tick, PresenceBacked, InTransit, InService
<1>15. CASE UNCHANGED vars
  BY <1>15 DEF vars, PresenceBacked, InTransit, InService
<1>16. ASSUME NEW c \in Conns, OnConnectKick(c) PROVE PresenceBacked'
  BY <1>16 DEF OnConnectKick, Goto, TypeOK, PresenceBacked, InTransit, InService
<1> QED
  BY <1>1, <1>2, <1>3, <1>4, <1>5, <1>6, <1>7, <1>8, <1>9, <1>10, <1>11, <1>12,
     <1>13, <1>14, <1>15, <1>16 DEF Next

\* A user whose connections have all gone is not left reported online.
THEOREM PresenceSettled == Spec => []PresenceSettles
<1>1. PresenceBacked => PresenceSettles
  BY DEF PresenceBacked, PresenceSettles
<1> QED
  BY <1>1, NoGhosts, InitTypeAndTable, NextTypeAndTable, InitPresenceBacked,
     NextPresenceBacked, PTL DEF Spec

-----------------------------------------------------------------------------
(* Orphans.                                                                *)

\* At the start no connection is in service.
LEMMA InitOrphan == Init => OrphanOnlyByKeyCollision
BY DEF Init, OrphanOnlyByKeyCollision, InService

\* What Add hands back is held from Add to the scheduling of its closing, so that
\* no Add overwrites what another call has yet to close.
HandedOver == \A c \in Conns : displaced[c] # {} => pc[c] = "added"

\* At the start no login has anything to close.
LEMMA InitHandedOver == Init => HandedOver
BY DEF Init, HandedOver

\* OnConnectAdd fills displaced and OnConnectKick empties it.
LEMMA NextHandedOver == TypeOK /\ HandedOver /\ [Next]_vars => HandedOver'
<1> SUFFICES ASSUME TypeOK, HandedOver, [Next]_vars PROVE HandedOver'
  OBVIOUS
<1>1. ASSUME NEW c \in Conns, OnConnectAdd(c) \/ OnConnectKick(c) PROVE HandedOver'
  BY <1>1 DEF OnConnectAdd, OnConnectKick, Goto, TypeOK, HandedOver
<1>2. ASSUME NEW c \in Conns,
             \/ OnConnectReject(c) \/ OnConnectCheck(c) \/ OnConnectPublish(c)
             \/ FrameReceived(c) \/ HandleFrame(c) \/ HandleLastFrame(c)
             \/ ConnectionLost(c) \/ OnCloseRemove(c) \/ OnCloseCheck(c)
             \/ OnClosePublish(c) \/ CloseTask(c)
      PROVE  HandedOver'
  <2>1. displaced' = displaced
    BY <1>2 DEF OnConnectReject, OnConnectCheck, OnConnectPublish, FrameReceived,
       HandleFrame, HandleLastFrame, ConnectionLost, OnCloseRemove, OnCloseCheck,
       OnClosePublish, CloseTask
  <2>2. \A x \in Conns : pc[x] = "added" => pc'[x] = "added"
    BY <1>2 DEF OnConnectReject, OnConnectCheck, OnConnectPublish, FrameReceived,
       HandleFrame, HandleLastFrame, ConnectionLost, OnCloseRemove, OnCloseCheck,
       OnClosePublish, CloseTask, Goto, TypeOK
  <2> QED BY <2>1, <2>2 DEF HandedOver
<1>3. CASE HeartbeatSweep \/ Tick \/ UNCHANGED vars
  BY <1>3 DEF HeartbeatSweep, Tick, vars, HandedOver
<1> QED BY <1>1, <1>2, <1>3 DEF Next

\* A connection leaves the table while in service in two ways: Add displaces
\* it, and then the login has it to close; or Remove is called for its key.
LEMMA NextOrphan ==
    /\ TypeOK /\ HandedOver /\ OrphanOnlyByKeyCollision
    /\ [Next]_vars
    => OrphanOnlyByKeyCollision'
<1> SUFFICES ASSUME TypeOK, HandedOver, OrphanOnlyByKeyCollision, [Next]_vars
             PROVE  OrphanOnlyByKeyCollision'
  OBVIOUS
<1>0. TypeOK /\ HandedOver
  OBVIOUS
<1>1. ASSUME NEW c \in Conns, OnConnectReject(c) PROVE OrphanOnlyByKeyCollision'
  BY <1>1 DEF OnConnectReject, Goto, TypeOK, OrphanOnlyByKeyCollision, InService, Dismissed, Registered, SameKey
<1>2. ASSUME NEW c \in Conns, OnConnectCheck(c) PROVE OrphanOnlyByKeyCollision'
  BY <1>2 DEF OnConnectCheck, Goto, TypeOK, OrphanOnlyByKeyCollision, InService, Dismissed, Registered, SameKey
<1>3. ASSUME NEW c \in Conns, OnConnectAdd(c) PROVE OrphanOnlyByKeyCollision'
  <2>1. PICK E \in SUBSET DOMAIN WithConn(m_conns, c) :
            /\ m_conns' = Add(m_conns, c, E)
            /\ displaced' = [displaced EXCEPT ![c] = Displaced(m_conns, c, E)]
    BY <1>3 DEF OnConnectAdd, EvictionChoices
  <2>2. \A x \in Conns : x = c \/ Registered(m_conns, x) =>
            Registered(m_conns', x) \/ x \in displaced'[c]
    BY <2>1, AddRegistered DEF TypeOK
  <2>3. /\ pc' = [pc EXCEPT ![c] = "added"] /\ pc[c] = "checked"
        /\ UNCHANGED <<tasks, cut>>
    BY <1>3 DEF OnConnectAdd, Goto
  <2>4. \A x \in Conns : Dismissed(x) => Dismissed(x)'
    BY <2>1, <2>3, <1>0 DEF TypeOK, HandedOver, Dismissed
  <2> QED BY <2>2, <2>3, <2>4
          DEF TypeOK, OrphanOnlyByKeyCollision, InService, Dismissed
<1>4. ASSUME NEW c \in Conns, OnConnectPublish(c) PROVE OrphanOnlyByKeyCollision'
  BY <1>4 DEF OnConnectPublish, Goto, TypeOK, OrphanOnlyByKeyCollision, InService, Dismissed, Registered, SameKey
<1>5. ASSUME NEW c \in Conns, FrameReceived(c) PROVE OrphanOnlyByKeyCollision'
  BY <1>5 DEF FrameReceived, Goto, TypeOK, OrphanOnlyByKeyCollision, InService, Dismissed, Registered, SameKey
<1>6. ASSUME NEW c \in Conns, HandleFrame(c) PROVE OrphanOnlyByKeyCollision'
  BY <1>6 DEF HandleFrame, Goto, TypeOK, OrphanOnlyByKeyCollision, InService, Dismissed, Registered, SameKey
<1>7. ASSUME NEW c \in Conns, HandleLastFrame(c) PROVE OrphanOnlyByKeyCollision'
  BY <1>7 DEF HandleLastFrame, Goto, TypeOK, OrphanOnlyByKeyCollision, InService, Dismissed, Registered, SameKey
<1>8. ASSUME NEW c \in Conns, ConnectionLost(c) PROVE OrphanOnlyByKeyCollision'
  BY <1>8 DEF ConnectionLost, Goto, TypeOK, OrphanOnlyByKeyCollision, InService, Dismissed, Registered, SameKey
<1>9. ASSUME NEW c \in Conns, OnCloseRemove(c) PROVE OrphanOnlyByKeyCollision'
  <2>1. \A x \in Conns : Registered(m_conns, x) => Registered(m_conns', x) \/ SameKey(x, c)
    BY <1>9, RemoveRegistered DEF OnCloseRemove, TypeOK
  <2> QED BY <1>9, <2>1
          DEF OnCloseRemove, Goto, TypeOK, OrphanOnlyByKeyCollision, InService, Dismissed, SameKey
<1>10. ASSUME NEW c \in Conns, OnCloseCheck(c) PROVE OrphanOnlyByKeyCollision'
  BY <1>10 DEF OnCloseCheck, Goto, TypeOK, OrphanOnlyByKeyCollision, InService, Dismissed, Registered, SameKey
<1>11. ASSUME NEW c \in Conns, OnClosePublish(c) PROVE OrphanOnlyByKeyCollision'
  BY <1>11 DEF OnClosePublish, Goto, TypeOK, OrphanOnlyByKeyCollision, InService, Dismissed, Registered, SameKey
<1>12. ASSUME NEW c \in Conns, CloseTask(c) PROVE OrphanOnlyByKeyCollision'
  BY <1>12 DEF CloseTask, OrphanOnlyByKeyCollision, InService, Dismissed, Registered, SameKey
<1>13. CASE HeartbeatSweep
  BY <1>13 DEF HeartbeatSweep, OrphanOnlyByKeyCollision, InService, Dismissed
<1>14. CASE Tick
  BY <1>14 DEF Tick, OrphanOnlyByKeyCollision, InService, Dismissed
<1>15. CASE UNCHANGED vars
  BY <1>15 DEF vars, OrphanOnlyByKeyCollision, InService, Dismissed
<1>16. ASSUME NEW c \in Conns, OnConnectKick(c) PROVE OrphanOnlyByKeyCollision'
  <2>1. \A x \in Conns : Dismissed(x) => Dismissed(x)'
    BY <1>16 DEF OnConnectKick, TypeOK, Dismissed
  <2> QED BY <1>16, <2>1
          DEF OnConnectKick, Goto, TypeOK, OrphanOnlyByKeyCollision, InService, Registered
<1> QED
  BY <1>1, <1>2, <1>3, <1>4, <1>5, <1>6, <1>7, <1>8, <1>9, <1>10, <1>11, <1>12,
     <1>13, <1>14, <1>15, <1>16 DEF Next

\* A connection in service is in the table, or has been told to close or is about
\* to be, or an older connection with its key has run onClose.
THEOREM Orphans == Spec => []OrphanOnlyByKeyCollision
BY TypeCorrect, InitHandedOver, NextHandedOver, InitOrphan, NextOrphan, PTL DEF Spec

-----------------------------------------------------------------------------
(* What one login displaces.                                               *)

\* The connection that passes Add is the one whose step this is.
LEMMA AddedByItself ==
    ASSUME TypeOK, [Next]_vars, NEW c \in Conns, pc[c] = "checked", pc'[c] = "added"
    PROVE  OnConnectAdd(c)
<1>1. pc \in [Conns -> PCs]
  BY DEF TypeOK
<1>2. ASSUME NEW x \in Conns, OnConnectAdd(x) PROVE OnConnectAdd(c)
  BY <1>1, <1>2 DEF OnConnectAdd, Goto
<1>3. ASSUME NEW x \in Conns,
             \/ OnConnectReject(x) \/ OnConnectCheck(x) \/ OnConnectKick(x)
             \/ OnConnectPublish(x) \/ FrameReceived(x) \/ HandleFrame(x) \/ HandleLastFrame(x)
             \/ ConnectionLost(x) \/ OnCloseRemove(x) \/ OnCloseCheck(x)
             \/ OnClosePublish(x) \/ CloseTask(x)
      PROVE  FALSE
  BY <1>1, <1>3 DEF OnConnectReject, OnConnectCheck, OnConnectKick, OnConnectPublish,
     FrameReceived, HandleFrame, HandleLastFrame, ConnectionLost, OnCloseRemove, OnCloseCheck,
     OnClosePublish, CloseTask, Goto
<1>4. ~(HeartbeatSweep \/ Tick \/ UNCHANGED vars)
  BY DEF HeartbeatSweep, Tick, vars
<1> QED BY <1>2, <1>3, <1>4 DEF Next

\* One login displaces at most one connection.
THEOREM OneDisplaced == Spec => DisplacesAtMostOne
<1>1. ASSUME TypeAndTable, [Next]_vars
      PROVE  \A c \in Conns : pc[c] = "checked" /\ pc'[c] = "added" =>
                \E x \in Conns : displaced'[c] \subseteq {x}
  <2> SUFFICES ASSUME NEW c \in Conns, pc[c] = "checked", pc'[c] = "added"
               PROVE  \E x \in Conns : displaced'[c] \subseteq {x}
    OBVIOUS
  <2>1. OnConnectAdd(c)
    BY <1>1, AddedByItself DEF TypeAndTable
  <2>2. PICK E \in EvictionChoices(WithConn(m_conns, c), login_at') :
            displaced'[c] = Displaced(m_conns, c, E)
    BY <1>1, <2>1 DEF OnConnectAdd, TypeAndTable, TypeOK
  <2>3. RegistryType(m_conns) /\ WellFormed(m_conns)
    BY <1>1 DEF TypeAndTable, TypeOK, RegistryWellFormed
  <2> QED BY <2>2, <2>3, DisplacedIsSingle
<1> QED
  BY <1>1, TypeCorrect, TableWellFormed, PTL DEF Spec, DisplacesAtMostOne, TypeAndTable
=============================================================================
