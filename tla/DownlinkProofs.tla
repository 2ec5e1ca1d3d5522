---------------------------- MODULE DownlinkProofs ----------------------------
(***************************************************************************)
(* The safety invariants of Downlink hold for any connections, users,      *)
(* devices, events and device limit, and for every order of the tasks.     *)
(***************************************************************************)
EXTENDS Downlink, SessionRegistryProofs

-----------------------------------------------------------------------------
(* Types and the table.                                                    *)

\* Every variable keeps its type, and the table is well formed, which the
\* snapshots of PushToUser rely on.
TypeAndTable == TypeOK /\ WellFormed(m_conns)

\* Nothing is scheduled, written or registered at the start.
LEMMA InitTypeAndTable == Init => TypeAndTable
BY DEF Init, TypeAndTable, TypeOK, RegistryType, WellFormed, EmptyMap

\* One more task or frame in a table of counts.
LEMMA CountUp ==
    ASSUME NEW t \in [Conns -> [Frames -> Nat]], NEW c \in Conns, NEW f \in Frames
    PROVE  /\ [t EXCEPT ![c][f] = @ + 1] \in [Conns -> [Frames -> Nat]]
           /\ \A x \in Conns, g \in Frames :
                 [t EXCEPT ![c][f] = @ + 1][x][g] =
                    IF x = c /\ g = f THEN t[x][g] + 1 ELSE t[x][g]
<1>1. t[c] \in [Frames -> Nat] /\ t[c][f] + 1 \in Nat
  OBVIOUS
<1>2. [t[c] EXCEPT ![f] = t[c][f] + 1] \in [Frames -> Nat]
  BY <1>1
<1> QED BY <1>1, <1>2

\* One task less.
LEMMA CountDown ==
    ASSUME NEW t \in [Conns -> [Frames -> Nat]], NEW c \in Conns, NEW f \in Frames,
           t[c][f] > 0
    PROVE  /\ [t EXCEPT ![c][f] = @ - 1] \in [Conns -> [Frames -> Nat]]
           /\ \A x \in Conns, g \in Frames :
                 [t EXCEPT ![c][f] = @ - 1][x][g] =
                    IF x = c /\ g = f THEN t[x][g] - 1 ELSE t[x][g]
<1>1. t[c] \in [Frames -> Nat] /\ t[c][f] - 1 \in Nat
  OBVIOUS
<1>2. [t[c] EXCEPT ![f] = t[c][f] - 1] \in [Frames -> Nat]
  BY <1>1
<1> QED BY <1>1, <1>2

\* What GetByUser returns is connections.
LEMMA GetByUserType ==
    ASSUME TypeOK, NEW u \in Users
    PROVE  GetByUser(u) \in SUBSET Conns
BY ByDeviceType DEF TypeOK, GetByUser

\* Every step keeps the types and the table: OnConnectAdd and OnClose write the
\* table by Add and Remove, the others count tasks and frames.
LEMMA NextTypeAndTable == TypeAndTable /\ [Next]_vars => TypeAndTable'
<1> SUFFICES ASSUME TypeAndTable, [Next]_vars PROVE TypeAndTable'
  OBVIOUS
<1> USE DEF TypeAndTable
<1>1. ASSUME NEW c \in Conns, OnConnectAdd(c) PROVE TypeAndTable'
  <2>1. PICK E \in EvictionChoices(WithConn(m_conns, c), [x \in Conns |-> 0]) :
            /\ m_conns' = Add(m_conns, c, E)
            /\ due' = [due EXCEPT ![c] = (Get(m_conns, c) \X {"login_elsewhere"})
                                 \cup (Evicted(m_conns, c, E) \X {"too_many_devices"})]
    BY <1>1 DEF OnConnectAdd
  <2>2. RegistryType(m_conns') /\ WellFormed(m_conns')
    BY <2>1, AddWellFormed DEF TypeOK
  <2>3. Get(m_conns, c) \in SUBSET Conns /\ Evicted(m_conns, c, E) \in SUBSET Conns
    <3>1. Get(m_conns, c) \subseteq Conns
      BY ByDeviceType, RegistryAssumption DEF Get, TypeOK
    <3>2. E \subseteq DOMAIN WithConn(m_conns, c)
      BY DEF EvictionChoices
    <3>3. \A d \in DOMAIN WithConn(m_conns, c) : WithConn(m_conns, c)[d] \in Conns
      BY WithConnType DEF TypeOK
    <3> QED BY <3>1, <3>2, <3>3 DEF Evicted
  <2>4. due' \in [Conns -> SUBSET (Conns \X Kicks)]
    <3> DEFINE G == Get(m_conns, c)
               V == Evicted(m_conns, c, E)
    <3> HIDE DEF G, V
    <3>1. (G \X {"login_elsewhere"}) \cup (V \X {"too_many_devices"}) \in SUBSET (Conns \X Kicks)
      BY <2>3 DEF Kicks, G, V
    <3> QED BY <2>1, <3>1 DEF TypeOK, G, V
  <2> QED BY <1>1, <2>2, <2>4 DEF OnConnectAdd, Goto, TypeOK
<1>8. ASSUME NEW c \in Conns, OnConnectKick(c) PROVE TypeAndTable'
  <2>1. tasks' \in [Conns -> [Frames -> Nat]]
    BY <1>8 DEF OnConnectKick, TypeOK
  <2>2. due' \in [Conns -> SUBSET (Conns \X Kicks)]
    BY <1>8 DEF OnConnectKick, TypeOK
  <2> QED BY <1>8, <2>1, <2>2 DEF OnConnectKick, Goto, TypeOK
<1>2. ASSUME NEW c \in Conns, Leave(c) PROVE TypeAndTable'
  BY <1>2 DEF Leave, Goto, TypeOK
<1>3. ASSUME NEW c \in Conns, OnClose(c) PROVE TypeAndTable'
  <2>1. RegistryType(m_conns') /\ WellFormed(m_conns')
    BY <1>3, RemoveWellFormed DEF OnClose, TypeOK
  <2> QED BY <1>3, <2>1 DEF OnClose, Goto, TypeOK
<1>4. ASSUME NEW e \in Events, HandleEvent(e) PROVE TypeAndTable'
  <2>1. GetByUser(AddresseeOf[e]) \in SUBSET Conns
    BY GetByUserType, DownlinkAssumption
  <2> QED BY <1>4, <2>1 DEF HandleEvent, TypeOK
<1>5. ASSUME NEW e \in Events, SchedulePush(e) PROVE TypeAndTable'
  <2>1. PICK c \in todo[e] :
            /\ tasks' = [tasks EXCEPT ![c][e] = @ + 1]
            /\ todo' = [todo EXCEPT ![e] = @ \ {c}]
    BY <1>5 DEF SchedulePush
  <2>2. c \in Conns /\ e \in Frames
    BY DEF TypeOK, Frames
  <2>3. tasks' \in [Conns -> [Frames -> Nat]]
    BY <2>1, <2>2, CountUp DEF TypeOK
  <2>4. todo' \in [Events -> SUBSET Conns]
    BY <2>1 DEF TypeOK
  <2> QED BY <1>5, <2>3, <2>4 DEF SchedulePush, TypeOK
<1>6. ASSUME NEW c \in Conns, NEW f \in Frames, RunTask(c, f) PROVE TypeAndTable'
  <2>1. tasks' \in [Conns -> [Frames -> Nat]]
    BY <1>6, CountDown DEF RunTask, TypeOK
  <2>2. heard' \in [Conns -> [Frames -> Nat]] /\ open' \subseteq Conns
    <3>1. CASE f # "close" /\ c \in open
      <4>1. heard' = [heard EXCEPT ![c][f] = @ + 1] /\ open' = open
        BY <1>6, <3>1 DEF RunTask, Write
      <4>2. [heard EXCEPT ![c][f] = @ + 1] \in [Conns -> [Frames -> Nat]]
        BY CountUp DEF TypeOK
      <4> QED BY <4>1, <4>2 DEF TypeOK
    <3>2. CASE f = "close" \/ c \notin open
      BY <1>6, <3>2 DEF RunTask, Write, TypeOK
    <3> QED BY <3>1, <3>2
  <2> QED BY <1>6, <2>1, <2>2 DEF RunTask, TypeOK
<1>7. CASE UNCHANGED vars
  BY <1>7 DEF vars, TypeOK
<1> QED BY <1>1, <1>2, <1>3, <1>4, <1>5, <1>6, <1>7, <1>8 DEF Next

\* Whatever tasks run in whatever order, what is scheduled, written and snapshot
\* keeps its type, and the table, which any number of logins and hang-ups write
\* meanwhile, stays well formed.
THEOREM TypeCorrect == Spec => [](TypeOK /\ WellFormed(m_conns))
<1>1. TypeAndTable => TypeOK /\ WellFormed(m_conns)
  BY DEF TypeAndTable
<1> QED BY <1>1, InitTypeAndTable, NextTypeAndTable, PTL DEF Spec

-----------------------------------------------------------------------------
(* One copy per device.                                                    *)

\* The connections an event is on the way to or has come to.
Reached(e) == {c \in Conns : c \in todo[e] \/ tasks[c][e] > 0 \/ heard[c][e] > 0}

\* A set of connections of which no two are one device's, within the limit.
Distinct(S, u) ==
    /\ \A c \in S : UserOf[c] = u
    /\ \A c, x \in S : SameKey(c, x) => c = x
    /\ IsFiniteSet(S)
    /\ Cardinality(S) =< MaxDevices

\* The inductive form of OneCopyPerDevice, which counts what is on the way: an
\* event that has not been handled is on the way to nobody, and one that has
\* is to the snapshot at most, once to each.
OneOnTheWay ==
    \A e \in Events :
        /\ e \in pending => Reached(e) = {}
        /\ \A c \in Conns :
              /\ tasks[c][e] + heard[c][e] =< 1
              /\ c \in todo[e] => tasks[c][e] + heard[c][e] = 0
        /\ Distinct(Reached(e), AddresseeOf[e])

\* Part of such a set is such a set.
LEMMA DistinctSubset ==
    ASSUME NEW S, NEW T \in SUBSET S, NEW u, Distinct(S, u)
    PROVE  Distinct(T, u)
BY FS_Subset, FS_CardinalityType, RegistryAssumption DEF Distinct

\* The connections of a user in a well-formed table are such a set: each is
\* filed under its own device, of which there are at most MaxDevices.
LEMMA SnapshotDistinct ==
    ASSUME TypeAndTable, NEW u \in Users
    PROVE  Distinct(GetByUser(u), u)
<1> DEFINE inner == ByDevice(m_conns, u)
           S == GetByUser(u)
           device == [c \in S |-> DeviceId(c)]
<1>1. IsFiniteSet(DOMAIN inner)
  BY ByDeviceType DEF TypeAndTable, TypeOK
<1>2. Cardinality(DOMAIN inner) =< MaxDevices /\ Cardinality(DOMAIN inner) \in Nat
  <2>1. CASE u \in DOMAIN m_conns
    BY <1>1, <2>1, FS_CardinalityType DEF ByDevice, TypeAndTable, WellFormed
  <2>2. CASE u \notin DOMAIN m_conns
    BY <2>2, FS_EmptySet, RegistryAssumption DEF ByDevice, EmptyMap
  <2> QED BY <2>1, <2>2
<1>3. \A d \in DOMAIN inner : UserOf[inner[d]] = u /\ DeviceId(inner[d]) = d
  BY DEF ByDevice, EmptyMap, TypeAndTable, WellFormed
<1>4. \A c \in S : UserOf[c] = u /\ DeviceId(c) \in DOMAIN inner /\ inner[DeviceId(c)] = c
  BY <1>3 DEF GetByUser
<1>5. \A c, x \in S : SameKey(c, x) => c = x
  BY <1>4 DEF SameKey
<1>6. device \in Injection(S, DOMAIN inner)
  <2> HIDE DEF S, inner
  <2>1. device \in [S -> DOMAIN inner]
    BY <1>4
  <2>2. \A c, x \in S : device[c] = device[x] => c = x
    BY <1>4
  <2> HIDE DEF device
  <2> QED BY <2>1, <2>2 DEF Injection, IsInjective
<1>7. IsFiniteSet(S) /\ Cardinality(S) =< Cardinality(DOMAIN inner)
  BY <1>1, <1>6, FS_Injection
<1>8. Cardinality(S) =< MaxDevices
  BY <1>2, <1>7, FS_CardinalityType, RegistryAssumption
<1> QED BY <1>4, <1>5, <1>7, <1>8 DEF Distinct

\* No event is on the way at the start.
LEMMA InitOneOnTheWay == Init => OneOnTheWay
<1> SUFFICES ASSUME Init, NEW e \in Events
             PROVE  /\ Reached(e) = {}
                    /\ \A c \in Conns : tasks[c][e] + heard[c][e] = 0 /\ c \notin todo[e]
                    /\ Distinct(Reached(e), AddresseeOf[e])
  BY DEF OneOnTheWay
<1>1. \A c \in Conns : tasks[c][e] = 0 /\ heard[c][e] = 0 /\ c \notin todo[e]
  BY DEF Init, Frames
<1>2. Reached(e) = {}
  BY <1>1 DEF Reached
<1> QED BY <1>1, <1>2, FS_EmptySet, RegistryAssumption DEF Distinct

\* A step that brings an event nearer to nobody new keeps OneOnTheWay for it.
LEMMA StaysOnTheWay ==
    ASSUME OneOnTheWay, NEW e \in Events,
           Reached(e)' \subseteq Reached(e),
           e \in pending' => e \in pending,
           \A c \in Conns :
              /\ (tasks[c][e] + heard[c][e])' =< 1
              /\ c \in todo'[e] => (tasks[c][e] + heard[c][e])' = 0
    PROVE  /\ e \in pending' => Reached(e)' = {}
           /\ \A c \in Conns :
                 /\ (tasks[c][e] + heard[c][e])' =< 1
                 /\ c \in todo'[e] => (tasks[c][e] + heard[c][e])' = 0
           /\ Distinct(Reached(e)', AddresseeOf[e])
<1>1. Distinct(Reached(e), AddresseeOf[e])
  BY DEF OneOnTheWay
<1>2. Distinct(Reached(e)', AddresseeOf[e])
  BY <1>1, DistinctSubset
<1> QED BY <1>2 DEF OneOnTheWay

\* No event is a "kicked" or a close.
LEMMA EventsAreFrames == Events \subseteq Frames /\ \A r \in Kicks \cup {"close"} : r \notin Events
BY DownlinkAssumption DEF Frames

\* OneOnTheWay is kept: only HandleEvent sends an event on its way, to the
\* connections of the table at that moment; a push is scheduled for one of them
\* that is not worked through, and its task writes or fails.
LEMMA NextOneOnTheWay == TypeAndTable /\ OneOnTheWay /\ [Next]_vars => OneOnTheWay'
<1> SUFFICES ASSUME TypeAndTable, OneOnTheWay, [Next]_vars, NEW e \in Events
             PROVE  /\ e \in pending' => Reached(e)' = {}
                    /\ \A c \in Conns :
                          /\ (tasks[c][e] + heard[c][e])' =< 1
                          /\ c \in todo'[e] => (tasks[c][e] + heard[c][e])' = 0
                    /\ Distinct(Reached(e)', AddresseeOf[e])
  BY DEF OneOnTheWay
<1> DEFINE Kept == /\ Reached(e)' \subseteq Reached(e)
                   /\ e \in pending' => e \in pending
                   /\ \A c \in Conns :
                         /\ (tasks[c][e] + heard[c][e])' =< 1
                         /\ c \in todo'[e] => (tasks[c][e] + heard[c][e])' = 0
<1>0. /\ e \in pending => Reached(e) = {}
      /\ \A c \in Conns :
            /\ tasks[c][e] \in Nat /\ heard[c][e] \in Nat
            /\ tasks[c][e] + heard[c][e] =< 1
            /\ c \in todo[e] => tasks[c][e] + heard[c][e] = 0
      /\ e \in Frames
      /\ TypeOK
  BY EventsAreFrames DEF OneOnTheWay, TypeAndTable, TypeOK
<1>1. ASSUME NEW c \in Conns, OnConnectAdd(c) PROVE Kept
  BY <1>0, <1>1 DEF OnConnectAdd, Reached
<1>10. ASSUME NEW c \in Conns, OnConnectKick(c) PROVE Kept
  <2>1. tasks' = [x \in Conns |-> [f \in Frames |->
                    tasks[x][f] + (IF f \in Notice(x, c) THEN 1 ELSE 0)]]
    BY <1>10 DEF OnConnectKick
  <2>2. \A x \in Conns : e \notin Notice(x, c)
    BY EventsAreFrames DEF Notice
  <2>3. \A x \in Conns : tasks'[x][e] = tasks[x][e]
    BY <1>0, <2>1, <2>2
  <2> QED BY <1>0, <1>10, <2>3 DEF OnConnectKick, Reached
<1>2. ASSUME NEW c \in Conns, Leave(c) PROVE Kept
  BY <1>0, <1>2 DEF Leave, Reached
<1>3. ASSUME NEW c \in Conns, OnClose(c) PROVE Kept
  BY <1>0, <1>3 DEF OnClose, Reached
<1>4. ASSUME NEW x \in Events, HandleEvent(x), x # e PROVE Kept
  BY <1>0, <1>4 DEF HandleEvent, Reached, TypeOK
<1>5. ASSUME NEW x \in Events, SchedulePush(x) PROVE Kept
  <2>1. PICK c \in todo[x] :
            /\ tasks' = [tasks EXCEPT ![c][x] = @ + 1]
            /\ todo' = [todo EXCEPT ![x] = @ \ {c}]
    BY <1>5 DEF SchedulePush
  <2>2. c \in Conns /\ x \in Frames
    BY <1>0, EventsAreFrames DEF TypeOK
  <2>3. \A y \in Conns : tasks'[y][e] = IF y = c /\ e = x THEN tasks[y][e] + 1 ELSE tasks[y][e]
    BY <1>0, <2>1, <2>2, CountUp DEF TypeOK
  <2>4. todo'[e] = IF e = x THEN todo[e] \ {c} ELSE todo[e]
    BY <1>0, <2>1 DEF TypeOK
  <2>5. UNCHANGED <<pending, heard>>
    BY <1>5 DEF SchedulePush
  <2>6. \A y \in Conns : y = c /\ e = x => y \in todo[e]
    BY <2>1
  <2>7. Reached(e)' \subseteq Reached(e)
    BY <1>0, <2>3, <2>4, <2>5, <2>6 DEF Reached
  <2> QED BY <1>0, <2>3, <2>4, <2>5, <2>6, <2>7
<1>6. ASSUME NEW c \in Conns, NEW f \in Frames, RunTask(c, f) PROVE Kept
  <2>1. tasks[c][f] > 0
    BY <1>6 DEF RunTask
  <2>2. \A y \in Conns : tasks'[y][e] = IF y = c /\ e = f THEN tasks[y][e] - 1 ELSE tasks[y][e]
    BY <1>0, <1>6, <2>1, CountDown DEF RunTask, TypeOK
  <2>3. \A y \in Conns :
            \/ heard'[y][e] = heard[y][e]
            \/ y = c /\ e = f /\ heard'[y][e] = heard[y][e] + 1
    <3>1. CASE f # "close" /\ c \in open
      BY <1>0, <1>6, <3>1, CountUp DEF RunTask, Write, TypeOK
    <3>2. CASE f = "close" \/ c \notin open
      BY <1>0, <1>6, <3>2 DEF RunTask, Write
    <3> QED BY <3>1, <3>2
  <2>4. UNCHANGED <<pending, todo>>
    BY <1>6 DEF RunTask
  <2>5. Reached(e)' \subseteq Reached(e)
    BY <1>0, <2>1, <2>2, <2>3, <2>4 DEF Reached
  <2> QED BY <1>0, <2>1, <2>2, <2>3, <2>4, <2>5
<1>7. ASSUME UNCHANGED vars PROVE Kept
  <2>1. UNCHANGED <<pending, todo, tasks, heard>>
    BY <1>7 DEF vars
  <2>2. Reached(e)' = Reached(e)
    BY <2>1 DEF Reached
  <2> QED BY <1>0, <2>1, <2>2
<1>8. CASE HandleEvent(e)
  <2>1. /\ \A c \in Conns : tasks'[c][e] = 0 /\ heard'[c][e] = 0
        /\ e \notin pending'
        /\ todo'[e] = GetByUser(AddresseeOf[e])
    BY <1>0, <1>8 DEF HandleEvent, Reached, TypeOK
  <2>2. GetByUser(AddresseeOf[e]) \in SUBSET Conns
    BY <1>0, GetByUserType, DownlinkAssumption
  <2>3. Reached(e)' = GetByUser(AddresseeOf[e])
    BY <2>1, <2>2 DEF Reached
  <2>4. Distinct(GetByUser(AddresseeOf[e]), AddresseeOf[e])
    BY SnapshotDistinct, DownlinkAssumption
  <2> QED BY <2>1, <2>3, <2>4
<1>9. HandleEvent(e) \/ Kept
  <2> HIDE DEF Kept
  <2> QED BY <1>1, <1>2, <1>3, <1>4, <1>5, <1>6, <1>7, <1>10 DEF Next
<1> QED BY <1>8, <1>9, StaysOnTheWay

\* No device gets an event twice, and no more devices get it than a user may
\* have, whatever logins and hang-ups fall between its snapshot and its tasks.
THEOREM OneCopy == Spec => []OneCopyPerDevice
<1>1. TypeOK /\ OneOnTheWay => OneCopyPerDevice
  <2> SUFFICES ASSUME TypeOK, OneOnTheWay, NEW e \in Events
               PROVE  LET told == {c \in Conns : heard[c][e] > 0}
                      IN  /\ \A c \in told : heard[c][e] = 1 /\ UserOf[c] = AddresseeOf[e]
                          /\ \A c, x \in told : SameKey(c, x) => c = x
                          /\ Cardinality(told) =< MaxDevices
    BY DEF OneCopyPerDevice
  <2> DEFINE told == {c \in Conns : heard[c][e] > 0}
  <2>1. told \subseteq Reached(e)
    BY DEF Reached
  <2>2. Distinct(told, AddresseeOf[e])
    BY <2>1, DistinctSubset DEF OneOnTheWay
  <2>3. \A c \in told : heard[c][e] = 1
    <3> SUFFICES ASSUME NEW c \in Conns, heard[c][e] > 0 PROVE heard[c][e] = 1
      OBVIOUS
    <3>1. heard[c][e] \in Nat /\ tasks[c][e] \in Nat
      BY EventsAreFrames DEF TypeOK
    <3>2. tasks[c][e] + heard[c][e] =< 1
      BY DEF OneOnTheWay
    <3> QED BY <3>1, <3>2
  <2> QED BY <2>2, <2>3 DEF Distinct
<1> QED
  BY <1>1, InitTypeAndTable, NextTypeAndTable, InitOneOnTheWay, NextOneOnTheWay, PTL
     DEF Spec, TypeAndTable

-----------------------------------------------------------------------------
(* Kicked for cause.                                                       *)

\* How often x was told r, or a task will tell it.
Told(x, r) == tasks[x][r] + heard[x][r]

\* The login of c has to tell x r.
Owes(c, x, r) == <<x, r>> \in due[c]

\* x was told r, or will be.
Marked(x, r) == Told(x, r) > 0 \/ \E c \in Conns : Owes(c, x, r)

\* What a login has to tell is its own to tell, once, and not told before.
DueOnce ==
    \A c \in Conns :
        /\ pc[c] # "added" => due[c] = {}
        /\ \A x \in Conns, r \in Kicks :
              Owes(c, x, r) => Told(x, r) = 0 /\ \A d \in Conns : Owes(d, x, r) => d = c

\* The inductive form of KickedForCause for x: in addition, it counts the kicks
\* that are due, and a connection that has not logged in is neither listed nor
\* kicked.
KickSettled(x) ==
    /\ pc[x] = "idle" => ~Registered(m_conns, x) /\ \A r \in Kicks : ~Marked(x, r)
    /\ \A r \in Kicks : Told(x, r) =< 1
    /\ \A r, s \in Kicks : Marked(x, r) /\ Marked(x, s) => r = s
    /\ \A r \in Kicks : Marked(x, r) => ~Registered(m_conns, x)
    /\ Marked(x, "login_elsewhere") =>
          \E c \in Conns \ {x} : SameKey(c, x) /\ pc[c] # "idle"

KicksSettled == DueOnce /\ \A x \in Conns : KickSettled(x)

\* Nobody is kicked or listed at the start.
LEMMA InitKicksSettled == Init => KicksSettled
<1> SUFFICES ASSUME Init, NEW x \in Conns
             PROVE  DueOnce /\ KickSettled(x)
  BY Zenon DEF KicksSettled, DueOnce
<1>1. \A y \in Conns, r \in Kicks : Told(y, r) = 0
  BY DEF Init, Told, Frames
<1>2. \A c \in Conns : due[c] = {}
  BY DEF Init
<1>3. \A y \in Conns, r \in Kicks : ~Marked(y, r)
  BY <1>1, <1>2 DEF Marked, Owes
<1>4. ~Registered(m_conns, x)
  BY DEF Init, Registered, EmptyMap
<1>5. "login_elsewhere" \in Kicks
  BY DEF Kicks
<1> QED BY <1>1, <1>2, <1>3, <1>4, <1>5 DEF DueOnce, Owes, KickSettled

\* A step that tells nobody more, owes nobody more, and lists nobody new, keeps
\* KicksSettled.
LEMMA StaysSettled ==
    ASSUME TypeOK, TypeOK', KicksSettled,
           due' = due,
           \A x \in Conns : pc[x] = "added" => pc'[x] = "added",
           \A x \in Conns : pc[x] # "idle" => pc'[x] # "idle",
           \A x \in Conns, r \in Kicks : Told(x, r)' =< Told(x, r),
           \A x \in Conns : Registered(m_conns, x)' => Registered(m_conns, x)
    PROVE  KicksSettled'
<1>1. \A x \in Conns, r \in Kicks : Told(x, r) \in Nat /\ Told(x, r)' \in Nat
  BY DEF Told, TypeOK, Frames
<1>2. \A x \in Conns, r \in Kicks : Told(x, r)' > 0 => Told(x, r) > 0
  BY <1>1
<1>3. \A c, x \in Conns, r \in Kicks : Owes(c, x, r)' <=> Owes(c, x, r)
  BY DEF Owes
<1>4. \A x \in Conns, r \in Kicks : Marked(x, r)' => Marked(x, r)
  BY <1>2, <1>3 DEF Marked
<1>5. "login_elsewhere" \in Kicks
  BY DEF Kicks
<1>6. DueOnce'
  BY <1>1, <1>3 DEF KicksSettled, DueOnce
<1>7. ASSUME NEW x \in Conns PROVE KickSettled(x)'
  <2>1. KickSettled(x)
    BY DEF KicksSettled
  <2>2. \A r \in Kicks : Told(x, r)' =< 1
    BY <1>1, <2>1 DEF KickSettled
  <2> QED BY <1>4, <1>5, <2>1, <2>2 DEF KickSettled, SameKey
<1> QED BY <1>6, <1>7 DEF KicksSettled

\* KicksSettled is kept: OnConnectAdd dismisses only what it takes out of the
\* table, which had not been kicked before; and what OnConnectKick tells had
\* been due.
LEMMA NextKicksSettled == TypeAndTable /\ KicksSettled /\ [Next]_vars => KicksSettled'
<1> SUFFICES ASSUME TypeAndTable, KicksSettled, [Next]_vars
             PROVE  KicksSettled'
  OBVIOUS
<1>0. TypeOK /\ TypeOK' /\ WellFormed(m_conns) /\ RegistryType(m_conns)
  BY NextTypeAndTable DEF TypeAndTable, TypeOK
<1>a. \A x \in Conns, r \in Kicks :
          tasks[x][r] \in Nat /\ heard[x][r] \in Nat /\ Told(x, r) \in Nat
  BY <1>0 DEF TypeOK, Frames, Told
<1>b. "login_elsewhere" \in Kicks
  BY DEF Kicks
<1>c. DueOnce /\ \A x \in Conns : KickSettled(x)
  BY DEF KicksSettled
<1> DEFINE Quiet == /\ due' = due
                    /\ \A x \in Conns : pc[x] = "added" => pc'[x] = "added"
                    /\ \A x \in Conns : pc[x] # "idle" => pc'[x] # "idle"
                    /\ \A x \in Conns, r \in Kicks : Told(x, r)' =< Told(x, r)
                    /\ \A x \in Conns : Registered(m_conns, x)' => Registered(m_conns, x)
<1>1. ASSUME NEW c \in Conns, OnConnectAdd(c) PROVE KicksSettled'
  <2>1. PICK E \in EvictionChoices(WithConn(m_conns, c), [x \in Conns |-> 0]) :
            /\ m_conns' = Add(m_conns, c, E)
            /\ due' = [due EXCEPT ![c] = (Get(m_conns, c) \X {"login_elsewhere"})
                                 \cup (Evicted(m_conns, c, E) \X {"too_many_devices"})]
    BY <1>1 DEF OnConnectAdd
  <2>2. /\ pc[c] = "idle" /\ pc' = [pc EXCEPT ![c] = "added"]
        /\ heard' = heard /\ tasks' = tasks
    BY <1>1 DEF OnConnectAdd, Goto
  <2>3. E \in SUBSET DOMAIN WithConn(m_conns, c) /\ ~Registered(m_conns, c)
    BY <1>c, <2>2 DEF EvictionChoices, KickSettled
  <2>4. \A x \in Conns, r \in Kicks : Told(x, r)' = Told(x, r)
    BY <2>2 DEF Told
  <2>5. \A x \in Conns : pc'[x] = IF x = c THEN "added" ELSE pc[x]
    BY <1>0, <2>2 DEF TypeOK
  <2>6. \A d, x \in Conns, r \in Kicks : d # c => (Owes(d, x, r)' <=> Owes(d, x, r))
    BY <1>0, <2>1 DEF TypeOK, Owes
  <2>7. \A x \in Conns, r \in Kicks : ~Owes(c, x, r)
    BY <1>c, <2>2 DEF DueOnce, Owes
  <2>8. \A x \in Conns, r \in Kicks :
            Owes(c, x, r)' <=>
                \/ r = "login_elsewhere" /\ x \in Get(m_conns, c)
                \/ r = "too_many_devices" /\ x \in Evicted(m_conns, c, E)
    <3> DEFINE G == Get(m_conns, c)
               V == Evicted(m_conns, c, E)
    <3>1. due'[c] = (G \X {"login_elsewhere"}) \cup (V \X {"too_many_devices"})
      BY <1>0, <2>1 DEF TypeOK
    <3> HIDE DEF G, V
    <3>2. \A x, r :
              /\ <<x, r>> \in G \X {"login_elsewhere"} <=> x \in G /\ r = "login_elsewhere"
              /\ <<x, r>> \in V \X {"too_many_devices"} <=> x \in V /\ r = "too_many_devices"
      OBVIOUS
    <3>3. \A x \in Conns, r \in Kicks :
              <<x, r>> \in due'[c] <=>
                  \/ r = "login_elsewhere" /\ x \in G
                  \/ r = "too_many_devices" /\ x \in V
      BY <3>1, <3>2
    <3> QED BY <3>3 DEF Owes, G, V
  <2>9. \A x \in Conns, r \in Kicks : Owes(c, x, r)' =>
            /\ x = c \/ Registered(m_conns, x)
            /\ ~Registered(m_conns', x)
            /\ \A s \in Kicks : Owes(c, x, s)' => s = r
            /\ r = "login_elsewhere" => x # c /\ SameKey(c, x)
    <3> SUFFICES ASSUME NEW x \in Conns, NEW r \in Kicks, Owes(c, x, r)'
                 PROVE  /\ x = c \/ Registered(m_conns, x)
                        /\ ~Registered(m_conns', x)
                        /\ \A s \in Kicks : Owes(c, x, s)' => s = r
                        /\ r = "login_elsewhere" => x # c /\ SameKey(c, x)
      BY Zenon
    <3>1. x \in Displaced(m_conns, c, E)
      BY <2>8 DEF Displaced
    <3>2. /\ x = c \/ Registered(m_conns, x)
          /\ ~Registered(m_conns', x)
          /\ x \in Get(m_conns, c) => x # c /\ SameKey(c, x) /\ x \notin Evicted(m_conns, c, E)
      BY <1>0, <2>1, <2>3, <3>1, DisplacedIsGone
    <3> QED BY <2>8, <3>2
  <2>10. \A x \in Conns, r \in Kicks : Owes(c, x, r)' => \A s \in Kicks : ~Marked(x, s)
    BY <1>c, <2>2, <2>9 DEF KickSettled
  <2>11. \A x \in Conns, r \in Kicks : Marked(x, r)' <=> Marked(x, r) \/ Owes(c, x, r)'
    BY <2>4, <2>6, <2>7 DEF Marked
  <2>12. DueOnce'
    <3>1. \A d \in Conns : pc'[d] # "added" => due'[d] = {}
      BY <1>0, <1>c, <2>1, <2>5 DEF DueOnce, TypeOK
    <3>2. \A x \in Conns, r \in Kicks : Owes(c, x, r)' =>
              Told(x, r) = 0 /\ \A d \in Conns : ~Owes(d, x, r)
      BY <1>a, <2>10 DEF Marked
    <3>3. \A d, x \in Conns, r \in Kicks : d # c /\ Owes(d, x, r)' =>
              Told(x, r) = 0 /\ \A b \in Conns : Owes(b, x, r)' => b = d
      BY <1>c, <2>6, <3>2 DEF DueOnce
    <3>4. \A x \in Conns, r \in Kicks : Owes(c, x, r)' =>
              Told(x, r) = 0 /\ \A b \in Conns : Owes(b, x, r)' => b = c
      BY <2>6, <3>2
    <3> QED BY <2>4, <3>1, <3>3, <3>4 DEF DueOnce
  <2>13. ASSUME NEW x \in Conns PROVE KickSettled(x)'
    <3>1. KickSettled(x)
      BY <1>c
    <3>2. Registered(m_conns, x)' <=> Registered(m_conns', x)
      BY DEF Registered
    <3>3. Registered(m_conns', x) => x = c \/ Registered(m_conns, x)
      BY <1>0, <2>1, <2>3, AddRegistered
    <3>4. \A r \in Kicks : Told(x, r)' =< 1
      BY <2>4, <3>1 DEF KickSettled
    <3>5. \A r, s \in Kicks : Marked(x, r)' /\ Marked(x, s)' => r = s
      BY <2>9, <2>10, <2>11, <3>1 DEF KickSettled
    <3>6. \A r \in Kicks : Marked(c, r) => FALSE
      BY <1>c, <2>2 DEF KickSettled
    <3>7. \A r \in Kicks : Marked(x, r)' => ~Registered(m_conns, x)'
      BY <2>9, <2>11, <3>1, <3>2, <3>3, <3>6 DEF KickSettled
    <3>8. pc'[x] = "idle" => ~Registered(m_conns, x)' /\ \A r \in Kicks : ~Marked(x, r)'
      <4>1. pc'[x] = "idle" => x # c /\ pc[x] = "idle"
        BY <2>5
      <4>2. pc[x] = "idle" => ~Registered(m_conns, x) /\ \A r \in Kicks : ~Marked(x, r)
        BY <3>1 DEF KickSettled
      <4> QED BY <2>9, <2>11, <3>2, <3>3, <4>1, <4>2
    <3>9. Marked(x, "login_elsewhere")' => \E d \in Conns \ {x} : SameKey(d, x) /\ pc'[d] # "idle"
      <4>1. CASE Marked(x, "login_elsewhere")
        BY <2>5, <3>1, <4>1 DEF KickSettled
      <4>2. CASE Owes(c, x, "login_elsewhere")'
        BY <1>b, <2>5, <2>9, <4>2
      <4> QED BY <1>b, <2>11, <4>1, <4>2
    <3> QED BY <3>4, <3>5, <3>7, <3>8, <3>9 DEF KickSettled, SameKey
  <2> QED BY <2>12, <2>13 DEF KicksSettled
<1>10. ASSUME NEW c \in Conns, OnConnectKick(c) PROVE KicksSettled'
  <2>1. /\ pc[c] = "added" /\ pc' = [pc EXCEPT ![c] = "open"]
        /\ tasks' = [x \in Conns |-> [f \in Frames |->
                       tasks[x][f] + (IF f \in Notice(x, c) THEN 1 ELSE 0)]]
        /\ due' = [due EXCEPT ![c] = {}]
        /\ m_conns' = m_conns /\ heard' = heard
    BY <1>10 DEF OnConnectKick, Goto
  <2>2. \A x \in Conns, r \in Kicks : r \in Notice(x, c) <=> Owes(c, x, r)
    <3> SUFFICES ASSUME NEW x \in Conns, NEW r \in Kicks
                 PROVE  r \in Notice(x, c) <=> Owes(c, x, r)
      OBVIOUS
    <3>1. r # "close"
      BY DEF Kicks
    <3>2. r \in Notice(x, c) <=>
              \E k \in Kicks : <<x, k>> \in due[c] /\ r \in {k, "close"}
      BY DEF Notice
    <3> QED BY <3>1, <3>2 DEF Owes
  <2>3. \A x \in Conns, r \in Kicks :
            Told(x, r)' = IF Owes(c, x, r) THEN Told(x, r) + 1 ELSE Told(x, r)
    BY <1>a, <2>1, <2>2 DEF Told, Frames
  <2>4. \A d, x \in Conns, r \in Kicks : Owes(d, x, r)' <=> d # c /\ Owes(d, x, r)
    BY <1>0, <2>1 DEF TypeOK, Owes
  <2>5. \A x \in Conns : pc'[x] = IF x = c THEN "open" ELSE pc[x]
    BY <1>0, <2>1 DEF TypeOK
  <2>6. \A x \in Conns, r \in Kicks : Owes(c, x, r) =>
            Told(x, r) = 0 /\ \A d \in Conns : Owes(d, x, r) => d = c
    BY <1>c DEF DueOnce
  <2>7. \A x \in Conns, r \in Kicks : Marked(x, r)' => Marked(x, r)
    BY <1>a, <2>3, <2>4 DEF Marked
  <2>8. DueOnce'
    <3>1. \A d \in Conns : pc'[d] # "added" => due'[d] = {}
      BY <1>0, <1>c, <2>1, <2>5 DEF DueOnce, TypeOK
    <3>2. \A d, x \in Conns, r \in Kicks : Owes(d, x, r)' =>
              Told(x, r)' = 0 /\ \A b \in Conns : Owes(b, x, r)' => b = d
      BY <1>c, <2>3, <2>4, <2>6 DEF DueOnce
    <3> QED BY <3>1, <3>2 DEF DueOnce
  <2>9. ASSUME NEW x \in Conns PROVE KickSettled(x)'
    <3>1. KickSettled(x)
      BY <1>c
    <3>2. \A r \in Kicks : Told(x, r)' =< 1
      BY <1>a, <2>3, <2>6, <3>1 DEF KickSettled
    <3>3. Registered(m_conns, x)' <=> Registered(m_conns, x)
      BY <2>1 DEF Registered
    <3>4. pc'[x] = "idle" => pc[x] = "idle"
      BY <2>5
    <3>5. \A d \in Conns : pc[d] # "idle" => pc'[d] # "idle"
      BY <2>5
    <3> QED BY <1>b, <2>7, <3>1, <3>2, <3>3, <3>4, <3>5 DEF KickSettled, SameKey
  <2> QED BY <2>8, <2>9 DEF KicksSettled
<1>2. ASSUME NEW c \in Conns, Leave(c) PROVE Quiet
  BY <1>0, <1>a, <1>2 DEF Leave, Goto, TypeOK, Told, Registered
<1>3. ASSUME NEW c \in Conns, OnClose(c) PROVE Quiet
  <2>1. \A x \in Conns : Registered(m_conns', x) => Registered(m_conns, x)
    BY <1>0, <1>3, RemoveRegistered DEF OnClose
  <2>2. \A x \in Conns : Registered(m_conns, x)' = Registered(m_conns', x)
    BY DEF Registered
  <2>3. \A x \in Conns : pc[x] # "idle" => pc'[x] # "idle"
    BY <1>0, <1>3 DEF OnClose, Goto, TypeOK
  <2>4. \A x \in Conns, r \in Kicks : Told(x, r)' =< Told(x, r)
    BY <1>a, <1>3 DEF OnClose, Told
  <2>5. due' = due /\ \A x \in Conns : pc[x] = "added" => pc'[x] = "added"
    BY <1>0, <1>3 DEF OnClose, Goto, TypeOK
  <2> QED BY <2>1, <2>2, <2>3, <2>4, <2>5
<1>4. ASSUME NEW e \in Events, HandleEvent(e) PROVE Quiet
  BY <1>a, <1>4 DEF HandleEvent, Told, Registered
<1>5. ASSUME NEW e \in Events, SchedulePush(e) PROVE Quiet
  <2>1. PICK c \in todo[e] : tasks' = [tasks EXCEPT ![c][e] = @ + 1]
    BY <1>5 DEF SchedulePush
  <2>2. c \in Conns /\ e \in Frames
    BY <1>0, EventsAreFrames DEF TypeOK
  <2>3. \A x \in Conns, r \in Kicks : tasks'[x][r] = tasks[x][r]
    BY <1>0, <2>1, <2>2, CountUp, EventsAreFrames DEF TypeOK, Frames
  <2>4. UNCHANGED <<m_conns, pc, due, heard>>
    BY <1>5 DEF SchedulePush
  <2> QED BY <1>a, <2>3, <2>4 DEF Told, Registered
<1>6. ASSUME NEW c \in Conns, NEW f \in Frames, RunTask(c, f) PROVE Quiet
  <2>1. tasks[c][f] > 0
    BY <1>6 DEF RunTask
  <2>2. \A x \in Conns, r \in Kicks :
            tasks'[x][r] = IF x = c /\ r = f THEN tasks[x][r] - 1 ELSE tasks[x][r]
    BY <1>0, <1>6, <2>1, CountDown DEF RunTask, TypeOK, Frames
  <2>3. \A x \in Conns, r \in Kicks :
            \/ heard'[x][r] = heard[x][r]
            \/ x = c /\ r = f /\ heard'[x][r] = heard[x][r] + 1
    <3>1. CASE f # "close" /\ c \in open
      BY <1>0, <1>6, <3>1, CountUp DEF RunTask, Write, TypeOK, Frames
    <3>2. CASE f = "close" \/ c \notin open
      BY <1>0, <1>6, <3>2 DEF RunTask, Write
    <3> QED BY <3>1, <3>2
  <2>4. \A x \in Conns, r \in Kicks : Told(x, r)' =< Told(x, r)
    BY <1>a, <2>2, <2>3 DEF Told
  <2> QED BY <1>6, <2>4 DEF RunTask, Registered
<1>7. ASSUME UNCHANGED vars PROVE Quiet
  BY <1>a, <1>7 DEF vars, Told, Registered
<1>8. Quiet => KicksSettled'
  BY <1>0, StaysSettled
<1>9. KicksSettled' \/ Quiet
  <2> HIDE DEF Quiet
  <2> QED BY <1>1, <1>2, <1>3, <1>4, <1>5, <1>6, <1>7, <1>10 DEF Next
<1> QED BY <1>8, <1>9

\* A client is kicked at most once, for the reason it is told, and for good,
\* whatever logs in or hangs up while its tasks are scheduled.
THEOREM Kicked == Spec => []KickedForCause
<1>1. TypeOK /\ KicksSettled => KickedForCause
  <2> SUFFICES ASSUME TypeOK, KicksSettled, NEW x \in Conns
               PROVE  LET kicked == {f \in Kicks : tasks[x][f] + heard[x][f] > 0}
                      IN  /\ Cardinality(kicked) =< 1
                          /\ \A f \in kicked :
                                /\ tasks[x][f] + heard[x][f] = 1
                                /\ ~Registered(m_conns, x)
                          /\ "login_elsewhere" \in kicked =>
                                \E c \in Conns \ {x} : SameKey(c, x) /\ pc[c] # "idle"
    BY DEF KickedForCause
  <2> DEFINE kicked == {f \in Kicks : tasks[x][f] + heard[x][f] > 0}
  <2>0. KickSettled(x)
    BY DEF KicksSettled
  <2>1. \A r \in Kicks : Told(x, r) \in Nat
    BY DEF Told, TypeOK, Frames
  <2>2. \A f \in kicked :
            /\ tasks[x][f] + heard[x][f] = 1
            /\ ~Registered(m_conns, x)
    BY <2>1, <2>0 DEF KickSettled, Marked, Told
  <2>3. "login_elsewhere" \in kicked =>
            \E c \in Conns \ {x} : SameKey(c, x) /\ pc[c] # "idle"
    BY <2>0 DEF KickSettled, Marked, Told, Kicks
  <2>4. \A r, s \in kicked : r = s
    BY <2>0 DEF KickSettled, Marked, Told, Kicks
  <2>5. Cardinality(kicked) =< 1
    <3> HIDE DEF kicked
    <3>1. CASE kicked = {}
      BY <3>1, FS_EmptySet
    <3>2. CASE kicked # {}
      <4>1. PICK r : kicked = {r}
        BY <2>4, <3>2
      <4> QED BY <4>1, FS_Singleton
    <3> QED BY <3>1, <3>2
  <2> QED BY <2>2, <2>3, <2>5
<1> QED
  BY <1>1, InitTypeAndTable, NextTypeAndTable, InitKicksSettled, NextKicksSettled, PTL
     DEF Spec, TypeAndTable
=============================================================================
