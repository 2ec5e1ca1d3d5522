----------------------------- MODULE ChatSession -----------------------------
(***************************************************************************)
(* The life of a WebSocket connection: ChatWSServlet::onConnect, handle    *)
(* and onClose, the session registry they share, the presence events they  *)
(* publish, and the heartbeat timer of MyModule.                           *)
(*                                                                         *)
(* Every connection is served by a fiber of its own, and fibers run on     *)
(* several threads.  pc[c] says which calls the fiber of c has made; the   *)
(* registry operations between two values of pc are atomic (m_mutex), and  *)
(* anything may happen between them.  The server (external) calls          *)
(* onConnect, then handle once per frame, then onClose when a frame cannot *)
(* be received or handle returns non-zero; it calls nothing more once      *)
(* onConnect has failed.                                                   *)
(*                                                                         *)
(* Frames written to the socket are output and are not part of the state;  *)
(* a connection that Add displaces is sent "kicked" and has a task         *)
(* scheduled on its IOManager that closes it, which is what tasks keeps.   *)
(* Add only hands it back, and gives up the lock: until the login comes    *)
(* round to scheduling, the connection is in service, unlisted and untold. *)
(***************************************************************************)
EXTENDS SessionRegistry

CONSTANTS
    HeartbeatTimeout,  \* chat.heartbeat_timeout_seconds, in ticks
    MaxNow             \* bound: the clock stops counting here

\* ChatConfig::Load refuses a non-positive heartbeat timeout.
ASSUME SessionAssumption ==
    /\ HeartbeatTimeout \in Nat \ {0}
    /\ MaxNow \in Nat

VARIABLES
    m_conns,       \* SessionRegistry::m_conns
    pc,            \* how far the fiber of each connection has come
    first_device,  \* local variable of onConnect
    login_at,      \* OnlineConn::login_at
    idle,          \* now - last_active_ts, saturating at HeartbeatTimeout:
                   \* CollectTimeouted cannot tell larger values apart
    now,           \* NowMs(), in ticks
    displaced,     \* what Add has handed back to the onConnect of each
                   \* connection (its locals replaced and evicted) until
                   \* onConnect has scheduled their closing
    tasks,         \* connections with a scheduled closing task not yet run
    cut,           \* connections whose socket the server side has closed
    reported,      \* the last presence event of each user the publisher took
    refused        \* users of whom Publish refused an event (queue full)

vars == <<m_conns, pc, first_device, login_at, idle, now, displaced,
          tasks, cut, reported, refused>>

PCs == {"idle",      \* no connection yet
        "checked",   \* onConnect has read IsUserOnline
        "added",     \* onConnect has called Add
        "kicked",    \* onConnect has scheduled the kicks and closes
        "open",      \* onConnect has returned 0: waiting for frames
        "handling",  \* a frame has been received and is being handled
        "closing",   \* onClose is about to call Remove
        "removed",   \* onClose has called Remove
        "offline",   \* onClose has found the user not online
        "closed",    \* onClose has returned
        "rejected"}  \* onConnect has returned -1

PresenceEvents == {"none", "online", "offline"}

TypeOK ==
    /\ RegistryType(m_conns)
    /\ pc \in [Conns -> PCs]
    /\ first_device \in [Conns -> BOOLEAN]
    /\ login_at \in [Conns -> 0..MaxNow]
    /\ idle \in [Conns -> 0..HeartbeatTimeout]
    /\ now \in 0..MaxNow
    /\ displaced \in [Conns -> SUBSET Conns]
    /\ tasks \subseteq Conns
    /\ cut \subseteq Conns
    /\ reported \in [Users -> PresenceEvents]
    /\ refused \subseteq Users

Init ==
    /\ m_conns = EmptyMap
    /\ pc = [c \in Conns |-> "idle"]
    /\ first_device = [c \in Conns |-> FALSE]
    /\ login_at = [c \in Conns |-> 0]
    /\ idle = [c \in Conns |-> 0]
    /\ now = 0
    /\ displaced = [c \in Conns |-> {}]
    /\ tasks = {}
    /\ cut = {}
    /\ reported = [u \in Users |-> "none"]
    /\ refused = {}

-----------------------------------------------------------------------------
(* Helpers.                                                                *)

Goto(c, from, to) ==
    /\ pc[c] = from
    /\ pc' = [pc EXCEPT ![c] = to]

\* MqPublisher::Publish of a presence event: queued behind the earlier ones, or
\* refused when the queue is full.  Neither caller looks at the result.
PublishPresence(u, event) ==
    \/ /\ reported' = [reported EXCEPT ![u] = event]
       /\ UNCHANGED refused
    \/ /\ refused' = refused \cup {u}
       /\ UNCHANGED reported

IdleSince(t) == IF now - t < HeartbeatTimeout THEN now - t ELSE HeartbeatTimeout

-----------------------------------------------------------------------------
(* onConnect.                                                              *)

\* The token is missing or does not verify: auth_fail, close, return -1.
OnConnectReject(c) ==
    /\ Goto(c, "idle", "rejected")
    /\ cut' = cut \cup {c}
    /\ UNCHANGED <<m_conns, first_device, login_at, idle, now,
                   displaced, tasks, reported, refused>>

\* The token verifies; whether this is the first device of the user is read
\* here and used only after Add.
OnConnectCheck(c) ==
    /\ Goto(c, "idle", "checked")
    /\ first_device' = [first_device EXCEPT ![c] = ~IsUserOnline(m_conns, UserOf[c])]
    /\ login_at' = [login_at EXCEPT ![c] = now]
    /\ UNCHANGED <<m_conns, idle, now, displaced, tasks, cut, reported, refused>>

\* Add.  NowMs() is read between the check and Add, outside the lock, so login_at
\* is any time in between.
OnConnectAdd(c) ==
    /\ Goto(c, "checked", "added")
    /\ \E t \in login_at[c]..now :
          /\ login_at' = [login_at EXCEPT ![c] = t]
          /\ idle' = [idle EXCEPT ![c] = IdleSince(t)]
    /\ \E E \in EvictionChoices(WithConn(m_conns, c), login_at') :
          /\ m_conns' = Add(m_conns, c, E)
          /\ displaced' = [displaced EXCEPT ![c] = Displaced(m_conns, c, E)]
    /\ UNCHANGED <<first_device, now, tasks, cut, reported, refused>>

\* A "kicked" frame and a closing task for each connection that Add handed back,
\* with no lock held; then auth_ok.
OnConnectKick(c) ==
    /\ Goto(c, "added", "kicked")
    /\ tasks' = tasks \cup displaced[c]
    /\ displaced' = [displaced EXCEPT ![c] = {}]
    /\ UNCHANGED <<m_conns, first_device, login_at, idle, now, cut, reported, refused>>

\* The user.online event of the first device, and return 0.
OnConnectPublish(c) ==
    /\ Goto(c, "kicked", "open")
    /\ IF first_device[c]
         THEN PublishPresence(UserOf[c], "online")
         ELSE UNCHANGED <<reported, refused>>
    /\ UNCHANGED <<m_conns, first_device, login_at, idle, now, displaced, tasks, cut>>

-----------------------------------------------------------------------------
(* handle: one frame.  Touch finds the connection by key.                  *)

TouchKeyOf(c) ==
    idle' = [x \in Conns |-> IF x \in Get(m_conns, c) THEN 0 ELSE idle[x]]

FrameReceived(c) ==
    /\ c \notin cut
    /\ Goto(c, "open", "handling")
    /\ UNCHANGED <<m_conns, first_device, login_at, idle, now,
                   displaced, tasks, cut, reported, refused>>

\* A frame that keeps the connection: ping, msg.*, unknown type, bad JSON.
HandleFrame(c) ==
    /\ Goto(c, "handling", "open")
    /\ TouchKeyOf(c)
    /\ UNCHANGED <<m_conns, first_device, login_at, now,
                   displaced, tasks, cut, reported, refused>>

\* A frame that makes handle return 1: "bye", which is touched, or a frame that
\* is not text or over the rate limit, which is not.
HandleLastFrame(c) ==
    /\ Goto(c, "handling", "closing")
    /\ TouchKeyOf(c) \/ UNCHANGED idle
    /\ UNCHANGED <<m_conns, first_device, login_at, now,
                   displaced, tasks, cut, reported, refused>>

\* The next frame cannot be received: the peer has gone, or the socket was
\* closed from this side.
ConnectionLost(c) ==
    /\ Goto(c, "open", "closing")
    /\ UNCHANGED <<m_conns, first_device, login_at, idle, now,
                   displaced, tasks, cut, reported, refused>>

-----------------------------------------------------------------------------
(* onClose.                                                                *)

\* Mutant: a connection that was closed from this side is taken for one that
\* was displaced, hence is no longer in the table.
OnCloseRemove_SkipsClosed(c) ==
    /\ Goto(c, "closing", "removed")
    /\ m_conns' = IF c \in tasks \cup cut THEN m_conns ELSE Remove(m_conns, c)
    /\ UNCHANGED <<first_device, login_at, idle, now,
                   displaced, tasks, cut, reported, refused>>

OnCloseRemove(c) ==
    /\ Goto(c, "closing", "removed")
    /\ m_conns' = Remove(m_conns, c)
    /\ UNCHANGED <<first_device, login_at, idle, now,
                   displaced, tasks, cut, reported, refused>>

\* Mutant: only the connection that reported the user online reports it offline.
OnCloseCheck_FirstOnly(c) ==
    /\ IF IsUserOnline(m_conns, UserOf[c]) \/ ~first_device[c]
         THEN Goto(c, "removed", "closed")
         ELSE Goto(c, "removed", "offline")
    /\ UNCHANGED <<m_conns, first_device, login_at, idle, now,
                   displaced, tasks, cut, reported, refused>>

OnCloseCheck(c) ==
    /\ IF IsUserOnline(m_conns, UserOf[c])
         THEN Goto(c, "removed", "closed")
         ELSE Goto(c, "removed", "offline")
    /\ UNCHANGED <<m_conns, first_device, login_at, idle, now,
                   displaced, tasks, cut, reported, refused>>

OnClosePublish(c) ==
    /\ Goto(c, "offline", "closed")
    /\ PublishPresence(UserOf[c], "offline")
    /\ UNCHANGED <<m_conns, first_device, login_at, idle, now, displaced, tasks, cut>>

-----------------------------------------------------------------------------
(* The IOManagers.                                                         *)

\* Mutant: the pending calls are cancelled and the session is not closed.
CloseTask_NoClose(c) ==
    /\ c \in tasks
    /\ tasks' = tasks \ {c}
    /\ UNCHANGED <<m_conns, pc, first_device, login_at, idle, now,
                   displaced, cut, reported, refused>>

\* The closing task: cancelAll on the socket and close of the session.
CloseTask(c) ==
    /\ c \in tasks
    /\ tasks' = tasks \ {c}
    /\ cut' = cut \cup {c}
    /\ UNCHANGED <<m_conns, pc, first_device, login_at, idle, now,
                   displaced, reported, refused>>

\* Mutant: the timer is not recurring and fires once, before anything is due.
HeartbeatSweep_OneShot ==
    /\ now = 0
    /\ tasks' = tasks \cup {c \in Conns : Registered(m_conns, c) /\ idle[c] = HeartbeatTimeout}
    /\ UNCHANGED <<m_conns, pc, first_device, login_at, idle, now,
                   displaced, cut, reported, refused>>

\* The 10-second timer of onServerReady: CollectTimeouted, and a closing task
\* for each connection it returns.
HeartbeatSweep ==
    LET timeouted == {c \in Conns : Registered(m_conns, c) /\ idle[c] = HeartbeatTimeout}
    IN  /\ tasks' = tasks \cup timeouted
        /\ UNCHANGED <<m_conns, pc, first_device, login_at, idle, now,
                       displaced, cut, reported, refused>>

\* Time passes.  Only registered connections are ever asked how long they have
\* been idle.
Tick ==
    /\ now' = IF now < MaxNow THEN now + 1 ELSE now
    /\ idle' = [c \in Conns |->
                  IF Registered(m_conns, c) /\ idle[c] < HeartbeatTimeout
                    THEN idle[c] + 1 ELSE idle[c]]
    /\ UNCHANGED <<m_conns, pc, first_device, login_at,
                   displaced, tasks, cut, reported, refused>>

-----------------------------------------------------------------------------
Next ==
    \/ \E c \in Conns :
          \/ OnConnectReject(c) \/ OnConnectCheck(c)
          \/ OnConnectAdd(c) \/ OnConnectKick(c) \/ OnConnectPublish(c)
          \/ FrameReceived(c) \/ HandleFrame(c) \/ HandleLastFrame(c)
          \/ ConnectionLost(c)
          \/ OnCloseRemove(c) \/ OnCloseCheck(c) \/ OnClosePublish(c)
          \/ CloseTask(c)
    \/ HeartbeatSweep
    \/ Tick

Spec == Init /\ [][Next]_vars

\* A runnable fiber is resumed (the scheduler, external, is fair); receiving on
\* a closed socket returns; a scheduled task runs; the timer is recurring; time
\* passes.  Nothing makes a client connect, send or hang up.
Fairness ==
    /\ \A c \in Conns :
          /\ WF_vars(OnConnectAdd(c))
          /\ WF_vars(OnConnectKick(c))
          /\ WF_vars(OnConnectPublish(c))
          /\ WF_vars(HandleFrame(c) \/ HandleLastFrame(c))
          /\ WF_vars(c \in cut /\ ConnectionLost(c))
          /\ WF_vars(OnCloseRemove(c))
          /\ WF_vars(OnCloseCheck(c))
          /\ WF_vars(OnClosePublish(c))
          /\ WF_vars(CloseTask(c))
    /\ WF_vars(HeartbeatSweep)
    /\ WF_vars(Tick)

FairSpec == Spec /\ Fairness

-----------------------------------------------------------------------------
(* Safety.                                                                 *)

\* What the registry promises its readers: an online user has a connection (so
\* IsUserOnline needs no look inside), at most chat.max_devices_per_user of
\* them, and each is filed under its own user and device.
RegistryWellFormed == WellFormed(m_conns)

InService(c) == pc[c] \in {"added", "kicked", "open", "handling"}

\* A connection never outlives its fiber in the table: although onClose erases
\* by key, whichever connection is there, what has passed Remove is gone.
NoGhost ==
    \A c \in Conns : Registered(m_conns, c) => InService(c) \/ pc[c] = "closing"

\* Between Add and the end of onClose of a connection.
InTransit(c) == InService(c) \/ pc[c] \in {"closing", "removed", "offline"}

\* A user whose connections have all gone is not left reported online: the
\* last onClose to look sees the empty table, in whatever order the fibers run
\* Remove, IsUserOnline and PublishUserOffline.  (Publish may refuse an event
\* when its queue is full, and nobody retries; such users are exempt.)
PresenceSettles ==
    \A u \in Users :
        (\A c \in Conns : UserOf[c] = u => ~InTransit(c)) /\ u \notin refused
            => reported[u] # "online"

\* A login has it to close, or it has been told to close.
Dismissed(c) ==
    \/ \E x \in Conns : c \in displaced[x]
    \/ c \in tasks \cup cut

\* The only way a connection in service can be missing from the table without
\* being told to close, by then or by a login under way, is that an older
\* connection of the same user and device has run its onClose, which erased the
\* newer entry by key.
OrphanOnlyByKeyCollision ==
    \A c \in Conns :
        InService(c) /\ ~Registered(m_conns, c) =>
            \/ Dismissed(c)
            \/ \E x \in Conns \ {c} :
                  SameKey(x, c) /\ pc[x] \in {"removed", "offline", "closed"}

\* One login displaces at most one connection: Add replaces the connection of
\* the same device or evicts the oldest one, never both and never several.
DisplacesAtMostOne ==
    [][\A c \in Conns : pc[c] = "checked" /\ pc'[c] = "added" =>
          \E x \in Conns : displaced'[c] \subseteq {x}]_vars

-----------------------------------------------------------------------------
(* Liveness, under FairSpec.                                               *)

\* A connection that was displaced or timed out is gone in the end.
ScheduledCloses ==
    \A c \in Conns :
        c \in tasks \/ (\E x \in Conns : c \in displaced[x]) ~> pc[c] = "closed"

\* A registered connection that stays silent leaves the table (MyModule's
\* timer, the closing task, the failing receive and onClose, in a chain).
SilentLeaves ==
    \A c \in Conns :
        Registered(m_conns, c) ~> idle[c] = 0 \/ ~Registered(m_conns, c)

-----------------------------------------------------------------------------
(* What the README says of the table and of presence, and the code does    *)
(* not do (the violation runs).                                            *)

\* README, "online session table": a connection that is in service and was not
\* told to close, nor is about to be, can be found in the table.
InServiceIsListed ==
    \A c \in Conns : pc[c] = "open" /\ ~Dismissed(c) => Registered(m_conns, c)

Quiet == \A c \in Conns : pc[c] \in {"idle", "open", "closed", "rejected"}

\* README, "heartbeat and going offline when disconnected": with no call under
\* way, a user listed in the table is not reported offline.
OnlineIsNotReportedOffline ==
    Quiet => \A u \in DOMAIN m_conns : u \in refused \/ reported[u] # "offline"
=====
