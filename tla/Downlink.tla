------------------------------- MODULE Downlink -------------------------------
(***************************************************************************)
(* The way of a frame from the server to a socket.  Nothing but the fiber  *)
(* of a connection writes to it directly: a handler of events and a login  *)
(* that displaces it schedule a task on the IOManager of the connection,   *)
(* one for each frame and one for closing (PushToUser, SendKickedOnOwner,  *)
(* CloseSessionOnOwner).  An IOManager has several threads, so the tasks   *)
(* of one connection run in any order: a close may overtake the "kicked"   *)
(* before it.  The "auth_ok" its own fiber writes after Add may come after  *)
(* a push, and is left out.                                                *)
(*                                                                         *)
(* PushToUser takes one snapshot of the connections of the user and works  *)
(* through it while logins and hang-ups go on.  Whom an event addresses is *)
(* the subject of EventFanout; here an event is for one user.              *)
(***************************************************************************)
EXTENDS SessionRegistry

CONSTANTS
    Events,     \* events of the business service
    AddresseeOf \* AddresseeOf[e]: the user e is pushed to

Kicks == {"login_elsewhere", "too_many_devices"}

\* What a task may do: write a frame, or close.
Frames == Events \cup Kicks \cup {"close"}

ASSUME DownlinkAssumption ==
    /\ AddresseeOf \in [Events -> Users]
    /\ Events \cap (Kicks \cup {"close"}) = {}

VARIABLES
    m_conns,    \* SessionRegistry::m_conns
    pc,         \* how far the fiber of each connection has come
    pending,    \* events not yet handled
    due,        \* due[c]: whom the login of c has yet to kick, and for what reason
                \* (locals replaced and evicted of onConnect)
    todo,       \* todo[e]: rest of the snapshot the handler of e works through
    tasks,      \* tasks[c][f]: scheduled tasks of c that have not run
    open,       \* connections whose socket takes frames
    heard       \* heard[c][f]: frames written to the socket of c

vars == <<m_conns, pc, due, pending, todo, tasks, open, heard>>

TypeOK ==
    /\ RegistryType(m_conns)
    /\ pc \in [Conns -> {"idle", "added", "open", "closing", "closed"}]
    /\ due \in [Conns -> SUBSET (Conns \X Kicks)]
    /\ pending \subseteq Events
    /\ todo \in [Events -> SUBSET Conns]
    /\ tasks \in [Conns -> [Frames -> Nat]]
    /\ open \subseteq Conns
    /\ heard \in [Conns -> [Frames -> Nat]]

Init ==
    /\ m_conns = EmptyMap
    /\ pc = [c \in Conns |-> "idle"]
    /\ due = [c \in Conns |-> {}]
    /\ pending = Events
    /\ todo = [e \in Events |-> {}]
    /\ tasks = [c \in Conns |-> [f \in Frames |-> 0]]
    /\ open = {}
    /\ heard = [c \in Conns |-> [f \in Frames |-> 0]]

-----------------------------------------------------------------------------
(* The fiber of a connection.                                              *)

Goto(c, from, to) ==
    /\ pc[c] = from
    /\ pc' = [pc EXCEPT ![c] = to]

\* onConnect with a good token, to the end of Add.  All logins may fall into one
\* millisecond, so any entry may be the oldest, the new one included.
OnConnectAdd(c) ==
    /\ Goto(c, "idle", "added")
    /\ open' = open \cup {c}
    /\ \E E \in EvictionChoices(WithConn(m_conns, c), [x \in Conns |-> 0]) :
          /\ m_conns' = Add(m_conns, c, E)
          /\ due' = [due EXCEPT ![c] = (Get(m_conns, c) \X {"login_elsewhere"})
                               \cup (Evicted(m_conns, c, E) \X {"too_many_devices"})]
    /\ UNCHANGED <<pending, todo, tasks, heard>>

\* What the login of c schedules for x: "kicked" with its reason, and the close.
Notice(x, c) == UNION {{r, "close"} : r \in {k \in Kicks : <<x, k>> \in due[c]}}

\* The rest of onConnect: SendKickedOnOwner and CloseSessionOnOwner for what Add
\* handed back, when the lock of the registry has long been given up.
OnConnectKick(c) ==
    /\ Goto(c, "added", "open")
    /\ tasks' = [x \in Conns |-> [f \in Frames |->
                    tasks[x][f] + (IF f \in Notice(x, c) THEN 1 ELSE 0)]]
    /\ due' = [due EXCEPT ![c] = {}]
    /\ UNCHANGED <<m_conns, pending, todo, open, heard>>

\* The peer has gone, the socket was closed from this side, or handle returned 1
\* on a socket that is still open.
Leave(c) ==
    /\ Goto(c, "open", "closing")
    /\ open' = open \/ open' = open \ {c}
    /\ UNCHANGED <<m_conns, due, pending, todo, tasks, heard>>

\* onClose, and the server closes the session.
OnClose(c) ==
    /\ Goto(c, "closing", "closed")
    /\ m_conns' = Remove(m_conns, c)
    /\ open' = open \ {c}
    /\ UNCHANGED <<due, pending, todo, tasks, heard>>

-----------------------------------------------------------------------------
(* PushToUser.                                                             *)

GetByUser(u) == {ByDevice(m_conns, u)[d] : d \in DOMAIN ByDevice(m_conns, u)}

\* The snapshot, under the lock of the registry.
HandleEvent(e) ==
    /\ e \in pending
    /\ pending' = pending \ {e}
    /\ todo' = [todo EXCEPT ![e] = GetByUser(AddresseeOf[e])]
    /\ UNCHANGED <<m_conns, pc, due, tasks, open, heard>>

\* Mutant: the loop looks at the table each time round.
SchedulePush_Rereads(e) ==
    \E c \in todo[e] :
        /\ tasks' = [tasks EXCEPT ![c][e] = @ + 1]
        /\ todo' = [todo EXCEPT ![e] =
              {x \in GetByUser(AddresseeOf[e]) \ {c} : tasks[x][e] + heard[x][e] = 0}]
        /\ UNCHANGED <<m_conns, pc, due, pending, open, heard>>

\* The next connection of the snapshot, listed or not by now.
SchedulePush(e) ==
    \E c \in todo[e] :
        /\ tasks' = [tasks EXCEPT ![c][e] = @ + 1]
        /\ todo' = [todo EXCEPT ![e] = @ \ {c}]
        /\ UNCHANGED <<m_conns, pc, due, pending, open, heard>>

-----------------------------------------------------------------------------
(* The IOManagers.                                                         *)

Write(c, f) ==
    heard' = IF c \in open THEN [heard EXCEPT ![c][f] = @ + 1] ELSE heard

\* SendFrame on a closed session fails, and nobody looks at that.
RunTask(c, f) ==
    /\ tasks[c][f] > 0
    /\ tasks' = [tasks EXCEPT ![c][f] = @ - 1]
    /\ IF f = "close" THEN open' = open \ {c} /\ UNCHANGED heard
                      ELSE Write(c, f) /\ UNCHANGED open
    /\ UNCHANGED <<m_conns, pc, due, pending, todo>>

-----------------------------------------------------------------------------
Next ==
    \/ \E c \in Conns : OnConnectAdd(c) \/ OnConnectKick(c) \/ Leave(c) \/ OnClose(c)
    \/ \E e \in Events : HandleEvent(e) \/ SchedulePush(e)
    \/ \E c \in Conns, f \in Frames : RunTask(c, f)

Spec == Init /\ [][Next]_vars

-----------------------------------------------------------------------------
(* Safety.                                                                 *)

\* No device gets an event twice, although it may have two connections while
\* the handler is at work: an old one displaced after the snapshot, whose push
\* is still scheduled, and the one that displaced it.  And no more devices get
\* it than the user may have.
OneCopyPerDevice ==
    \A e \in Events :
        LET told == {c \in Conns : heard[c][e] > 0}
        IN  /\ \A c \in told : heard[c][e] = 1 /\ UserOf[c] = AddresseeOf[e]
            /\ \A c, x \in told : SameKey(c, x) => c = x
            /\ Cardinality(told) =< MaxDevices

\* A client is kicked once at most, for the reason it is told, and for good: what
\* was displaced does not come back to the table, whoever logs in or hangs up
\* afterwards, so that no later event is pushed to it.
KickedForCause ==
    \A x \in Conns :
        LET kicked == {f \in Kicks : tasks[x][f] + heard[x][f] > 0}
        IN  /\ Cardinality(kicked) =< 1
            /\ \A f \in kicked :
                  /\ tasks[x][f] + heard[x][f] = 1
                  /\ ~Registered(m_conns, x)
            /\ "login_elsewhere" \in kicked =>
                  \E c \in Conns \ {x} : SameKey(c, x) /\ pc[c] # "idle"
=============================================================================
