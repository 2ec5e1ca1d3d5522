--------------------------- MODULE SessionRegistry ---------------------------
(***************************************************************************)
(* The table of online connections, userId -> deviceId -> connection       *)
(* (chat/session/session_registry.cc).  Every operation of the class holds *)
(* m_mutex for its whole body, so each one is a single atomic function of  *)
(* the table; the interleavings between two operations belong to           *)
(* ChatSession, which uses them as steps.                                  *)
(*                                                                         *)
(* m_conns is a partial function: its domain is the set of outer keys, and *)
(* m_conns[u] is the inner map of user u.  An outer key may, as far as the *)
(* data structure goes, have an empty inner map.                           *)
(***************************************************************************)
EXTENDS Integers, FiniteSets, Functions

CONSTANTS
    Conns,        \* connections the server accepts, one OnlineConn each
    Users,        \* user ids (claim "sub" of the token, never 0)
    Devices,      \* device ids a token may carry in its claim "did"
    NoDevice,     \* the token has no "did"
    UserOf,       \* UserOf[c]: the user the token of c is about
    DeviceClaim,  \* DeviceClaim[c]: the "did" of the token of c
    MaxDevices    \* chat.max_devices_per_user

\* ChatConfig::Load refuses a non-positive chat.max_devices_per_user.
ASSUME RegistryAssumption ==
    /\ UserOf \in [Conns -> Users]
    /\ DeviceClaim \in [Conns -> Devices \cup {NoDevice}]
    /\ NoDevice \notin Devices
    /\ MaxDevices \in Nat \ {0}

-----------------------------------------------------------------------------
\* AllocFallbackDeviceId draws "device-<uid>-<seq>" from an atomic counter, so
\* a connection without a "did" gets a name no other connection ever has.
DeviceId(c) ==
    IF DeviceClaim[c] = NoDevice THEN <<"device", c>> ELSE DeviceClaim[c]

SameKey(c, x) == UserOf[c] = UserOf[x] /\ DeviceId(c) = DeviceId(x)

-----------------------------------------------------------------------------
(* Lookups.                                                                *)

EmptyMap == [x \in {} |-> x]

\* m_conns[user_id] of std::unordered_map: a missing key is an empty map.
ByDevice(m, u) == IF u \in DOMAIN m THEN m[u] ELSE EmptyMap

Registered(m, c) ==
    /\ UserOf[c] \in DOMAIN m
    /\ DeviceId(c) \in DOMAIN m[UserOf[c]]
    /\ m[UserOf[c]][DeviceId(c)] = c

IsUserOnline(m, u) == u \in DOMAIN m

\* The connection under the key of c, whichever it is (none: the empty set).
Get(m, c) ==
    LET inner == ByDevice(m, UserOf[c])
    IN  {inner[d] : d \in DOMAIN inner \cap {DeviceId(c)}}

-----------------------------------------------------------------------------
(* Updates.                                                                *)

\* by_device[conn->device_id] = conn, after the entry of the same device (the
\* replaced connection) has been erased.
WithConn(m, c) ==
    LET inner == ByDevice(m, UserOf[c])
    IN  [d \in DOMAIN inner \cup {DeviceId(c)} |->
            IF d = DeviceId(c) THEN c ELSE inner[d]]

\* Mutant: once over the limit, the eviction loop runs until the map is empty.
Excess_All(n) == IF n > MaxDevices THEN n ELSE 0

Excess(n) == IF n > MaxDevices THEN n - MaxDevices ELSE 0

\* The device sets the eviction loop may erase from the inner map: it takes the
\* oldest login_at until max_devices are left, and among equal login_at the one
\* the hash map happens to list first.
EvictionChoices(inner, login_at) ==
    {E \in SUBSET DOMAIN inner :
        /\ Cardinality(E) = Excess(Cardinality(DOMAIN inner))
        /\ \A e \in E, k \in DOMAIN inner \ E :
              login_at[inner[e]] =< login_at[inner[k]]}

\* Mutant: the evicted connections stay in the table.
Add_NotErased(m, c, E) ==
    [u \in DOMAIN m \cup {UserOf[c]} |-> IF u = UserOf[c] THEN WithConn(m, c) ELSE m[u]]

\* Add: c takes its key and the devices of E are evicted.
Add(m, c, E) ==
    LET inner == WithConn(m, c)
    IN  [u \in DOMAIN m \cup {UserOf[c]} |->
            IF u = UserOf[c] THEN Restrict(inner, DOMAIN inner \ E) ELSE m[u]]

\* The connections the eviction loop collects, which may be c itself.
Evicted(m, c, E) == {WithConn(m, c)[d] : d \in E}

\* Mutant: the evicted connections are not handed back.
Displaced_ReplacedOnly(m, c, E) == Get(m, c)

\* The connections Add hands back for closing: the replaced and the evicted.
Displaced(m, c, E) == Get(m, c) \cup Evicted(m, c, E)

\* Mutant: the outer key stays when its last device has gone.
Remove_KeepsOuterKey(m, c) ==
    IF UserOf[c] \notin DOMAIN m
      THEN m
      ELSE [m EXCEPT ![UserOf[c]] = Restrict(@, DOMAIN @ \ {DeviceId(c)})]

\* Remove erases by key, without comparing the connection that is there, and
\* drops the outer key with its last device.
Remove(m, c) ==
    LET left == Restrict(m[UserOf[c]], DOMAIN m[UserOf[c]] \ {DeviceId(c)})
    IN  IF UserOf[c] \notin DOMAIN m
          THEN m
          ELSE IF DOMAIN left = {}
                 THEN Restrict(m, DOMAIN m \ {UserOf[c]})
                 ELSE [m EXCEPT ![UserOf[c]] = left]

-----------------------------------------------------------------------------
(* The data structure.                                                     *)

RegistryType(m) ==
    /\ DOMAIN m \subseteq Users
    /\ \A u \in DOMAIN m :
          /\ IsFiniteSet(DOMAIN m[u])
          /\ \A d \in DOMAIN m[u] : m[u][d] \in Conns

\* What every reader relies on: an outer key has a device (IsUserOnline does
\* not look inside), at most max_devices of them, and each connection is filed
\* under its own user and device.
WellFormed(m) ==
    \A u \in DOMAIN m :
        /\ DOMAIN m[u] # {}
        /\ Cardinality(DOMAIN m[u]) =< MaxDevices
        /\ \A d \in DOMAIN m[u] : UserOf[m[u][d]] = u /\ DeviceId(m[u][d]) = d
=============================================================================
