------------------------ MODULE SessionRegistryProofs ------------------------
(***************************************************************************)
(* What Add and Remove do to the table of online connections, whatever the *)
(* table, the connections, the users, the devices and the limit: lemmas    *)
(* for the modules that use the registry.                                  *)
(***************************************************************************)
EXTENDS SessionRegistry, FiniteSetTheorems, TLAPS

\* The inner map of a user is finite and maps devices to connections.
LEMMA ByDeviceType ==
    ASSUME NEW m, RegistryType(m), NEW u \in Users
    PROVE  /\ IsFiniteSet(DOMAIN ByDevice(m, u))
           /\ \A d \in DOMAIN ByDevice(m, u) : ByDevice(m, u)[d] \in Conns
<1>1. CASE u \in DOMAIN m
  BY <1>1 DEF ByDevice, RegistryType
<1>2. CASE u \notin DOMAIN m
  BY <1>2, FS_EmptySet DEF ByDevice, EmptyMap
<1> QED BY <1>1, <1>2

\* by_device[conn->device_id] = conn keeps the inner map finite and gives it at
\* least the device of c.
LEMMA WithConnType ==
    ASSUME NEW m, RegistryType(m), NEW c \in Conns
    PROVE  /\ DOMAIN WithConn(m, c) = DOMAIN ByDevice(m, UserOf[c]) \cup {DeviceId(c)}
           /\ IsFiniteSet(DOMAIN WithConn(m, c))
           /\ WithConn(m, c)[DeviceId(c)] = c
           /\ \A d \in DOMAIN WithConn(m, c) : WithConn(m, c)[d] \in Conns
<1>1. UserOf[c] \in Users
  BY RegistryAssumption
<1>2. DOMAIN WithConn(m, c) = DOMAIN ByDevice(m, UserOf[c]) \cup {DeviceId(c)}
  BY DEF WithConn
<1>3. IsFiniteSet(DOMAIN WithConn(m, c))
  BY <1>1, <1>2, ByDeviceType, FS_AddElement
<1> QED BY <1>1, <1>2, <1>3, ByDeviceType DEF WithConn

\* After the eviction loop at least one device is left and at most MaxDevices
\* are.
LEMMA EvictionLeaves ==
    ASSUME NEW inner, IsFiniteSet(DOMAIN inner), DOMAIN inner # {},
           NEW login, NEW E \in EvictionChoices(inner, login)
    PROVE  /\ IsFiniteSet(DOMAIN inner \ E)
           /\ DOMAIN inner \ E # {}
           /\ Cardinality(DOMAIN inner \ E) =< MaxDevices
<1> DEFINE n == Cardinality(DOMAIN inner)
<1>1. E \subseteq DOMAIN inner /\ Cardinality(E) = Excess(n)
  BY DEF EvictionChoices
<1>2. n \in Nat /\ n # 0
  BY FS_CardinalityType, FS_EmptySet
<1>3. IsFiniteSet(DOMAIN inner \ E)
  BY FS_Difference
<1>4. Cardinality(DOMAIN inner \ E) = n - Cardinality(E)
  <2>1. (DOMAIN inner) \cap E = E
    BY <1>1
  <2> QED BY <2>1, FS_Difference
<1>5. Cardinality(DOMAIN inner \ E) =< MaxDevices /\ Cardinality(DOMAIN inner \ E) # 0
  BY <1>1, <1>2, <1>4, RegistryAssumption DEF Excess
<1> QED BY <1>3, <1>5, FS_EmptySet

\* Add keeps the table typed and well formed.
LEMMA AddWellFormed ==
    ASSUME NEW m, RegistryType(m), WellFormed(m), NEW c \in Conns,
           NEW login, NEW E \in EvictionChoices(WithConn(m, c), login)
    PROVE  RegistryType(Add(m, c, E)) /\ WellFormed(Add(m, c, E))
<1> DEFINE inner == WithConn(m, c)
           after == Add(m, c, E)
<1>0. UserOf[c] \in Users
  BY RegistryAssumption
<1>1. /\ DOMAIN after = DOMAIN m \cup {UserOf[c]}
      /\ after[UserOf[c]] = Restrict(inner, DOMAIN inner \ E)
      /\ \A u \in DOMAIN m \ {UserOf[c]} : after[u] = m[u]
  BY DEF Add
<1>2. /\ IsFiniteSet(DOMAIN inner \ E)
      /\ DOMAIN inner \ E # {}
      /\ Cardinality(DOMAIN inner \ E) =< MaxDevices
  BY WithConnType, EvictionLeaves
<1>3. /\ DOMAIN after[UserOf[c]] = DOMAIN inner \ E
      /\ \A d \in DOMAIN inner \ E : after[UserOf[c]][d] = inner[d]
  BY <1>1 DEF Restrict
<1>4. \A d \in DOMAIN inner : UserOf[inner[d]] = UserOf[c] /\ DeviceId(inner[d]) = d
  BY DEF WithConn, ByDevice, EmptyMap, WellFormed
<1>5. RegistryType(after)
  <2>1. \A d \in DOMAIN inner \ E : inner[d] \in Conns
    BY WithConnType
  <2> HIDE DEF inner, after
  <2> QED BY <1>0, <1>1, <1>2, <1>3, <2>1 DEF RegistryType
<1>6. WellFormed(after)
  BY <1>1, <1>2, <1>3, <1>4 DEF WellFormed
<1> QED BY <1>5, <1>6

\* Add registers nobody but c, and hands back for closing every connection that
\* it drops, c itself included when it is the one evicted.
LEMMA AddRegistered ==
    ASSUME NEW m, RegistryType(m), NEW c \in Conns,
           NEW E \in SUBSET DOMAIN WithConn(m, c), NEW x \in Conns
    PROVE  /\ Registered(Add(m, c, E), x) => x = c \/ Registered(m, x)
           /\ x = c \/ Registered(m, x) =>
                 Registered(Add(m, c, E), x) \/ x \in Displaced(m, c, E)
<1> DEFINE inner == WithConn(m, c)
           after == Add(m, c, E)
<1>1. /\ DOMAIN after = DOMAIN m \cup {UserOf[c]}
      /\ DOMAIN after[UserOf[c]] = DOMAIN inner \ E
      /\ \A d \in DOMAIN inner \ E : after[UserOf[c]][d] = inner[d]
      /\ \A u \in DOMAIN m \ {UserOf[c]} : after[u] = m[u]
  BY DEF Add, Restrict
<1>2. CASE UserOf[x] # UserOf[c]
  BY <1>1, <1>2 DEF Registered
<1>3. CASE UserOf[x] = UserOf[c]
  <2>1. Registered(m, x) <=>
            /\ DeviceId(x) \in DOMAIN ByDevice(m, UserOf[c])
            /\ ByDevice(m, UserOf[c])[DeviceId(x)] = x
    BY <1>3 DEF Registered, ByDevice, EmptyMap
  <2>2. Registered(after, x) <=>
            DeviceId(x) \in DOMAIN inner \ E /\ inner[DeviceId(x)] = x
    BY <1>1, <1>3 DEF Registered
  <2>3. /\ DOMAIN inner = DOMAIN ByDevice(m, UserOf[c]) \cup {DeviceId(c)}
        /\ \A d \in DOMAIN inner :
              inner[d] = IF d = DeviceId(c) THEN c ELSE ByDevice(m, UserOf[c])[d]
    BY DEF WithConn
  <2>4. Registered(after, x) => x = c \/ Registered(m, x)
    BY <2>1, <2>2, <2>3
  <2>5. ASSUME x = c \/ Registered(m, x), ~Registered(after, x)
        PROVE  x \in Displaced(m, c, E)
    <3>1. CASE DeviceId(x) \in E /\ inner[DeviceId(x)] = x
      BY <3>1 DEF Displaced, Evicted
    <3>2. CASE ~(DeviceId(x) \in E /\ inner[DeviceId(x)] = x)
      <4>1. x # c /\ DeviceId(x) = DeviceId(c)
        BY <3>2, <2>5, <2>1, <2>2, <2>3
      <4>2. x \in Get(m, c)
        BY <4>1, <2>5, <2>1 DEF Get
      <4> QED BY <4>2 DEF Displaced
    <3> QED BY <3>1, <3>2
  <2> QED BY <2>4, <2>5
<1> QED BY <1>2, <1>3

\* Remove keeps the table typed and well formed: the outer key goes with its
\* last device.
LEMMA RemoveWellFormed ==
    ASSUME NEW m, RegistryType(m), WellFormed(m), NEW c \in Conns
    PROVE  RegistryType(Remove(m, c)) /\ WellFormed(Remove(m, c))
<1> DEFINE u == UserOf[c]
           left == Restrict(m[u], DOMAIN m[u] \ {DeviceId(c)})
<1>1. CASE u \notin DOMAIN m
  BY <1>1 DEF Remove
<1>2. CASE u \in DOMAIN m /\ DOMAIN left = {}
  <2>1. Remove(m, c) = Restrict(m, DOMAIN m \ {u})
    BY <1>2 DEF Remove
  <2> QED BY <2>1 DEF Restrict, RegistryType, WellFormed
<1>3. CASE u \in DOMAIN m /\ DOMAIN left # {}
  <2>1. Remove(m, c) = [m EXCEPT ![u] = left]
    BY <1>3 DEF Remove
  <2>2. /\ DOMAIN left = DOMAIN m[u] \ {DeviceId(c)}
        /\ \A d \in DOMAIN left : left[d] = m[u][d]
    BY DEF Restrict
  <2>3. IsFiniteSet(DOMAIN m[u]) /\ Cardinality(DOMAIN m[u]) =< MaxDevices
    BY <1>3 DEF RegistryType, WellFormed
  <2>4. /\ IsFiniteSet(DOMAIN left)
        /\ Cardinality(DOMAIN left) =< Cardinality(DOMAIN m[u])
    BY <2>2, <2>3, FS_Subset
  <2>5. Cardinality(DOMAIN left) =< MaxDevices
    BY <2>3, <2>4, FS_CardinalityType, RegistryAssumption
  <2> HIDE DEF left
  <2> QED BY <1>3, <2>1, <2>2, <2>4, <2>5 DEF RegistryType, WellFormed
<1> QED BY <1>1, <1>2, <1>3

\* Remove takes out exactly what is filed under the key of c, which may be
\* another connection than c.
LEMMA RemoveRegistered ==
    ASSUME NEW m, RegistryType(m), NEW c \in Conns, NEW x \in Conns
    PROVE  Registered(Remove(m, c), x) <=> Registered(m, x) /\ ~SameKey(x, c)
<1> DEFINE u == UserOf[c]
           left == Restrict(m[u], DOMAIN m[u] \ {DeviceId(c)})
<1>1. CASE u \notin DOMAIN m
  BY <1>1 DEF Remove, Registered, SameKey
<1>2. CASE u \in DOMAIN m /\ DOMAIN left = {}
  <2>1. Remove(m, c) = Restrict(m, DOMAIN m \ {u})
    BY <1>2 DEF Remove
  <2>2. DOMAIN m[u] \subseteq {DeviceId(c)}
    BY <1>2 DEF Restrict
  <2> QED BY <2>1, <2>2 DEF Restrict, Registered, SameKey
<1>3. CASE u \in DOMAIN m /\ DOMAIN left # {}
  <2>1. Remove(m, c) = [m EXCEPT ![u] = left]
    BY <1>3 DEF Remove
  <2>2. /\ DOMAIN left = DOMAIN m[u] \ {DeviceId(c)}
        /\ \A d \in DOMAIN left : left[d] = m[u][d]
    BY DEF Restrict
  <2> HIDE DEF left
  <2> QED BY <1>3, <2>1, <2>2 DEF Registered, SameKey
<1> QED BY <1>1, <1>2, <1>3

\* In a table within its limit, Add replaces one connection and evicts none, or
\* replaces none and evicts at most one.
LEMMA DisplacedIsSingle ==
    ASSUME NEW m, RegistryType(m), WellFormed(m), NEW c \in Conns,
           NEW login, NEW E \in EvictionChoices(WithConn(m, c), login)
    PROVE  \E x \in Conns : Displaced(m, c, E) \subseteq {x}
<1> DEFINE old == ByDevice(m, UserOf[c])
           inner == WithConn(m, c)
<1>1. UserOf[c] \in Users
  BY RegistryAssumption
<1>2. /\ IsFiniteSet(DOMAIN old)
      /\ \A d \in DOMAIN old : old[d] \in Conns
  BY <1>1, ByDeviceType
<1>3. Cardinality(DOMAIN old) \in Nat /\ Cardinality(DOMAIN old) =< MaxDevices
  <2>1. CASE UserOf[c] \in DOMAIN m
    BY <1>2, <2>1, FS_CardinalityType DEF ByDevice, WellFormed
  <2>2. CASE UserOf[c] \notin DOMAIN m
    <3>1. DOMAIN old = {}
      BY <2>2 DEF ByDevice, EmptyMap
    <3> QED BY <3>1, FS_EmptySet, RegistryAssumption
  <2> QED BY <2>1, <2>2
<1>4. /\ DOMAIN inner = DOMAIN old \cup {DeviceId(c)}
      /\ IsFiniteSet(DOMAIN inner)
      /\ \A d \in DOMAIN inner : inner[d] \in Conns
  BY WithConnType
<1>5. E \subseteq DOMAIN inner /\ Cardinality(E) = Excess(Cardinality(DOMAIN inner))
  BY DEF EvictionChoices
<1>6. IsFiniteSet(E)
  BY <1>4, <1>5, FS_Subset
<1>7. CASE DeviceId(c) \in DOMAIN old
  <2>1. Cardinality(E) = 0
    BY <1>3, <1>4, <1>5, <1>7, RegistryAssumption DEF Excess
  <2>2. E = {}
    BY <1>6, <2>1, FS_EmptySet
  <2>3. Displaced(m, c, E) = {old[DeviceId(c)]}
    BY <1>7, <2>2 DEF Displaced, Evicted, Get
  <2> QED BY <1>2, <1>7, <2>3
<1>8. CASE DeviceId(c) \notin DOMAIN old
  <2>1. Cardinality(DOMAIN inner) = Cardinality(DOMAIN old) + 1
    BY <1>2, <1>4, <1>8, FS_AddElement
  <2>2. Cardinality(E) \in {0, 1}
    BY <1>3, <1>5, <2>1, RegistryAssumption DEF Excess
  <2>3. Displaced(m, c, E) = {inner[d] : d \in E}
    BY <1>8 DEF Displaced, Evicted, Get
  <2>4. CASE Cardinality(E) = 0
    BY <1>6, <2>3, <2>4, FS_EmptySet
  <2>5. CASE Cardinality(E) = 1
    <3>1. PICK e : E = {e}
      BY <1>6, <2>5, FS_Singleton
    <3>2. inner[e] \in Conns
      BY <1>4, <1>5, <3>1
    <3> QED BY <2>3, <3>1, <3>2
  <2> QED BY <2>2, <2>4, <2>5
<1> QED BY <1>7, <1>8

\* What Add hands back for closing was in the table, or is the new connection
\* itself, and is not in the table any more; a replaced connection has the key
\* of the new one, and is not among the evicted.
LEMMA DisplacedIsGone ==
    ASSUME NEW m, RegistryType(m), WellFormed(m), NEW c \in Conns, ~Registered(m, c),
           NEW E \in SUBSET DOMAIN WithConn(m, c), NEW x \in Displaced(m, c, E)
    PROVE  /\ x \in Conns
           /\ x = c \/ Registered(m, x)
           /\ ~Registered(Add(m, c, E), x)
           /\ x \in Get(m, c) => x # c /\ SameKey(c, x) /\ x \notin Evicted(m, c, E)
<1> DEFINE old == ByDevice(m, UserOf[c])
           inner == WithConn(m, c)
           after == Add(m, c, E)
<1>1. \A d \in DOMAIN old :
          /\ old[d] \in Conns /\ UserOf[old[d]] = UserOf[c] /\ DeviceId(old[d]) = d
          /\ Registered(m, old[d])
  BY DEF ByDevice, EmptyMap, RegistryType, WellFormed, Registered
<1>2. /\ DOMAIN inner = DOMAIN old \cup {DeviceId(c)}
      /\ \A d \in DOMAIN inner : inner[d] = IF d = DeviceId(c) THEN c ELSE old[d]
  BY DEF WithConn
<1>3. /\ DOMAIN after[UserOf[c]] = DOMAIN inner \ E
      /\ \A d \in DOMAIN inner \ E : after[UserOf[c]][d] = inner[d]
  BY DEF Add, Restrict
<1> HIDE DEF old, inner, after
<1>4. CASE x \in Get(m, c)
  <2>1. DeviceId(c) \in DOMAIN old /\ x = old[DeviceId(c)]
    BY <1>4 DEF Get, old
  <2>2. /\ x \in Conns /\ Registered(m, x) /\ x # c
        /\ UserOf[x] = UserOf[c] /\ DeviceId(x) = DeviceId(c)
    BY <1>1, <2>1
  <2>3. ~Registered(after, x)
    BY <1>2, <1>3, <2>2 DEF Registered
  <2>4. x \notin Evicted(m, c, E)
    <3>1. \A d \in DOMAIN inner : inner[d] = x => d = DeviceId(c) /\ inner[d] = c
      BY <1>1, <1>2, <2>2
    <3>2. \A d \in E : inner[d] # x
      BY <2>2, <3>1 DEF inner
    <3> QED BY <3>2 DEF Evicted, inner
  <2> QED BY <2>2, <2>3, <2>4 DEF SameKey, after
<1>5. CASE x \notin Get(m, c)
  <2>1. PICK d \in E : x = inner[d]
    BY <1>5 DEF Displaced, Evicted, inner
  <2>2. d \in DOMAIN inner
    BY DEF inner
  <2>3. x \in Conns /\ (x = c \/ Registered(m, x))
    BY <1>1, <1>2, <2>1, <2>2
  <2>4. UserOf[x] = UserOf[c] /\ DeviceId(x) = d
    BY <1>1, <1>2, <2>1, <2>2
  <2>5. ~Registered(after, x)
    BY <1>3, <2>4 DEF Registered
  <2> QED BY <1>5, <2>3, <2>5 DEF after
<1> QED BY <1>4, <1>5
=============================================================================
