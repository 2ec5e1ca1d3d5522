------------------------------ MODULE LruCache -------------------------------
(***************************************************************************)
(* LruIdempotencyCache (chat/util/lru_idempotency.cc) as operators.        *)
(*                                                                         *)
(* A cache is a record of its two members: lru, the list of nodes from the *)
(* most recently marked to the oldest, and index, which maps a key to the  *)
(* node its iterator points at.  TryMark holds m_mutex throughout.         *)
(***************************************************************************)
EXTENDS Integers, Sequences, SequencesExt

CONSTANTS
    Capacity,  \* m_capacity
    Ttl,       \* m_ttl_ms
    EmptyKey   \* the empty string

\* MqConsumer constructs its cache with 100000 and 24 hours.
ASSUME LruAssumption ==
    /\ Capacity \in Nat \ {0}
    /\ Ttl \in Nat \ {0}

Node(k, now) == [key |-> k, expire_at |-> now + Ttl]

EmptyCache == [lru |-> << >>, index |-> [k \in {} |-> k]]

\* Mutant: the erased nodes stay in the index.
Keep_LeavesIndex(cache, n) == [cache EXCEPT !.lru = SubSeq(@, 1, n)]

\* The oldest nodes are erased until n are left, and their keys with them.
Keep(cache, n) ==
    LET gone == {cache.lru[i].key : i \in n+1..Len(cache.lru)}
    IN  [lru   |-> SubSeq(cache.lru, 1, n),
         index |-> Restrict(cache.index, DOMAIN cache.index \ gone)]

\* Sweep erases from the tail and stops at the first node that is alive.
Alive(cache, now) ==
    {n \in 1..Len(cache.lru) : cache.lru[n].expire_at > now /\ n =< Capacity}

Sweep(cache, now) ==
    Keep(cache, Max({0} \cup Alive(cache, now)))

\* The node under k, if any, leaves the list.
Without(cache, k) ==
    IF k \in DOMAIN cache.index THEN RemoveFirst(cache.lru, cache.index[k]) ELSE cache.lru

\* Mutant: the loop trims one node too many.
Trim_OneTooMany(cache) ==
    IF Len(cache.lru) >= Capacity THEN Keep(cache, Capacity - 1) ELSE cache

Trim(cache) ==
    IF Len(cache.lru) > Capacity THEN Keep(cache, Capacity) ELSE cache

\* k is marked at the front, in place of its expired node.
Mark(cache, k, now) ==
    Trim([lru   |-> <<Node(k, now)>> \o Without(cache, k),
          index |-> [x \in DOMAIN cache.index \cup {k} |->
                        IF x = k THEN Node(k, now) ELSE cache.index[x]]])

\* Mutant: a node that is there counts, expired or not.
Remembers_Expired(cache, k, now) == k \in DOMAIN cache.index

Remembers(cache, k, now) ==
    k \in DOMAIN cache.index /\ cache.index[k].expire_at > now

\* The answer and the cache after it.  The empty key is refused, and nothing is
\* swept for it.
TryMark(cache, k, now) ==
    LET swept == Sweep(cache, now)
    IN  IF k = EmptyKey
          THEN [ok |-> FALSE, cache |-> cache]
        ELSE IF Remembers(swept, k, now)
          THEN [ok |-> FALSE, cache |-> swept]
          ELSE [ok |-> TRUE, cache |-> Mark(swept, k, now)]
=============================================================================
