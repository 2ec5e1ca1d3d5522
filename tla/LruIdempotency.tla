--------------------------- MODULE LruIdempotency ----------------------------
(***************************************************************************)
(* The idempotency cache as an object: any sequence of TryMark calls, made *)
(* by one caller after another with the time each of them has read.  The   *)
(* time is the system clock, which may be set back, so the times of the    *)
(* calls are not ordered.                                                  *)
(***************************************************************************)
EXTENDS LruCache

CONSTANTS
    Keys,      \* message ids, or EmptyKey
    Times,     \* what NowMs may return
    MaxCalls   \* bound: the length of the history

ASSUME CallsAssumption == Times \subseteq Nat /\ MaxCalls \in Nat

VARIABLES
    cache,  \* m_lru and m_index
    calls   \* history: the calls so far and what they were told

vars == <<cache, calls>>

Init ==
    /\ cache = EmptyCache
    /\ calls = << >>

CallTryMark(k, now) ==
    LET r == TryMark(cache, k, now)
    IN  /\ Len(calls) < MaxCalls
        /\ cache' = r.cache
        /\ calls' = Append(calls, [key |-> k, at |-> now, ok |-> r.ok])

Next == \E k \in Keys, now \in Times : CallTryMark(k, now)

Spec == Init /\ [][Next]_vars

-----------------------------------------------------------------------------
KeysIn(lru) == {lru[i].key : i \in DOMAIN lru}

\* The list and the index describe the same nodes: one node per key, every node
\* reachable by its key, and no iterator to an erased node.  Three places erase
\* from both (the expired node of the key, Sweep, the trimming loop).
IndexMatchesList ==
    /\ DOMAIN cache.index = KeysIn(cache.lru)
    /\ \A i, j \in DOMAIN cache.lru : cache.lru[i].key = cache.lru[j].key => i = j
    /\ \A i \in DOMAIN cache.lru : cache.index[cache.lru[i].key] = cache.lru[i]
    /\ Len(cache.lru) =< Capacity

Accepted == {i \in DOMAIN calls : calls[i].ok}

\* A key is let through a second time only if, since it was accepted, some call
\* came at or after its expiry, or Capacity other keys were accepted: a message
\* redelivered within 24 hours is not handled twice unless 100000 others came
\* in between.
NoEarlyForgetting ==
    \A i, j \in Accepted :
        i < j /\ calls[i].key = calls[j].key =>
            \/ \E k \in i+1..j : calls[k].at >= calls[i].at + Ttl
            \/ Cardinality(Accepted \cap i+1..j-1) >= Capacity

\* A key is refused only if an earlier call accepted it and that mark has not
\* expired at the time of the refusal: no fresh message is taken for a
\* duplicate and acknowledged without having been handled.  (The empty key is
\* always refused; EnvelopeFromJson lets no such envelope through.)
NoFalseDuplicate ==
    \A j \in DOMAIN calls :
        ~calls[j].ok /\ calls[j].key # EmptyKey =>
            \E i \in Accepted :
                i < j /\ calls[i].key = calls[j].key /\ calls[i].at + Ttl > calls[j].at
=============================================================================
