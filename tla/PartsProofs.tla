----------------------------- MODULE PartsProofs ------------------------------
(***************************************************************************)
(* The parts of the server that depend on no other: the idempotency cache, *)
(* the frames of clients, the tokens, the latency histogram                *)
(* (SequentialParts) and the frame limiter (FrameLimiter), for every value *)
(* of their constants.                                                     *)
(*                                                                         *)
(* The induction that some of these proofs need starts from Least: a set   *)
(* of naturals has a least member.                                         *)
(***************************************************************************)
EXTENDS SequentialParts, FrameLimiter, SequenceTheorems, FiniteSetTheorems, TLAPS

-----------------------------------------------------------------------------
(* Induction.                                                              *)

\* A set of naturals has a least member: what stands for induction below.
LEMMA Least ==
    ASSUME NEW T \in SUBSET Nat, T # {}
    PROVE  \E m \in T : \A k \in T : m =< k
<1> DEFINE R == OpToRel(<, Nat)
<1>1. IsWellFoundedOn(R, Nat)
  BY NatLessThanWellFounded
<1>2. PICK m \in T : \A k \in T : ~(<<k, m>> \in R)
  <2> HIDE DEF R
  <2> QED BY <1>1, WFMin
<1>3. ASSUME NEW k \in T, k < m PROVE FALSE
  <2>1. k \in Nat /\ m \in Nat
    OBVIOUS
  <2>2. <<k, m>> \in R
    BY <1>3, <2>1 DEF OpToRel
  <2> QED BY <1>2, <2>2
<1> QED BY <1>3

\* Hence a set of naturals with a bound has a greatest one, and Max is it.
LEMMA MaxOfBounded ==
    ASSUME NEW n \in Nat, NEW S \in SUBSET (0..n), S # {}
    PROVE  Max(S) \in S /\ \A k \in S : k =< Max(S)
<1> DEFINE T == {n - k : k \in S}
<1>1. T \in SUBSET Nat /\ T # {}
  <2>1. \A k \in S : n - k \in Nat
    OBVIOUS
  <2> QED BY <2>1
<1>2. PICK m \in T : \A k \in T : m =< k
  <2> HIDE DEF T
  <2> QED BY <1>1, Least
<1>3. PICK x \in S : m = n - x
  OBVIOUS
<1>4. \A k \in S : k =< x
  <2> SUFFICES ASSUME NEW k \in S PROVE k =< x
    OBVIOUS
  <2>1. m =< n - k
    BY <1>2
  <2> QED BY <1>3, <2>1
<1> QED BY <1>4 DEF Max

\* Steps from each number to the next lead to all of them.
LEMMA Steps ==
    ASSUME NEW N \in Nat, NEW T, 0 \in T, \A n \in 1..N : n-1 \in T => n \in T
    PROVE  \A n \in 0..N : n \in T
<1> DEFINE S == {n \in 0..N : n \notin T}
<1> SUFFICES ASSUME S # {} PROVE FALSE
  OBVIOUS
<1>1. PICK m \in S : \A k \in S : m =< k
  <2>1. S \in SUBSET Nat
    OBVIOUS
  <2> HIDE DEF S
  <2> QED BY <2>1, Least
<1>2. m \in 1..N /\ m-1 \in 0..N
  OBVIOUS
<1>3. m-1 \in T
  BY <1>1, <1>2
<1> QED BY <1>2, <1>3

\* g starts from v0 and goes on by step.
Iterates(g, v0, N, step) == g[0] = v0 /\ \A n \in 1..N : g[n] = step[n][g[n-1]]

\* A function defined by its value at 0 and by a step exists.
LEMMA Recursion ==
    ASSUME NEW V, NEW v0 \in V, NEW N \in Nat, NEW step \in [1..N -> [V -> V]]
    PROVE  \E g \in [0..N -> V] : Iterates(g, v0, N, step)
<1> DEFINE Good(n, g) == g \in [0..n -> V] /\ g[0] = v0 /\ \A k \in 1..n : g[k] = step[k][g[k-1]]
           T == {n \in 0..N : \E g : Good(n, g)}
<1>1. 0 \in T
  <2> DEFINE g == [x \in 0..0 |-> v0]
  <2>1. 0..0 = {0} /\ 1..0 = {}
    OBVIOUS
  <2>2. Good(0, g)
    BY <2>1
  <2> HIDE DEF Good, g
  <2> QED BY <2>2
<1>2. ASSUME NEW n \in 1..N, n-1 \in T PROVE n \in T
  <2>1. PICK g : Good(n-1, g)
    BY <1>2
  <2> DEFINE h == [x \in 0..n |-> IF x = n THEN step[n][g[n-1]] ELSE g[x]]
  <2>2. n \in Nat /\ n-1 \in 0..n-1 /\ g[n-1] \in V /\ step[n] \in [V -> V]
    BY <2>1
  <2>3. \A x \in 0..n : x # n => x \in 0..n-1 /\ g[x] \in V
    BY <2>1, <2>2
  <2>4. h \in [0..n -> V]
    BY <2>2, <2>3
  <2>5. h[0] = v0
    BY <2>1, <2>2
  <2>6. ASSUME NEW k \in 1..n PROVE h[k] = step[k][h[k-1]]
    <3>1. k-1 \in 0..n /\ k-1 # n /\ h[k-1] = g[k-1]
      BY <2>2
    <3>2. CASE k = n
      BY <3>1, <3>2
    <3>3. CASE k # n
      <4>1. k \in 1..n-1 /\ h[k] = g[k]
        BY <2>2, <3>3
      <4> QED BY <2>1, <3>1, <4>1
    <3> QED BY <3>2, <3>3
  <2> HIDE DEF h
  <2>7. Good(n, h)
    BY <2>4, <2>5, <2>6
  <2> QED BY <2>7
<1> HIDE DEF T
<1>3. \A n \in 0..N : n \in T
  BY <1>1, <1>2, Steps
<1>4. N \in T
  BY <1>3
<1> QED BY <1>4 DEF T, Iterates

-----------------------------------------------------------------------------
(* The idempotency cache: one call.                                        *)

Nodes == [key : Keys, expire_at : Nat]

\* The list and the index describe the same nodes.
Matches(c) ==
    /\ c.lru \in Seq(Nodes)
    /\ DOMAIN c.index = KeysIn(c.lru)
    /\ \A i, j \in DOMAIN c.lru : c.lru[i].key = c.lru[j].key => i = j
    /\ \A i \in DOMAIN c.lru : c.index[c.lru[i].key] = c.lru[i]

\* Erasing from the tail leaves the front as it was.
LEMMA KeepMatches ==
    ASSUME NEW c, Matches(c), NEW n \in 0..Len(c.lru)
    PROVE  /\ Matches(Keep(c, n))
           /\ Len(Keep(c, n).lru) = n
           /\ \A i \in 1..n : Keep(c, n).lru[i] = c.lru[i]
<1> DEFINE L == Len(c.lru)
           d == Keep(c, n)
           gone == {c.lru[i].key : i \in n+1..L}
<1>1. /\ L \in Nat /\ c.lru \in [1..L -> Nodes] /\ DOMAIN c.lru = 1..L
  BY LenProperties DEF Matches
<1>2. d.lru = SubSeq(c.lru, 1, n) /\ d.index = Restrict(c.index, DOMAIN c.index \ gone)
  BY DEF Keep
<1>3. /\ d.lru \in Seq(Nodes) /\ Len(d.lru) = n /\ DOMAIN d.lru = 1..n
      /\ \A i \in 1..n : d.lru[i] = c.lru[i]
  BY <1>1, <1>2 DEF Matches
<1>4. /\ DOMAIN d.index = DOMAIN c.index \ gone
      /\ \A k \in DOMAIN c.index \ gone : d.index[k] = c.index[k]
  BY <1>2 DEF Restrict
<1>5. DOMAIN c.index \ gone = {c.lru[i].key : i \in 1..n}
  <2>1. DOMAIN c.index = {c.lru[i].key : i \in 1..L}
    BY <1>1 DEF Matches, KeysIn
  <2>2. \A i \in 1..n, j \in n+1..L : c.lru[i].key # c.lru[j].key
    BY <1>1 DEF Matches
  <2> QED BY <1>1, <2>1, <2>2
<1>6. KeysIn(d.lru) = {c.lru[i].key : i \in 1..n}
  BY <1>3 DEF KeysIn
<1>7. \A i, j \in 1..n : d.lru[i].key = d.lru[j].key => i = j
  BY <1>1, <1>3 DEF Matches
<1> HIDE DEF d, gone
<1>8. ASSUME NEW i \in 1..n PROVE d.index[d.lru[i].key] = d.lru[i]
  <2>1. i \in 1..L /\ d.lru[i] = c.lru[i] /\ c.lru[i].key \in DOMAIN c.index \ gone
    BY <1>1, <1>3, <1>5
  <2>2. c.index[c.lru[i].key] = c.lru[i]
    BY <1>1, <2>1 DEF Matches
  <2> QED BY <1>4, <2>1, <2>2
<1> QED BY <1>3, <1>4, <1>5, <1>6, <1>7, <1>8 DEF Matches, d

\* Sweep erases expired nodes only.
LEMMA SweepsExpired ==
    ASSUME NEW c, Matches(c), Len(c.lru) =< Capacity, NEW t \in Nat
    PROVE  \E n \in 0..Len(c.lru) :
              /\ Sweep(c, t) = Keep(c, n)
              /\ \A i \in n+1..Len(c.lru) : c.lru[i].expire_at =< t
<1> DEFINE L == Len(c.lru)
           S == {0} \cup Alive(c, t)
<1>1. L \in Nat /\ c.lru \in [1..L -> Nodes]
  BY LenProperties DEF Matches
<1>2. S \in SUBSET (0..L) /\ S # {}
  BY <1>1 DEF Alive
<1>3. Max(S) \in S /\ \A k \in S : k =< Max(S)
  <2> HIDE DEF S
  <2> QED BY <1>1, <1>2, MaxOfBounded
<1>4. ASSUME NEW i \in Max(S)+1..L PROVE c.lru[i].expire_at =< t
  <2>1. Max(S) \in 0..L
    BY <1>2, <1>3
  <2> HIDE DEF S
  <2>2. i \in 1..L /\ i \notin S /\ i =< Capacity
    BY <1>1, <1>3, <2>1, LruAssumption
  <2>3. ~(c.lru[i].expire_at > t)
    BY <2>2 DEF Alive, S
  <2>4. c.lru[i].expire_at \in Nat
    BY <1>1, <2>2 DEF Nodes
  <2> QED BY <2>3, <2>4
<1> QED BY <1>2, <1>3, <1>4 DEF Sweep

\* A node that leaves the middle of the list closes the gap behind it.
LEMMA WithoutOne ==
    ASSUME NEW c, Matches(c), NEW k
    PROVE  \E p \in 1..Len(c.lru)+1 :
              /\ Without(c, k) \in Seq(Nodes)
              /\ Len(Without(c, k)) = IF p =< Len(c.lru) THEN Len(c.lru) - 1 ELSE Len(c.lru)
              /\ \A i \in 1..Len(Without(c, k)) :
                    Without(c, k)[i] = IF i < p THEN c.lru[i] ELSE c.lru[i+1]
              /\ IF p =< Len(c.lru)
                   THEN k \in DOMAIN c.index /\ c.lru[p] = c.index[k] /\ c.lru[p].key = k
                   ELSE k \notin DOMAIN c.index
<1> DEFINE L == Len(c.lru)
           s == c.lru
<1>1. L \in Nat /\ s \in [1..L -> Nodes] /\ DOMAIN s = 1..L /\ s \in Seq(Nodes)
  BY LenProperties DEF Matches
<1>2. CASE k \notin DOMAIN c.index
  <2>1. Without(c, k) = s
    BY <1>2 DEF Without
  <2>2. L+1 \in 1..L+1 /\ ~(L+1 =< L) /\ \A i \in 1..L : i < L+1
    BY <1>1
  <2> QED BY <1>1, <1>2, <2>1, <2>2
<1>3. CASE k \in DOMAIN c.index
  <2> DEFINE e == c.index[k]
             I == {i \in 1..L : s[i] = e}
  <2>1. PICK q \in 1..L : s[q].key = k /\ s[q] = e
    BY <1>1, <1>3 DEF Matches, KeysIn
  <2>2. I = {q}
    BY <1>1, <2>1 DEF Matches
  <2>3. Min(I) = q
    BY <1>1, <2>2 DEF Min
  <2>4. SelectInSeq(s, LAMBDA v : v = e) = q
    BY <2>2, <2>3 DEF SelectInSeq
  <2>5. Without(c, k) = RemoveAt(s, q)
    BY <1>3, <2>1, <2>4 DEF Without, RemoveFirst
  <2> DEFINE a == SubSeq(s, 1, q-1)
             b == SubSeq(s, q+1, L)
  <2>6. /\ a \in Seq(Nodes) /\ Len(a) = q-1 /\ \A i \in 1..q-1 : a[i] = s[i]
    BY <1>1
  <2>7. /\ b \in Seq(Nodes) /\ Len(b) = L-q /\ \A i \in 1..L-q : b[i] = s[i+q]
    BY <1>1
  <2>8. Without(c, k) = a \o b
    BY <2>5 DEF RemoveAt
  <2> HIDE DEF a, b
  <2>9. /\ a \o b \in Seq(Nodes) /\ Len(a \o b) = L-1
        /\ \A i \in 1..L-1 : (a \o b)[i] = IF i < q THEN s[i] ELSE s[i+1]
    <3>1. /\ a \o b \in Seq(Nodes) /\ Len(a \o b) = Len(a) + Len(b)
          /\ \A i \in 1..Len(a)+Len(b) : (a \o b)[i] = IF i =< Len(a) THEN a[i] ELSE b[i - Len(a)]
      BY <2>6, <2>7, ConcatProperties
    <3>2. ASSUME NEW i \in 1..L-1 PROVE (a \o b)[i] = IF i < q THEN s[i] ELSE s[i+1]
      <4>1. CASE i < q
        BY <1>1, <2>6, <2>7, <3>1, <4>1
      <4>2. CASE i >= q
        <5>1. (a \o b)[i] = b[i - (q-1)] /\ i - (q-1) \in 1..L-q
          <6>1. /\ i \in 1..Len(a)+Len(b) /\ ~(i =< Len(a)) /\ Len(a) = q-1
                /\ i - (q-1) \in 1..L-q
            <7>1. Len(a) = q-1 /\ Len(b) = L-q
              BY <2>6, <2>7
            <7> QED BY <1>1, <4>2, <7>1
          <6>2. (a \o b)[i] = b[i - Len(a)]
            BY <3>1, <6>1
          <6> QED BY <6>1, <6>2
        <5>2. b[i - (q-1)] = s[i - (q-1) + q]
          BY <2>7, <5>1
        <5>3. i - (q-1) + q = i+1 /\ ~(i < q)
          BY <4>2
        <5> QED BY <5>1, <5>2, <5>3
      <4>3. i < q \/ i >= q
        BY <1>1
      <4> QED BY <4>1, <4>2, <4>3
    <3> QED BY <1>1, <2>6, <2>7, <3>1, <3>2
  <2>10. q \in 1..L+1 /\ q =< L
    BY <1>1
  <2> QED BY <1>3, <2>1, <2>8, <2>9, <2>10
<1> QED BY <1>2, <1>3

\* A key is marked at the front: what was in the list moves back by at most one,
\* and only the node at the limit, or the old one of the key, can leave it.
LEMMA Marks ==
    ASSUME NEW c, Matches(c), Len(c.lru) =< Capacity, NEW k \in Keys, NEW t \in Nat
    PROVE  LET m == Mark(c, k, t)
           IN  /\ Matches(m) /\ Len(m.lru) \in 1..Capacity
               /\ m.lru[1] = Node(k, t)
               /\ \A i \in 2..Len(m.lru) : \E j \in 1..Len(c.lru) : m.lru[i] = c.lru[j]
               /\ \A j \in 1..Len(c.lru) :
                     \/ c.lru[j].key = k
                     \/ j = Capacity
                     \/ j+1 =< Len(m.lru) /\ m.lru[j+1] = c.lru[j]
                     \/ j =< Len(m.lru) /\ m.lru[j] = c.lru[j]
<1> DEFINE L == Len(c.lru)
           w == Without(c, k)
           u == [lru   |-> <<Node(k, t)>> \o w,
                 index |-> [x \in DOMAIN c.index \cup {k} |->
                               IF x = k THEN Node(k, t) ELSE c.index[x]]]
           m == Mark(c, k, t)
<1>1. /\ L \in Nat /\ c.lru \in [1..L -> Nodes] /\ DOMAIN c.lru = 1..L /\ c.lru \in Seq(Nodes)
      /\ DOMAIN c.index = {c.lru[i].key : i \in 1..L}
      /\ \A i, j \in 1..L : c.lru[i].key = c.lru[j].key => i = j
      /\ \A i \in 1..L : c.index[c.lru[i].key] = c.lru[i]
  BY LenProperties DEF Matches, KeysIn
<1>2. PICK p \in 1..L+1 :
          /\ w \in Seq(Nodes)
          /\ Len(w) = IF p =< L THEN L-1 ELSE L
          /\ \A i \in 1..Len(w) : w[i] = IF i < p THEN c.lru[i] ELSE c.lru[i+1]
          /\ IF p =< L THEN k \in DOMAIN c.index /\ c.lru[p] = c.index[k] /\ c.lru[p].key = k
             ELSE k \notin DOMAIN c.index
  BY WithoutOne
<1>3. m = Trim(u)
  BY DEF Mark
<1> DEFINE n == Len(w)
<1>4. Node(k, t) \in Nodes /\ Node(k, t).key = k
  BY LruAssumption DEF Node, Nodes
<1>5. /\ u.lru \in Seq(Nodes) /\ Len(u.lru) = n+1 /\ n \in Nat
      /\ u.lru[1] = Node(k, t) /\ \A i \in 1..n : u.lru[i+1] = w[i]
  <2> HIDE DEF w
  <2> QED BY <1>2, <1>4
<1>5a. /\ p \in 1..L+1 /\ n = IF p =< L THEN L-1 ELSE L
       /\ \A i \in 1..n : w[i] = IF i < p THEN c.lru[i] ELSE c.lru[i+1]
       /\ p =< L => c.lru[p].key = k
  BY <1>2
<1> HIDE DEF w, n
<1>6. ASSUME NEW i \in 1..n
      PROVE  /\ w[i].key # k
             /\ \E j \in 1..L : w[i] = c.lru[j]
  <2>1. CASE i < p
    <3>1. i \in 1..L /\ i # p /\ w[i] = c.lru[i]
      BY <1>1, <1>5, <1>5a, <2>1
    <3> QED BY <1>1, <1>2, <3>1, SMTT(30)
  <2>2. CASE i >= p
    <3>1. i+1 \in 1..L /\ i+1 # p /\ w[i] = c.lru[i+1]
      BY <1>1, <1>5, <1>5a, <2>2
    <3> QED BY <1>1, <1>2, <3>1, SMTT(30)
  <2>3. i < p \/ i >= p
    BY <1>1, <1>5, <1>5a
  <2> QED BY <2>1, <2>2, <2>3
<1>7. ASSUME NEW j \in 1..L, j # p
      PROVE  IF j < p THEN j =< n /\ w[j] = c.lru[j]
             ELSE j-1 \in 1..n /\ w[j-1] = c.lru[j]
  <2>1. CASE j < p
    BY <1>1, <1>5, <1>5a, <2>1
  <2>2. CASE j > p
    <3>1. j-1 \in 1..n /\ ~(j-1 < p) /\ (j-1)+1 = j
      BY <1>1, <1>5, <1>5a, <2>2
    <3> QED BY <1>5a, <2>2, <3>1
  <2>3. j < p \/ j > p
    BY <1>1, <1>7
  <2> QED BY <2>1, <2>2, <2>3
<1>8. ASSUME NEW i \in 1..n, NEW j \in 1..n, w[i].key = w[j].key PROVE i = j
  <2> DEFINE At(x) == IF x < p THEN x ELSE x+1
  <2>1. \A x \in 1..n : At(x) \in 1..L /\ w[x] = c.lru[At(x)]
    BY <1>1, <1>5, <1>5a
  <2>2. At(i) = At(j)
    <3> HIDE DEF At
    <3> QED BY <1>1, <1>8, <2>1
  <2> QED BY <1>1, <1>5, <1>5a, <2>2
<1>9. Matches(u)
  <2> DEFINE s == u.lru
  <2>1. DOMAIN s = 1..n+1
    BY <1>5, LenProperties
  <2>2. \A i \in 2..n+1 : i-1 \in 1..n /\ s[i] = w[i-1]
    BY <1>5
  <2>3. ASSUME NEW i \in 1..n+1, NEW j \in 1..n+1, s[i].key = s[j].key PROVE i = j
    <3>1. CASE i = 1 /\ j = 1
      BY <3>1
    <3>2. CASE i \in 2..n+1 /\ j = 1
      BY <1>4, <1>5, <1>6, <2>2, <2>3, <3>2
    <3>3. CASE i = 1 /\ j \in 2..n+1
      BY <1>4, <1>5, <1>6, <2>2, <2>3, <3>3
    <3>4. CASE i \in 2..n+1 /\ j \in 2..n+1
      <4>1. i-1 \in 1..n /\ j-1 \in 1..n /\ w[i-1].key = w[j-1].key
        BY <2>2, <2>3, <3>4
      <4>2. i-1 = j-1
        BY <1>8, <4>1
      <4> QED BY <3>4, <4>2
    <3>5. i \in {1} \cup 2..n+1 /\ j \in {1} \cup 2..n+1
      BY <1>5
    <3> QED BY <3>1, <3>2, <3>3, <3>4, <3>5
  <2>4. KeysIn(s) = {k} \cup {w[i].key : i \in 1..n}
    <3>1. KeysIn(s) = {s[i].key : i \in 1..n+1}
      BY <2>1 DEF KeysIn
    <3>2. 1..n+1 = {1} \cup 2..n+1 /\ \A i \in 1..n : i+1 \in 2..n+1 /\ s[i+1] = w[i]
      BY <1>5
    <3>3. {s[i].key : i \in 1..n+1} \subseteq {k} \cup {w[i].key : i \in 1..n}
      BY <1>4, <1>5, <2>2, <3>2
    <3>4. {k} \cup {w[i].key : i \in 1..n} \subseteq {s[i].key : i \in 1..n+1}
      BY <1>4, <1>5, <3>2
    <3> QED BY <3>1, <3>3, <3>4
  <2>5. DOMAIN u.index = {k} \cup {w[i].key : i \in 1..n}
    <3>1. DOMAIN u.index = {k} \cup {c.lru[j].key : j \in 1..L}
      BY <1>1
    <3>2. \A i \in 1..n : w[i].key \in {c.lru[j].key : j \in 1..L}
      BY <1>6
    <3>3. \A j \in 1..L : c.lru[j].key = k \/ \E i \in 1..n : w[i] = c.lru[j]
      <4> SUFFICES ASSUME NEW j \in 1..L, c.lru[j].key # k PROVE \E i \in 1..n : w[i] = c.lru[j]
        OBVIOUS
      <4>1. j # p
        BY <1>2
      <4>2. j < p => j \in 1..n
        BY <1>7, <4>1
      <4> QED BY <1>7, <4>1, <4>2
    <3> QED BY <3>1, <3>2, <3>3
  <2>6. ASSUME NEW i \in 1..n+1 PROVE u.index[s[i].key] = s[i]
    <3>1. CASE i = 1
      BY <1>4, <1>5, <3>1
    <3>2. CASE i \in 2..n+1
      <4>1. PICK j \in 1..L : s[i] = c.lru[j] /\ s[i].key # k
        BY <1>6, <2>2, <3>2
      <4>2. c.lru[j].key \in DOMAIN c.index /\ c.index[c.lru[j].key] = c.lru[j]
        BY <1>1
      <4> QED BY <4>1, <4>2
    <3> QED BY <1>5, <3>1, <3>2
  <2> QED BY <1>5, <2>1, <2>3, <2>4, <2>5, <2>6 DEF Matches
<1> HIDE DEF u
<1>10. /\ Matches(m) /\ Len(m.lru) = (IF n+1 > Capacity THEN Capacity ELSE n+1)
       /\ \A i \in 1..Len(m.lru) : m.lru[i] = u.lru[i]
  <2>1. CASE n+1 > Capacity
    <3>1. m = Keep(u, Capacity) /\ Capacity \in 0..Len(u.lru)
      BY <1>3, <1>5, <2>1, LruAssumption DEF Trim
    <3> QED BY <1>9, <2>1, <3>1, KeepMatches
  <2>2. CASE ~(n+1 > Capacity)
    BY <1>3, <1>5, <1>9, <2>2 DEF Trim
  <2> QED BY <2>1, <2>2
<1>11. Len(m.lru) \in 1..Capacity /\ Len(m.lru) =< n+1
  BY <1>5, <1>10, LruAssumption
<1>12. m.lru[1] = Node(k, t)
  BY <1>5, <1>10, <1>11
<1>13. ASSUME NEW i \in 2..Len(m.lru) PROVE \E j \in 1..L : m.lru[i] = c.lru[j]
  <2>1. i-1 \in 1..n /\ (i-1)+1 = i /\ i \in 1..Len(m.lru)
    BY <1>5, <1>11
  <2>2. m.lru[i] = w[i-1]
    BY <1>5, <1>10, <2>1
  <2> QED BY <1>6, <2>1, <2>2
<1>14. ASSUME NEW j \in 1..L
       PROVE  \/ c.lru[j].key = k
              \/ j = Capacity
              \/ j+1 =< Len(m.lru) /\ m.lru[j+1] = c.lru[j]
              \/ j =< Len(m.lru) /\ m.lru[j] = c.lru[j]
  <2>1. CASE j = p
    BY <1>2, <2>1
  <2>2. CASE j # p /\ j < p
    <3>1. j \in 1..n /\ u.lru[j+1] = c.lru[j]
      BY <1>5, <1>7, <2>2
    <3>2. j+1 \in 1..Len(m.lru) \/ j = Capacity
      <4>1. j =< Capacity /\ j =< n /\ Len(m.lru) = IF n+1 > Capacity THEN Capacity ELSE n+1
        BY <1>1, <1>10, <3>1, LruAssumption
      <4>2. j \in Nat /\ n \in Nat /\ Capacity \in Nat
        BY <1>5, LruAssumption
      <4> QED BY <4>1, <4>2
    <3> QED BY <1>10, <3>1, <3>2
  <2>3. CASE j # p /\ ~(j < p)
    <3>1. j-1 \in 1..n /\ w[j-1] = c.lru[j]
      BY <1>7, <2>3
    <3>2. u.lru[j] = c.lru[j] /\ j \in 1..n+1
      <4>1. (j-1)+1 = j
        OBVIOUS
      <4> QED BY <1>5, <3>1, <4>1
    <3>3. j \in 1..Len(m.lru)
      BY <1>1, <1>10, <3>2, LruAssumption
    <3> QED BY <1>10, <3>2, <3>3
  <2> QED BY <2>1, <2>2, <2>3
<1> QED BY <1>10, <1>11, <1>12, <1>13, <1>14

\* One call on c that answers ok and leaves d: what it lets through, what it
\* refuses, and what it forgets.
Tried(c, k, t, d, ok) ==
    /\ ok \in BOOLEAN /\ Matches(d)
    /\ Len(d.lru) \in Nat /\ Len(d.lru) =< Capacity
    /\ ~ok /\ k # EmptyKey =>
          \E j \in 1..Len(c.lru) : c.lru[j].key = k /\ c.lru[j].expire_at > t
    /\ ok => /\ Len(d.lru) >= 1 /\ d.lru[1] = Node(k, t)
             /\ \A j \in 1..Len(c.lru) : c.lru[j].key = k => c.lru[j].expire_at =< t
    /\ \A i \in 1..Len(d.lru) :
          \/ ok /\ i = 1
          \/ \E j \in 1..Len(c.lru) : d.lru[i] = c.lru[j]
    /\ \A j \in 1..Len(c.lru) :
          \/ c.lru[j].expire_at =< t
          \/ ok /\ j = Capacity
          \/ \E i \in 1..Len(d.lru) : d.lru[i] = c.lru[j] /\ i =< (IF ok THEN j+1 ELSE j)

\* TryMark is such a call.
LEMMA TryMarkDoes ==
    ASSUME NEW c, Matches(c), Len(c.lru) =< Capacity, NEW k \in Keys, NEW t \in Nat
    PROVE  Tried(c, k, t, TryMark(c, k, t).cache, TryMark(c, k, t).ok)
<1> DEFINE r == TryMark(c, k, t)
           d == Sweep(c, t)
           L == Len(c.lru)
<1>1. PICK n \in 0..L : d = Keep(c, n) /\ \A i \in n+1..L : c.lru[i].expire_at =< t
  BY SweepsExpired
<1>2. /\ L \in Nat /\ c.lru \in [1..L -> Nodes] /\ n \in Nat /\ n =< L
      /\ \A i \in 1..L : c.lru[i].expire_at \in Nat
  <2>1. L \in Nat /\ c.lru \in [1..L -> Nodes]
    BY LenProperties DEF Matches
  <2>2. \A i \in 1..L : c.lru[i] \in Nodes
    BY <2>1
  <2> QED BY <2>1, <2>2 DEF Nodes
<1>3. Matches(d) /\ Len(d.lru) = n /\ \A i \in 1..n : d.lru[i] = c.lru[i]
  BY <1>1, KeepMatches
<1>4. /\ DOMAIN d.lru = 1..n /\ DOMAIN d.index = {d.lru[i].key : i \in 1..n}
      /\ \A i \in 1..n : d.index[d.lru[i].key] = d.lru[i]
  <2>1. d.lru \in Seq(Nodes) /\ DOMAIN d.lru = 1..n
    BY <1>3, LenProperties DEF Matches
  <2> QED BY <1>3, <2>1 DEF Matches, KeysIn
<1>5. ASSUME NEW j \in 1..L PROVE c.lru[j].expire_at =< t \/ j \in 1..n
  BY <1>1, <1>2
<1>8. CASE k = EmptyKey
  <2>1. r.ok = FALSE /\ r.cache = c
    BY <1>8 DEF TryMark
  <2>2. \A i \in 1..L : c.lru[i] = c.lru[i] /\ i =< i
    BY <1>2
  <2> HIDE DEF r
  <2>3. Tried(c, k, t, r.cache, r.ok)
    BY <1>2, <1>8, <2>1, <2>2 DEF Tried
  <2> QED BY <2>3 DEF r
<1>6. CASE k # EmptyKey /\ Remembers(d, k, t)
  <2>1. r.ok = FALSE /\ r.cache = d
    BY <1>6 DEF TryMark
  <2>2. PICK j \in 1..n : d.lru[j].key = k
    BY <1>4, <1>6 DEF Remembers
  <2>3. c.lru[j].key = k /\ c.lru[j].expire_at > t /\ j \in 1..L
    BY <1>2, <1>3, <1>4, <1>6, <2>2 DEF Remembers
  <2>4. \A i \in 1..n : \E x \in 1..L : d.lru[i] = c.lru[x]
    BY <1>2, <1>3
  <2>5. \A x \in 1..L : c.lru[x].expire_at =< t \/ \E i \in 1..n : d.lru[i] = c.lru[x] /\ i =< x
    BY <1>2, <1>3, <1>5
  <2>6. n =< Capacity
    BY <1>2, LruAssumption
  <2> HIDE DEF d, r
  <2>7. Tried(c, k, t, r.cache, r.ok)
    BY <1>2, <1>3, <2>1, <2>3, <2>4, <2>5, <2>6 DEF Tried
  <2> QED BY <2>7 DEF r
<1>7. CASE k # EmptyKey /\ ~Remembers(d, k, t)
  <2> DEFINE m == Mark(d, k, t)
  <2>1. r.ok = TRUE /\ r.cache = m
    BY <1>7 DEF TryMark
  <2>2. Len(d.lru) =< Capacity
    BY <1>2, <1>3, LruAssumption
  <2> HIDE DEF d
  <2>3. /\ Matches(m) /\ Len(m.lru) \in 1..Capacity
        /\ m.lru[1] = Node(k, t)
        /\ \A i \in 2..Len(m.lru) : \E j \in 1..Len(d.lru) : m.lru[i] = d.lru[j]
        /\ \A j \in 1..Len(d.lru) :
              \/ d.lru[j].key = k
              \/ j = Capacity
              \/ j+1 =< Len(m.lru) /\ m.lru[j+1] = d.lru[j]
              \/ j =< Len(m.lru) /\ m.lru[j] = d.lru[j]
    BY <1>3, <2>2, Marks
  <2> HIDE DEF m, r
  <2>4. \A j \in 1..n : d.lru[j].key = k => ~(d.lru[j].expire_at > t)
    BY <1>4, <1>7 DEF Remembers
  <2>5. \A j \in 1..L : c.lru[j].key = k => c.lru[j].expire_at =< t
    <3> SUFFICES ASSUME NEW j \in 1..L, c.lru[j].key = k, j \in 1..n
                 PROVE c.lru[j].expire_at =< t
      BY <1>5
    <3>1. ~(c.lru[j].expire_at > t)
      BY <1>3, <2>4
    <3> QED BY <1>2, <3>1
  <2>6. ASSUME NEW i \in 1..Len(m.lru) PROVE i = 1 \/ \E j \in 1..L : m.lru[i] = c.lru[j]
    <3>1. i = 1 \/ i \in 2..Len(m.lru)
      BY <2>3
    <3>2. CASE i \in 2..Len(m.lru)
      <4>1. PICK j \in 1..n : m.lru[i] = d.lru[j]
        BY <1>3, <2>3, <3>2
      <4> QED BY <1>2, <1>3, <4>1
    <3> QED BY <3>1, <3>2
  <2>7. ASSUME NEW j \in 1..L
        PROVE  \/ c.lru[j].expire_at =< t
               \/ j = Capacity
               \/ \E i \in 1..Len(m.lru) : m.lru[i] = c.lru[j] /\ i =< j+1
    <3>1. CASE j \in 1..n /\ c.lru[j].key # k /\ j # Capacity
      <4>1. d.lru[j] = c.lru[j]
        BY <1>3, <3>1
      <4>2. \/ j+1 =< Len(m.lru) /\ m.lru[j+1] = c.lru[j]
            \/ j =< Len(m.lru) /\ m.lru[j] = c.lru[j]
        BY <1>3, <2>3, <3>1, <4>1
      <4>3. Len(m.lru) \in Nat /\ j \in Nat /\ j >= 1
        BY <2>3, LruAssumption
      <4>4. j+1 =< Len(m.lru) => j+1 \in 1..Len(m.lru)
        BY <4>3
      <4>5. j =< Len(m.lru) => j \in 1..Len(m.lru) /\ j =< j+1
        BY <4>3
      <4> QED BY <4>2, <4>4, <4>5
    <3> QED BY <1>5, <2>5, <3>1
  <2>8. Len(m.lru) \in Nat /\ Len(m.lru) >= 1 /\ Len(m.lru) =< Capacity
    BY <2>3, LruAssumption
  <2>9. Tried(c, k, t, r.cache, r.ok)
    BY <1>7, <2>1, <2>3, <2>5, <2>6, <2>7, <2>8 DEF Tried
  <2> QED BY <2>9 DEF r
<1> QED BY <1>6, <1>7, <1>8

-----------------------------------------------------------------------------
(* Any sequence of calls.                                                  *)

Calls == [key : Keys, at : Nat, ok : BOOLEAN]

\* Calls accepted after the i-th.
Since(i) == Accepted \cap (i+1..Len(calls))

Expires(i) == \E k \in i+1..Len(calls) : calls[k].at >= calls[i].at + Ttl

\* What is in the list has been accepted; what was accepted is in the list, with
\* fewer nodes before it than were accepted since, or has expired, or has been
\* pushed out.
Remembered ==
    /\ \A p \in 1..Len(cache.lru) :
          \E i \in Accepted : cache.lru[p] = Node(calls[i].key, calls[i].at)
    /\ \A i \in Accepted :
          \/ Expires(i)
          \/ Cardinality(Since(i)) >= Capacity
          \/ \E p \in 1..Len(cache.lru) :
                /\ cache.lru[p] = Node(calls[i].key, calls[i].at)
                /\ p - 1 =< Cardinality(Since(i))

CacheInv ==
    /\ calls \in Seq(Calls)
    /\ Matches(cache) /\ Len(cache.lru) =< Capacity
    /\ Remembered
    /\ NoFalseDuplicate /\ NoEarlyForgetting

LEMMA InitCache == Init => CacheInv
<1> SUFFICES ASSUME Init PROVE CacheInv
  OBVIOUS
<1>1. /\ calls = << >> /\ cache.lru = << >> /\ DOMAIN cache.index = {}
      /\ Len(cache.lru) = 0 /\ DOMAIN cache.lru = {} /\ DOMAIN calls = {}
  BY DEF Init, EmptyCache
<1>2. << >> \in Seq(Calls) /\ << >> \in Seq(Nodes)
  BY EmptySeq
<1>3. Matches(cache) /\ Len(cache.lru) =< Capacity
  BY <1>1, <1>2, LruAssumption DEF Matches, KeysIn
<1>4. Accepted = {}
  BY <1>1 DEF Accepted
<1> QED BY <1>1, <1>2, <1>3, <1>4 DEF CacheInv, Remembered, NoFalseDuplicate, NoEarlyForgetting

\* What one more call does to the history.
LEMMA OneMoreCall ==
    ASSUME CacheInv, NEW e \in Calls, calls' = Append(calls, e)
    PROVE  LET n == Len(calls)
           IN  /\ n \in Nat /\ calls' \in Seq(Calls) /\ Len(calls') = n+1
               /\ DOMAIN calls = 1..n /\ DOMAIN calls' = 1..n+1
               /\ calls'[n+1] = e /\ \A i \in 1..n : calls'[i] = calls[i] /\ calls[i] \in Calls
               /\ Accepted \subseteq 1..n
               /\ Accepted' = Accepted \cup (IF e.ok THEN {n+1} ELSE {})
               /\ \A i \in Accepted :
                     /\ Cardinality(Since(i)) \in Nat
                     /\ Cardinality(Since(i)') = Cardinality(Since(i)) + (IF e.ok THEN 1 ELSE 0)
               /\ \A i \in 1..n+1 : i = n+1 => Cardinality(Since(i)') = 0
               /\ \A i, j \in 1..n+1 : Accepted' \cap i+1..j-1 = Accepted \cap i+1..j-1
<1> DEFINE n == Len(calls)
<1>1. /\ n \in Nat /\ calls' \in Seq(Calls) /\ Len(calls') = n+1
      /\ calls'[n+1] = e /\ \A i \in 1..n : calls'[i] = calls[i] /\ calls[i] \in Calls
      /\ DOMAIN calls = 1..n /\ DOMAIN calls' = 1..n+1
  BY AppendProperties, LenProperties, ElementOfSeq DEF CacheInv
<1>2. Accepted = {i \in 1..n : calls[i].ok} /\ Accepted' = {i \in 1..n+1 : calls'[i].ok}
  BY <1>1 DEF Accepted
<1> HIDE DEF n
<1>3. 1..n+1 = 1..n \cup {n+1} /\ n+1 \notin 1..n
  BY <1>1
<1>4. Accepted' = Accepted \cup (IF e.ok THEN {n+1} ELSE {}) /\ Accepted \subseteq 1..n
  BY <1>1, <1>2, <1>3
<1>5. ASSUME NEW i \in Accepted
      PROVE  /\ Cardinality(Since(i)) \in Nat
             /\ Cardinality(Since(i)') = Cardinality(Since(i)) + (IF e.ok THEN 1 ELSE 0)
  <2>1. i \in 1..n
    BY <1>4
  <2>2. Since(i) \subseteq 1..n /\ n+1 \notin Since(i)
    BY <1>3, <1>4 DEF Since
  <2>3. IsFiniteSet(Since(i))
    <3>1. IsFiniteSet(1..n)
      <4>1. 1 \in Int /\ n \in Int
        BY <1>1
      <4> QED BY <4>1, FS_Interval
    <3> QED BY <2>2, <3>1, FS_Subset
  <2>4. Since(i)' = Since(i) \cup (IF e.ok THEN {n+1} ELSE {})
    <3>1. i+1..n+1 = (i+1..n) \cup {n+1}
      BY <1>1, <2>1
    <3>2. Since(i) = Accepted \cap (i+1..n) /\ Since(i)' = Accepted' \cap (i+1..n+1)
      BY <1>1 DEF Since, n
    <3>3. n+1 \notin Accepted
      BY <1>3, <1>4
    <3> QED BY <1>4, <3>1, <3>2, <3>3
  <2>5. Cardinality(Since(i)) \in Nat
    BY <2>3, FS_CardinalityType
  <2>6. CASE e.ok
    <3>1. Cardinality(Since(i) \cup {n+1}) = Cardinality(Since(i)) + 1
      BY <2>2, <2>3, FS_AddElement
    <3>2. Since(i)' = Since(i) \cup {n+1}
      BY <2>4, <2>6
    <3> QED BY <2>5, <2>6, <3>1, <3>2
  <2>7. CASE ~e.ok
    <3>1. Since(i)' = Since(i)
      BY <2>4, <2>7
    <3> QED BY <2>5, <2>7, <3>1
  <2> QED BY <2>5, <2>6, <2>7
<1>6. ASSUME NEW i \in 1..n+1, i = n+1 PROVE Cardinality(Since(i)') = 0
  <2>1. Since(i)' = Accepted' \cap (i+1..n+1)
    BY <1>1 DEF Since
  <2>2. i+1..n+1 = {}
    BY <1>1, <1>6
  <2> QED BY <2>1, <2>2, FS_EmptySet
<1>7. ASSUME NEW i \in 1..n+1, NEW j \in 1..n+1
      PROVE  Accepted' \cap i+1..j-1 = Accepted \cap i+1..j-1
  <2>1. n+1 \notin i+1..j-1
    BY <1>1
  <2> QED BY <1>4, <2>1
<1> QED BY <1>1, <1>4, <1>5, <1>6, <1>7 DEF n

\* A call keeps what is remembered, and what the history promises.
LEMMA NextCache == CacheInv /\ [Next]_vars => CacheInv'
<1> SUFFICES ASSUME CacheInv, [Next]_vars PROVE CacheInv'
  OBVIOUS
<1>1. ASSUME NEW k \in Keys, NEW t \in Times, CallTryMark(k, t) PROVE CacheInv'
  <2> DEFINE n == Len(calls)
             r == TryMark(cache, k, t)
             e == [key |-> k, at |-> t, ok |-> r.ok]
             d == cache'
  <2>1. t \in Nat
    BY CallsAssumption
  <2>2. /\ Matches(cache) /\ Len(cache.lru) =< Capacity /\ Remembered
        /\ NoFalseDuplicate /\ NoEarlyForgetting
    BY DEF CacheInv
  <2>3. d = r.cache /\ calls' = Append(calls, e)
    BY <1>1 DEF CallTryMark
  <2>4. Tried(cache, k, t, d, e.ok)
    <3>1. e.ok = r.ok
      OBVIOUS
    <3>2. Tried(cache, k, t, r.cache, r.ok)
      BY <2>1, <2>2, TryMarkDoes
    <3> HIDE DEF d, e, r
    <3> QED BY <2>3, <3>1, <3>2
  <2>4a. /\ e.ok \in BOOLEAN /\ Len(d.lru) \in Nat /\ Len(d.lru) =< Capacity
         /\ Matches(d)
    BY <2>4 DEF Tried
  <2>5. e \in Calls /\ e.key = k /\ e.at = t
    <3>1. r.ok \in BOOLEAN
      BY <2>4a
    <3> HIDE DEF r
    <3> QED BY <2>1, <3>1 DEF Calls
  <2> HIDE DEF r, e
  <2>6. /\ n \in Nat /\ calls' \in Seq(Calls) /\ Len(calls') = n+1
        /\ DOMAIN calls = 1..n /\ DOMAIN calls' = 1..n+1
        /\ calls'[n+1] = e /\ \A i \in 1..n : calls'[i] = calls[i] /\ calls[i] \in Calls
        /\ Accepted \subseteq 1..n
        /\ Accepted' = Accepted \cup (IF e.ok THEN {n+1} ELSE {})
        /\ \A i \in Accepted :
              /\ Cardinality(Since(i)) \in Nat
              /\ Cardinality(Since(i)') = Cardinality(Since(i)) + (IF e.ok THEN 1 ELSE 0)
        /\ \A i \in 1..n+1 : i = n+1 => Cardinality(Since(i)') = 0
        /\ \A i, j \in 1..n+1 : Accepted' \cap i+1..j-1 = Accepted \cap i+1..j-1
    BY <2>3, <2>5, OneMoreCall
  <2> DEFINE m == Len(cache.lru)
             B(i, p) == cache.lru[p] = Node(calls[i].key, calls[i].at)
             B1(i, p) == d.lru[p] = Node(calls'[i].key, calls'[i].at)
  <2>7. \A i \in 1..n : calls[i].at \in Nat /\ calls[i].at + Ttl \in Nat
    BY <2>6, LruAssumption DEF Calls
  <2>7a. \A x, y : Node(x, y).key = x /\ Node(x, y).expire_at = y + Ttl
    BY DEF Node
  <2> HIDE DEF n, d
  <2>8. ASSUME NEW i \in 1..n PROVE Expires(i)' <=> Expires(i) \/ t >= calls[i].at + Ttl
    <3>1. i+1..n+1 = (i+1..n) \cup {n+1} /\ i+1..n \subseteq 1..n
      BY <2>6
    <3>2. Expires(i)' <=> \E x \in i+1..n+1 : calls'[x].at >= calls'[i].at + Ttl
      BY <2>6 DEF Expires
    <3>3. Expires(i) <=> \E x \in i+1..n : calls[x].at >= calls[i].at + Ttl
      BY DEF Expires, n
    <3> QED BY <2>5, <2>6, <3>1, <3>2, <3>3
  <2>9. ASSUME NEW p \in 1..Len(d.lru) PROVE \E i \in Accepted' : B1(i, p)
    <3>1. CASE e.ok /\ p = 1
      BY <2>4, <2>5, <2>6, <3>1 DEF Tried
    <3>2. CASE \E j \in 1..Len(cache.lru) : d.lru[p] = cache.lru[j]
      <4>1. PICK i \in Accepted : d.lru[p] = Node(calls[i].key, calls[i].at)
        BY <2>2, <3>2 DEF Remembered
      <4> QED BY <2>6, <4>1
    <3> QED BY <2>4, <3>1, <3>2 DEF Tried
  <2>10. ASSUME NEW i \in Accepted'
         PROVE  \/ Expires(i)'
                \/ Cardinality(Since(i)') >= Capacity
                \/ \E p \in 1..Len(d.lru) : B1(i, p) /\ p - 1 =< Cardinality(Since(i)')
    <3>1. CASE i = n+1 /\ e.ok
      <4>1. 1 \in 1..Len(d.lru) /\ B1(n+1, 1)
        BY <2>4, <2>5, <2>6, <3>1 DEF Tried
      <4>2. Cardinality(Since(i)') = 0
        BY <2>6, <3>1
      <4> HIDE DEF B1
      <4> QED BY <3>1, <4>1, <4>2
    <3>2. CASE i \in Accepted
      <4>1. i \in 1..n /\ calls'[i] = calls[i]
        BY <2>6, <3>2
      <4>2. CASE Expires(i)
        BY <2>8, <4>1, <4>2
      <4>3. CASE Cardinality(Since(i)) >= Capacity
        BY <2>4a, <2>6, <3>2, <4>3, LruAssumption
      <4>4. ASSUME NEW p \in 1..m, B(i, p), p - 1 =< Cardinality(Since(i))
            PROVE  \/ Expires(i)'
                   \/ Cardinality(Since(i)') >= Capacity
                   \/ \E q \in 1..Len(d.lru) : B1(i, q) /\ q - 1 =< Cardinality(Since(i)')
        <5>1. CASE cache.lru[p].expire_at =< t
          <6>1. t >= calls[i].at + Ttl
            BY <2>1, <2>7, <2>7a, <4>1, <4>4, <5>1
          <6> QED BY <2>8, <4>1, <6>1
        <5>2. CASE e.ok /\ p = Capacity
          <6>1. Cardinality(Since(i)') = Cardinality(Since(i)) + 1 /\ Cardinality(Since(i)) \in Nat
            BY <2>6, <3>2, <5>2
          <6> QED BY <4>4, <5>2, <6>1, LruAssumption
        <5>3. ASSUME NEW q \in 1..Len(d.lru), d.lru[q] = cache.lru[p], q =< IF e.ok THEN p+1 ELSE p
              PROVE  B1(i, q) /\ q - 1 =< Cardinality(Since(i)')
          <6>1. B1(i, q)
            BY <4>1, <4>4, <5>3
          <6>2. q \in Nat /\ p \in Nat
            BY <2>4a, <4>4
          <6> QED BY <2>4a, <2>6, <3>2, <4>4, <5>3, <6>1, <6>2
        <5> QED BY <2>4, <5>1, <5>2, <5>3 DEF Tried
      <4> QED BY <2>2, <3>2, <4>2, <4>3, <4>4 DEF Remembered
    <3> QED BY <2>6, <3>1, <3>2
  <2>11. Remembered'
    BY <2>9, <2>10 DEF Remembered, d
  <2>12. NoFalseDuplicate'
    <3> SUFFICES ASSUME NEW j \in 1..n+1, ~calls'[j].ok, calls'[j].key # EmptyKey
                 PROVE  \E i \in Accepted' :
                            /\ i < j /\ calls'[i].key = calls'[j].key
                            /\ calls'[i].at + Ttl > calls'[j].at
      BY <2>6 DEF NoFalseDuplicate
    <3>1. CASE j \in 1..n
      <4>1. PICK i \in Accepted :
                i < j /\ calls[i].key = calls[j].key /\ calls[i].at + Ttl > calls[j].at
        BY <2>2, <2>6, <3>1 DEF NoFalseDuplicate
      <4> QED BY <2>6, <3>1, <4>1
    <3>2. CASE j = n+1
      <4>1. PICK p \in 1..m : cache.lru[p].key = k /\ cache.lru[p].expire_at > t
        BY <2>4, <2>5, <2>6, <3>2 DEF Tried
      <4>2. PICK i \in Accepted : B(i, p)
        BY <2>2 DEF Remembered
      <4>3. i \in 1..n /\ calls'[i] = calls[i] /\ i < n+1 /\ i \in Accepted'
        BY <2>6
      <4>4. calls[i].key = k /\ calls[i].at + Ttl > t
        BY <2>7a, <4>1, <4>2
      <4> QED BY <2>5, <2>6, <3>2, <4>3, <4>4
    <3>3. j \in 1..n \/ j = n+1
      <4>1. n \in Nat
        BY <2>6
      <4> QED BY <4>1
    <3> QED BY <3>1, <3>2, <3>3
  <2>13. NoEarlyForgetting'
    <3> SUFFICES ASSUME NEW i \in Accepted', NEW j \in Accepted', i < j,
                        calls'[i].key = calls'[j].key
                 PROVE  \/ \E x \in i+1..j : calls'[x].at >= calls'[i].at + Ttl
                        \/ Cardinality(Accepted' \cap i+1..j-1) >= Capacity
      BY DEF NoEarlyForgetting
    <3>1. i \in 1..n /\ i \in Accepted /\ j \in 1..n+1
      BY <2>6
    <3>2. Accepted' \cap i+1..j-1 = Accepted \cap i+1..j-1
      BY <2>6, <3>1
    <3>3. CASE j \in 1..n
      <4>1. j \in Accepted
        BY <2>6, <3>3
      <4>2. \/ \E x \in i+1..j : calls[x].at >= calls[i].at + Ttl
            \/ Cardinality(Accepted \cap i+1..j-1) >= Capacity
        BY <2>2, <2>6, <3>1, <3>3, <4>1 DEF NoEarlyForgetting
      <4>3. i+1..j \subseteq 1..n
        BY <2>6, <3>1, <3>3
      <4> QED BY <2>6, <3>1, <3>2, <4>2, <4>3
    <3>4. CASE j = n+1
      <4>1. e.ok /\ calls[i].key = k
        BY <2>5, <2>6, <3>1, <3>4
      <4>2. CASE Expires(i)
        <5>1. PICK x \in i+1..n : calls[x].at >= calls[i].at + Ttl
          BY <4>2 DEF Expires, n
        <5>2. x \in 1..n /\ x \in i+1..j
          BY <2>6, <3>1, <3>4, <5>1
        <5> QED BY <2>6, <3>1, <5>1, <5>2
      <4>3. CASE Cardinality(Since(i)) >= Capacity
        <5>1. Since(i) = Accepted \cap i+1..j-1
          BY <2>6, <3>4 DEF Since, n
        <5> QED BY <3>2, <4>3, <5>1
      <4>4. ASSUME NEW p \in 1..m, B(i, p)
            PROVE  \E x \in i+1..j : calls'[x].at >= calls'[i].at + Ttl
        <5>1. cache.lru[p].key = k /\ cache.lru[p].expire_at = calls[i].at + Ttl
          BY <2>7a, <4>1, <4>4
        <5>2. t >= calls[i].at + Ttl
          BY <2>1, <2>4, <2>7, <3>1, <4>1, <5>1 DEF Tried
        <5>3. n+1 \in i+1..j
          BY <2>6, <3>1, <3>4
        <5> QED BY <2>5, <2>6, <3>1, <5>2, <5>3
      <4> QED BY <2>2, <3>1, <4>2, <4>3, <4>4 DEF Remembered
    <3> QED BY <2>6, <3>1, <3>3, <3>4
  <2> QED BY <2>4a, <2>6, <2>11, <2>12, <2>13 DEF CacheInv, d
<1>2. CASE UNCHANGED vars
  BY <1>2, SMTT(30) DEF vars, CacheInv, Matches, KeysIn, Remembered, Expires, Since, Accepted,
             NoFalseDuplicate, NoEarlyForgetting
<1> QED BY <1>1, <1>2 DEF Next

\* The other parts leave the cache alone.
LEMMA AlwaysCache == PartsSpec => []CacheInv
<1>1. PartsInit => CacheInv
  BY InitCache DEF PartsInit
<1>2. CacheInv /\ [PartsNext]_<<vars, input>> => CacheInv'
  BY NextCache DEF PartsNext, vars
<1> QED BY <1>1, <1>2, PTL DEF PartsSpec

\* However TryMark, Sweep and the trimming loop erase from the list and the index,
\* the two describe the same nodes, one for each key and no more than the
\* capacity.
THEOREM IndexMatches == PartsSpec => []IndexMatchesList
<1>1. CacheInv => IndexMatchesList
  BY DEF CacheInv, Matches, IndexMatchesList
<1> QED BY <1>1, AlwaysCache, PTL

\* TryMark lets a key through again only after its expiry or after as many other
\* keys as the cache holds, in any order of calls and with a clock that may go
\* back: Sweep, which stops at the first node alive, and the trimming loop erase
\* nothing else.
THEOREM NotForgotten == PartsSpec => []NoEarlyForgetting
<1>1. CacheInv => NoEarlyForgetting
  BY DEF CacheInv
<1> QED BY <1>1, AlwaysCache, PTL

\* TryMark refuses a key only if an earlier call accepted it and that mark has not
\* expired.
THEOREM RefusedTwiceOnly == PartsSpec => []NoFalseDuplicate
<1>1. CacheInv => NoFalseDuplicate
  BY DEF CacheInv
<1> QED BY <1>1, AlwaysCache, PTL

-----------------------------------------------------------------------------
(* Frames.                                                                 *)

\* The effects that handle and its handlers choose from, and where they do.
LEMMA Effects ==
    ASSUME NEW f, NEW env
    PROVE  LET effect == Handled(f, env)
           IN  /\ effect.ret # "stays" \/ effect.reply # "none" =>
                     ~effect.pending /\ ~effect.published
               /\ effect.pending => effect.published /\ TypeOf(f) = "msg.send"
               /\ effect.echo <=>
                     /\ effect.reply # "none" /\ effect.ret = "stays"
                     /\ Parsed(f) = "ok" /\ f.seq.kind # "missing"
<1> DEFINE All(e) ==
        /\ e.ret # "stays" \/ e.reply # "none" => ~e.pending /\ ~e.published
        /\ e.pending => e.published /\ TypeOf(f) = "msg.send"
        /\ e.echo <=> /\ e.reply # "none" /\ e.ret = "stays"
                      /\ Parsed(f) = "ok" /\ f.seq.kind # "missing"
<1>1. All(Throws) /\ All(Silent("stays")) /\ All(Silent("ends"))
  BY DEF Throws, Silent, Effect
<1>2. All(Effect("error", FALSE, "ends", FALSE, FALSE))
  BY DEF Effect
<1>3. Parsed(f) # "ok" => All(Effect("error", FALSE, "stays", FALSE, FALSE))
  BY DEF Effect
<1>4. Parsed(f) = "ok" =>
        All(Reply("error", f, "stays")) /\ All(Reply("pong", f, "stays"))
  BY DEF Reply, Effect
<1>5. TypeOf(f) = "msg.send" => All(Effect("none", FALSE, "stays", TRUE, TRUE))
  BY DEF Effect
<1>6. All(Effect("none", FALSE, "stays", FALSE, TRUE))
  BY DEF Effect
<1> HIDE DEF All
<1>7. ASSUME Parsed(f) = "ok" PROVE All(Dispatched(f, env))
  <2>1. TypeOf(f) = "msg.send" => All(HandleMsgSend(f, env))
    BY <1>1, <1>4, <1>5, <1>7 DEF HandleMsgSend, Enqueued
  <2>2. All(HandleMsgAck(f, env)) /\ All(HandleMsgRead(f, env))
    BY <1>1, <1>4, <1>6, <1>7 DEF HandleMsgAck, HandleMsgRead
  <2> QED BY <1>1, <1>4, <1>7, <2>1, <2>2 DEF Dispatched
<1>8. All(Handled(f, env))
  BY <1>1, <1>2, <1>3, <1>7 DEF Handled
<1> QED BY <1>8 DEF All

\* What the parts are given does not change.
InputType == input \in {NoInput} \cup Inputs

LEMMA AlwaysInput == PartsSpec => []InputType
<1>1. PartsInit => InputType
  BY DEF PartsInit, InputType
<1>2. InputType /\ [PartsNext]_<<vars, input>> => InputType'
  BY DEF PartsNext, InputType
<1> QED BY <1>1, <1>2, PTL DEF PartsSpec

\* Whichever of its members has the wrong type, ChatWSServlet::handle acts on a
\* frame in full or not at all, and a reply carries the seq exactly if the frame
\* parsed and had one.
THEOREM FramesWhole == PartsSpec => []FrameAllOrNothing
<1>1. FrameAllOrNothing
  BY Effects DEF FrameAllOrNothing
<1> QED BY <1>1, PTL

-----------------------------------------------------------------------------
(* Tokens.                                                                 *)

\* The checks of Verify, those before the conversions of the numbers and those
\* after them.
LEMMA TokenAnswers == InputType => TokenSound
<1> SUFFICES ASSUME InputType, input.part = "token"
             PROVE  TokenSound
  BY DEF TokenSound
<1> DEFINE t == input.given.token
           time == input.given.now
           exp == AsInt64(t.exp)
           iat == AsInt64(t.iat)
           a == Verified(t, time)
           early == Trusted(t) /\ ~Int64Throws(t.exp) /\ ~Int64Throws(t.iat)
           late == ~FromFuture(iat, time) /\ ~StringThrows(t.sub) /\ ~SubInvalid(t.sub)
                      /\ ~StringThrows(t.did)
           good == Trusted(t) /\ WellTyped(t) /\ InTime(t, time) /\ UserId(t.sub) # 0
<1>1. input.given \in Tokens
  BY DEF InputType, Inputs, NoInput
<1>2. time \in Nat /\ time + Skew \in Nat /\ exp \in Int /\ iat \in Int
  BY <1>1, TokensAssumption
<1>3. ~early => "ok" \notin a
  BY DEF Verified, Trusted, IsText, StringThrows
<1>4. ASSUME early
      PROVE  /\ "ok" \in a <=> late /\ FALSE \in Expired(exp, time)
             /\ late /\ Expired(exp, time) = {FALSE} => a = {"ok"}
  <2>1. a = {IF expired THEN "token expired"
             ELSE IF FromFuture(iat, time) THEN "token iat invalid"
             ELSE IF StringThrows(t.sub) THEN "throws"
             ELSE IF SubInvalid(t.sub) THEN "token sub invalid"
             ELSE IF StringThrows(t.did) THEN "throws"
             ELSE "ok" : expired \in Expired(exp, time)}
    BY <1>4 DEF Verified, Trusted, IsText, StringThrows
  <2>2. Expired(exp, time) \subseteq BOOLEAN
    BY DEF Expired
  <2> HIDE DEF a, t, time, exp, iat
  <2> QED BY <2>1, <2>2
<1>5. FALSE \in Expired(exp, time) <=> exp > 0 /\ exp + Skew >= time
  <2> HIDE DEF exp, time
  <2>1. FALSE \in Expired(exp, time) <=> \E e \in SkewedExp(exp) : ~(exp <= 0 \/ time > e)
    BY Zenon DEF Expired
  <2>2. (\E e \in SkewedExp(exp) : ~(exp <= 0 \/ time > e)) <=> exp > 0 /\ exp + Skew >= time
    <3>1. exp + Skew \in SkewedExp(exp)
      BY DEF SkewedExp
    <3>2. \A e \in SkewedExp(exp) : e \in Int /\ e =< exp + Skew
      BY <1>2, TokensAssumption DEF SkewedExp
    <3>3. ASSUME NEW e \in SkewedExp(exp), ~(exp <= 0 \/ time > e)
          PROVE  exp > 0 /\ exp + Skew >= time
      <4>1. e \in Int /\ e =< exp + Skew
        BY <3>2
      <4> QED BY <1>2, <3>3, <4>1, TokensAssumption
    <3>4. ASSUME exp > 0, exp + Skew >= time
          PROVE  ~(exp <= 0 \/ time > exp + Skew)
      BY <1>2, <3>4, TokensAssumption
    <3> QED BY <3>1, <3>3, <3>4
  <2> QED BY <2>1, <2>2
<1>6. exp > 0 /\ exp + Skew >= time /\ exp + Skew =< MaxInt => Expired(exp, time) = {FALSE}
  <2> HIDE DEF exp, time
  <2> SUFFICES ASSUME exp > 0, exp + Skew >= time, exp + Skew =< MaxInt
               PROVE  Expired(exp, time) = {FALSE}
    OBVIOUS
  <2>1. SkewedExp(exp) = {exp + Skew}
    BY DEF SkewedExp
  <2>2. ~(exp <= 0 \/ time > exp + Skew)
    BY <1>2, TokensAssumption
  <2>3. Expired(exp, time) = {exp <= 0 \/ time > exp + Skew}
    BY <2>1, Zenon DEF Expired
  <2>4. (exp <= 0 \/ time > exp + Skew) = FALSE
    BY <2>2, Zenon
  <2> QED BY <2>3, <2>4, Zenon
<1>7. ~FromFuture(iat, time) <=> iat =< time + Skew
  <2> HIDE DEF iat, time
  <2> QED BY <1>2, TokensAssumption DEF FromFuture
<1>8. good <=> early /\ late /\ exp > 0 /\ exp + Skew >= time
  <2>1. exp >= time - Skew <=> exp + Skew >= time
    <3> HIDE DEF exp, time
    <3> QED BY <1>2, TokensAssumption
  <2> QED BY <1>7, <2>1 DEF WellTyped, InTime, SubInvalid, StringThrows
<1>9. /\ "ok" \in a <=> good
      /\ good => a = {"ok"} \/ exp + Skew > MaxInt
  <2>1. ~(exp + Skew =< MaxInt) => exp + Skew > MaxInt
    <3> HIDE DEF exp, time
    <3> QED BY <1>2, TokensAssumption
  <2> HIDE DEF a, t, time, exp, iat, good, early, late
  <2> QED BY <1>3, <1>4, <1>5, <1>6, <1>8, <2>1
<1> QED BY <1>9 DEF TokenSound

\* JwtVerifier::Verify accepts exactly the trusted tokens within their time whose
\* user id is not 0, but for the overflow of exp plus skew.
THEOREM TokensSound == PartsSpec => []TokenSound
BY AlwaysInput, TokenAnswers, PTL

-----------------------------------------------------------------------------
(* Division with remainder.                                                *)

\* Quotient and remainder.
LEMMA DivMod ==
    ASSUME NEW W \in Nat \ {0}, NEW a \in Int
    PROVE  a % W \in 0..W-1 /\ a = W * (a \div W) + (a % W) /\ a \div W \in Int
OBVIOUS

\* There is one remainder.
LEMMA Unique ==
    ASSUME NEW W \in Nat \ {0}, NEW q \in Int, NEW p \in Int, NEW r \in 0..W-1, NEW s \in 0..W-1,
           W * q + r = W * p + s
    PROVE  r = s
<1>1. CASE q = p
  BY <1>1
<1>2. CASE q > p
  <2>1. PICK d \in Nat : q = p + 1 + d
    <3>1. q - p - 1 \in Nat /\ q = p + 1 + (q - p - 1)
      BY <1>2
    <3> QED BY <3>1
  <2>2. W * q = W * p + W + W * d
    BY <2>1
  <2>3. W * d \in Nat /\ W * p \in Int
    OBVIOUS
  <2> DEFINE x == W * d
             y == W * p
  <2>4. y + W + x + r = y + s
    BY <2>2
  <2> HIDE DEF x, y
  <2> QED BY <2>3, <2>4 DEF x, y
<1>3. CASE q < p
  <2>1. PICK d \in Nat : p = q + 1 + d
    <3>1. p - q - 1 \in Nat /\ p = q + 1 + (p - q - 1)
      BY <1>3
    <3> QED BY <3>1
  <2>2. W * p = W * q + W + W * d
    BY <2>1
  <2>3. W * d \in Nat /\ W * q \in Int
    OBVIOUS
  <2> DEFINE x == W * d
             y == W * q
  <2>4. y + W + x + s = y + r
    BY <2>2
  <2> HIDE DEF x, y
  <2> QED BY <2>3, <2>4 DEF x, y
<1> QED BY <1>1, <1>2, <1>3

\* A sum may wrap as it grows or once at the end.
LEMMA ModSum ==
    ASSUME NEW W \in Nat \ {0}, NEW a \in Int, NEW b \in Int
    PROVE  ((a % W) + (b % W)) % W = (a + b) % W
<1> DEFINE x == a % W
           y == b % W
           z == (x + y) % W
           w == (a + b) % W
           p == a \div W
           q == b \div W
           r == (x + y) \div W
           t == (a + b) \div W
<1>1. x \in 0..W-1 /\ y \in 0..W-1 /\ a = W * p + x /\ b = W * q + y /\ p \in Int /\ q \in Int
  BY DivMod
<1>2. z \in 0..W-1 /\ x + y = W * r + z /\ r \in Int
  <2>1. x + y \in Int
    BY <1>1
  <2> QED BY <2>1, DivMod
<1>3. w \in 0..W-1 /\ a + b = W * t + w /\ t \in Int
  <2>1. a + b \in Int
    OBVIOUS
  <2> QED BY <2>1, DivMod
<1> HIDE DEF x, y, z, w, p, q, r, t
<1>4. W * (p + q + r) = W * p + W * q + W * r /\ p + q + r \in Int
  BY <1>1, <1>2
<1>5. W * (p + q + r) + z = W * t + w
  <2> DEFINE u == W * p
             v == W * q
             s == W * r
  <2>1. u \in Int /\ v \in Int /\ s \in Int
    BY <1>1, <1>2
  <2>2. W * (p + q + r) = u + v + s /\ a = u + x /\ b = v + y /\ x + y = s + z
    BY <1>1, <1>2, <1>4
  <2> HIDE DEF u, v, s
  <2> QED BY <1>1, <1>2, <1>3, <2>1, <2>2
<1>6. z = w
  BY <1>2, <1>3, <1>4, <1>5, Unique
<1> QED BY <1>6 DEF z, w, x, y

-----------------------------------------------------------------------------
(* The latency histogram.                                                  *)

Buckets == Len(HistBuckets)

\* The upper bounds increase.
LEMMA BucketsType ==
    /\ Buckets \in Nat /\ DOMAIN HistBuckets = 1..Buckets
    /\ \A i \in 1..Buckets : HistBuckets[i] \in 0..Word-1
    /\ \A i, j \in 1..Buckets : i =< j => HistBuckets[i] =< HistBuckets[j]
<1>1. /\ Buckets \in Nat /\ DOMAIN HistBuckets = 1..Buckets
      /\ \A i \in 1..Buckets : HistBuckets[i] \in 0..Word-1
  BY HistogramAssumption, LenProperties, ElementOfSeq DEF Buckets
<1>2. ASSUME NEW i \in 1..Buckets, NEW j \in 1..Buckets, i =< j
      PROVE  HistBuckets[i] =< HistBuckets[j]
  <2>1. CASE i = j
    BY <1>1, <2>1, HistogramAssumption
  <2>2. CASE i < j
    <3>1. HistBuckets[i] < HistBuckets[j]
      BY <1>1, <2>2, HistogramAssumption
    <3> QED BY <1>1, <3>1, HistogramAssumption
  <2> QED BY <1>1, <1>2, <2>1, <2>2
<1> QED BY <1>1, <1>2

\* The loop adds up.
LEMMA CumulativeAdds ==
    ASSUME NEW c \in [1..Buckets -> Int]
    PROVE  LET s == Cumulative(c)
           IN  /\ s \in [0..Buckets -> Int] /\ s[0] = 0
               /\ \A i \in 1..Buckets : s[i] = s[i-1] + c[i]
<1> DEFINE step == [i \in 1..Buckets |-> [x \in Int |-> x + c[i]]]
           Next0(g) == [i \in 0..Buckets |-> IF i = 0 THEN 0 ELSE g[i-1] + c[i]]
           s == CHOOSE g : g = Next0(g)
<1>1. Buckets \in Nat
  BY BucketsType
<1>2. step \in [1..Buckets -> [Int -> Int]]
  OBVIOUS
<1>3. PICK g \in [0..Buckets -> Int] :
          g[0] = 0 /\ \A n \in 1..Buckets : g[n] = step[n][g[n-1]]
  <2>1. 0 \in Int
    OBVIOUS
  <2> HIDE DEF step
  <2>2. PICK g \in [0..Buckets -> Int] : Iterates(g, 0, Buckets, step)
    BY <1>1, <1>2, <2>1, Recursion, Zenon
  <2> QED BY <2>2 DEF Iterates
<1>4. \A n \in 1..Buckets : n-1 \in 0..Buckets /\ g[n-1] \in Int /\ g[n] = g[n-1] + c[n]
  <2> SUFFICES ASSUME NEW n \in 1..Buckets
               PROVE  n-1 \in 0..Buckets /\ g[n-1] \in Int /\ g[n] = g[n-1] + c[n]
    OBVIOUS
  <2>1. n-1 \in 0..Buckets /\ g[n-1] \in Int
    BY <1>1, <1>3
  <2>2. step[n] = [x \in Int |-> x + c[n]]
    OBVIOUS
  <2> HIDE DEF step
  <2> QED BY <1>3, <2>1, <2>2
<1>5. g = Next0(g)
  BY <1>1, <1>3, <1>4
<1>6. s = Next0(s)
  BY <1>5
<1> HIDE DEF s, step
<1>7. s = [i \in 0..Buckets |-> IF i = 0 THEN 0 ELSE s[i-1] + c[i]]
  BY <1>6
<1>8. s[0] = 0 /\ \A i \in 1..Buckets : s[i] = s[i-1] + c[i]
  BY <1>1, <1>7
<1> DEFINE T == {n \in 0..Buckets : s[n] \in Int}
<1>9. \A n \in 0..Buckets : n \in T
  <2>1. 0 \in T
    BY <1>1, <1>8
  <2>2. \A n \in 1..Buckets : n-1 \in T => n \in T
    BY <1>1, <1>8
  <2> HIDE DEF T
  <2> QED BY <1>1, <2>1, <2>2, Steps
<1>10. s \in [0..Buckets -> Int]
  BY <1>7, <1>9
<1>11. Cumulative(c) = s
  BY DEF Cumulative, s, Buckets
<1> QED BY <1>8, <1>10, <1>11

Histograms == [counts : [1..Buckets -> Nat], sum : 0..Word-1, count : Nat]

\* One latency more is one more in each line from its bucket on.
LEMMA OneMoreLatency ==
    ASSUME NEW h \in Histograms, NEW v \in 0..Word-1
    PROVE  LET g == ObserveMsgSendLatencyMs(h, v)
           IN  /\ g \in Histograms
               /\ \A i \in 1..Buckets :
                     Cumulative(g.counts)[i] =
                        Cumulative(h.counts)[i] + (IF v =< HistBuckets[i] THEN 1 ELSE 0)
<1> DEFINE g == ObserveMsgSendLatencyMs(h, v)
           c == h.counts
           d == g.counts
           s == Cumulative(c)
           t == Cumulative(d)
<1>1. /\ Buckets \in Nat /\ DOMAIN HistBuckets = 1..Buckets
      /\ \A i \in 1..Buckets : HistBuckets[i] \in 0..Word-1
      /\ \A i, j \in 1..Buckets : i =< j => HistBuckets[i] =< HistBuckets[j]
  BY BucketsType
<1>2. c \in [1..Buckets -> Nat] /\ h.sum \in 0..Word-1 /\ h.count \in Nat
  BY DEF Histograms
<1>3. d = [i \in 1..Buckets |-> c[i] + (IF i \in BucketsOf(v) THEN 1 ELSE 0)]
  BY <1>1 DEF ObserveMsgSendLatencyMs
<1>4. d \in [1..Buckets -> Nat]
  <2> HIDE DEF c, d
  <2>1. \A i \in 1..Buckets : c[i] + (IF i \in BucketsOf(v) THEN 1 ELSE 0) \in Nat
    BY <1>2
  <2> QED BY <1>3, <2>1
<1>5. g \in Histograms
  <2>1. (h.sum + v) % Word \in 0..Word-1
    BY <1>2, HistogramAssumption
  <2>2. g = [counts |-> d, sum |-> (h.sum + v) % Word, count |-> h.count + 1]
    BY DEF ObserveMsgSendLatencyMs
  <2> HIDE DEF g
  <2> QED BY <1>2, <1>4, <2>1, <2>2 DEF Histograms
<1>6. /\ s \in [0..Buckets -> Int] /\ s[0] = 0 /\ \A i \in 1..Buckets : s[i] = s[i-1] + c[i]
      /\ t \in [0..Buckets -> Int] /\ t[0] = 0 /\ \A i \in 1..Buckets : t[i] = t[i-1] + d[i]
  <2>1. c \in [1..Buckets -> Int] /\ d \in [1..Buckets -> Int]
    BY <1>2, <1>4
  <2> HIDE DEF c, d
  <2> QED BY <2>1, CumulativeAdds
<1> HIDE DEF g, c, d, s, t
<1> DEFINE In(i) == i # 0 /\ v =< HistBuckets[i]
           T == {i \in 0..Buckets : t[i] = s[i] + (IF In(i) THEN 1 ELSE 0)}
<1>7. 0 \in T
  BY <1>1, <1>6
<1>8. ASSUME NEW i \in 1..Buckets, i-1 \in T PROVE i \in T
  <2>1. /\ i-1 \in 0..Buckets /\ s[i-1] \in Int /\ c[i] \in Nat
        /\ t[i-1] = s[i-1] + (IF In(i-1) THEN 1 ELSE 0)
        /\ t[i] = t[i-1] + d[i] /\ s[i] = s[i-1] + c[i]
        /\ d[i] = c[i] + (IF i \in BucketsOf(v) THEN 1 ELSE 0)
    BY <1>1, <1>2, <1>3, <1>6, <1>8
  <2>2. CASE i \in BucketsOf(v)
    <3>1. In(i) /\ ~In(i-1)
      <4>1. v =< HistBuckets[i] /\ \A j \in 1..i-1 : v > HistBuckets[j]
        BY <2>2 DEF BucketsOf
      <4>2. i-1 = 0 \/ (i-1 \in 1..i-1 /\ i-1 \in 1..Buckets)
        BY <1>1
      <4>3. i-1 # 0 => ~(v =< HistBuckets[i-1])
        BY <1>1, <4>1, <4>2, HistogramAssumption
      <4> QED BY <1>1, <4>1, <4>3
    <3> HIDE DEF In
    <3> QED BY <2>1, <2>2, <3>1
  <2>3. CASE i \notin BucketsOf(v)
    <3>1. In(i) <=> In(i-1)
      <4>1. ASSUME In(i) PROVE In(i-1)
        <5>1. PICK j \in 1..i-1 : ~(v > HistBuckets[j])
          BY <1>1, <2>3, <4>1 DEF BucketsOf
        <5>2. j \in 1..Buckets /\ i-1 \in 1..Buckets /\ j =< i-1 /\ i-1 # 0
          BY <1>1
        <5>3. HistBuckets[j] =< HistBuckets[i-1] /\ HistBuckets[j] \in Nat
              /\ HistBuckets[i-1] \in Nat
          BY <1>1, <5>2, HistogramAssumption
        <5> QED BY <5>1, <5>2, <5>3, HistogramAssumption
      <4>2. ASSUME In(i-1) PROVE In(i)
        <5>1. i-1 \in 1..Buckets /\ i-1 =< i /\ i # 0 /\ v =< HistBuckets[i-1]
          BY <1>1, <4>2
        <5>2. HistBuckets[i-1] =< HistBuckets[i] /\ HistBuckets[i-1] \in Nat
              /\ HistBuckets[i] \in Nat
          BY <1>1, <5>1, HistogramAssumption
        <5> QED BY <5>1, <5>2, HistogramAssumption
      <4> QED BY <4>1, <4>2
    <3> HIDE DEF In
    <3> QED BY <2>1, <2>3, <3>1
  <2> QED BY <2>2, <2>3
<1>9. \A i \in 0..Buckets : i \in T
  <2> HIDE DEF T
  <2> QED BY <1>1, <1>7, <1>8, Steps
<1>10. \A i \in 1..Buckets : t[i] = s[i] + (IF v =< HistBuckets[i] THEN 1 ELSE 0)
  BY <1>1, <1>9
<1> QED BY <1>5, <1>10 DEF s, t, g, c, d

\* The lines of an empty histogram are 0.
LEMMA NothingYet ==
    /\ EmptyHistogram \in Histograms
    /\ \A i \in 1..Buckets : Cumulative(EmptyHistogram.counts)[i] = 0
<1> DEFINE c == EmptyHistogram.counts
           s == Cumulative(c)
           T == {i \in 0..Buckets : s[i] = 0}
<1>1. Buckets \in Nat /\ c = [i \in 1..Buckets |-> 0]
  BY BucketsType DEF EmptyHistogram
<1>2. c \in [1..Buckets -> Int] /\ c \in [1..Buckets -> Nat] /\ \A i \in 1..Buckets : c[i] = 0
  BY <1>1
<1>3. EmptyHistogram \in Histograms
  <2>1. EmptyHistogram = [counts |-> c, sum |-> 0, count |-> 0]
    BY DEF EmptyHistogram
  <2>2. 0 \in 0..Word-1 /\ 0 \in Nat
    BY HistogramAssumption
  <2> HIDE DEF c
  <2> QED BY <1>2, <2>1, <2>2 DEF Histograms
<1>4. s \in [0..Buckets -> Int] /\ s[0] = 0 /\ \A i \in 1..Buckets : s[i] = s[i-1] + c[i]
  <2> HIDE DEF c
  <2> QED BY <1>2, CumulativeAdds
<1> HIDE DEF c, s
<1>5. 0 \in T
  BY <1>1, <1>4
<1>6. \A i \in 1..Buckets : i-1 \in T => i \in T
  BY <1>1, <1>2, <1>4
<1>7. \A i \in 0..Buckets : i \in T
  <2> HIDE DEF T
  <2> QED BY <1>1, <1>5, <1>6, Steps
<1>8. \A i \in 1..Buckets : s[i] = 0
  BY <1>1, <1>7
<1> QED BY <1>3, <1>8 DEF s, c

\* The histogram after each latency.
LEMMA AfterSteps ==
    ASSUME NEW n \in Nat, NEW l \in [1..n -> 0..Word-1]
    PROVE  /\ Observed(l) = After(l)[n]
           /\ After(l) \in [0..n -> Histograms] /\ After(l)[0] = EmptyHistogram
           /\ \A k \in 1..n : After(l)[k] = ObserveMsgSendLatencyMs(After(l)[k-1], l[k])
<1> DEFINE H == Histograms
           step == [k \in 1..n |-> [h \in H |-> ObserveMsgSendLatencyMs(h, l[k])]]
           Next0(g) == [k \in 0..n |-> IF k = 0 THEN EmptyHistogram
                                       ELSE ObserveMsgSendLatencyMs(g[k-1], l[k])]
           a == CHOOSE g : g = Next0(g)
<1>1. Len(l) = n
  <2>1. l \in Seq(0..Word-1)
    BY SeqDef
  <2>2. Len(l) \in Nat /\ 1..Len(l) = 1..n
    BY <2>1, LenProperties
  <2> QED BY <2>2
<1>2. step \in [1..n -> [H -> H]]
  BY OneMoreLatency
<1>3. PICK g \in [0..n -> H] : Iterates(g, EmptyHistogram, n, step)
  <2> HIDE DEF step, H
  <2>1. EmptyHistogram \in H
    BY NothingYet DEF H
  <2> QED BY <1>2, <2>1, Recursion, Zenon
<1>4. \A k \in 1..n : g[k] = ObserveMsgSendLatencyMs(g[k-1], l[k])
  <2> SUFFICES ASSUME NEW k \in 1..n PROVE g[k] = ObserveMsgSendLatencyMs(g[k-1], l[k])
    OBVIOUS
  <2>1. k-1 \in 0..n /\ g[k-1] \in H
    BY <1>3
  <2>2. step[k] = [h \in H |-> ObserveMsgSendLatencyMs(h, l[k])]
    OBVIOUS
  <2> HIDE DEF step, H
  <2> QED BY <1>3, <2>1, <2>2 DEF Iterates
<1>5. g = Next0(g)
  <2>1. g[0] = EmptyHistogram
    BY <1>3 DEF Iterates
  <2> HIDE DEF H
  <2> QED BY <1>3, <1>4, <2>1
<1>6. a = Next0(a)
  BY <1>5
<1> HIDE DEF a, step
<1>7. a = [k \in 0..n |-> IF k = 0 THEN EmptyHistogram
                          ELSE ObserveMsgSendLatencyMs(a[k-1], l[k])]
  BY <1>6
<1>8. a[0] = EmptyHistogram /\ \A k \in 1..n : a[k] = ObserveMsgSendLatencyMs(a[k-1], l[k])
  BY <1>7
<1> DEFINE T == {k \in 0..n : a[k] \in H}
<1>9. \A k \in 0..n : k \in T
  <2>1. 0 \in T
    BY <1>8, NothingYet
  <2>2. \A k \in 1..n : k-1 \in T => k \in T
    BY <1>8, OneMoreLatency
  <2> HIDE DEF T
  <2> QED BY <2>1, <2>2, Steps
<1>10. a \in [0..n -> H]
  BY <1>7, <1>9
<1>11. After(l) = a
  BY <1>1 DEF After, a
<1> QED BY <1>1, <1>8, <1>10, <1>11 DEF Observed

\* The unbounded total.
LEMMA TotalAdds ==
    ASSUME NEW n \in Nat, NEW s, Len(s) = n, \A k \in 1..n : Elapsed(s[k]) \in Int
    PROVE  /\ Total(s) \in [0..n -> Int] /\ Total(s)[0] = 0
           /\ \A k \in 1..n : Total(s)[k] = Total(s)[k-1] + Elapsed(s[k])
<1> DEFINE step == [k \in 1..n |-> [x \in Int |-> x + Elapsed(s[k])]]
           Next0(g) == [k \in 0..n |-> IF k = 0 THEN 0 ELSE g[k-1] + Elapsed(s[k])]
           t == CHOOSE g : g = Next0(g)
<1>1. step \in [1..n -> [Int -> Int]]
  OBVIOUS
<1>2. PICK g \in [0..n -> Int] : Iterates(g, 0, n, step)
  <2>1. 0 \in Int
    OBVIOUS
  <2> HIDE DEF step
  <2> QED BY <1>1, <2>1, Recursion, Zenon
<1>3. \A k \in 1..n : g[k] = g[k-1] + Elapsed(s[k])
  <2> SUFFICES ASSUME NEW k \in 1..n PROVE g[k] = g[k-1] + Elapsed(s[k])
    OBVIOUS
  <2>1. k-1 \in 0..n /\ g[k-1] \in Int
    BY <1>2
  <2>2. step[k] = [x \in Int |-> x + Elapsed(s[k])]
    OBVIOUS
  <2> HIDE DEF step
  <2> QED BY <1>2, <2>1, <2>2 DEF Iterates
<1>4. g = Next0(g)
  BY <1>2, <1>3 DEF Iterates
<1>5. t = Next0(t)
  BY <1>4
<1> HIDE DEF t, step
<1>6. t = [k \in 0..n |-> IF k = 0 THEN 0 ELSE t[k-1] + Elapsed(s[k])]
  BY <1>5
<1>7. t[0] = 0 /\ \A k \in 1..n : t[k] = t[k-1] + Elapsed(s[k])
  BY <1>6
<1> DEFINE T == {k \in 0..n : t[k] \in Int}
<1>8. \A k \in 0..n : k \in T
  <2>1. 0 \in T
    BY <1>7
  <2>2. \A k \in 1..n : k-1 \in T => k \in T
    BY <1>7
  <2> HIDE DEF T
  <2> QED BY <2>1, <2>2, Steps
<1>9. t \in [0..n -> Int]
  BY <1>6, <1>8
<1>10. Total(s) = t
  BY DEF Total, t
<1> QED BY <1>7, <1>9, <1>10

\* What the clock says a message took, as an unsigned number.
LEMMA Wraps ==
    ASSUME NEW e \in Int, e < Word, e > -Word
    PROVE  e % Word = IF e >= 0 THEN e ELSE e + Word
<1>1. Word \in Nat \ {0}
  BY HistogramAssumption
<1>2. e % Word \in 0..Word-1 /\ e = Word * (e \div Word) + (e % Word) /\ e \div Word \in Int
  BY <1>1, DivMod
<1> DEFINE q == e \div Word
           r == e % Word
<1> HIDE DEF q, r
<1>3. CASE e >= 0
  <2>1. Word * q + r = Word * 0 + e /\ e \in 0..Word-1 /\ 0 \in Int
    BY <1>1, <1>2, <1>3 DEF q, r
  <2>2. r = e
    BY <1>1, <1>2, <2>1, Unique DEF q, r
  <2> QED BY <1>3, <2>2 DEF r
<1>4. CASE e < 0
  <2>1. Word * q + r = Word * (-1) + (e + Word) /\ e + Word \in 0..Word-1 /\ -1 \in Int
    BY <1>1, <1>2, <1>4 DEF q, r
  <2>2. r = e + Word
    BY <1>1, <1>2, <2>1, Unique DEF q, r
  <2>3. ~(e >= 0)
    BY <1>4
  <2> QED BY <2>2, <2>3 DEF r
<1> QED BY <1>3, <1>4

\* The agreement of histogram and messages, one message after the other.
LEMMA Counts ==
    ASSUME NEW s \in Latencies
    PROVE  LET h == Observed([k \in DOMAIN s |-> Latency(s[k].created, s[k].now)])
           IN  /\ \A i \in DOMAIN HistBuckets :
                     Rendered(h)[i] =
                        Cardinality({k \in DOMAIN s : Elapsed(s[k]) \in 0..HistBuckets[i]})
               /\ h.count = Len(s)
               /\ h.sum = Total(s)[Len(s)] % Word
<1> DEFINE n == Len(s)
           l == [k \in DOMAIN s |-> Latency(s[k].created, s[k].now)]
           e(k) == Elapsed(s[k])
           a == After(l)
           t == Total(s)
           Up(k, i) == {j \in 1..k : l[j] =< HistBuckets[i]}
<1>0. /\ Buckets \in Nat /\ DOMAIN HistBuckets = 1..Buckets
      /\ \A i \in 1..Buckets : HistBuckets[i] \in 0..Word-1
      /\ Word \in Nat \ {0}
  BY BucketsType, HistogramAssumption
<1>1. /\ n \in Nat /\ DOMAIN s = 1..n
      /\ \A k \in 1..n : s[k] \in [created : Nat, now : Nat]
  BY LatenciesAssumption, LenProperties, ElementOfSeq
<1>2. ASSUME NEW k \in 1..n
      PROVE  /\ e(k) \in Int /\ e(k) < Word /\ l[k] = e(k) % Word /\ l[k] \in 0..Word-1
             /\ \A i \in 1..Buckets : e(k) > HistBuckets[i] - Word
  <2>1. s[k].now \in Nat /\ s[k].created \in Nat /\ l[k] = (s[k].now - s[k].created) % Word
    BY <1>1 DEF Latency
  <2>2. e(k) = s[k].now - s[k].created
    BY DEF Elapsed
  <2>3. e(k) \in Int /\ l[k] = e(k) % Word
    BY <2>1, <2>2
  <2>4. l[k] \in 0..Word-1
    <3> HIDE DEF l, e
    <3> QED BY <1>0, <2>3, DivMod
  <2>5. /\ s[k].now - s[k].created < Word
        /\ \A i \in 1..Buckets : s[k].now - s[k].created > HistBuckets[i] - Word
    BY <1>0, <1>1, LatenciesAssumption
  <2> HIDE DEF l, e
  <2> QED BY <2>2, <2>3, <2>4, <2>5
<1>3. l \in [1..n -> 0..Word-1]
  <2>1. l = [k \in 1..n |-> l[k]]
    BY <1>1
  <2> HIDE DEF l
  <2> QED BY <1>2, <2>1
<1>4. ASSUME NEW k \in 1..n, NEW i \in 1..Buckets
      PROVE  l[k] =< HistBuckets[i] <=> e(k) \in 0..HistBuckets[i]
  <2> HIDE DEF e, l
  <2>0. HistBuckets[i] \in Nat
    BY <1>0
  <2>3. e(k) \in Int /\ e(k) > HistBuckets[i] - Word
    BY <1>2
  <2>1. e(k) > -Word
    BY <1>0, <2>0, <2>3
  <2>2. l[k] = IF e(k) >= 0 THEN e(k) ELSE e(k) + Word
    BY <1>2, <2>1, Wraps
  <2> QED BY <1>0, <2>0, <2>2, <2>3
<1> HIDE DEF n, l, e, a, t
<1>5. /\ Observed(l) = a[n] /\ a \in [0..n -> Histograms] /\ a[0] = EmptyHistogram
      /\ \A k \in 1..n : a[k] = ObserveMsgSendLatencyMs(a[k-1], l[k])
  BY <1>1, <1>3, AfterSteps DEF a
<1>6. t \in [0..n -> Int] /\ t[0] = 0 /\ \A k \in 1..n : t[k] = t[k-1] + e(k)
  <2>1. Len(s) = n /\ \A k \in 1..n : Elapsed(s[k]) \in Int
    BY <1>2 DEF n, e
  <2> QED BY <1>1, <2>1, TotalAdds DEF t, e
<1> DEFINE Agrees(k) == /\ a[k].count = k /\ a[k].sum = t[k] % Word
                        /\ \A i \in 1..Buckets : Cumulative(a[k].counts)[i] = Cardinality(Up(k, i))
           T == {k \in 0..n : Agrees(k)}
<1>7. 0 \in T
  <2>1. \A i \in 1..Buckets : Up(0, i) = {}
    OBVIOUS
  <2>2. 0 % Word = 0
    <3>1. 0 < Word /\ 0 > -Word /\ 0 \in Int /\ 0 >= 0
      BY <1>0
    <3> QED BY <3>1, Wraps
  <2>3. a[0].count = 0 /\ a[0].sum = 0
    BY <1>5 DEF EmptyHistogram
  <2>4. \A i \in 1..Buckets : Cumulative(a[0].counts)[i] = 0
    BY <1>5, NothingYet
  <2>5. Cardinality({}) = 0
    BY FS_EmptySet
  <2>6. Agrees(0)
    BY <1>6, <2>1, <2>2, <2>3, <2>4, <2>5
  <2> QED BY <1>1, <2>6
<1>8. ASSUME NEW k \in 1..n, k-1 \in T PROVE k \in T
  <2> DEFINE h == a[k-1]
  <2>1. k-1 \in 0..n /\ h \in Histograms /\ Agrees(k-1) /\ l[k] \in 0..Word-1
    BY <1>1, <1>2, <1>5, <1>8
  <2>2. a[k] = ObserveMsgSendLatencyMs(h, l[k])
    BY <1>5
  <2>3. a[k].count = k
    <3>1. a[k].count = h.count + 1
      BY <2>2 DEF ObserveMsgSendLatencyMs
    <3> QED BY <2>1, <3>1
  <2>4. a[k].sum = t[k] % Word
    <3>1. a[k].sum = (h.sum + l[k]) % Word
      BY <2>2 DEF ObserveMsgSendLatencyMs
    <3>2. h.sum = t[k-1] % Word /\ l[k] = e(k) % Word /\ t[k] = t[k-1] + e(k)
      BY <1>2, <1>6, <2>1
    <3>3. t[k-1] \in Int /\ e(k) \in Int
      BY <1>2, <1>6, <2>1
    <3>4. ((t[k-1] % Word) + (e(k) % Word)) % Word = (t[k-1] + e(k)) % Word
      BY <1>0, <3>3, ModSum
    <3> QED BY <3>1, <3>2, <3>4
  <2>5. ASSUME NEW i \in 1..Buckets
        PROVE  Cumulative(a[k].counts)[i] = Cardinality(Up(k, i))
    <3>1. Cumulative(a[k].counts)[i]
             = Cumulative(h.counts)[i] + (IF l[k] =< HistBuckets[i] THEN 1 ELSE 0)
      <4> HIDE DEF h
      <4> QED BY <2>1, <2>2, OneMoreLatency
    <3>2. Cumulative(h.counts)[i] = Cardinality(Up(k-1, i))
      BY <2>1
    <3>3. IsFiniteSet(Up(k-1, i))
      <4>1. 1 \in Int /\ k-1 \in Int
        OBVIOUS
      <4>2. IsFiniteSet(1..k-1) /\ Up(k-1, i) \subseteq 1..k-1
        BY <4>1, FS_Interval
      <4> HIDE DEF Up
      <4> QED BY <4>2, FS_Subset
    <3>4. Cardinality(Up(k-1, i)) \in Nat
      <4> HIDE DEF Up
      <4> QED BY <3>3, FS_CardinalityType
    <3>5. 1..k = (1..k-1) \cup {k} /\ k \notin 1..k-1
      OBVIOUS
    <3>6. CASE l[k] =< HistBuckets[i]
      <4>1. Up(k, i) = Up(k-1, i) \cup {k} /\ k \notin Up(k-1, i)
        BY <3>5, <3>6
      <4> HIDE DEF Up
      <4>2. Cardinality(Up(k-1, i) \cup {k}) = Cardinality(Up(k-1, i)) + 1
        BY <3>3, <4>1, FS_AddElement
      <4> QED BY <3>1, <3>2, <3>6, <4>1, <4>2
    <3>7. CASE ~(l[k] =< HistBuckets[i])
      <4>1. Up(k, i) = Up(k-1, i)
        BY <3>5, <3>7
      <4> HIDE DEF Up
      <4> QED BY <3>1, <3>2, <3>4, <3>7, <4>1
    <3> QED BY <3>6, <3>7
  <2> QED BY <2>3, <2>4, <2>5
<1>9. Agrees(n)
  <2>1. \A k \in 0..n : k \in T
    <3> HIDE DEF T
    <3> QED BY <1>1, <1>7, <1>8, Steps
  <2> QED BY <1>1, <2>1
<1>10. ASSUME NEW i \in 1..Buckets
       PROVE  Up(n, i) = {k \in DOMAIN s : Elapsed(s[k]) \in 0..HistBuckets[i]}
  BY <1>1, <1>4 DEF e
<1>11. \A i \in 1..Buckets :
          Rendered(a[n])[i] = Cardinality({k \in DOMAIN s : Elapsed(s[k]) \in 0..HistBuckets[i]})
  <2>1. \A i \in 1..Buckets : Rendered(a[n])[i] = Cumulative(a[n].counts)[i]
    BY <1>0 DEF Rendered
  <2> QED BY <1>9, <1>10, <2>1
<1> QED BY <1>0, <1>5, <1>9, <1>11 DEF l, n, t

\* Each bucket line that RenderPrometheus writes is the number of messages that
\* took no longer, for any bounds and any messages; the sum is the total modulo
\* the width of its counter.
THEOREM HistogramRight == PartsSpec => []HistogramAgrees
<1>1. InputType => HistogramAgrees
  <2> SUFFICES ASSUME InputType, input.part = "latency" PROVE HistogramAgrees
    BY DEF HistogramAgrees
  <2>1. input.given \in Latencies
    BY DEF InputType, Inputs, NoInput
  <2> QED BY <2>1, Counts DEF HistogramAgrees
<1> QED BY <1>1, AlwaysInput, PTL

-----------------------------------------------------------------------------
(* The frame limiter: the bucket stays within its bounds.                  *)

\* The bucket starts full.
LEMMA InitType == LimiterInit => TypeOK
<1>1. << >> \in Seq(0..MaxNow)
  BY EmptySeq
<1> QED BY <1>1, LimiterAssumption DEF LimiterInit, TypeOK, PCs

\* No load or store of any fiber, at any place in ConsumeToken, leaves the
\* bucket overdrawn or overfilled: what Spend stores was tested to be positive.
LEMMA NextType == TypeOK /\ [LimiterNext]_limiter_vars => TypeOK'
<1> SUFFICES ASSUME TypeOK, [LimiterNext]_limiter_vars PROVE TypeOK'
  OBVIOUS
<1> USE LimiterAssumption DEF TypeOK, PCs, Goto, Set
<1>1. ASSUME NEW f \in Fibers, Call(f) PROVE TypeOK'
  <2>1. disorder' \subseteq Disorders
    BY <1>1 DEF Call, Disorders
  <2> QED BY <1>1, <2>1 DEF Call, bucket
<1>2. ASSUME NEW f \in Fibers, LoadRefill(f) PROVE TypeOK'
  BY <1>2 DEF LoadRefill, bucket
<1>3. ASSUME NEW f \in Fibers, LoadTokens(f) PROVE TypeOK'
  BY <1>3 DEF LoadTokens, bucket
<1>4. ASSUME NEW f \in Fibers, StoreRefill(f) PROVE TypeOK'
  BY <1>4 DEF StoreRefill, locals
<1>5. ASSUME NEW f \in Fibers, StoreTokens(f) PROVE TypeOK'
  BY <1>5 DEF StoreTokens
<1>6. ASSUME NEW f \in Fibers, Spend(f) PROVE TypeOK'
  <2>1. tokens[f] - 1 \in 0..Limit
    BY <1>6 DEF Spend
  <2>2. granted' \in Seq(0..MaxNow)
    <3>1. /\ granted' = Append(granted, now_ms[f]) \/ granted' = granted
          /\ now_ms[f] \in 0..MaxNow
      BY <1>6 DEF Spend, Grant
    <3>2. Append(granted, now_ms[f]) \in Seq(0..MaxNow)
      BY <3>1, AppendProperties
    <3> QED BY <3>1, <3>2
  <2> QED BY <1>6, <2>1, <2>2 DEF Spend, locals
<1>7. ASSUME NEW f \in Fibers, Refuse(f) PROVE TypeOK'
  BY <1>7 DEF Refuse, bucket, locals
<1>8. CASE Tick
  BY <1>8 DEF Tick, bucket, locals
<1>9. CASE SetBack
  <2>1. now' \in 0..MaxNow /\ disorder' \subseteq Disorders
    BY <1>9 DEF SetBack, Disorders
  <2> QED BY <1>9, <2>1 DEF SetBack, bucket, locals
<1>10. CASE UNCHANGED limiter_vars
  BY <1>10 DEF limiter_vars, bucket, locals
<1> QED
  BY <1>1, <1>2, <1>3, <1>4, <1>5, <1>6, <1>7, <1>8, <1>9, <1>10 DEF LimiterNext

\* The bucket is never overdrawn and never overfilled, in whatever order the
\* loads and stores of ConsumeToken by several fibers fall.
THEOREM BucketInRange == LimiterSpec => []TypeOK
BY InitType, NextType, PTL DEF LimiterSpec

-----------------------------------------------------------------------------
(* The frame limiter as long as no two calls overlap and the clock runs    *)
(* forward.                                                                *)

InCall(f) == pc[f] \notin {"idle", "refused"}

\* Frames let through at times from a up to b.
Grants(a, b) == {i \in DOMAIN granted : a =< granted[i] /\ granted[i] < b}

\* Those since the last refill, and those of the second before it.
SinceRefill == Grants(bucket_refill_ts, MaxNow + 1)
SecondBefore == Grants(bucket_refill_ts - Second, bucket_refill_ts)

\* No fiber is between the two stores of a refill: the tokens that are left and
\* the frames let through since the refill make up the limit.
Balance ==
    /\ bucket_tokens + Cardinality(SinceRefill) = Limit
    /\ \A i \in DOMAIN granted : granted[i] < bucket_refill_ts + Second

\* What the fiber in its call knows.
CallInv(f) ==
    /\ bucket_refill_ts =< now_ms[f] /\ now_ms[f] =< now
    /\ \A i \in DOMAIN granted : granted[i] =< now_ms[f]
    /\ pc[f] \in {"load_tokens", "store_refill"} => refill_ts[f] = bucket_refill_ts
    /\ pc[f] = "store_refill" => Due(f)
    /\ pc[f] = "store_tokens" =>
          bucket_refill_ts = now_ms[f] /\ \A i \in DOMAIN granted : granted[i] < now_ms[f]
    /\ pc[f] = "spend" => tokens[f] = bucket_tokens /\ now_ms[f] < bucket_refill_ts + Second

\* One fiber at a time is in its call; what was let through in the second before
\* a refill came from one bucket, what is let through since comes from the next.
LimiterInv ==
    disorder = {} =>
        /\ \A f, g \in Fibers : InCall(f) /\ InCall(g) => f = g
        /\ \A f \in Fibers : InCall(f) => CallInv(f)
        /\ (\A f \in Fibers : pc[f] # "store_tokens") => Balance
        /\ bucket_refill_ts =< now
        /\ \A i \in DOMAIN granted : granted[i] =< now
        /\ Cardinality(SecondBefore) =< Limit
        /\ \A t \in Int : Cardinality(Grants(t, t + Second)) =< 2 * Limit
        /\ \A f \in Fibers :
              pc[f] = "refused" =>
                  Cardinality(Grants(now_ms[f] - Second + 1, now_ms[f] + 1)) >= Limit

\* The frames let through are finitely many.
LEMMA GrantsCount ==
    ASSUME TypeOK
    PROVE  /\ IsFiniteSet(DOMAIN granted)
           /\ \A i \in DOMAIN granted : granted[i] \in 0..MaxNow
           /\ \A a, b : Cardinality(Grants(a, b)) \in Nat
           /\ \A a, b, c, d : Grants(a, b) \subseteq Grants(c, d) =>
                 Cardinality(Grants(a, b)) =< Cardinality(Grants(c, d))
<1>1. DOMAIN granted = 1..Len(granted) /\ Len(granted) \in Nat
  BY LenProperties DEF TypeOK
<1>2. IsFiniteSet(DOMAIN granted)
  <2>1. 1 \in Int /\ Len(granted) \in Int
    BY <1>1
  <2> QED BY <1>1, <2>1, FS_Interval
<1>3. \A a, b : IsFiniteSet(Grants(a, b))
  BY <1>2, FS_Subset DEF Grants
<1>4. \A i \in DOMAIN granted : granted[i] \in 0..MaxNow
  BY <1>1, ElementOfSeq DEF TypeOK
<1>5. ASSUME NEW a, NEW b, NEW c, NEW d, Grants(a, b) \subseteq Grants(c, d)
      PROVE  Cardinality(Grants(a, b)) =< Cardinality(Grants(c, d))
  BY <1>3, <1>5, FS_Subset
<1> QED BY <1>2, <1>3, <1>4, <1>5, FS_CardinalityType

\* Two adjoining stretches of time.
LEMMA GrantsAdjoin ==
    ASSUME TypeOK, NEW a \in Int, NEW b \in Int, NEW c \in Int, a =< b, b =< c
    PROVE  Cardinality(Grants(a, c)) =< Cardinality(Grants(a, b)) + Cardinality(Grants(b, c))
<1>1. Grants(a, c) = Grants(a, b) \cup Grants(b, c)
  BY GrantsCount, LimiterAssumption DEF Grants
<1>2. IsFiniteSet(Grants(a, b)) /\ IsFiniteSet(Grants(b, c))
  BY GrantsCount, FS_Subset DEF Grants
<1>3. Cardinality(Grants(a, c)) = Cardinality(Grants(a, b)) + Cardinality(Grants(b, c))
                                  - Cardinality(Grants(a, b) \cap Grants(b, c))
  BY <1>1, <1>2, FS_Union
<1>4. Cardinality(Grants(a, b) \cap Grants(b, c)) \in Nat
  BY <1>2, FS_Intersection, FS_CardinalityType
<1>5. Cardinality(Grants(a, b)) \in Nat /\ Cardinality(Grants(b, c)) \in Nat
  BY GrantsCount
<1> QED BY <1>3, <1>4, <1>5

\* One more frame is let through.
LEMMA OneMoreGrant ==
    ASSUME TypeOK, NEW x \in 0..MaxNow, granted' = Append(granted, x)
    PROVE  /\ DOMAIN granted \subseteq DOMAIN granted'
           /\ \A i \in DOMAIN granted : granted'[i] = granted[i]
           /\ \A i \in DOMAIN granted' : i \in DOMAIN granted \/ granted'[i] = x
           /\ \A a, b : Cardinality(Grants(a, b)') =
                 Cardinality(Grants(a, b)) + (IF a =< x /\ x < b THEN 1 ELSE 0)
<1> DEFINE n == Len(granted)
<1>1. n \in Nat /\ DOMAIN granted = 1..n /\ granted \in Seq(0..MaxNow)
  BY LenProperties DEF TypeOK
<1>2. /\ DOMAIN granted' = 1..n+1 /\ granted'[n+1] = x
      /\ \A i \in 1..n : granted'[i] = granted[i]
  BY <1>1, AppendProperties, LenProperties
<1> HIDE DEF n
<1>3. 1..n+1 = 1..n \cup {n+1} /\ n+1 \notin 1..n
  BY <1>1
<1>4. ASSUME NEW a, NEW b
      PROVE Cardinality(Grants(a, b)') =
                 Cardinality(Grants(a, b)) + (IF a =< x /\ x < b THEN 1 ELSE 0)
  <2>1. Grants(a, b)' = {i \in 1..n+1 : a =< granted'[i] /\ granted'[i] < b}
    BY <1>2 DEF Grants
  <2>2. Grants(a, b) = {i \in 1..n : a =< granted[i] /\ granted[i] < b}
    BY <1>1 DEF Grants
  <2>3. IsFiniteSet(Grants(a, b)) /\ n+1 \notin Grants(a, b)
    BY <1>3, <2>2, GrantsCount, FS_Subset DEF Grants
  <2>4. Cardinality(Grants(a, b)) \in Nat
    BY GrantsCount
  <2>5. CASE a =< x /\ x < b
    <3>1. Grants(a, b)' = Grants(a, b) \cup {n+1}
      BY <1>2, <1>3, <2>1, <2>2, <2>5
    <3>2. Cardinality(Grants(a, b) \cup {n+1}) = Cardinality(Grants(a, b)) + 1
      BY <2>3, FS_AddElement
    <3> QED BY <2>5, <3>1, <3>2
  <2>6. CASE ~(a =< x /\ x < b)
    <3>1. Grants(a, b)' = Grants(a, b)
      BY <1>2, <1>3, <2>1, <2>2, <2>6
    <3> QED BY <2>4, <2>6, <3>1
  <2> QED BY <2>5, <2>6
<1> QED BY <1>1, <1>2, <1>3, <1>4

\* No frame has come yet.
LEMMA InitLimiter == LimiterInit => LimiterInv
<1> SUFFICES ASSUME LimiterInit PROVE LimiterInv
  OBVIOUS
<1>1. granted = << >> /\ DOMAIN granted = {}
  BY DEF LimiterInit
<1>2. \A a, b : Grants(a, b) = {}
  BY <1>1 DEF Grants
<1>3. Cardinality({}) = 0
  BY FS_EmptySet
<1>4. Balance /\ Cardinality(SecondBefore) =< Limit
  <2>1. SinceRefill = {} /\ SecondBefore = {}
    BY <1>2 DEF SinceRefill, SecondBefore
  <2> QED BY <1>1, <1>3, <2>1, LimiterAssumption DEF LimiterInit, Balance
<1>5. \A t \in Int : Cardinality(Grants(t, t + Second)) =< 2 * Limit
  BY <1>2, <1>3, LimiterAssumption
<1>6. /\ \A f \in Fibers : ~InCall(f) /\ pc[f] # "refused"
      /\ bucket_refill_ts =< now
  BY DEF LimiterInit, InCall
<1> QED BY <1>1, <1>4, <1>5, <1>6 DEF LimiterInv

\* What the parts of the invariant become when the frames let through, the
\* refill and the clock are as they were.
LEMMA SameHistory ==
    ASSUME granted' = granted
    PROVE  \A a, b : Grants(a, b)' = Grants(a, b)
BY DEF Grants

\* A step of the one fiber that is in its call, which lets nothing through.
LEMMA CallStep ==
    ASSUME TypeOK, LimiterInv, disorder = {}, NEW f \in Fibers, InCall(f),
           UNCHANGED <<now_ms, now, granted>>,
           \A g \in Fibers : g # f => pc'[g] = pc[g],
           bucket_refill_ts' =< now,
           InCall(f)' => CallInv(f)',
           pc'[f] # "store_tokens" => Balance',
           Cardinality(SecondBefore)' =< Limit,
           pc'[f] = "refused" =>
               Cardinality(Grants(now_ms[f] - Second + 1, now_ms[f] + 1)) >= Limit
    PROVE  LimiterInv'
<1>1. \A a, b : Grants(a, b)' = Grants(a, b)
  BY SameHistory
<1>2. \A g \in Fibers : InCall(g) => g = f
  BY DEF LimiterInv
<1>3. \A g \in Fibers : g # f => pc'[g] # "store_tokens" /\ ~InCall(g)'
  BY <1>2 DEF InCall
<1>4. ASSUME NEW g \in Fibers, pc'[g] = "refused"
      PROVE  Cardinality(Grants(now_ms[g] - Second + 1, now_ms[g] + 1)) >= Limit
  BY <1>4 DEF LimiterInv
<1>5. (\A g \in Fibers : pc'[g] # "store_tokens") => Balance'
  OBVIOUS
<1>6. \A g \in Fibers : InCall(g)' => CallInv(g)'
  BY <1>3
<1>7. \A t \in Int : Cardinality(Grants(t, t + Second)') =< 2 * Limit
  BY <1>1 DEF LimiterInv
<1>8. \A g \in Fibers : pc'[g] = "refused" =>
         Cardinality(Grants(now_ms[g] - Second + 1, now_ms[g] + 1)') >= Limit
  BY <1>1, <1>4
<1> QED BY <1>3, <1>5, <1>6, <1>7, <1>8 DEF LimiterInv

\* A call, load by load and store by store.
LEMMA NextLimiter == TypeOK /\ LimiterInv /\ [LimiterNext]_limiter_vars => LimiterInv'
<1> SUFFICES ASSUME TypeOK, LimiterInv, [LimiterNext]_limiter_vars, disorder' = {}
             PROVE  LimiterInv'
  BY DEF LimiterInv
<1> USE LimiterAssumption DEF Goto, Set
<1>0. /\ \A f \in Fibers : now_ms[f] \in 0..MaxNow /\ refill_ts[f] \in 0..MaxNow
                           /\ tokens[f] \in 0..Limit
      /\ bucket_refill_ts \in 0..MaxNow /\ bucket_tokens \in 0..Limit /\ now \in 0..MaxNow
      /\ \A i \in DOMAIN granted : granted[i] \in 0..MaxNow
      /\ DOMAIN pc = Fibers
  BY GrantsCount DEF TypeOK
<1>a. disorder = {} /\ ~SetBack
  BY DEF LimiterNext, Call, LoadRefill, LoadTokens, StoreRefill, StoreTokens, Spend, Refuse, Tick,
         SetBack, limiter_vars
<1>b. /\ \A f, g \in Fibers : InCall(f) /\ InCall(g) => f = g
      /\ \A f \in Fibers : InCall(f) => CallInv(f)
      /\ (\A f \in Fibers : pc[f] # "store_tokens") => Balance
      /\ bucket_refill_ts =< now
      /\ \A i \in DOMAIN granted : granted[i] =< now
      /\ Cardinality(SecondBefore) =< Limit
      /\ \A t \in Int : Cardinality(Grants(t, t + Second)) =< 2 * Limit
      /\ \A f \in Fibers :
            pc[f] = "refused" =>
                Cardinality(Grants(now_ms[f] - Second + 1, now_ms[f] + 1)) >= Limit
  BY <1>a DEF LimiterInv
<1>c. \A t \in Int : Cardinality(Grants(t, t + Second)) =< 2 * Limit
  BY <1>b
<1>1. ASSUME NEW f \in Fibers, Call(f) PROVE LimiterInv'
  <2>1. /\ UNCHANGED <<bucket_refill_ts, bucket_tokens, granted, now, refill_ts, tokens>>
        /\ pc[f] = "idle" /\ pc' = [pc EXCEPT ![f] = "load_refill"]
        /\ now_ms' = [now_ms EXCEPT ![f] = now]
    BY <1>1 DEF Call, bucket
  <2>2. \A g \in Fibers : ~InCall(g)
    BY <1>1 DEF Call, InCall
  <2>3. \A a, b : Grants(a, b)' = Grants(a, b)
    BY <2>1, SameHistory
  <2>4. Balance /\ Balance'
    <3>1. Balance
      BY <1>b, <2>2 DEF InCall
    <3> QED BY <2>1, <2>3, <3>1 DEF Balance, SinceRefill
  <2>5. \A g \in Fibers : g # f => pc'[g] = pc[g] /\ now_ms'[g] = now_ms[g]
    BY <2>1, <1>0 DEF TypeOK
  <2>6. pc'[f] = "load_refill" /\ now_ms'[f] = now
    BY <2>1, <1>0 DEF TypeOK
  <2>7. \A g \in Fibers : InCall(g)' => g = f
    BY <2>2, <2>5 DEF InCall
  <2>8. CallInv(f)'
    BY <1>0, <1>b, <2>1, <2>6 DEF CallInv
  <2>9. Cardinality(SecondBefore)' =< Limit
    BY <1>b, <2>1, <2>3 DEF SecondBefore
  <2>10. ASSUME NEW g \in Fibers, pc'[g] = "refused"
         PROVE  Cardinality(Grants(now_ms[g] - Second + 1, now_ms[g] + 1)') >= Limit
    <3>1. g # f
      BY <2>6, <2>10
    <3>2. Cardinality(Grants(now_ms[g] - Second + 1, now_ms[g] + 1)) >= Limit
      BY <1>b, <2>5, <2>10, <3>1
    <3>3. Grants(now_ms[g] - Second + 1, now_ms[g] + 1)'
             = Grants(now_ms[g] - Second + 1, now_ms[g] + 1)
      BY <2>1, <2>5, <3>1 DEF Grants
    <3> QED BY <3>2, <3>3
  <2>11. \A t \in Int : Cardinality(Grants(t, t + Second)') =< 2 * Limit
    BY <1>c, <2>3
  <2>12. /\ \A g, h \in Fibers : InCall(g)' /\ InCall(h)' => g = h
         /\ \A g \in Fibers : InCall(g)' => CallInv(g)'
    BY <2>7, <2>8
  <2>13. bucket_refill_ts' =< now' /\ \A i \in DOMAIN granted' : granted'[i] =< now'
    BY <1>b, <2>1
  <2> QED BY <2>1, <2>4, <2>9, <2>10, <2>11, <2>12, <2>13 DEF LimiterInv
<1>2. ASSUME NEW f \in Fibers, LoadRefill(f) PROVE LimiterInv'
  <2>1. /\ UNCHANGED <<bucket_refill_ts, bucket_tokens, granted, now, now_ms, tokens>>
        /\ pc[f] = "load_refill" /\ pc' = [pc EXCEPT ![f] = "load_tokens"]
        /\ refill_ts' = [refill_ts EXCEPT ![f] = bucket_refill_ts]
    BY <1>2 DEF LoadRefill, bucket
  <2>2. /\ pc'[f] = "load_tokens" /\ \A g \in Fibers : g # f => pc'[g] = pc[g]
        /\ refill_ts'[f] = bucket_refill_ts
    BY <2>1 DEF TypeOK
  <2>3. InCall(f) /\ CallInv(f) /\ Balance
    BY <1>b, <2>1 DEF InCall
  <2>4. \A a, b : Grants(a, b)' = Grants(a, b)
    BY <2>1, SameHistory
  <2>5. CallInv(f)'
    BY <2>1, <2>2, <2>3 DEF CallInv
  <2>6. Balance' /\ Cardinality(SecondBefore)' =< Limit
    BY <1>b, <2>1, <2>3, <2>4 DEF Balance, SinceRefill, SecondBefore
  <2> QED BY <1>a, <1>b, <2>1, <2>2, <2>3, <2>5, <2>6, CallStep
<1>3. ASSUME NEW f \in Fibers, LoadTokens(f) PROVE LimiterInv'
  <2>1. /\ UNCHANGED <<bucket_refill_ts, bucket_tokens, granted, now, now_ms, refill_ts>>
        /\ pc[f] = "load_tokens"
        /\ pc' = [pc EXCEPT ![f] = IF Due(f) THEN "store_refill" ELSE "spend"]
        /\ tokens' = [tokens EXCEPT ![f] = bucket_tokens]
    BY <1>3 DEF LoadTokens, bucket
  <2>2. /\ pc'[f] = IF Due(f) THEN "store_refill" ELSE "spend"
        /\ \A g \in Fibers : g # f => pc'[g] = pc[g]
        /\ tokens'[f] = bucket_tokens
    BY <2>1 DEF TypeOK
  <2>3. InCall(f) /\ CallInv(f) /\ Balance
    BY <1>b, <2>1 DEF InCall
  <2>4. \A a, b : Grants(a, b)' = Grants(a, b)
    BY <2>1, SameHistory
  <2>5. CallInv(f)'
    <3>1. refill_ts[f] = bucket_refill_ts
      BY <2>1, <2>3 DEF CallInv
    <3>2. Due(f)' <=> Due(f)
      BY <2>1 DEF Due
    <3>3. ~Due(f) => now_ms[f] < bucket_refill_ts + Second
      BY <1>0, <3>1 DEF Due
    <3> QED BY <2>1, <2>2, <2>3, <3>1, <3>2, <3>3 DEF CallInv
  <2>6. Balance' /\ Cardinality(SecondBefore)' =< Limit
    BY <1>b, <2>1, <2>3, <2>4 DEF Balance, SinceRefill, SecondBefore
  <2>7. pc'[f] # "refused"
    BY <2>2
  <2> QED BY <1>a, <1>b, <2>1, <2>2, <2>3, <2>5, <2>6, <2>7, CallStep
<1>4. ASSUME NEW f \in Fibers, StoreRefill(f) PROVE LimiterInv'
  <2>1. /\ UNCHANGED <<bucket_tokens, granted, now, now_ms, refill_ts, tokens>>
        /\ pc[f] = "store_refill" /\ pc' = [pc EXCEPT ![f] = "store_tokens"]
        /\ bucket_refill_ts' = now_ms[f]
    BY <1>4 DEF StoreRefill, locals
  <2>2. pc'[f] = "store_tokens" /\ \A g \in Fibers : g # f => pc'[g] = pc[g]
    BY <2>1 DEF TypeOK
  <2>3. InCall(f) /\ CallInv(f) /\ Balance
    BY <1>b, <2>1 DEF InCall
  <2>4. \A a, b : Grants(a, b)' = Grants(a, b)
    BY <2>1, SameHistory
  <2>5. bucket_refill_ts + Second =< now_ms[f]
    <3>1. refill_ts[f] = bucket_refill_ts /\ Due(f)
      BY <2>1, <2>3 DEF CallInv
    <3> QED BY <1>0, <3>1 DEF Due
  <2>6. \A i \in DOMAIN granted : granted[i] < now_ms[f]
    BY <1>0, <2>3, <2>5 DEF Balance
  <2>7. CallInv(f)'
    BY <1>0, <2>1, <2>2, <2>3, <2>6 DEF CallInv
  <2>8. Cardinality(SecondBefore)' =< Limit
    <3>1. SecondBefore' = Grants(now_ms[f] - Second, now_ms[f])
      BY <2>1, <2>4 DEF SecondBefore
    <3>2. Grants(now_ms[f] - Second, now_ms[f]) \subseteq SinceRefill
      BY <1>0, <2>5 DEF Grants, SinceRefill
    <3>3. Cardinality(Grants(now_ms[f] - Second, now_ms[f])) =< Cardinality(SinceRefill)
      BY <3>2, GrantsCount DEF SinceRefill
    <3>4. Cardinality(SinceRefill) \in Nat /\ Cardinality(SinceRefill) =< Limit
      BY <1>0, <2>3, GrantsCount DEF Balance, SinceRefill
    <3>5. Cardinality(Grants(now_ms[f] - Second, now_ms[f])) \in Nat
      BY GrantsCount
    <3> QED BY <3>1, <3>3, <3>4, <3>5
  <2>9. now_ms[f] =< now
    BY <2>3 DEF CallInv
  <2> QED BY <1>a, <1>b, <2>1, <2>2, <2>3, <2>7, <2>8, <2>9, CallStep
<1>5. ASSUME NEW f \in Fibers, StoreTokens(f) PROVE LimiterInv'
  <2>1. /\ UNCHANGED <<bucket_refill_ts, granted, now, now_ms, refill_ts>>
        /\ pc[f] = "store_tokens" /\ pc' = [pc EXCEPT ![f] = "spend"]
        /\ tokens' = [tokens EXCEPT ![f] = Limit] /\ bucket_tokens' = Limit
    BY <1>5 DEF StoreTokens
  <2>2. /\ pc'[f] = "spend" /\ \A g \in Fibers : g # f => pc'[g] = pc[g]
        /\ tokens'[f] = Limit
    BY <2>1 DEF TypeOK
  <2>3. InCall(f) /\ CallInv(f)
    BY <1>b, <2>1 DEF InCall
  <2>4. bucket_refill_ts = now_ms[f] /\ \A i \in DOMAIN granted : granted[i] < now_ms[f]
    BY <2>1, <2>3 DEF CallInv
  <2>5. CallInv(f)'
    BY <1>0, <2>1, <2>2, <2>3, <2>4 DEF CallInv
  <2>6. Balance'
    <3>1. SinceRefill' = {}
      BY <1>0, <2>1, <2>4 DEF SinceRefill, Grants
    <3>2. Cardinality(SinceRefill') = 0
      BY <3>1, FS_EmptySet
    <3> QED BY <1>0, <2>1, <2>4, <3>2 DEF Balance
  <2>7. Cardinality(SecondBefore)' =< Limit
    <3>1. SecondBefore' = SecondBefore
      BY <2>1 DEF SecondBefore, Grants
    <3> QED BY <1>b, <3>1
  <2> QED BY <1>a, <1>b, <2>1, <2>2, <2>3, <2>5, <2>6, <2>7, CallStep
<1>6. ASSUME NEW f \in Fibers, Spend(f) PROVE LimiterInv'
  <2>1. PICK r \in 0..MaxNow, x \in 0..MaxNow : r = bucket_refill_ts /\ x = now_ms[f]
    BY <1>0
  <2>2. /\ bucket_refill_ts' = r /\ UNCHANGED <<now, now_ms>>
        /\ tokens[f] > 0 /\ pc[f] = "spend" /\ pc' = [pc EXCEPT ![f] = "idle"]
        /\ bucket_tokens' = tokens[f] - 1 /\ granted' = Append(granted, x)
    BY <1>6, <1>a, <2>1 DEF Spend, Grant, locals
  <2>3. pc'[f] = "idle" /\ \A g \in Fibers : g # f => pc'[g] = pc[g]
    BY <2>2 DEF TypeOK
  <2>4. InCall(f) /\ CallInv(f) /\ Balance
    BY <1>b, <2>2 DEF InCall
  <2>5. r =< x /\ x =< now /\ x < r + Second /\ tokens[f] = bucket_tokens
    BY <2>1, <2>2, <2>4 DEF CallInv
  <2>6. /\ \A i \in DOMAIN granted' : i \in DOMAIN granted \/ granted'[i] = x
        /\ \A i \in DOMAIN granted : granted'[i] = granted[i]
        /\ \A a, b : Cardinality(Grants(a, b)') =
              Cardinality(Grants(a, b)) + (IF a =< x /\ x < b THEN 1 ELSE 0)
    BY <2>2, OneMoreGrant
  <2>7. \A a, b : Cardinality(Grants(a, b)) \in Nat
    BY GrantsCount
  <2>8. SinceRefill = Grants(r, MaxNow + 1) /\ SinceRefill' = Grants(r, MaxNow + 1)'
    BY <2>1, <2>2 DEF SinceRefill, Grants
  <2>9. SecondBefore = Grants(r - Second, r) /\ SecondBefore' = Grants(r - Second, r)'
    BY <2>1, <2>2 DEF SecondBefore, Grants
  <2>10. \A g \in Fibers : ~InCall(g)'
    BY <1>b, <2>3, <2>4 DEF InCall
  <2>11. Balance'
    <3>1. Cardinality(SinceRefill') = Cardinality(SinceRefill) + 1
      <4>1. r =< x /\ x < MaxNow + 1
        BY <2>5
      <4> QED BY <2>6, <2>8, <4>1
    <3>2. Cardinality(SinceRefill) \in Nat
      BY <2>7, <2>8
    <3>3. bucket_tokens' + Cardinality(SinceRefill') = Limit
      BY <1>0, <2>2, <2>4, <2>5, <3>1, <3>2 DEF Balance
    <3>4. \A i \in DOMAIN granted' : granted'[i] < bucket_refill_ts' + Second
      BY <2>1, <2>2, <2>4, <2>5, <2>6 DEF Balance
    <3> QED BY <3>3, <3>4 DEF Balance
  <2>12. Cardinality(SecondBefore)' =< Limit
    <3>1. ~(x < r)
      BY <2>5
    <3>2. Cardinality(Grants(r - Second, r)') = Cardinality(Grants(r - Second, r)) + 0
      BY <2>6, <3>1
    <3>3. Cardinality(Grants(r - Second, r)) \in Nat
      BY <2>7
    <3> QED BY <1>b, <2>9, <3>2, <3>3
  <2>13. ASSUME NEW t \in Int PROVE Cardinality(Grants(t, t + Second)') =< 2 * Limit
    <3> DEFINE n == Cardinality(Grants(t, t + Second))
    <3>1. n \in Nat /\ n =< 2 * Limit
      BY <1>c, <2>7
    <3>2. Cardinality(Grants(t, t + Second)') = n + (IF t =< x /\ x < t + Second THEN 1 ELSE 0)
      BY <2>6
    <3>3. CASE t =< x /\ x < t + Second
      <4>1. Grants(t, t + Second) \subseteq Grants(r - Second, MaxNow + 1)
        <5>1. r - Second =< t
          BY <2>5, <3>3
        <5> QED BY <1>0, <5>1 DEF Grants
      <4>2. n =< Cardinality(Grants(r - Second, MaxNow + 1))
        BY <4>1, GrantsCount
      <4>3. Cardinality(Grants(r - Second, MaxNow + 1))
               =< Cardinality(Grants(r - Second, r)) + Cardinality(Grants(r, MaxNow + 1))
        <5>1. r - Second \in Int /\ r \in Int /\ MaxNow + 1 \in Int
              /\ r - Second =< r /\ r =< MaxNow + 1
          OBVIOUS
        <5> QED BY <5>1, GrantsAdjoin
      <4>4. Cardinality(Grants(r, MaxNow + 1)) =< Limit - 1
        BY <1>0, <2>2, <2>4, <2>5, <2>7, <2>8 DEF Balance
      <4>5. Cardinality(Grants(r - Second, r)) =< Limit
        BY <1>b, <2>9
      <4>6. /\ Cardinality(Grants(r - Second, MaxNow + 1)) \in Nat
            /\ Cardinality(Grants(r - Second, r)) \in Nat
            /\ Cardinality(Grants(r, MaxNow + 1)) \in Nat
        BY <2>7
      <4> HIDE DEF n
      <4>7. n + 1 =< 2 * Limit
        BY <3>1, <4>2, <4>3, <4>4, <4>5, <4>6
      <4> QED BY <3>2, <3>3, <4>7
    <3>4. CASE ~(t =< x /\ x < t + Second)
      <4> HIDE DEF n
      <4> QED BY <3>1, <3>2, <3>4
    <3> QED BY <3>3, <3>4
  <2>14. ASSUME NEW g \in Fibers, pc'[g] = "refused"
         PROVE  Cardinality(Grants(now_ms[g] - Second + 1, now_ms[g] + 1)') >= Limit
    <3>1. pc[g] = "refused"
      BY <2>3, <2>14
    <3>2. PICK a \in Int, b \in Int : a = now_ms[g] - Second + 1 /\ b = now_ms[g] + 1
      BY <1>0
    <3>3. Cardinality(Grants(a, b)) >= Limit
      BY <1>b, <3>1, <3>2
    <3>4. Cardinality(Grants(a, b)') >= Cardinality(Grants(a, b))
      <4>1. Cardinality(Grants(a, b)) \in Nat
        BY <2>7
      <4> QED BY <2>6, <4>1
    <3>5. Grants(now_ms[g] - Second + 1, now_ms[g] + 1)' = Grants(a, b)'
      BY <2>2, <3>2 DEF Grants
    <3>6. Cardinality(Grants(a, b)') \in Nat /\ Cardinality(Grants(a, b)) \in Nat
      BY <2>6, <2>7
    <3> QED BY <3>3, <3>4, <3>5, <3>6
  <2>15. bucket_refill_ts' =< now' /\ \A i \in DOMAIN granted' : granted'[i] =< now'
    BY <1>b, <2>1, <2>2, <2>5, <2>6
  <2>16. /\ \A g, h \in Fibers : InCall(g)' /\ InCall(h)' => g = h
         /\ \A g \in Fibers : InCall(g)' => CallInv(g)'
    BY <2>10
  <2> QED BY <2>11, <2>12, <2>13, <2>14, <2>15, <2>16 DEF LimiterInv
<1>7. ASSUME NEW f \in Fibers, Refuse(f) PROVE LimiterInv'
  <2>1. /\ UNCHANGED <<bucket_refill_ts, bucket_tokens, granted, now, now_ms, refill_ts, tokens>>
        /\ tokens[f] =< 0 /\ pc[f] = "spend" /\ pc' = [pc EXCEPT ![f] = "refused"]
    BY <1>7 DEF Refuse, bucket, locals
  <2>2. pc'[f] = "refused" /\ \A g \in Fibers : g # f => pc'[g] = pc[g]
    BY <2>1 DEF TypeOK
  <2>3. InCall(f) /\ CallInv(f) /\ Balance
    BY <1>b, <2>1 DEF InCall
  <2>4. ~InCall(f)'
    BY <2>2 DEF InCall
  <2>5. Balance' /\ Cardinality(SecondBefore)' =< Limit
    <3>1. SinceRefill' = SinceRefill /\ SecondBefore' = SecondBefore
      BY <2>1 DEF SinceRefill, SecondBefore, Grants
    <3> QED BY <1>b, <2>1, <2>3, <3>1 DEF Balance
  <2>6. Cardinality(Grants(now_ms[f] - Second + 1, now_ms[f] + 1)) >= Limit
    <3>1. bucket_tokens = 0 /\ now_ms[f] < bucket_refill_ts + Second
      BY <1>0, <2>1, <2>3 DEF CallInv
    <3>2. Cardinality(SinceRefill) = Limit
      <4>1. Cardinality(SinceRefill) \in Nat
        BY GrantsCount DEF SinceRefill
      <4> QED BY <2>3, <3>1, <4>1 DEF Balance
    <3>3. SinceRefill \subseteq Grants(now_ms[f] - Second + 1, now_ms[f] + 1)
      <4>1. \A i \in DOMAIN granted : granted[i] =< now_ms[f]
        BY <2>3 DEF CallInv
      <4> QED BY <1>0, <3>1, <4>1 DEF SinceRefill, Grants
    <3>4. Cardinality(SinceRefill) =< Cardinality(Grants(now_ms[f] - Second + 1, now_ms[f] + 1))
      BY <3>3, GrantsCount DEF SinceRefill
    <3> QED BY <3>2, <3>4
  <2> QED BY <1>a, <1>b, <2>1, <2>2, <2>3, <2>4, <2>5, <2>6, CallStep
<1>8. CASE Tick
  <2>1. /\ UNCHANGED <<bucket_refill_ts, bucket_tokens, pc, now_ms, refill_ts, tokens, granted>>
        /\ now =< now'
    BY <1>0, <1>8 DEF Tick, bucket, locals
  <2>2. now' \in 0..MaxNow
    BY <1>0, <1>8 DEF Tick
  <2>3. ASSUME NEW f \in Fibers, InCall(f) PROVE CallInv(f)'
    BY <1>0, <1>b, <2>1, <2>2, <2>3 DEF CallInv, Due
  <2>4. bucket_refill_ts' =< now' /\ \A i \in DOMAIN granted' : granted'[i] =< now'
    BY <1>0, <1>b, <2>1, <2>2
  <2>5. /\ \A f \in Fibers : InCall(f)' <=> InCall(f)
        /\ SecondBefore' = SecondBefore /\ SinceRefill' = SinceRefill
        /\ \A t \in Int : Grants(t, t + Second)' = Grants(t, t + Second)
        /\ \A f \in Fibers : Grants(now_ms[f] - Second + 1, now_ms[f] + 1)'
                                = Grants(now_ms[f] - Second + 1, now_ms[f] + 1)
    BY <2>1 DEF InCall, SecondBefore, SinceRefill, Grants
  <2>6. (\A f \in Fibers : pc'[f] # "store_tokens") => Balance'
    BY <1>b, <2>1, <2>5 DEF Balance
  <2>7. /\ \A f, g \in Fibers : InCall(f)' /\ InCall(g)' => f = g
        /\ \A f \in Fibers : InCall(f)' => CallInv(f)'
    BY <1>b, <2>3, <2>5
  <2>8. /\ \A t \in Int : Cardinality(Grants(t, t + Second)') =< 2 * Limit
        /\ \A f \in Fibers :
              pc'[f] = "refused" =>
                  Cardinality(Grants(now_ms[f] - Second + 1, now_ms[f] + 1)') >= Limit
        /\ Cardinality(SecondBefore') =< Limit
    BY <1>b, <2>1, <2>5
  <2> QED BY <2>4, <2>6, <2>7, <2>8 DEF LimiterInv
<1>9. CASE UNCHANGED limiter_vars
  BY <1>9 DEF limiter_vars, bucket, locals, LimiterInv, InCall, CallInv, Due, Balance,
              SinceRefill, SecondBefore, Grants
<1> QED
  BY <1>1, <1>2, <1>3, <1>4, <1>5, <1>6, <1>7, <1>8, <1>9, <1>a DEF LimiterNext

\* The invariant holds throughout.
LEMMA AlwaysLimiter == LimiterSpec => [](TypeOK /\ LimiterInv)
BY InitType, NextType, InitLimiter, NextLimiter, PTL DEF LimiterSpec

\* It bounds the bursts and justifies the refusals.
LEMMA LimiterBounds == TypeOK /\ LimiterInv => BurstBound /\ NoFalseRefusal
<1>1. \A t : GrantedInSecond(t) = Cardinality(Grants(t, t + Second))
  BY DEF GrantedInSecond, Grants
<1> SUFFICES ASSUME TypeOK, LimiterInv, disorder = {} PROVE BurstBound /\ NoFalseRefusal
  BY DEF BurstBound, NoFalseRefusal
<1>2. ASSUME NEW f \in Fibers, pc[f] = "refused"
      PROVE  GrantedInSecond(now_ms[f] - Second + 1) >= Limit
  <2>1. now_ms[f] - Second + 1 + Second = now_ms[f] + 1
    BY LimiterAssumption DEF TypeOK
  <2>2. Cardinality(Grants(now_ms[f] - Second + 1, now_ms[f] + 1)) >= Limit
    BY <1>2 DEF LimiterInv
  <2> QED BY <1>1, <2>1, <2>2
<1>3. \A t \in 0..MaxNow : GrantedInSecond(t) =< 2 * Limit
  BY <1>1, LimiterAssumption DEF LimiterInv
<1> QED BY <1>2, <1>3 DEF BurstBound, NoFalseRefusal

\* As long as no two calls of ConsumeToken overlap and the clock runs forward, at
\* most two buckets' worth of frames is let through in any second.
THEOREM BurstsBounded == LimiterSpec => []BurstBound
BY AlwaysLimiter, LimiterBounds, PTL

\* As long as no two calls of ConsumeToken overlap and the clock runs forward, a
\* refusal means that the limit was used up within the second that ends with it.
THEOREM RefusalsJust == LimiterSpec => []NoFalseRefusal
BY AlwaysLimiter, LimiterBounds, PTL
=============================================================================
