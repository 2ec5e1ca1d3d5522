------------------------------ MODULE LossyFifo ------------------------------
(***************************************************************************)
(* What the upstream path promises, and all it promises: events go in one  *)
(* by one, and what comes out at the broker is some of them, in the order  *)
(* they went in, each at most once.  Any run of them may be lost on the    *)
(* way: one that could not be sent, what a connection had not delivered,   *)
(* what was in memory when the process ended.                              *)
(***************************************************************************)
EXTENDS Naturals, Sequences, SequencesExt

CONSTANT Events

VARIABLES
    backlog,  \* accepted and still on the way
    arrived   \* what the broker has received, in order

vars == <<backlog, arrived>>

Init == backlog = << >> /\ arrived = << >>

\* An event goes in at most once.
Put(e) ==
    /\ e \notin Range(backlog) \cup Range(arrived)
    /\ backlog' = Append(backlog, e)
    /\ UNCHANGED arrived

\* The oldest n come out.
Arrive(n) ==
    /\ arrived' = arrived \o SubSeq(backlog, 1, n)
    /\ backlog' = SubSeq(backlog, n + 1, Len(backlog))

\* The n events after the first i are lost.
Lose(i, n) ==
    /\ backlog' = SubSeq(backlog, 1, i) \o SubSeq(backlog, i + n + 1, Len(backlog))
    /\ UNCHANGED arrived

Next ==
    \/ \E e \in Events : Put(e)
    \/ \E n \in 1..Len(backlog) : Arrive(n)
    \/ \E i \in 0..Len(backlog) : \E n \in 1..(Len(backlog) - i) : Lose(i, n)

Spec == Init /\ [][Next]_vars
=============================================================================
