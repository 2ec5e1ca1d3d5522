---------------------------- MODULE FrameLimiter -----------------------------
(***************************************************************************)
(* The frame limiter of a connection, OnlineConn::ConsumeToken, as handle  *)
(* calls it (chat/session/online_conn.h, chat/chat_servlet.cc).            *)
(*                                                                         *)
(* The bucket is two atomics, and ConsumeToken is a sequence of loads and  *)
(* stores with nothing to hold them together.  handle looks the connection *)
(* up by key, so besides the fiber of the connection itself those of the   *)
(* connections it has replaced use its bucket until they are closed.       *)
(***************************************************************************)
EXTENDS Integers, Sequences, FiniteSets

CONSTANTS
    Fibers,   \* fibers that find this connection under their key
    Limit,    \* chat.frame_rate_limit_per_second
    Second,   \* 1000 ms, in ticks
    MaxNow    \* bound: the clock stops here

\* ChatConfig::Load does not look at the limit; 0 refuses every frame.
ASSUME LimiterAssumption ==
    /\ Limit \in Nat
    /\ Second \in Nat \ {0}
    /\ MaxNow \in Nat

VARIABLES
    bucket_refill_ts,
    bucket_tokens,
    pc,         \* where in ConsumeToken each fiber is
    now_ms,     \* argument of ConsumeToken, read before the call
    refill_ts,  \* local variables of ConsumeToken
    tokens,
    now,        \* NowMs()
    disorder,   \* history: what has come in the way of an orderly count
    granted     \* history: now_ms of the frames let through before any disorder

bucket == <<bucket_refill_ts, bucket_tokens>>
locals == <<now_ms, refill_ts, tokens>>
limiter_vars == <<bucket, pc, locals, now, disorder, granted>>

PCs == {"idle",          \* no frame
        "load_refill", "load_tokens",
        "store_refill", "store_tokens",
        "spend",         \* at the test of tokens
        "refused"}       \* 429, and the connection of the fiber is closed

\* Two calls overlap; the clock is set back.
Disorders == {"overlap", "set back"}

\* The bucket is never overdrawn and never overfilled, in whatever order the
\* loads and stores of several fibers fall.
TypeOK ==
    /\ bucket_refill_ts \in 0..MaxNow /\ bucket_tokens \in 0..Limit
    /\ pc \in [Fibers -> PCs]
    /\ now_ms \in [Fibers -> 0..MaxNow]
    /\ refill_ts \in [Fibers -> 0..MaxNow]
    /\ tokens \in [Fibers -> 0..Limit]
    /\ now \in 0..MaxNow
    /\ disorder \subseteq Disorders
    /\ granted \in Seq(0..MaxNow)

LimiterInit ==
    /\ bucket_refill_ts = 0 /\ bucket_tokens = Limit
    /\ pc = [f \in Fibers |-> "idle"]
    /\ now_ms = [f \in Fibers |-> 0]
    /\ refill_ts = [f \in Fibers |-> 0]
    /\ tokens = [f \in Fibers |-> 0]
    /\ now = 0
    /\ disorder = {}
    /\ granted = << >>

-----------------------------------------------------------------------------
Goto(f, from, to) == pc[f] = from /\ pc' = [pc EXCEPT ![f] = to]

Set(local, f, value) == local' = [local EXCEPT ![f] = value]

\* A frame has been received and its time read.
Call(f) ==
    /\ Goto(f, "idle", "load_refill")
    /\ Set(now_ms, f, now)
    /\ disorder' = IF \A g \in Fibers : pc[g] \in {"idle", "refused"}
                    THEN disorder ELSE disorder \cup {"overlap"}
    /\ UNCHANGED <<bucket, refill_ts, tokens, now, granted>>

LoadRefill(f) ==
    /\ Goto(f, "load_refill", "load_tokens")
    /\ Set(refill_ts, f, bucket_refill_ts)
    /\ UNCHANGED <<bucket, now_ms, tokens, now, disorder, granted>>

\* Mutant: the second is over one tick late.
Due_Late(f) == now_ms[f] - refill_ts[f] > Second

Due(f) == now_ms[f] - refill_ts[f] >= Second

LoadTokens(f) ==
    /\ Goto(f, "load_tokens", IF Due(f) THEN "store_refill" ELSE "spend")
    /\ Set(tokens, f, bucket_tokens)
    /\ UNCHANGED <<bucket, now_ms, refill_ts, now, disorder, granted>>

\* Mutant: the time of the refill is not kept.
StoreRefill_NotKept(f) ==
    /\ Goto(f, "store_refill", "store_tokens")
    /\ UNCHANGED <<bucket, locals, now, disorder, granted>>

StoreRefill(f) ==
    /\ Goto(f, "store_refill", "store_tokens")
    /\ bucket_refill_ts' = now_ms[f]
    /\ UNCHANGED <<bucket_tokens, locals, now, disorder, granted>>

StoreTokens(f) ==
    /\ Goto(f, "store_tokens", "spend")
    /\ Set(tokens, f, Limit)
    /\ bucket_tokens' = Limit
    /\ UNCHANGED <<bucket_refill_ts, now_ms, refill_ts, now, disorder, granted>>

\* After a disorder nothing is claimed of the frames let through.
Grant(f) == granted' = IF disorder = {} THEN Append(granted, now_ms[f]) ELSE granted

\* Mutant: the decrement looks at the bucket and not at the value tested.
Spend_Fresh(f) ==
    /\ tokens[f] > 0
    /\ Goto(f, "spend", "idle")
    /\ bucket_tokens' = bucket_tokens - 1
    /\ Grant(f)
    /\ UNCHANGED <<bucket_refill_ts, locals, now, disorder>>

Spend(f) ==
    /\ tokens[f] > 0
    /\ Goto(f, "spend", "idle")
    /\ bucket_tokens' = tokens[f] - 1
    /\ Grant(f)
    /\ UNCHANGED <<bucket_refill_ts, locals, now, disorder>>

\* handle answers "too many frames" and returns 1.
Refuse(f) ==
    /\ tokens[f] <= 0
    /\ Goto(f, "spend", "refused")
    /\ UNCHANGED <<bucket, locals, now, disorder, granted>>

Tick ==
    /\ now' = IF now < MaxNow THEN now + 1 ELSE now
    /\ UNCHANGED <<bucket, pc, locals, disorder, granted>>

\* NowMs reads the wall clock, and the wall clock is set.  Until it is again a
\* second past the last refill, the bucket is not refilled.
SetBack ==
    /\ \E t \in 0..MaxNow : t < now /\ now' = t
    /\ disorder' = disorder \cup {"set back"}
    /\ UNCHANGED <<bucket, pc, locals, granted>>

LimiterNext ==
    \/ \E f \in Fibers :
          \/ Call(f) \/ LoadRefill(f) \/ LoadTokens(f)
          \/ StoreRefill(f) \/ StoreTokens(f)
          \/ Spend(f) \/ Refuse(f)
    \/ Tick
    \/ SetBack

LimiterSpec == LimiterInit /\ [][LimiterNext]_limiter_vars

-----------------------------------------------------------------------------
(* Safety.                                                                 *)

\* Frames let through in the second that begins at t.
GrantedInSecond(t) ==
    Cardinality({i \in DOMAIN granted : t <= granted[i] /\ granted[i] < t + Second})

\* As long as calls do not overlap and the clock runs forward, refills
\* are at least a second apart, so no second sees more than the rest of
\* one bucket and the whole of the next: not Limit frames, as the name of the
\* option has it, but up to twice as many around a refill.
BurstBound ==
    disorder = {} => \A t \in 0..MaxNow : GrantedInSecond(t) <= 2 * Limit

\* A frame is refused, and its connection closed, only if Limit frames were let
\* through in the second that ends with it.  (When calls overlap, a fiber that is
\* held up before its store undoes the refill of another, and one that comes
\* between the two stores of a refill finds no tokens.  When the clock is set back,
\* the bucket stays empty until the clock has caught up, however long that takes.)
NoFalseRefusal ==
    \A f \in Fibers :
        disorder = {} /\ pc[f] = "refused" =>
            GrantedInSecond(now_ms[f] - Second + 1) >= Limit
=============================================================================
