--------------------------- MODULE SequentialParts ----------------------------
(***************************************************************************)
(* The parts of the server that are functions of their input, each against *)
(* a statement of what it should compute that does not follow its steps:   *)
(* the frames of clients, the tokens, the latency histogram.  An input is  *)
(* chosen in the initial state and nothing happens to it; next to them     *)
(* lives the idempotency cache, which is sequential too but has a history  *)
(* (LruIdempotency).                                                       *)
(***************************************************************************)
EXTENDS LruIdempotency, ClientFrame, TokenCheck, LatencyHistogram

CONSTANTS
    Frames,     \* frames with the surroundings they meet: records frame, env
    Tokens,     \* tokens with the time they are verified at: records token, now
    Latencies   \* sequences of messages: records created, now

\* now is the time in seconds, and a skew below -now makes no sense, though
\* ChatConfig::Load would take one.
ASSUME TokensAssumption ==
    /\ Skew \in Int /\ MaxInt \in Nat
    /\ \A x \in Tokens :
          /\ x.now \in Nat /\ x.now + Skew \in Nat
          /\ AsInt64(x.token.exp) \in Int /\ AsInt64(x.token.iat) \in Int

\* The clock does not jump by as much as the counters hold: a time that comes out
\* negative wraps to more than any bucket.
ASSUME LatenciesAssumption ==
    \A s \in Latencies :
        /\ s \in Seq([created : Nat, now : Nat])
        /\ \A k \in DOMAIN s :
              /\ s[k].now - s[k].created < Word
              /\ \A i \in DOMAIN HistBuckets : s[k].now - s[k].created > HistBuckets[i] - Word

VARIABLE input  \* what the part under consideration is given

NoInput == [part |-> "cache"]

Inputs ==
    [part : {"frame"}, given : Frames]
        \cup [part : {"token"}, given : Tokens]
        \cup [part : {"latency"}, given : Latencies]

PartsInit == Init /\ input \in {NoInput} \cup Inputs

PartsNext == input = NoInput /\ Next /\ UNCHANGED input

PartsSpec == PartsInit /\ [][PartsNext]_<<vars, input>>

-----------------------------------------------------------------------------
(* Frames.                                                                 *)

\* A frame is acted on in full or not at all, whichever of its members has the
\* wrong type: when handle throws, or answers with an error, it has published
\* nothing and left nothing in the pending map; only msg.send leaves an entry,
\* and only with its event published.  (An exception leaves handle also for a
\* seq that is an integer, but larger than INT64_MAX.)  A reply carries the seq
\* of the frame exactly if the frame parsed and had one.
FrameAllOrNothing ==
    input.part = "frame" =>
        LET f      == input.given.frame
            effect == Handled(f, input.given.env)
        IN  /\ effect.ret # "stays" \/ effect.reply # "none" =>
                  ~effect.pending /\ ~effect.published
            /\ effect.pending => effect.published /\ TypeOf(f) = "msg.send"
            /\ effect.echo <=>
                  /\ effect.reply # "none" /\ effect.ret = "stays"
                  /\ Parsed(f) = "ok" /\ f.seq.kind # "missing"

-----------------------------------------------------------------------------
(* Tokens.                                                                 *)

\* What a good token is, in no particular order.
Trusted(t) ==
    /\ t.three_parts /\ t.header_object /\ t.payload_object
    /\ IsText(t.alg, "HS256") /\ t.signed /\ IsText(t.iss, Issuer)

InTime(t, now) ==
    /\ AsInt64(t.exp) > 0 /\ AsInt64(t.exp) >= now - Skew
    /\ AsInt64(t.iat) =< now + Skew

WellTyped(t) ==
    /\ ~Int64Throws(t.exp) /\ ~Int64Throws(t.iat) /\ t.sub.kind = "int"
    /\ ~StringThrows(t.did)

\* The order of the checks, the two-sided skew and the conversions come to this:
\* only a trusted token within its time gives a session, under a user id that
\* is not 0 (handle takes 0 for "unauthorized"); every such token does, but for
\* one whose exp plus skew overflows, which may be refused.
TokenSound ==
    input.part = "token" =>
        LET t       == input.given.token
            now     == input.given.now
            answers == Verified(t, now)
            good    == Trusted(t) /\ WellTyped(t) /\ InTime(t, now) /\ UserId(t.sub) # 0
        IN  /\ "ok" \in answers <=> good
            /\ good => answers = {"ok"} \/ AsInt64(t.exp) + Skew > MaxInt

-----------------------------------------------------------------------------
(* The latency histogram.                                                  *)

Elapsed(message) == message.now - message.created

\* Total(s)[n]: the time the first n messages took, with no limit to it.
Total(s) ==
    LET total[n \in 0..Len(s)] == IF n = 0 THEN 0 ELSE total[n-1] + Elapsed(s[n])
    IN  total

\* Each bucket line is the number of messages that took no longer, whatever
\* their order; a message during which the clock was set back is in none of
\* them but +Inf, and not in the fastest.
HistogramAgrees ==
    input.part = "latency" =>
        LET s == input.given
            h == Observed([k \in DOMAIN s |-> Latency(s[k].created, s[k].now)])
        IN  /\ \A i \in DOMAIN HistBuckets :
                  Rendered(h)[i] = Cardinality({k \in DOMAIN s : Elapsed(s[k]) \in 0..HistBuckets[i]})
            /\ h.count = Len(s)
            /\ h.sum = Total(s)[Len(s)] % Word
=============================================================================
