--------------------------- MODULE LatencyHistogram ---------------------------
(***************************************************************************)
(* chat_msg_send_latency_ms (metrics/metrics.cc): what                     *)
(* ObserveMsgSendLatencyMs keeps and RenderPrometheus makes of it.  A      *)
(* latency is the difference of two readings of the system clock, taken as *)
(* an unsigned number: if the clock was set back in between it is huge.    *)
(***************************************************************************)
EXTENDS Integers, Sequences

CONSTANTS
    HistBuckets,  \* m_hist_buckets: upper bounds, in increasing order
    Word          \* 2^64, scaled down

ASSUME HistogramAssumption ==
    /\ Word \in Nat \ {0}
    /\ HistBuckets \in Seq(0..Word-1)
    /\ \A i, j \in DOMAIN HistBuckets : i < j => HistBuckets[i] < HistBuckets[j]

EmptyHistogram == [counts |-> [i \in DOMAIN HistBuckets |-> 0], sum |-> 0, count |-> 0]

Latency(created, now) == (now - created) % Word

\* Mutant: the loop is not left at the first bucket that fits.
BucketsOf_AllFitting(v) == {i \in DOMAIN HistBuckets : v =< HistBuckets[i]}

\* The first bucket that fits, if any does.
BucketsOf(v) ==
    {i \in DOMAIN HistBuckets :
        v =< HistBuckets[i] /\ \A j \in 1..i-1 : v > HistBuckets[j]}

ObserveMsgSendLatencyMs(h, v) ==
    [counts |-> [i \in DOMAIN HistBuckets |->
                    h.counts[i] + (IF i \in BucketsOf(v) THEN 1 ELSE 0)],
     sum    |-> (h.sum + v) % Word,
     count  |-> h.count + 1]

\* One call after the other (m_mutex): After(latencies)[n] is what n of them leave.
After(latencies) ==
    LET after[n \in 0..Len(latencies)] ==
            IF n = 0 THEN EmptyHistogram
            ELSE ObserveMsgSendLatencyMs(after[n-1], latencies[n])
    IN  after

Observed(latencies) == After(latencies)[Len(latencies)]

\* The loop of RenderPrometheus adds the counts up.
Cumulative(counts) ==
    LET cumulative[i \in 0..Len(HistBuckets)] ==
            IF i = 0 THEN 0 ELSE cumulative[i-1] + counts[i]
    IN  cumulative

\* The lines le="..." are cumulative; le="+Inf" is the count.
Rendered(h) == [i \in DOMAIN HistBuckets |-> Cumulative(h.counts)[i]]
=============================================================================
