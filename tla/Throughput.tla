----------------------------- MODULE Throughput -----------------------------
(***************************************************************************)
(* The outcome history of src/orchestrator/engine.py: a bounded deque of   *)
(* (timestamp, outcome) and the series of buckets that throughput computes *)
(* from it, time in whole ticks.                                           *)
(***************************************************************************)
EXTENDS Integers, Sequences, FiniteSets

CONSTANT MaxOutcomes   \* deque(maxlen)

ASSUME ThroughputAssumption == MaxOutcomes \in Nat \ {0}

\* A deque that is full drops its oldest entry.
History(outcomes) ==
  LET n == Len(outcomes) IN
  SubSeq(outcomes, IF n > MaxOutcomes THEN n - MaxOutcomes + 1 ELSE 1, n)

\* The buckets' beginnings: from the multiple of bucket at or before the
\* window's start, as long as they are before now.
Edge(now, window, bucket, k) ==
  LET start == now - window IN (start - (start % bucket)) + k * bucket
EdgesBeforeNow(now, window, bucket) ==
  {k \in 0 .. now : Edge(now, window, bucket, k) < now}
Buckets(now, window, bucket) == Cardinality(EdgesBeforeNow(now, window, bucket))

\* The bucket of an outcome, counted from 0, or -1 when it is skipped: too
\* old, or (idx = len(buckets)) stamped at the very end of the series.
Skipped == -1
IndexAnyAge(ts, now, window, bucket) ==
  LET idx == (ts - Edge(now, window, bucket, 0)) \div bucket IN
  IF 0 <= idx /\ idx < Buckets(now, window, bucket) THEN idx ELSE Skipped
Index(ts, now, window, bucket) ==
  LET idx == (ts - Edge(now, window, bucket, 0)) \div bucket IN
  IF ts >= now - window /\ 0 <= idx /\ idx < Buckets(now, window, bucket) THEN idx ELSE Skipped

throughput(outcomes, now, window, bucket) ==
  LET past == History(outcomes) IN
  [k \in 0 .. Buckets(now, window, bucket) - 1 |->
     [t |-> Edge(now, window, bucket, k),
      count |-> [o \in {"completed", "failed"} |->
        Cardinality({i \in DOMAIN past : /\ past[i].outcome = o
                                         /\ Index(past[i].ts, now, window, bucket) = k})]]]

\* The series covers the window without a gap and not one bucket more.
Contiguous(series, now, window, bucket) ==
  LET last == Cardinality(DOMAIN series) - 1 IN
  /\ last >= 0
  /\ series[0].t <= now - window /\ now - window < series[0].t + bucket
  /\ \A k \in 1 .. last : series[k].t = series[k - 1].t + bucket
  /\ series[last].t < now /\ now <= series[last].t + bucket

\* Each outcome of the window is counted once, under the bucket it lies in;
\* older ones are not counted, and one stamped now is lost when a bucket
\* would begin just now.
CountsEach(series, outcomes, now, window, bucket) ==
  LET past == History(outcomes)
      Seen(ts) == now - window <= ts /\ (ts < now \/ now % bucket # 0) IN
  \A k \in DOMAIN series : \A o \in {"completed", "failed"} :
    series[k].count[o] =
      Cardinality({i \in DOMAIN past : /\ past[i].outcome = o /\ Seen(past[i].ts)
                                       /\ series[k].t <= past[i].ts
                                       /\ past[i].ts < series[k].t + bucket})
=============================================================================
