------------------------------- MODULE Metrics -------------------------------
(***************************************************************************)
(* MetricsCollector of src/common/metrics.py.  Every method holds the lock *)
(* from its first access to its last, so what several threads do is a      *)
(* sequence of calls; call i happens at time i.  Counters and gauges never *)
(* meet timers and are left out.                                           *)
(***************************************************************************)
EXTENDS Integers, Sequences

CONSTANT MetricNames

Never == 0
Collector == [timers |-> [m \in MetricNames |-> Never], histograms |-> [m \in MetricNames |-> <<>>]]

observe(c, m, value) ==
  [timers |-> c.timers, histograms |-> [c.histograms EXCEPT ![m] = Append(@, value)]]
Timed(c, m, now) == [timers |-> [c.timers EXCEPT ![m] = now], histograms |-> c.histograms]
start_timer(c, m, now) == Timed(c, m, now)

\* _timers.pop, and the slip of reading without popping.
Kept(c, m) == c
Popped(c, m) == Timed(c, m, Never)
stop_timer(c, m, now) ==
  IF c.timers[m] = Never THEN c ELSE observe(Popped(c, m), m, now - c.timers[m])

Call(c, call, now) ==
  CASE call.op = "observe" -> observe(c, call.metric, 0)
    [] call.op = "start" -> start_timer(c, call.metric, now)
    [] call.op = "stop" -> stop_timer(c, call.metric, now)

Collected(calls) ==
  LET After[i \in 0 .. Len(calls)] ==
        IF i = 0 THEN Collector ELSE Call(After[i - 1], calls[i], i)
  IN  After[Len(calls)]

\* What it promises: a stop pairs with the latest start of its metric if no
\* other stop came between, so of overlapping timers of one metric only the
\* last is observed, and never twice.
Pairs(calls, i, j) ==
  /\ i < j /\ calls[i].op = "start" /\ calls[j].op = "stop" /\ calls[i].metric = calls[j].metric
  /\ \A k \in i + 1 .. j - 1 : calls[k].op # "observe" => calls[k].metric # calls[i].metric
Observed(calls, m, j) ==
  /\ calls[j].metric = m
  /\ calls[j].op = "observe" \/ \E i \in DOMAIN calls : Pairs(calls, i, j)
Value(calls, j) ==
  IF calls[j].op = "observe" THEN 0 ELSE j - (CHOOSE i \in DOMAIN calls : Pairs(calls, i, j))
TimersPairUp(calls) ==
  \A m \in MetricNames :
    LET S[n \in 0 .. Len(calls)] ==
          IF n = 0 THEN <<>>
          ELSE IF Observed(calls, m, n) THEN Append(S[n - 1], Value(calls, n)) ELSE S[n - 1]
    IN  Collected(calls).histograms[m] = S[Len(calls)]
=============================================================================
