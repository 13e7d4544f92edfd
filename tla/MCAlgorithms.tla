---------------------------- MODULE MCAlgorithms ----------------------------
(***************************************************************************)
(* The pure algorithms over every small input: "case" is the input of one. *)
(* Arrivals and outcomes come in the order of their times; time.time() is  *)
(* taken to be monotonic.                                                  *)
(***************************************************************************)
EXTENDS SubmitWait, Throughput, LocalWorkflow, ConfigTree, BaseAgent, Metrics

CONSTANTS MaxTime, MaxLength, BucketSizes, MaxSteps, MaxCalls, Parts

ASSUME BoundsAssumption ==
  /\ MaxTime \in Nat /\ MaxLength \in Nat /\ MaxSteps \in Nat /\ MaxCalls \in Nat
  /\ BucketSizes \subseteq Nat \ {0}

VARIABLE case

Upto(S, n) == UNION {[1 .. k -> S] : k \in 0 .. n}
Ordered(times) == \A i \in 1 .. Len(times) - 1 : times[i] <= times[i + 1]

RateCases == [arrivals : {a \in Upto(0 .. MaxTime, MaxLength) : Ordered(a)}]

OutcomeLists ==
  {o \in Upto([ts : 0 .. MaxTime, outcome : {"completed", "failed"}], MaxOutcomes + 1) :
     Ordered([i \in DOMAIN o |-> o[i].ts])}
ThroughputCases ==
  {c \in [outcomes : OutcomeLists, now : 1 .. MaxTime, window : 1 .. MaxTime, bucket : BucketSizes] :
     /\ c.window <= c.now
     /\ \A i \in DOMAIN c.outcomes : c.outcomes[i].ts <= c.now}

WorkflowCases ==
  UNION {[n : {n}, retries : [1 .. n -> 0 .. MaxCalls - 1], raises : [1 .. n -> 0 .. MaxCalls],
          callable : [1 .. n -> BOOLEAN], step : [1 .. n -> {"pending", "completed"}]] : n \in 0 .. MaxSteps}

Paths == Upto(Parts, 2) \ {<<>>}
ConfigCases == [env : Upto([path : Paths, value : {"1", "2"}], 3)]

WaitCases ==
  [wait : 1 .. MaxTime, before : 1 .. MaxRequests, pause : 1 .. Window,
   ends : 0 .. MaxTime, raised : {0, 2, MaxTime}, down : {0, 3, MaxTime}]

AgentCases == [events : Upto(Events, MaxLength)]

MetricCases == [calls : Upto([op : {"start", "stop", "observe"}, metric : MetricNames], MaxLength)]

Cases ==
  RateCases \cup ThroughputCases \cup WorkflowCases \cup ConfigCases
    \cup WaitCases \cup AgentCases \cup MetricCases

Init == case \in Cases
Next == UNCHANGED case
Spec == Init /\ [][Next]_case

Is(field) == field \in DOMAIN case

\* middleware.py:50-56 accepts what a sliding window of accepted requests
\* allows, and keeps the timestamps that matter to later requests.
RateIsLimited == Is("arrivals") => AdmitsByWindow(case.arrivals)

\* engine.py:190-192, "Task outcomes bucketed over the trailing window",
\* "including empty buckets so the series is contiguous".
SeriesRight ==
  Is("bucket") =>
    LET series == throughput(case.outcomes, case.now, case.window, case.bucket) IN
    /\ Contiguous(series, case.now, case.window, case.bucket)
    /\ CountsEach(series, case.outcomes, case.now, case.window, case.bucket)

\* workflow.py:122-150: retries, and the stop at the first failed step.
LocalRunStops == Is("callable") => StopsAtFirstFailure(case)

\* config.py:19-45: what an environment variable sets is what get returns,
\* and an order of variables that cannot be set raises.
EnvironmentReadsBack == Is("env") => OverridesReadBack(case.env)

\* main.py:161-176: what a wait tells is what its polls saw, and the error that
\* the record of a task may carry while it is retried never ends it.  Which
\* poll the rate limit refuses is part of it; that a refusal ends the wait at
\* all is at odds with what "ao submit --wait" promises, see MCSubmitWait.
WaitTellsWhatItSaw == Is("wait") => SaysWhatItSaw(case)

\* agent.py:31-45: cleanup runs once for each setup that returned, whenever
\* stop and cancellation come, and not before.
AgentCleansUpOnce == Is("events") => CleanedUpOnce(case.events)

\* metrics.py:30-40: of the timers that threads start and stop under one name,
\* a duration is observed for the latest start only, and once.
TimersPair == Is("calls") => TimersPairUp(case.calls)
=============================================================================
