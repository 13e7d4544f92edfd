------------------------------ MODULE BaseAgent ------------------------------
(***************************************************************************)
(* BaseAgent.run and stop of src/sdk/agent.py, over sequences of events of *)
(* one agent: "run" is called, its setup returns ("ready") or raises, its  *)
(* task is cancelled, stop is called, or a second of its sleep is over.    *)
(***************************************************************************)
EXTENDS Naturals, Sequences

Events == {"run", "ready", "raise", "cancel", "stop", "tick"}

Fresh == [at |-> "new", running |-> FALSE, cleaned |-> 0]

GoesTo(a, place) == [at |-> place, running |-> a.running, cleaned |-> a.cleaned]

\* The finally clause.
CleansUp(a) == [at |-> "over", running |-> a.running, cleaned |-> a.cleaned + 1]

\* The loop's condition is looked at when setup is done and after each sleep.
Loops(a) == IF a.running THEN GoesTo(a, "loop") ELSE CleansUp(a)

LoopsLater(a) == GoesTo(a, "loop")
Ready(a) == Loops(a)

On(a, event) ==
  CASE event = "stop" -> [at |-> a.at, running |-> FALSE, cleaned |-> a.cleaned]
    [] event = "run" /\ a.at = "new" -> [at |-> "setup", running |-> TRUE, cleaned |-> a.cleaned]
    [] event = "ready" /\ a.at = "setup" -> Ready(a)
    [] event \in {"raise", "cancel"} /\ a.at = "setup" -> GoesTo(a, "over")
    [] event = "tick" /\ a.at = "loop" -> Loops(a)
    [] event = "cancel" /\ a.at = "loop" -> CleansUp(a)
    [] OTHER -> a

run(events) ==
  LET After[i \in 0 .. Len(events)] == IF i = 0 THEN Fresh ELSE On(After[i - 1], events[i])
  IN  After[Len(events)]

\* What it promises, said of the events alone: the agent is cleaned up, once,
\* if and only if it was set up and then told to end, by a cancellation or by
\* a stop since its run began that the loop had an occasion to notice.
Event(events, S, i) == i \in DOMAIN events /\ events[i] \in S
FirstAfter(events, S, b, i) == b < i /\ Event(events, S, i) /\ \A j \in b + 1 .. i - 1 : events[j] \notin S
Ends(events, b, r, i) ==
  \/ Event(events, {"cancel"}, i) /\ i > r
  \/ Event(events, {"tick", "ready"}, i) /\ i >= r /\ (i > r => events[i] = "tick")
     /\ \E s \in b + 1 .. i - 1 : events[s] = "stop"
CleanedUpOnce(events) ==
  LET told == \E b, r, i \in DOMAIN events :
                /\ FirstAfter(events, {"run"}, 0, b)
                /\ FirstAfter(events, {"ready", "raise", "cancel"}, b, r)
                /\ events[r] = "ready"
                /\ Ends(events, b, r, i)
  IN  run(events).cleaned = IF told THEN 1 ELSE 0
=============================================================================
