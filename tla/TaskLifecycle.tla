---------------------------- MODULE TaskLifecycle ----------------------------
(***************************************************************************)
(* What the engine promises a client about a task, whatever the queues,    *)
(* the event loop, the worker threads and restarts do in between: it is    *)
(* tried a bounded number of times, and a result, once given, stays.       *)
(***************************************************************************)
EXTENDS Integers

CONSTANTS Tasks, MaxRetries

VARIABLES
  state,   \* task -> what a client is told of it
  failures \* task -> failed attempts since the server started

lifeVars == <<state, failures>>

States == {"absent", "pending", "running", "completed", "failed"}
Unfinished == {"pending", "running"}

Init ==
  /\ state = [t \in Tasks |-> "absent"]
  /\ failures = [t \in Tasks |-> 0]

Become(t, s) == state' = [state EXCEPT ![t] = s]

Submit(t) == state[t] = "absent" /\ Become(t, "pending") /\ UNCHANGED failures

Start(t) == state[t] = "pending" /\ Become(t, "running") /\ UNCHANGED failures

Finish(t) == state[t] = "running" /\ Become(t, "completed") /\ UNCHANGED failures

\* An attempt fails, perhaps before it started (its agent is gone): the task
\* goes back in the queue, or is given up once its retries are used.
Failure(t) ==
  /\ state[t] \in Unfinished
  /\ failures[t] <= MaxRetries
  /\ Become(t, IF failures[t] = MaxRetries THEN "failed" ELSE "pending")
  /\ failures' = [failures EXCEPT ![t] = @ + 1]

\* The server comes back: unfinished work is queued again with a fresh budget.
Restart ==
  /\ state' = [t \in Tasks |-> IF state[t] \in Unfinished THEN "pending" ELSE state[t]]
  /\ failures' = [t \in Tasks |-> 0]

Next ==
  \/ \E t \in Tasks : Submit(t) \/ Start(t) \/ Finish(t) \/ Failure(t)
  \/ Restart

Spec == Init /\ [][Next]_lifeVars
=============================================================================
