--------------------------- MODULE AgentExecutor ---------------------------
(***************************************************************************)
(* src/agent/executor.py: execute() runs a handler as an asyncio task of   *)
(* its own inside "async with semaphore", and waits for it; cancel() and   *)
(* shutdown() cancel that inner task.  An execution passes through these   *)
(* stages, and everything but its handler happens on one event loop, so an *)
(* action is what runs between two awaits:                                 *)
(*                                                                         *)
(*   new      execute() not called yet                                     *)
(*   waiting  for the semaphore                                            *)
(*   granted  holds a slot, its coroutine has not gone on yet              *)
(*   running  awaits its inner task                                        *)
(*   cancelling  the same, the inner task is being cancelled               *)
(*   done     the inner task has ended, the coroutine has not gone on yet  *)
(*   over     execute() has returned or raised                             *)
(***************************************************************************)
EXTENDS Naturals, FiniteSets

CONSTANTS
  Executions,     \* calls of execute(), each with its handler
  MaxConcurrent,
  Hanging,        \* those whose handler does not end by itself
  Timed,          \* those whose handler has the @task decorator
  Deaf            \* those whose handler may swallow a CancelledError and go on

ASSUME ExecutorAssumption ==
  /\ IsFiniteSet(Executions)
  /\ MaxConcurrent \in Nat \ {0}
  /\ Hanging \subseteq Executions /\ Timed \subseteq Executions /\ Deaf \subseteq Executions

VARIABLES
  stage,
  calls, ticket,  \* calls of execute() so far; the call at which each came
  free,           \* value of the semaphore
  active,         \* keys of _active_tasks
  outcome,        \* how the inner task ended, or "none"
  result,         \* execution -> its entry in _results, or "none"
  shutdown,       \* "no"; "gathering", shutdown() awaits gather; "returned"
  gathered,       \* the inner tasks that it awaits
  asked           \* history: executions somebody has cancelled

vars == <<stage, calls, ticket, free, active, outcome, result, shutdown, gathered, asked>>

Stages == {"new", "waiting", "granted", "running", "cancelling", "done", "over"}
Outcomes == {"none", "ok", "error", "cancelled"}
HoldsSlot(e) == stage[e] \in {"granted", "running", "cancelling", "done"}
Ended(e) == stage[e] \in {"done", "over"}

TypeOK ==
  /\ stage \in [Executions -> Stages]
  /\ calls \in Nat /\ ticket \in [Executions -> Nat]
  /\ free \in 0..MaxConcurrent
  /\ active \in SUBSET Executions
  /\ outcome \in [Executions -> Outcomes]
  /\ result \in [Executions -> {"none", "ok", "error"}]
  /\ shutdown \in {"no", "gathering", "returned"}
  /\ gathered \in SUBSET Executions
  /\ asked \in SUBSET Executions

Init ==
  /\ stage = [e \in Executions |-> "new"]
  /\ calls = 0 /\ ticket = [e \in Executions |-> 0]
  /\ free = MaxConcurrent
  /\ active = {}
  /\ outcome = [e \in Executions |-> "none"]
  /\ result = [e \in Executions |-> "none"]
  /\ shutdown = "no" /\ gathered = {}
  /\ asked = {}

Goes(e, s) == stage' = [stage EXCEPT ![e] = s]

(***************************************************************************)
(* The semaphore of asyncio serves its waiters in the order they came, and *)
(* a newcomer does not pass one who waits or was just woken.               *)
(***************************************************************************)
Contended == free = 0 \/ \E o \in Executions : stage[o] \in {"waiting", "granted"}
First(e) == \A o \in Executions : stage[o] = "waiting" => ticket[e] <= ticket[o]

Grant(e) ==
  /\ stage[e] = "waiting" /\ First(e)
  /\ free > 0
  /\ free' = free - 1
  /\ Goes(e, "granted")
  /\ UNCHANGED <<calls, ticket, active, outcome, result, shutdown, gathered, asked>>

(***************************************************************************)
(* execute() and the handler                                               *)
(***************************************************************************)
Execute(e) ==
  /\ stage[e] = "new"
  /\ calls' = calls + 1
  /\ ticket' = [ticket EXCEPT ![e] = calls]
  /\ IF Contended
     THEN Goes(e, "waiting") /\ UNCHANGED <<free, active>>
     ELSE Goes(e, "running") /\ free' = free - 1 /\ active' = active \cup {e}
  /\ UNCHANGED <<outcome, result, shutdown, gathered, asked>>

\* Also after a shutdown: nothing tells those who waited of it.
Start(e) ==
  /\ stage[e] = "granted"
  /\ Goes(e, "running")
  /\ active' = active \cup {e}
  /\ UNCHANGED <<calls, ticket, free, outcome, result, shutdown, gathered, asked>>

InnerEnds(e, o) ==
  /\ Goes(e, "done")
  /\ outcome' = [outcome EXCEPT ![e] = o]
  /\ UNCHANGED <<calls, ticket, free, active, result, shutdown, gathered, asked>>

\* _run_execution returns what the handler does, or raises what it raises.
HandlerEnds(e) ==
  /\ stage[e] = "running" /\ e \notin Hanging
  /\ \E o \in {"ok", "error"} : InnerEnds(e, o)

\* wait_for cancels the function, and its TimeoutError is raised once that ended.
TimesOut(e) ==
  /\ stage[e] = "running" /\ e \in Timed \ Deaf
  /\ InnerEnds(e, "error")

\* A handler may clean up and return or raise instead of being cancelled.
CancelEnds(e) ==
  /\ stage[e] = "cancelling"
  /\ e \in Deaf => e \notin Hanging
  /\ \E o \in {"ok", "error", "cancelled"} : InnerEnds(e, o)

Swallows(e) ==
  /\ stage[e] = "cancelling" /\ e \in Deaf
  /\ Goes(e, "running")
  /\ UNCHANGED <<calls, ticket, free, active, outcome, result, shutdown, gathered, asked>>

\* A CancelledError is no Exception: it leaves no result, only the finally
\* clause and the end of "async with" run.
FreedUnlessCancelled(e) == IF outcome[e] = "cancelled" THEN free ELSE free + 1
ActiveUnlessOk(e) == IF outcome[e] = "ok" THEN active \ {e} ELSE active
OnlySuccess(e) == IF outcome[e] = "ok" THEN "ok" ELSE "none"
Freed(e) == free + 1
Popped(e) == active \ {e}
Stored(e) == IF outcome[e] = "cancelled" THEN "none" ELSE outcome[e]

Resume(e) ==
  /\ stage[e] = "done"
  /\ Goes(e, "over")
  /\ result' = [result EXCEPT ![e] = Stored(e)]
  /\ active' = Popped(e)
  /\ free' = Freed(e)
  /\ UNCHANGED <<calls, ticket, outcome, shutdown, gathered, asked>>

(***************************************************************************)
(* Cancelling                                                              *)
(***************************************************************************)
\* What task.cancel() does to the inner tasks in A that have not ended.
NoneCancelled(A) == {}
Cancelled(A) == {e \in A : ~Ended(e)}
Cancels(A) ==
  /\ stage' = [e \in Executions |-> IF e \in Cancelled(A) THEN "cancelling" ELSE stage[e]]
  /\ asked' = asked \cup Cancelled(A)

\* cancel(): True if there is an active inner task that is not done.
Cancel(e) ==
  /\ e \in active
  /\ Cancels({e})
  /\ UNCHANGED <<calls, ticket, free, active, outcome, result, shutdown, gathered>>

\* The task that awaits execute() is cancelled.
ReleasesAnyway(e) == free + 1
Left(e) == IF stage[e] = "granted" THEN free + 1 ELSE free
CallerCancelled(e) ==
  /\ \/ /\ stage[e] \in {"waiting", "granted"}
        /\ Goes(e, "over")
        /\ free' = Left(e)
        /\ UNCHANGED outcome
     \/ /\ stage[e] \in {"running", "cancelling"}
        /\ Goes(e, "cancelling")
        /\ UNCHANGED <<free, outcome>>
     \/ /\ stage[e] = "done"     \* too late for the inner task: its result is dropped
        /\ outcome' = [outcome EXCEPT ![e] = "cancelled"]
        /\ UNCHANGED <<stage, free>>
  /\ asked' = asked \cup {e}
  /\ UNCHANGED <<calls, ticket, active, result, shutdown, gathered>>

\* Those that wait for the semaphore are not in _active_tasks.
Shutdown ==
  /\ shutdown = "no"
  /\ Cancels(active)
  /\ gathered' = active
  /\ shutdown' = IF active = {} THEN "returned" ELSE "gathering"
  /\ UNCHANGED <<calls, ticket, free, active, outcome, result>>

\* gather's callback on each inner task runs after that of its execute().
ShutdownReturns ==
  /\ shutdown = "gathering"
  /\ \A e \in gathered : stage[e] = "over"
  /\ shutdown' = "returned"
  /\ UNCHANGED <<stage, calls, ticket, free, active, outcome, result, gathered, asked>>

Next ==
  \/ \E e \in Executions :
       \/ Execute(e) \/ Grant(e) \/ Start(e) \/ HandlerEnds(e) \/ TimesOut(e)
       \/ CancelEnds(e) \/ Swallows(e) \/ Resume(e) \/ Cancel(e) \/ CallerCancelled(e)
  \/ Shutdown
  \/ ShutdownReturns

Spec == Init /\ [][Next]_vars

\* The event loop runs what is ready; a handler that does not hang ends, and
\* a timer of wait_for expires.  Nobody need call anything.
Fairness ==
  /\ \A e \in Executions :
       /\ WF_vars(Grant(e)) /\ WF_vars(Start(e)) /\ WF_vars(Resume(e))
       /\ WF_vars(HandlerEnds(e) \/ TimesOut(e) \/ CancelEnds(e))
  /\ WF_vars(ShutdownReturns)
FairSpec == Spec /\ Fairness

(***************************************************************************)
(* Safety                                                                  *)
(***************************************************************************)

\* However an execution ends, in whatever stage its caller or somebody else
\* cancels it: its slot comes back exactly once (executor.py:20-32).
SlotsAccounted ==
  free + Cardinality({e \in Executions : HoldsSlot(e)}) = MaxConcurrent

\* _active_tasks holds exactly the executions whose inner task was created
\* and that have not resumed: no entry leaks, no live task escapes shutdown().
ActiveTasksKnown ==
  active = {e \in Executions : stage[e] \in {"running", "cancelling", "done"}}

\* get_result has an answer, the handler's or its error, for everything that
\* is over unless somebody cancelled it in time to be heard.
AnsweredUnlessCancelled ==
  \A e \in Executions : stage[e] = "over" /\ e \notin asked => result[e] # "none"

(***************************************************************************)
(* Liveness                                                                *)
(***************************************************************************)

\* While fewer handlers may hang than there are slots, nobody waits for ever.
WaitersGetSlots ==
  Cardinality(Hanging \ (Timed \ Deaf)) < MaxConcurrent =>
    \A e \in Executions : stage[e] = "waiting" ~> stage[e] # "waiting"

\* shutdown() returns, if no handler both hangs and swallows its cancellation:
\* it cancels those that hang, and waits for the others.
ShutdownEnds ==
  Hanging \cap Deaf = {} => (shutdown = "gathering" ~> shutdown = "returned")
=============================================================================
