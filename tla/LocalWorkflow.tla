---------------------------- MODULE LocalWorkflow ----------------------------
(***************************************************************************)
(* WorkflowManager.execute_workflow of src/orchestrator/workflow.py: the   *)
(* steps of a workflow in order, each tried retries + 1 times.             *)
(*                                                                         *)
(* A workflow wf has n steps; step[s] is the status of s before the call;  *)
(* callable[s] says whether it has a handler (or a target_agent); its      *)
(* handler raises on the first raises[s] calls.                            *)
(***************************************************************************)
EXTENDS Integers

LastAttemptEarly(wf, s, attempt) == attempt >= wf.retries[s]
LastAttempt(wf, s, attempt) == attempt >= wf.retries[s] + 1

\* The loop over the attempts of a step, from its first.
Attempts(wf, s) ==
  LET From[attempt \in 1 .. wf.retries[s] + 1] ==
        IF attempt > wf.raises[s] THEN [calls |-> attempt, ok |-> TRUE]
        ELSE IF LastAttempt(wf, s, attempt) THEN [calls |-> attempt, ok |-> FALSE]
        ELSE From[attempt + 1]
  IN  From[1]

\* One step of the loop over the steps.  The statuses so far, the calls so
\* far, and whether the loop still goes on.
ExecuteStep(wf, s, so) ==
  LET try == Attempts(wf, s) IN
  IF ~so.goes THEN so
  ELSE IF ~wf.callable[s]
  THEN [step |-> [so.step EXCEPT ![s] = "failed"], calls |-> so.calls, goes |-> FALSE]
  ELSE [step |-> [so.step EXCEPT ![s] = IF try.ok THEN "completed" ELSE "failed"],
        calls |-> [so.calls EXCEPT ![s] = try.calls], goes |-> try.ok]

execute_workflow(wf) ==
  LET After[s \in 0 .. wf.n] ==
        IF s = 0 THEN [step |-> wf.step, calls |-> [p \in 1 .. wf.n |-> 0], goes |-> TRUE]
                 ELSE ExecuteStep(wf, s, After[s - 1])
      end == After[wf.n]
  IN  [step |-> end.step, calls |-> end.calls,
       status |-> IF end.goes THEN "completed" ELSE "failed"]

\* What it promises: up to the first step that cannot be completed within
\* its retries everything is completed, that step is failed, nothing after
\* it is called or touched, and no handler is called more often than needed.
Succeeds(wf, s) == wf.callable[s] /\ wf.raises[s] <= wf.retries[s]
Reached(wf, s) == \A p \in 1 .. s - 1 : Succeeds(wf, p)
StopsAtFirstFailure(wf) ==
  LET end == execute_workflow(wf) IN
  /\ end.status = "completed" <=> \A s \in 1 .. wf.n : Succeeds(wf, s)
  /\ \A s \in 1 .. wf.n :
       /\ end.step[s] = IF ~Reached(wf, s) THEN wf.step[s]
                        ELSE IF Succeeds(wf, s) THEN "completed" ELSE "failed"
       /\ end.calls[s] = IF ~Reached(wf, s) \/ ~wf.callable[s] THEN 0
                         ELSE IF Succeeds(wf, s) THEN wf.raises[s] + 1 ELSE wf.retries[s] + 1
=============================================================================
