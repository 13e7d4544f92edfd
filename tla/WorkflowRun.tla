----------------------------- MODULE WorkflowRun -----------------------------
(***************************************************************************)
(* A workflow and its runs: run_workflow of src/orchestrator/engine.py,    *)
(* the HTTP handlers around it, the workflow's row, and restarts.  Two     *)
(* workflows share nothing but the agents, so one is enough.               *)
(*                                                                         *)
(* A step is a task for an agent, which moves as TaskLifecycle promises    *)
(* (TaskExecution is shown to keep that promise), or a callable that runs  *)
(* in the thread pool.  A coroutine holds the event loop from one await to *)
(* the next; it commits several rows meanwhile, and the process may die    *)
(* between any two, so each commit is a step here and "current" is the     *)
(* coroutine that holds the loop.                                          *)
(***************************************************************************)
EXTENDS Integers, FiniteSets

CONSTANTS
  N,               \* the number of steps
  HandlerSteps,    \* those with a handler instead of a target_agent
  Runs,            \* requests of POST .../run, each used once
  Agents,
  AgentOf,         \* step -> its target_agent
  HandlerOutcomes, \* how a handler may end: "ok", "raise", "unserializable"
  MaxRetries,      \* as in TaskLifecycle
  MaxCrashes       \* bound of the model: the process dies at most so often

Steps == 1 .. N
Tasks == Runs \X Steps   \* the id that submit_task returns to a run at a step

ASSUME WorkflowAssumption ==
  /\ N \in Nat
  /\ HandlerSteps \subseteq Steps
  /\ AgentOf \in [Steps -> Agents]
  /\ HandlerOutcomes \subseteq {"ok", "raise", "unserializable"}
  /\ MaxRetries \in Nat /\ MaxCrashes \in Nat

VARIABLES
  life,        \* "absent", "present" in the manager's table, or "deleted"
  status,      \* the Workflow object's status; a run may still hold a
  step,        \*   deleted object.  step -> its status,
  steps,       \*   the steps the object has, and those whose result
  poisoned,    \*   json.dumps rejects
  row,         \* the workflow's row in the store, or NoRow
  run,         \* run -> where its coroutine stands, and its step
  current,     \* the run that holds the event loop, or NoRun
  state, failures, \* of the tasks, see TaskLifecycle
  registered,  \* the agents the registry knows
  crashes,
  overlapped   \* History: a run was accepted while another was unfinished

objectVars == <<status, step, steps, poisoned>>
taskVars == <<state, failures>>
vars == <<life, objectVars, row, run, current, taskVars, registered, crashes, overlapped>>

Life == INSTANCE TaskLifecycle

NoRun == "none"
NoRow == [status |-> "none"]
Statuses == {"pending", "running", "completed", "failed"}

\* A run is "requested" while its coroutine is only scheduled.  At "next" and
\* "launch" it is current; at "polling" and "handler" it awaits.
Phases == {"idle", "requested", "next", "launch", "polling", "handler", "done"}
Begun(r) == run[r].pc \in {"next", "launch", "polling", "handler"}
Unfinished(r) == run[r].pc = "requested" \/ Begun(r)
Now(r, pc) == [pc |-> pc, at |-> run[r].at]

Rows == [status : Statuses, step : [Steps -> Statuses], steps : SUBSET Steps]

TypeOK ==
  /\ life \in {"absent", "present", "deleted"}
  /\ status \in Statuses
  /\ step \in [Steps -> Statuses]
  /\ steps \in SUBSET Steps
  /\ poisoned \in SUBSET HandlerSteps
  /\ row \in Rows \cup {NoRow}
  /\ run \in [Runs -> [pc : Phases, at : 0 .. N]]
  /\ current \in Runs \cup {NoRun}
  /\ state \in [Tasks -> Life!States]
  /\ failures \in [Tasks -> Nat]
  /\ registered \in SUBSET Agents
  /\ crashes \in Nat
  /\ overlapped \in BOOLEAN

\* There is no Workflow object, or a new one.
NoObject(st, sp, ss) ==
  /\ st = "pending"
  /\ sp = [s \in Steps |-> "pending"]
  /\ ss = Steps

Init ==
  /\ life = "absent"
  /\ NoObject(status, step, steps)
  /\ poisoned = {}
  /\ row = NoRow
  /\ run = [r \in Runs |-> [pc |-> "idle", at |-> 0]]
  /\ current = NoRun
  /\ Life!Init
  /\ registered = Agents
  /\ crashes = 0
  /\ overlapped = FALSE

Idle == current = NoRun

(***************************************************************************)
(* HTTP handlers.  persist_workflow upserts, whoever deleted the row.      *)
(***************************************************************************)
PersistNothing(st, sp) == UNCHANGED row
PersistWorkflow(st, sp) == row' = [status |-> st, step |-> sp, steps |-> steps]

CreateWorkflow ==
  /\ Idle
  /\ life = "absent"
  /\ \A s \in Steps \ HandlerSteps : AgentOf[s] \in registered
  /\ life' = "present"
  /\ PersistWorkflow(status, step)
  /\ UNCHANGED <<objectVars, run, current, taskVars, registered, crashes, overlapped>>

\* POST .../run: the check reads a status that only the scheduled coroutine
\* will set.
Accepted == status # "running"

RequestRun(r) ==
  /\ Idle
  /\ life = "present"
  /\ Accepted
  /\ run[r].pc = "idle"
  /\ run' = [run EXCEPT ![r] = Now(r, "requested")]
  /\ overlapped' = (overlapped \/ \E o \in Runs : Unfinished(o))
  /\ UNCHANGED <<life, objectVars, row, current, taskVars, registered, crashes>>

DeleteWorkflow ==
  /\ Idle
  /\ life = "present"
  /\ life' = "deleted"
  /\ row' = NoRow
  /\ UNCHANGED <<objectVars, run, current, taskVars, registered, crashes, overlapped>>

DeleteAgent(a) ==
  /\ Idle
  /\ a \in registered
  /\ registered' = registered \ {a}
  /\ UNCHANGED <<life, objectVars, row, run, current, taskVars, crashes, overlapped>>

(***************************************************************************)
(* run_workflow                                                            *)
(***************************************************************************)

\* Where a coroutine goes: on, holding the loop; into an await; or to its end.
Proceeds(r, pc, s) == run' = [run EXCEPT ![r] = [pc |-> pc, at |-> s]] /\ current' = r
Awaits(r, pc) == run' = [run EXCEPT ![r] = Now(r, pc)] /\ current' = NoRun
Ends(r) == Awaits(r, "done")

\* The except clause, poison being the results that cannot be stored by now.
FailStep(r, poison) ==
  /\ step' = [step EXCEPT ![run[r].at] = "failed"]
  /\ status' = "failed"
  /\ IF poison = {} THEN PersistWorkflow(status', step') ELSE UNCHANGED row
  /\ Ends(r)

\* "completed" is persisted inside the try: what cannot be stored fails.
StepDone(r, poison) ==
  IF poison = {}
  THEN /\ step' = [step EXCEPT ![run[r].at] = "completed"]
       /\ PersistWorkflow(status, step')
       /\ Proceeds(r, "next", run[r].at)
       /\ UNCHANGED status
  ELSE FailStep(r, poison)

\* Of coroutines scheduled together any may be first: they are alike.
Begin(r) ==
  /\ Idle
  /\ run[r].pc = "requested"
  /\ IF life # "present"
     THEN Ends(r) /\ UNCHANGED <<status, row>>
     ELSE /\ status' = "running"
          /\ IF poisoned = {} THEN PersistWorkflow(status', step) /\ Proceeds(r, "next", 0)
                              ELSE Ends(r) /\ UNCHANGED row
  /\ UNCHANGED <<life, step, steps, poisoned, taskVars, registered, crashes, overlapped>>

OneStepMore(r) == {s \in 1 .. N + 1 : s > run[r].at}
Remaining(r) == {s \in steps : s > run[r].at}

EnterStep(r) ==
  /\ current = r
  /\ run[r].pc = "next"
  /\ \E s \in Remaining(r) :
       /\ \A p \in Remaining(r) : s <= p
       /\ step' = [step EXCEPT ![s] = "running"]
       /\ IF poisoned = {} THEN PersistWorkflow(status, step') /\ Proceeds(r, "launch", s)
                           ELSE Ends(r) /\ UNCHANGED row
  /\ UNCHANGED <<life, status, steps, poisoned, taskVars, registered, crashes, overlapped>>

Launch(r) ==
  LET s == run[r].at IN
  /\ current = r
  /\ run[r].pc = "launch"
  /\ IF s \notin HandlerSteps /\ AgentOf[s] \notin registered
     THEN FailStep(r, poisoned) /\ UNCHANGED taskVars
     ELSE /\ UNCHANGED <<status, step, row>>
          /\ IF s \in HandlerSteps THEN Awaits(r, "handler") /\ UNCHANGED taskVars
                                   ELSE Awaits(r, "polling") /\ Life!Submit(<<r, s>>)
  /\ UNCHANGED <<life, steps, poisoned, registered, crashes, overlapped>>

\* One look at the task's record every 0.05 seconds, while there is time.
TaskOf(r) == state[<<r, run[r].at>>]
HasEnded(r) == TaskOf(r) \in {"completed", "failed"}
HasCompleted(r) == TaskOf(r) = "completed"

Poll(r) ==
  /\ Idle
  /\ run[r].pc = "polling"
  /\ \/ HasCompleted(r) /\ StepDone(r, poisoned)
     \/ TaskOf(r) = "failed" /\ FailStep(r, poisoned)
  /\ UNCHANGED <<life, steps, poisoned, taskVars, registered, crashes, overlapped>>

\* The deadline, counted from the submission, is looked at first; the task
\* is left to itself.
TimeSinceStart(r) == run[r].pc = "polling" /\ TaskOf(r) # "pending"
MayTimeOut(r) == run[r].pc = "polling"

TimesOut(r) ==
  /\ Idle
  /\ MayTimeOut(r)
  /\ FailStep(r, poisoned)
  /\ UNCHANGED <<life, steps, poisoned, taskVars, registered, crashes, overlapped>>

HandlerEnds(r) ==
  /\ Idle
  /\ run[r].pc = "handler"
  /\ \E o \in HandlerOutcomes :
       IF o = "raise"
       THEN FailStep(r, poisoned) /\ UNCHANGED poisoned
       ELSE /\ poisoned' = (poisoned \ {run[r].at})
                             \cup (IF o = "unserializable" THEN {run[r].at} ELSE {})
            /\ StepDone(r, poisoned')
  /\ UNCHANGED <<life, steps, taskVars, registered, crashes, overlapped>>

Finish(r) ==
  /\ current = r
  /\ run[r].pc = "next"
  /\ Remaining(r) = {}
  /\ status' = "completed"
  /\ IF poisoned = {} THEN PersistWorkflow(status', step) ELSE UNCHANGED row
  /\ Ends(r)
  /\ UNCHANGED <<life, step, steps, poisoned, taskVars, registered, crashes, overlapped>>

(***************************************************************************)
(* The tasks, and restarts.  from_dict drops handler steps; a workflow     *)
(* found "running" is made "pending", its steps and its row are not.       *)
(***************************************************************************)
TaskMoves(t) ==
  /\ Idle
  /\ Life!Start(t) \/ Life!Finish(t) \/ Life!Failure(t)
  /\ UNCHANGED <<life, objectVars, row, run, current, registered, crashes, overlapped>>

RestoredAsIs == row.status
Restored == IF row.status = "running" THEN "pending" ELSE row.status

Crash ==
  /\ crashes < MaxCrashes
  /\ crashes' = crashes + 1
  /\ IF row = NoRow
     THEN /\ life' = (IF life = "absent" THEN "absent" ELSE "deleted")
          /\ NoObject(status', step', steps')
     ELSE /\ life' = "present"
          /\ status' = Restored
          /\ step' = row.step
          /\ steps' = row.steps \ HandlerSteps
  /\ poisoned' = {}
  /\ run' = [r \in Runs |-> IF Unfinished(r) THEN Now(r, "done") ELSE run[r]]
  /\ current' = NoRun
  /\ Life!Restart
  /\ UNCHANGED <<row, registered, overlapped>>

Next ==
  \/ CreateWorkflow
  \/ DeleteWorkflow
  \/ \E a \in Agents : DeleteAgent(a)
  \/ \E r \in Runs :
       \/ RequestRun(r) \/ Begin(r) \/ EnterStep(r) \/ Launch(r) \/ Poll(r)
       \/ TimesOut(r) \/ HandlerEnds(r) \/ Finish(r)
  \/ \E t \in Tasks : TaskMoves(t)
  \/ Crash

Spec == Init /\ [][Next]_vars

(***************************************************************************)
(* Safety                                                                  *)
(***************************************************************************)

\* README.md:149, "in order": a run submits the task of a step only after
\* the tasks of all its earlier steps have completed; tasks of a run that
\* failed, timed out or died may go on, but nothing of it follows them.
RunsStepsInOrder ==
  \A r \in Runs : \A s \in Steps :
    state[<<r, s>>] # "absent" =>
      /\ s <= run[r].at
      /\ \A p \in Steps \ HandlerSteps : p < s => state[<<r, p>>] = "completed"

\* What GET shows is right as long as no two runs overlapped and every
\* result can be stored: "running" has one run behind it and everything
\* before its step is completed; "completed" has every step completed;
\* "failed" has a failed step (that a restart may have dropped, see Crash);
\* and a step is shown "running" only meanwhile, unless a restart left it so.
SoloStatusRight ==
  ~overlapped /\ poisoned = {} =>
    /\ status = "running" <=> \E r \in Runs : Begun(r)
    /\ status = "completed" => \A s \in steps : step[s] = "completed"
    /\ status = "failed" /\ steps = Steps => \E s \in steps : step[s] = "failed"
    /\ \A r \in Runs : Begun(r) => \A s \in steps : s < run[r].at => step[s] = "completed"
    /\ \A s \in steps : step[s] = "running" => status = "running" \/ crashes > 0

\* A restart takes nothing back: a workflow that is there comes back with
\* every step (but a callable's) as it was, whenever the process dies.
RestartKeepsProgress ==
  [][crashes' # crashes /\ life = "present" /\ poisoned = {} =>
       /\ life' = "present"
       /\ \A s \in steps' : step'[s] = step[s]
       /\ status' = IF status = "running" THEN "pending" ELSE status]_vars

\* routes.py:183, "Workflow is already running": no two runs are under way.
OneRunAtATime == \A r, o \in Runs : Begun(r) /\ Begun(o) => r = o

\* README.md:150, "Remove a workflow": it does not come back.
DeletedStaysDeleted == [][life = "deleted" => life' = "deleted"]_vars

(***************************************************************************)
(* Liveness.  asyncio resumes every coroutine that is ready, and the       *)
(* deadline of a task step passes.  Handlers have no deadline and may      *)
(* hang; nothing is assumed of the tasks either.                           *)
(***************************************************************************)
Fairness ==
  \A r \in Runs :
    /\ WF_vars(Begin(r)) /\ WF_vars(EnterStep(r)) /\ WF_vars(Launch(r))
    /\ WF_vars(Poll(r) \/ TimesOut(r)) /\ WF_vars(Finish(r))

FairSpec == Spec /\ Fairness

\* No workflow stays "running" (and so refuses to run) for good, even when
\* runs overlap, unless a handler hangs or left a result that cannot be stored.
RunningEnds ==
  status = "running" ~>
    status # "running" \/ poisoned # {} \/ \E r \in Runs : run[r].pc = "handler"
=============================================================================
