--------------------------- MODULE AgentLifecycle ---------------------------
(***************************************************************************)
(* An agent's status and its OS process: src/agent/registry.py, runtime.py *)
(* and the agent side of src/orchestrator/engine.py.  Three parties write  *)
(* the status: the operator's start and stop, reconcile_runtimes, and each *)
(* execution of a task, which saves it, sets "running" and puts the saved  *)
(* value back.  Every write goes through to the store, so a status outlives *)
(* the server; the runtime's tables do not.                                *)
(***************************************************************************)
EXTENDS Naturals

CONSTANTS
  Agents,
  Commanded,    \* the agents whose config has a command
  Unparsable,   \* those with one that _agent_command cannot parse: it raises
  Executions,   \* slots for _execute_task coroutines inside their wait_for
  MaxStops,     \* bounds of the model: graceful shutdowns,
  MaxKills      \* and sudden deaths of the server

ASSUME LifecycleAssumption ==
  /\ Commanded \subseteq Agents
  /\ Unparsable \subseteq Agents \ Commanded
  /\ MaxStops \in Nat /\ MaxKills \in Nat

VARIABLES
  status,       \* agent -> status in the registry and in its row
  proc,         \* agent -> runtime._processes: "none", or its Popen's poll
  rstate,       \* agent -> runtime._states, "stopped" when it has no entry
  orphan,       \* the agents with a live process that no server knows of
  exec,         \* execution -> its agent_id and previous_status, or Free
  phase,        \* "up"; "closing", in lifespan's shutdown; or "cancelled",
                \*   the event loop only runs the executions' finally clauses
  looping,      \* the loop of start() has not died of an exception
  stops, kills,
  \* History, read by the properties only:
  asked,        \* agent -> the status that register, start, stop or
                \*   reconcile_runtimes gave it last
  disturbed     \* the agents for which executions overlapped each other, or
                \*   one of those, since asked was last set on an idle agent

runtimeVars == <<proc, rstate, orphan>>
serverVars == <<phase, looping, stops, kills>>
vars == <<status, runtimeVars, exec, serverVars, asked, disturbed>>

Statuses == {"pending", "running", "paused", "failed"}
Gone == {"absent", "deleted"}
Known(a) == status[a] \notin Gone
Free == [agent |-> "none", saved |-> "none"]
Busy(a) == \E e \in Executions : exec[e] # Free /\ exec[e].agent = a

TypeOK ==
  /\ status \in [Agents -> Statuses \cup Gone]
  /\ proc \in [Agents -> {"none", "alive", "exited"}]
  /\ rstate \in [Agents -> {"running", "stopped", "crashed"}]
  /\ orphan \in SUBSET Agents
  /\ exec \in [Executions -> [agent : Agents, saved : Statuses] \cup {Free}]
  /\ phase \in {"up", "closing", "cancelled"}
  /\ looping \in BOOLEAN
  /\ stops \in Nat /\ kills \in Nat
  /\ asked \in [Agents -> Statuses]
  /\ disturbed \in SUBSET Agents

Init ==
  /\ status = [a \in Agents |-> "absent"]
  /\ proc = [a \in Agents |-> "none"]
  /\ rstate = [a \in Agents |-> "stopped"]
  /\ orphan = {}
  /\ exec = [e \in Executions |-> Free]
  /\ phase = "up"
  /\ looping = TRUE
  /\ stops = 0 /\ kills = 0
  /\ asked = [a \in Agents |-> "pending"]
  /\ disturbed = {}

UpdateStatus(a, s) == status' = [status EXCEPT ![a] = s]

\* An operator or reconcile_runtimes sets the status of the agents in A.
Asks(A, s) ==
  /\ status' = [a \in Agents |-> IF a \in A THEN s ELSE status[a]]
  /\ asked' = [a \in Agents |-> IF a \in A THEN s ELSE asked[a]]
  /\ disturbed' = (disturbed \ A) \cup {a \in A : Busy(a)}

(***************************************************************************)
(* Registry and operator                                                   *)
(***************************************************************************)
Register(a) ==
  /\ phase = "up"
  /\ status[a] = "absent"
  /\ Asks({a}, "pending")
  /\ UNCHANGED <<runtimeVars, exec, serverVars>>

\* The process, if any, is left alone: only its runtime entry still knows it.
Delete(a) ==
  /\ phase = "up"
  /\ Known(a)
  /\ UpdateStatus(a, "deleted")
  /\ UNCHANGED <<runtimeVars, exec, serverVars, asked, disturbed>>

NeedsLaunch(a) == a \in Commanded /\ proc[a] # "alive"

\* A command that cannot be parsed raises before anything is changed.
StartAgent(a) ==
  /\ phase = "up"
  /\ Known(a) /\ a \notin Unparsable
  /\ IF NeedsLaunch(a)
     THEN /\ proc' = [proc EXCEPT ![a] = "alive"]
          /\ rstate' = [rstate EXCEPT ![a] = "running"]
     ELSE UNCHANGED <<proc, rstate>>
  /\ Asks({a}, "running")
  /\ UNCHANGED <<orphan, exec, serverVars>>

LaunchFails(a) ==
  /\ phase = "up"
  /\ Known(a)
  /\ NeedsLaunch(a)
  /\ rstate' = [rstate EXCEPT ![a] = "crashed"]
  /\ Asks({a}, "failed")
  /\ UNCHANGED <<proc, orphan, exec, serverVars>>

\* runtime.stop for the agents in A: SIGTERM, then a wait that blocks the
\* event loop until the process is gone.
Stopped(A) ==
  /\ proc' = [a \in Agents |-> IF a \in A /\ proc[a] = "alive" THEN "exited" ELSE proc[a]]
  /\ rstate' = [a \in Agents |-> IF a \in A /\ proc[a] = "alive" THEN "stopped" ELSE rstate[a]]

StopAgent(a) ==
  /\ phase = "up"
  /\ Known(a)
  /\ Stopped({a})
  /\ Asks({a}, "paused")
  /\ UNCHANGED <<orphan, exec, serverVars>>

(***************************************************************************)
(* reconcile_runtimes.  get_state overwrites any state by "crashed" once   *)
(* the process has exited, "stopped" included.                             *)
(***************************************************************************)
GetStateCached(a) == rstate[a]
GetState(a) == IF proc[a] = "exited" THEN "crashed" ELSE rstate[a]

\* GET /agents/{id} asks get_state too, and stores what it says.
RuntimeInfo(a) ==
  /\ phase = "up"
  /\ Known(a) /\ a \in Commanded
  /\ rstate' = [rstate EXCEPT ![a] = GetState(a)]
  /\ UNCHANGED <<status, proc, orphan, exec, serverVars, asked, disturbed>>

NotPending(A) == {a \in A : status[a] \in {"running", "paused"}}
Running(A) == {a \in A : status[a] = "running"}
Crashed(A) == {a \in A : GetState(a) = "crashed"}

\* The agents in W have been looked at, in the order of the registry.
Looks(W) ==
  /\ phase = "up" /\ looping
  /\ rstate' = [a \in Agents |-> IF a \in W THEN GetState(a) ELSE rstate[a]]
  /\ Asks(Crashed(W), "failed")
  /\ UNCHANGED <<proc, orphan, exec, phase, stops, kills>>

Reconcile ==
  /\ Running(Unparsable) = {}
  /\ Looks(Running(Commanded))
  /\ UNCHANGED looping

\* An agent that never could be started is "running" while it executes a
\* task, or because a server was killed meanwhile.  Its command raises, after
\* some of the agents were looked at, out of start(); is_running stays TRUE.
ReconcileRaises ==
  /\ Running(Unparsable) # {}
  /\ \E W \in SUBSET Running(Commanded) : Looks(W)
  /\ looping' = FALSE

(***************************************************************************)
(* _execute_task around its wait_for, and the finally clause.              *)
(***************************************************************************)
NotRemoved(a) == status[a] # "deleted"
Found(a) == Known(a)

\* Also while the server closes or the loop is dead, if the coroutine was
\* created before that.
BeginExecution(e, a) ==
  /\ phase # "cancelled"
  /\ exec[e] = Free
  /\ Found(a)
  /\ exec' = [exec EXCEPT ![e] = [agent |-> a, saved |-> status[a]]]
  /\ UpdateStatus(a, "running")
  /\ disturbed' = IF Busy(a) THEN disturbed \cup {a} ELSE disturbed
  /\ UNCHANGED <<runtimeVars, serverVars, asked>>

RestoredPending(e) == "pending"
Restored(e) == exec[e].saved

\* update_status ignores an agent deleted meanwhile.
EndExecution(e) ==
  /\ exec[e] # Free
  /\ exec' = [exec EXCEPT ![e] = Free]
  /\ IF Known(exec[e].agent) THEN UpdateStatus(exec[e].agent, Restored(e)) ELSE UNCHANGED status
  /\ UNCHANGED <<runtimeVars, serverVars, asked, disturbed>>

(***************************************************************************)
(* Processes, and the server's end and beginning                           *)
(***************************************************************************)
ProcessExits(a) ==
  /\ proc[a] = "alive"
  /\ proc' = [proc EXCEPT ![a] = "exited"]
  /\ UNCHANGED <<status, rstate, orphan, exec, serverVars, asked, disturbed>>

OrphanExits(a) ==
  /\ a \in orphan
  /\ orphan' = orphan \ {a}
  /\ UNCHANGED <<status, proc, rstate, exec, serverVars, asked, disturbed>>

\* lifespan: stop_all goes over every process the runtime holds, those of
\* deleted agents included.  No status is changed.
RegisteredAgents == {a \in Agents : Known(a)}
AllProcesses == Agents

Shutdown ==
  /\ phase = "up"
  /\ stops < MaxStops
  /\ stops' = stops + 1
  /\ phase' = "closing"
  /\ Stopped(AllProcesses)
  /\ UNCHANGED <<status, orphan, exec, looping, kills, asked, disturbed>>

NewRuntime ==
  /\ proc' = [a \in Agents |-> "none"]
  /\ rstate' = [a \in Agents |-> "stopped"]
  /\ orphan' = orphan \cup {a \in Agents : proc[a] = "alive"}

\* After 2 seconds at most the event loop ends: it cancels its executions,
\* each runs its finally (EndExecution), and the next server starts.
Cancel ==
  /\ phase = "closing"
  /\ phase' = "cancelled"
  /\ UNCHANGED <<status, runtimeVars, exec, looping, stops, kills, asked, disturbed>>

Boot ==
  /\ phase = "cancelled"
  /\ \A e \in Executions : exec[e] = Free
  /\ phase' = "up"
  /\ looping' = TRUE
  /\ NewRuntime
  /\ UNCHANGED <<status, exec, stops, kills, asked, disturbed>>

\* The server dies without a shutdown, and the next one starts.
Kill ==
  /\ kills < MaxKills
  /\ kills' = kills + 1
  /\ NewRuntime
  /\ phase' = "up"
  /\ looping' = TRUE
  /\ exec' = [e \in Executions |-> Free]
  /\ disturbed' = disturbed \cup {a \in Agents : Busy(a)}
  /\ UNCHANGED <<status, stops, asked>>

Next ==
  \/ Reconcile
  \/ ReconcileRaises
  \/ \E a \in Agents :
       \/ Register(a) \/ Delete(a) \/ StartAgent(a) \/ LaunchFails(a) \/ StopAgent(a)
       \/ RuntimeInfo(a) \/ ProcessExits(a) \/ OrphanExits(a) \/ \E e \in Executions : BeginExecution(e, a)
  \/ \E e \in Executions : EndExecution(e)
  \/ Shutdown
  \/ Cancel
  \/ Boot
  \/ Kill

Spec == Init /\ [][Next]_vars

(***************************************************************************)
(* Safety                                                                  *)
(***************************************************************************)

\* The dance of save, "running" and restore is sound as long as executions
\* of one agent do not overlap and nobody else writes its status meanwhile:
\* between them the status is what was asked last, across restarts too.
UndisturbedStatusRight ==
  \A a \in Agents : Known(a) /\ a \notin disturbed /\ ~Busy(a) => status[a] = asked[a]

\* The runtime calls "running" exactly the processes that live, and "failed"
\* is only asked of an agent that has a command.
RuntimeHonest ==
  \A a \in Agents :
    /\ GetState(a) = "running" <=> proc[a] = "alive"
    /\ asked[a] = "failed" => a \in Commanded
    /\ proc[a] # "none" => a \in Commanded

\* Only a server killed without its shutdown leaves processes behind.
GracefulStopLeavesNoOrphan == kills = 0 => orphan = {}

\* README.md:105-107 tell a stopped agent from a crashed one.  get_state does
\* not: an agent that its operator stopped is flagged "failed" all the same,
\* but only while a task runs on it, or after tasks had met other writers.
StoppedIsFlaggedOnlyIfBusy ==
  [][Reconcile \/ ReconcileRaises =>
       \A a \in Agents : asked[a] = "paused" /\ asked'[a] = "failed" =>
         NeedsLaunch(a) /\ (Busy(a) \/ a \in disturbed)]_vars

\* server.py:77, test_api.py:28: while the server says "engine_running", the
\* loop that dispatches tasks and reconciles agents is alive.
EngineRunningIsTrue == phase = "up" => looping

(***************************************************************************)
(* Liveness.  The engine's loop calls reconcile_runtimes every 2 seconds;  *)
(* every wait_for ends, by its timer if by nothing else; and lifespan gives *)
(* the loop 2 seconds, whatever still begins and ends in them.             *)
(***************************************************************************)
Fairness ==
  /\ WF_vars(Reconcile \/ ReconcileRaises) /\ WF_vars(Cancel) /\ WF_vars(Boot)
  /\ \A e \in Executions : WF_vars(EndExecution(e))
FairSpec == Spec /\ Fairness

\* No agent is shown "running" for good when its process has exited, as long
\* as the loop does not die of an agent that cannot be started at all.
DeadIsNotRunning ==
  \A a \in Commanded : []<>(~looping \/ ~(status[a] = "running" /\ proc[a] = "exited"))

\* README.md:107: the process of a started agent dies, and unless the agent
\* is started or stopped again or deleted, or the server goes down, its
\* status becomes "failed".
CrashIsFlagged ==
  \A a \in Commanded :
    asked[a] = "running" /\ proc[a] = "exited" ~>
      status[a] = "failed" \/ asked[a] # "running" \/ proc[a] # "exited" \/ ~Known(a) \/ phase # "up"
=============================================================================
