# A TLA+ model of AgentOrchestration

This directory holds TLA+ modules that model the orchestrator in `src/`, the
TLC configurations that check them on small instances, and TLAPS proofs. Paths
below are relative to the repository.

## The system

A FastAPI server owns one `OrchestrationEngine`. Everything but the handlers of
tasks runs in one asyncio event loop, so code between two awaits is atomic with
respect to other requests; handlers run in a `ThreadPoolExecutor`, agents'
commands as OS processes, and state is written through to a SQLite file.

| Component | State | Operations | Interacts by |
| --- | --- | --- | --- |
| Task scheduler `src/orchestrator/scheduler.py` | one heap per queue, delayed tasks, in-flight table, retry counters | enqueue, schedule, dequeue (promotes first), complete, fail | calls from the engine |
| Engine, tasks `src/orchestrator/engine.py` | task records, hooks, outcome history, thread pool | submit_task, the loop of start, one `_execute_task` coroutine per dispatch, restore | awaits (hooks, `wait_for`), pool, store |
| Agent registry and runtime `src/agent/` | status per agent, `Popen` and state per agent | register, delete, update_status; start, stop, get_state, stop_all | status is written by operator, reconciler and running tasks |
| Engine, workflows; workflow manager `src/orchestrator/workflow.py` | workflows, steps | run_workflow, execute_workflow, create, delete, restore | submits tasks and polls their records |
| Store `src/common/store.py` | three tables of JSON rows | upsert, delete, load, each its own commit | write-through of engine and registry, read at start |
| Agent executor `src/agent/executor.py` | semaphore, active asyncio tasks, results | execute, cancel, shutdown | a class of its own: nothing in the server uses it |
| Middleware `src/api/middleware.py` | request times per client | rate limit, key check, logging | wraps requests |
| Metrics `src/common/metrics.py`, config | counters, timers, histograms under a lock; a dict | observe, start and stop a timer; set, get, overrides | called from any thread; read at start |
| SDK `src/sdk/`, CLI `src/cli/main.py` | a running flag; none | BaseAgent.run and stop; `ao submit --wait` | HTTP, through the rate limit |
| Sandbox, dashboard, logging | directories; none | | |

What is hard in it, and what makes each part correct:

* **Scheduler**: heap order and ties, promotion inside dequeue, retries that
  re-enter a heap. Correct when a task is in one place, runs a bounded number
  of times, and leaves in order of priority, then arrival.
* **Task execution**: the event loop against worker threads, timeouts that
  leave the handler running, hooks that raise at three different points, crashes
  between any two steps. Correct when no task is lost or doubled, a record, its
  queue entry and its row agree, a finished task stays finished, and every
  task is decided.
* **Agent lifecycle**: a status with three writers, one of which saves and
  restores it around an await; processes that die, servers that die. Correct
  when the status is what was asked last, a crash is seen, and processes do
  not outlive their agent or server.
* **Workflows**: check-then-act across a scheduled coroutine, deletion during
  a run, step timeouts, restart in mid-run. Correct when steps keep their order,
  the status shown is true, a restart takes nothing back, and no run hangs.
* **Agent executor**: cancellation at every stage of an execution, by three
  parties, against a bounded semaphore. Correct when every slot comes back
  once, shutdown misses no active task, and no answer is lost.
* **Small algorithms**: sliding window, throughput buckets, step retries,
  configuration overrides, a client that polls against the rate limit, the flag
  of an SDK agent, timers of one name: boundaries and orders.

`PROJECT.json` lists every component with its status and every hazard at its
line.

## Modules

| Module | Models | Runs |
| --- | --- | --- |
| `TaskScheduler` | scheduler.py, every operation | `scheduler` |
| `TaskSchedulerProofs` | theorems about it | |
| `TaskLifecycle` | abstract: what the engine promises about a task | |
| `TaskExecution` | engine.py's task path, with `Sched == INSTANCE TaskScheduler` for its calls of the scheduler; implements `TaskLifecycle` and uses `TaskScheduler` as specified | `execution`, `execution_live` |
| `TaskExecutionProofs` | theorems about it, its scheduler and its abstraction | |
| `AgentLifecycle` | registry, runtime, reconciliation, the status writes of tasks, shutdown | `lifecycle`, `crash_not_flagged`, `engine_loop_dies` |
| `AgentLifecycleProofs` | theorems about it | |
| `AgentExecutor` | executor.py, every operation | `executor` |
| `AgentExecutorProofs` | theorems about it | |
| `WorkflowRun` | run_workflow, the handlers around it, rows and restarts of a workflow, over `Life == INSTANCE TaskLifecycle` for its tasks | `workflow`, `workflow_runs_twice`, `deleted_workflow_returns` |
| `WorkflowRunProofs`, `WorkflowStatusProofs` | theorems about it: order and types; restarts and the status shown | |
| `RateLimit`, `Throughput`, `LocalWorkflow`, `ConfigTree`, `SubmitWait`, `BaseAgent`, `Metrics` | pure algorithms, each with a definition of what it should compute; `SubmitWait` extends `RateLimit`, which its client runs into | `algorithms` |
| `MCSubmitWait` | a wait of `SubmitWait` round by round, with the code's own figures | `wait_cut_short` |
| `WindowProofs`, `AlgorithmProofs` | theorems about them: `RateLimit`, `SubmitWait` and `Throughput`; the others, and those of `MCAlgorithms` | |
| `MC*` | the constants of the runs, and the inputs of the algorithms | |

### TaskScheduler

`heap[q]` is the set of tuples of a `heapq` list; popping takes the least one,
which must be unique, or Python would compare two dicts. `counter`,
`scheduled` (with its position in the dict), `inFlight` and `retries` are the
attributes of the same meaning. Each method is one action, because none
awaits inside. `dequeue` promotes every due task of every queue, in the order
of the dict, before it pops; the ranks of the promoted tasks are
`Cardinality(Earlier(s))`. Task ids are fresh (`uuid4`): `Fresh`. A delayed task
goes behind whatever the dict still holds (`IsBehindAll`), also when earlier
entries have been promoted and later ones not; `Positions` names the place so
that it stays a small number. `ScheduleIsNeverRefused` proves that there always
is one: `schedule` has no guard beyond the fresh id, as in the code.

### TaskExecution

`record` and `row` are a task's status in memory and in SQLite. `coro[t]` says
where the coroutine of `t` stands; `ready` holds created coroutines in the
order asyncio starts them; `pool` is the FIFO of the thread pool with cancelled
items still in it, `threads` the calls that occupy a worker, `outcome` the
future of the awaited call. A work item carries the try it belongs to.
`Idle` is the condition under which other callbacks of the loop run: not while
`start` drains the queue (its `await dequeue()` never suspends), not before
`_restore_state` is through. Worker threads take and end calls at any time.
`Begin` up to `Timeout` are the segments of `_execute_task` between its
awaits, each with everything it does: scheduler, record, row, coroutine.
`Crash` may strike anywhere, also between two dequeues or two restored rows. A
graceful stop leaves the same rows (no handler of `_execute_task` runs after
the loop has ended that would write one), so it needs no action of its own.

A write of the store may raise (a full disk, a locked file), `MaxFaults` times in
a behaviour. `Upsert(t, status, n)` is one write of a task's row in a step in
which `n` writes have raised already, those of the agent's row among them. The
disjuncts of `CallAgent`, `Resume`, `CompletedThenFails` and `Timeout` are the
places where such an exception enters the `except` clause of `_execute_task`.
`history` is the deque of the throughput history, as long as `MaxOutcomes` (5000
in the code): a new outcome pushes the oldest one out. The code stores the time
and the status of an outcome; the task is there for the properties.

`loop` is where `start` is. It polls while it lives, and it may die at any poll:
`reconcile_runtimes`, which runs between two dequeues, can raise (run
`engine_loop_dies`), and then nobody dequeues until the next restart (`LoopDies`).
What raises is in `AgentLifecycle`; here it is a free choice while an agent exists.

What follows from this for a user: only the default queue is polled
(engine.py:299), so a task of any other queue stays queued for good. A submission answered with 500 has enqueued
its task all the same. A task that succeeded runs again when its agent's old
status cannot be written back, because that write is in the `finally` of the
`wait_for`. A task whose result is not JSON, or whose completed row cannot be
written, is counted twice, as completed and as failed; in the first of these
cases its row stays an unfinished one, so the next start runs it again.

### AgentLifecycle

`status` is the registry's and the row's at once, because `update_status` writes
both. `proc` and `rstate` are the runtime's two tables, `exec` the running
tasks with the status each has saved. `asked` and `disturbed` are history
variables that only properties read: the status given last by somebody other
than a task, and whether a task overlapped that or another task.

`Reconcile` is one pass of `reconcile_runtimes`; `ReconcileRaises` is the pass
that meets a command with an unbalanced quote (`Unparsable`), on which
`shlex.split` raises. That exception leaves `start`, so `looping` is false from
then on, while `is_running` and everything served over HTTP stay as they were.
`RuntimeInfo` is there because a GET of an agent stores what `get_state` finds.

What the model makes plain: `get_state` calls any process that has exited
crashed, one that `stop` ended too. Such an agent is flagged "failed" as soon as
a reconciliation falls into a task's execution; `StoppedIsFlaggedOnlyIfBusy` says
that nothing else flags it.

### AgentExecutor

`stage[e]` is how far one call of `execute` has come; `free` is the
semaphore's value, `active` and `result` are the two dictionaries. The semaphore
is modelled as the FIFO that asyncio documents: a waiter is granted a slot in the
order of its `ticket`, and a newcomer does not overtake. Handlers may hang
(`Hanging`), carry the `@task` timeout (`Timed`), and catch a `CancelledError` and
go on (`Deaf`). `Cancel`, `CallerCancelled` and `Shutdown` are the three ways to be
cancelled; a caller's cancellation reaches the inner task, since
`execute` awaits it. Executions that wait for the semaphore are not in
`_active_tasks`, so those that `shutdown` finds waiting start afterwards: no
property forbids it, since no line of the repository says otherwise.

### WorkflowRun

One workflow (two share nothing but agents): `status`, `step` and `steps` are
the attributes of its object, `row` what SQLite has, `life` whether the manager
lists it. `run[r]` is one request of `POST .../run` and the coroutine behind
it. A coroutine commits several rows between two awaits and the process may die
between any two, so `Begin`, `EnterStep`, `Launch`, `Poll`, `HandlerEnds` and
`Finish` are each what happens up to the next commit or await, and `current` is
the coroutine that holds the event loop meanwhile; nothing else but a crash
moves then. The steps' tasks move as `TaskLifecycle` promises, which
`TaskExecution` is shown to keep (run `execution_live`, without hooks: a
`post_execute` hook that raises can turn a completed task into a failed one,
after a workflow has seen it completed). Steps with a callable cannot be made
over HTTP but by a program that embeds the engine; `HandlerOutcomes` says how
they end, `poisoned` which results `json.dumps` rejects. `retries` and `timeout`
of a step are ignored by `run_workflow`, as in the code.

What the model makes plain, beside the properties: a step that was "running" at
a restart is shown so until the workflow runs again; a callable step is gone
after a restart; a result that cannot be stored makes every later run raise
before its first step, with the status left at "running", so that every request
after it is told "Workflow is already running" with no run under way (`poisoned`:
`RunningEnds` is conditioned on its absence); the task of a step that timed out
goes on.

### The algorithms

`RateLimit`, `Throughput`, `LocalWorkflow` and `ConfigTree` translate loops as
recursive functions, and state beside them what they compute without a loop.
Time is in whole ticks; timestamps come in order. `ConfigTree` maps paths to
values instead of nesting dicts, so a value on the way is a `Blocked` path.
`RateLimit` tells a timestamp by the request it is of, since two requests may
come in one tick: a client's list is a set of requests, `at` gives their times.

`SubmitWait` polls through `RateLimit`'s table, so that its property relates the
two: a wait is refused exactly when it polls faster than the window allows. With
the code's constants (a poll every 0.2 s against 100 requests in 60 s, the
submission being one) that is after some 20 seconds: `ao submit --wait 30`, "Wait
up to SECONDS for the result" (main.py), of a task that takes longer, ends with
the rate limiter's error. `WaitTellsWhatItSaw` says which poll is refused and what
the client then tells; that the refusal ends the wait is against the promise, and
run `wait_cut_short` shows it (`MCSubmitWait`). The dashboard has the same arithmetic: five requests
every two seconds.

`BaseAgent` is a fold over the events of one agent. A stop before `run` is
lost, since `run` sets the flag; a cancellation in `setup` skips `cleanup`.
`Metrics` is a fold over the calls, which the lock puts in a sequence.

## What the runs show

Bounds are chosen so that each hazard's scenario fits with room to spare.

* `scheduler`: four tasks (two equal, one urgent, one in another queue), one
  retry, delays 1 and 2, clock up to 2, restarts at any time. Three tasks meet
  in one heap by submission, promotion and retry in one behaviour; tasks are
  promoted in two batches, and delayed anew when an earlier one has been promoted
  and a later one has not. Fairness, for the one liveness property: the caller
  polls the default queue again and again, as the engine does while `start`
  lives, and time passes.
* `execution`: two tasks of different priority with their own agents, two
  retries each, two threads, hooks that suspend and may raise, results that
  cannot be stored, one write that fails anywhere, two crashes, agents deleted
  at any time. Three tries on two threads let calls that timed out fill the pool
  while a later try waits, and `start` may die at any poll. `UsesScheduler` is a refinement: the engine drives the scheduler only
  as `TaskScheduler` allows.
* `execution_live`: one thread, one retry, one crash, no hooks, results that can
  be stored, a store that works, and a history of one outcome, so that the second
  pushes the first out. Then `TaskExecution` implements `TaskLifecycle`:
  what is finished stays so, across restarts too, and retries are bounded. Fairness
  is that asyncio runs ready callbacks and fires timers (strong fairness for a
  coroutine, which competes with endless others for the loop), and that `start`
  polls while it lives. It may die at any poll: `EveryTaskFinishes` then excepts
  the tasks that wait in the heap (`Stranded`), and only those, since what was
  dispatched is decided all the same. Handlers and threads get no fairness: they
  may hang. Crashes are finitely many. Deadlock is not checked in the runs of
  `TaskExecution`: once `start` has died and no agent or task is left to act on,
  the server does nothing more.
* `lifecycle`: an agent with a process and one whose command cannot be parsed
  (which is also an agent without a process), two executions, a shutdown and a
  kill. Fairness: the loop reconciles, it ends after a shutdown, and every
  `wait_for` ends. Deadlock is not checked: with the loop dead, the agents
  deleted and the bounds reached nothing is left to do.
* `executor`: three executions over two slots, one that hangs, one that hangs but
  for its timeout, one that ends but may swallow a cancellation; so one waits
  while the two others are in any stage. Fairness: asyncio runs what is ready,
  timers expire, and handlers that do not hang end. Nobody need cancel.
  Deadlock is not checked: the calls are used up.
* `workflow`: a task, a callable and a task of another agent, two runs, two
  crashes, agents and the workflow deleted at any time. Two runs overlap at every
  pair of places, or follow each other, with a restart in or between
  them. Tasks get no retry: a retried task looks like a slow one. Fairness:
  asyncio resumes a coroutine that is ready, and the 60 seconds of a task
  step pass; callables may hang, tasks too. Deadlock is not checked, since the
  requests are used up.
* `algorithms`: every arrival sequence up to five requests, every list of outcomes
  one longer than the deque, every workflow of two steps with up to two retries,
  every order of three environment variables over paths of two parts, every wait
  of up to six ticks against a limit of three requests in three ticks (cut off
  by the limit, by the server's end, or not), every five events of an agent
  and every five calls on two metrics.

Five runs end in a violation; each refutes something the repository says:

| Run | Source | What happens |
| --- | --- | --- |
| `crash_not_flagged` | engine.py:332 | a stale status hides a crash from the reconciler |
| `engine_loop_dies` | engine.py:284 | a command that cannot be parsed ends the loop of `start`, and the server says that it runs |
| `workflow_runs_twice` | routes.py:182-184 | two requests pass the check before the first coroutine sets "running" |
| `deleted_workflow_returns` | engine.py:177, routes.py:191-194 | a run persists its workflow after the deletion |
| `wait_cut_short` | main.py:169 | a wait of 30 seconds or more is over at its hundredth poll, by the rate limit |

Each property of a passing run has a mutant in `PROJECT.json`: a slip of the
code (defined just before the definition it replaces) that the run finds.

## What is proved

`TaskSchedulerProofs`, for every set of tasks and queues, every priority, delay
and retry limit, from `SchedulerAssumption` alone: the conjunction `Inv` of the
type invariant, `OnePlace`, `StampsDistinct`, `RetryBudget` and two facts they
need to be inductive. `DictOrder` (the delayed tasks are finitely many, at
distinct positions) gives the promoted tuples distinct stamps: lemma
`RanksDistinct` counts the entries before each one, and a strictly smaller
finite set has a smaller cardinality. `DelayedIsNew` (a delayed task was never
enqueued) keeps the retry counter of a promoted task in its range. One lemma per
action shows that the invariant is kept; `PromotedHeap` and `PromoteKeeps`
carry the weight of `dequeue`. The two action properties follow from it.
`ScheduleIsNeverRefused` shows that none of this holds for lack of a place in the
dict: of finitely many entries the one with the fewest behind it is the last
(`PlaceAtTheEnd`, `LeastNatural`), and a new one goes after it.

`AgentLifecycleProofs`, for any agents, executions and bounds: `Inv` adds to the
properties that every status an execution has saved is the one asked for while
its agent is undisturbed (`SavedStatusRight`), which is what makes
`UndisturbedStatusRight` inductive, and that a server that closes has stopped
its processes (`StoppedWhileDown`), which `GracefulStopLeavesNoOrphan` needs.
One lemma per action, as above. `StoppedRight` is an action property from the same
invariant: an agent that is flagged is shown "running", so if it was stopped last
and no task runs on it, its writers have overlapped.

`AgentExecutorProofs`, from `ExecutorAssumption`, for any number of executions and
slots, and any handlers: type correctness, `SlotsAccounted`, `ActiveTasksKnown` and
`AnsweredUnlessCancelled`. The count of slots moves with two lemmas on the set of
those that hold one (`SlotTaken`, `SlotBack`), and the bound on `free` in the type
invariant follows from it. `AnsweredUnlessCancelled` is inductive only with
`CancelledWasAsked`: what is being cancelled, or ended so, somebody has cancelled.

`WorkflowRunProofs`, from `WorkflowAssumption`, for any number of steps, any
callables among them and any number of runs and crashes: `StepsInOrder` rests on
`PlaceOfRun`, which ties the place of a coroutine to the tasks of its run that
have completed, and on `TaskStepsKept`, that no restart drops a step that is a
task (otherwise the next remaining step could skip one). `MoveKeeps` carries all
moves of a coroutine, `LaunchInv` the only step where a task appears, and
`TasksMoveOn` the rest of the system.

`TaskExecutionProofs`, from `ExecutionAssumption`, for any tasks, agents, queues,
threads, retries, hooks, outcomes, faults and crashes: type correctness,
`TaskPlacement`, `AwaitedWork` and `CompletedIsDurable` are conjuncts of an
inductive `Inv`. What they need beside each other:

* `OneTuple`, `WaitsAlone` and `ReadyDistinct`: a task has one tuple, in the queue
  that is polled, nothing is delayed, and one coroutine that has yet to start. So
  a dispatch takes the tuple of a task with no coroutine, and a start the only one.
* `RestoringAlone`: while rows are restored the new process has no pool, no thread
  and no coroutine.
* `PostIsDone`: a `post_execute` hook runs for a completed task only. This is what
  makes a failure out of it a second one, not a retry.
* `RetriesKnown`: the retry counter of what may run is at most `MaxRetries`.
* `NoForgottenCall`: a call in the pool or on a thread is of an earlier try, or
  is the one awaited. `AwaitedWork` alone is not inductive: without this a
  retry could meet a live call with its own number.

`EngineUsesScheduler` proves the refinement `UsesScheduler` step by step
(`SchedulerStep`): every step of the engine is one call of the scheduler or
leaves it alone. So everything that `TaskSchedulerProofs` proves of the
scheduler holds of the engine's use of it, under the substitution of the instance.

Three theorems carry conditions, which are those of run `execution_live` and
which the code makes necessary (see TaskExecution above). If no write raises
(`MaxFaults = 0`) and every result can be stored (`"unserializable"` is no outcome),
`StoreFollowsRecords` proves `RowFollowsRecord`, with any hooks. If there is no
`post_execute` hook either, `OutcomesCountedOnce` proves `CountedOnce`, and
`EngineKeepsLifecycle` that `TaskExecution` implements `TaskLifecycle`. All three
go by way of `EngineMove`: under the first two conditions a step does to the record,
row, retries and outcomes of at most one task one of six things, or crashes.
`OutcomesCountedOnce` is about the bounded deque: a task is in it at most once and
as what its record says, for any number of outcomes, and a finished task is missing
only from a deque that is full (`RememberDoes` says what an append keeps and drops,
`HistoryFits` that the deque is never too long).

`WorkflowStatusProofs` proves the two properties of `WorkflowRun` about what a
client is shown. `RestartKeepsProgress` follows from `RowMatches`, that the row of
a workflow which is there is its object (unless a result cannot be stored).
`SoloStatusRight` is inductive as `SoloInv`: until two runs overlap,

* at most one run is unfinished (`Alone`), and none while the workflow is deleted;
* the object agrees with the place of that run, and with itself when there is
  none (`ObjectRight`, `EndRight`);
* the row would make such an object too (`RowRight`), for the next restart;
* once a result cannot be stored no run is under way: the write raised in it,
  and no later run begins. Nothing is said of the object then.

`WindowProofs` and `AlgorithmProofs` prove all seven properties of `MCAlgorithms`,
for inputs of any size and not only those that the run enumerates; the constants
are bound by `BoundsAssumption` and the modules' own. The loops are recursive
functions, so the proofs are by induction over how far a loop got. The provers
cannot take a predicate as a parameter, so a statement about every `i` is given
as the set of the `i` it holds of: `LeastNatural`, from the library's
well-foundedness of `<`, gives `UpToInduction`, and that gives `Iteration`: the
function that a recursive definition names exists. Then each loop has its
invariant:

* `RateLimit`: the list holds accepted requests only, and what it dropped had left
  the window by then (`LogRight`); since times are in order, no later request
  misses it. `SubmitWait` uses the same two lemmas, with its requests before the
  wait and its polls as one client's requests; `TooManyMeans` counts them.
* `Throughput` has no loop in the model. The number of buckets is the least `k`
  whose edge is not before now (`BucketsAre`); `IndexRight` is the division.
* `LocalWorkflow`: what the steps so far came to (`Progress`), and for the loop
  over attempts what it comes to from each attempt on (`Tried`).
* `ConfigTree`: a variable is read back exactly if no later one has its key or one
  above it (`ReadsBack`); what blocks a variable is the last earlier one
  above it (`BlockedByEarlier`), which takes the greatest of a set.
* `BaseAgent`: one of five phases, each told by the events (`Lived`).
* `Metrics`: a metric's timer is the time of the start that runs (`TimerRight`),
  and one call adds to a histogram what the property says (`HistogramsRight`).

Only model-checked: all liveness (out of the prover's reach), and the five runs that
end in a violation. Every safety property, action property and refinement of
the passing runs is proved, the three named above under their conditions.

## Not modelled, and the plan

Still to come, in this order:

1. `Engine`: `TaskExecution` and `AgentLifecycle` joined on the begin and the
   end of an execution. Today each has the other's part as a free choice: when
   an execution ends, and whether its agent is there.
2. Failing writes in `AgentLifecycle` and `WorkflowRun`, as in `TaskExecution`.

Left out for good: authentication (one comparison) and logging middleware, the
sandbox, the remaining output of the CLI, the SDK client's methods (one request
each), the dashboard, log files, counters and gauges (single locked writes):
input and output without a protocol; and the bodies of handlers.
