---------------------------- MODULE TaskExecution ----------------------------
(***************************************************************************)
(* The task path of src/orchestrator/engine.py: submit_task, the dispatch  *)
(* loop of start, one _execute_task coroutine per dispatched task, the     *)
(* worker threads, the rows of the SQLite store, and restarts.             *)
(*                                                                         *)
(* All but the worker threads runs in one asyncio event loop: code between *)
(* two awaits is one step.  The dispatch loop is the exception: dequeue    *)
(* never suspends, so start empties the queue in one go; each dequeue is a *)
(* step here, and nothing else of the event loop runs until the queue is   *)
(* empty ("draining").  An exception in reconcile_runtimes ends start for  *)
(* good ("dead"), and the server goes on without it.                       *)
(***************************************************************************)
EXTENDS Integers, Sequences, FiniteSets

CONSTANTS
  Tasks, Queues, QueueOf, PriorityOf, DefaultQueue, MaxRetries, \* as in TaskScheduler
  Agents,
  AgentOf,      \* task -> its target_agent
  MaxWorkers,   \* ThreadPoolExecutor(max_workers)
  Hooks,        \* the events, of "pre_execute" and "post_execute", with a hook
  Outcomes,     \* how handlers may end: subset of {"ok", "raise", "unserializable"}
  MaxOutcomes,  \* deque(maxlen) of the throughput history
  MaxCrashes,   \* bounds of the model: the process dies at most so often,
  MaxFaults     \* and so many writes of the store raise

ASSUME ExecutionAssumption ==
  /\ QueueOf \in [Tasks -> Queues]
  /\ PriorityOf \in [Tasks -> Int]
  /\ DefaultQueue \in Queues
  /\ MaxRetries \in Nat
  /\ AgentOf \in [Tasks -> Agents]
  /\ MaxWorkers \in Nat \ {0}
  /\ Hooks \subseteq {"pre_execute", "post_execute"}
  /\ Outcomes \subseteq {"ok", "raise", "unserializable"}
  /\ MaxOutcomes \in Nat \ {0}
  /\ MaxCrashes \in Nat /\ MaxFaults \in Nat

VARIABLES
  heap, counter, inFlight, retries, \* the scheduler's, see TaskScheduler
  record,       \* task -> _tasks[task]["status"], "absent" before submission
  row,          \* task -> status in its row of the store's tasks table
  history,      \* the deque _outcomes: how tasks ended, and which (times apart)
  registered,   \* the agents the registry (and its table) knows
  toRestore,    \* unfinished rows that _restore_state has yet to enqueue
  loop,         \* start(): "asleep", "draining" between two dequeues, or "dead"
  ready,        \* created _execute_task coroutines, not begun, oldest first
  coro,         \* task -> where its coroutine stands
  pool,         \* the executor's FIFO of work items, cancelled ones included
  threads,      \* the work items on a worker thread
  outcome,      \* task -> how the future its coroutine awaits ended, or "none"
  crashes, faults \* restarts so far, and writes that raised

queueVars == <<heap, counter, inFlight, retries>>
loopVars == <<loop, ready, toRestore>>
poolVars == <<pool, threads, outcome>>
dataVars == <<record, row, faults, history, registered>>
vars == <<queueVars, loopVars, poolVars, dataVars, coro, crashes>>

\* The engine never calls schedule(): no task is delayed and time is moot.
Sched == INSTANCE TaskScheduler WITH scheduled <- {}, now <- 0, Delays <- {}, MaxTime <- 0

Statuses == {"absent", "queued", "running", "retrying", "completed", "failed"}
Unfinished == {"queued", "running", "retrying"}
Finished == {"completed", "failed"}

\* "pre" and "post" are awaits of a hook, "awaiting" is the wait_for, and
\* "dead" a coroutine whose pre_execute hook raised, outside its try.
Phases == {"none", "created", "pre", "awaiting", "post", "dead"}

\* An entry of history.
Endings == [task : Tasks, status : Finished]

\* One call of run_in_executor; "try" tells a task's calls apart.
WorkItems == [task : Tasks, try : Nat]

TypeOK ==
  /\ Sched!TypeOK
  /\ record \in [Tasks -> Statuses]
  /\ row \in [Tasks -> Statuses]
  /\ history \in Seq(Endings)
  /\ registered \in SUBSET Agents
  /\ toRestore \in SUBSET Tasks
  /\ loop \in {"asleep", "draining", "dead"}
  /\ ready \in Seq(Tasks)
  /\ coro \in [Tasks -> Phases]
  /\ pool \in Seq(WorkItems)
  /\ threads \in SUBSET WorkItems
  /\ outcome \in [Tasks -> Outcomes \cup {"none"}]
  /\ crashes \in Nat /\ faults \in Nat

Init ==
  /\ Sched!Init
  /\ record = [t \in Tasks |-> "absent"]
  /\ row = [t \in Tasks |-> "absent"]
  /\ history = <<>>
  /\ registered = Agents
  /\ toRestore = {}
  /\ loop = "asleep"
  /\ ready = <<>>
  /\ coro = [t \in Tasks |-> "none"]
  /\ pool = <<>>
  /\ threads = {}
  /\ outcome = [t \in Tasks |-> "none"]
  /\ crashes = 0 /\ faults = 0

\* Other callbacks run when start() is suspended and the engine is built.
Idle == loop # "draining" /\ toRestore = {}

Become(t, phase) == coro' = [coro EXCEPT ![t] = phase]
Record(t, status) == record' = [record EXCEPT ![t] = status]

\* A write of the store, in a step of which n writes have raised already (a
\* full disk, a locked file): the row is written, or this write raises too.
Upsert(t, status, n) ==
  \/ /\ row' = [row EXCEPT ![t] = status]
     /\ faults + n <= MaxFaults /\ faults' = faults + n
  \/ /\ UNCHANGED row
     /\ faults + n < MaxFaults /\ faults' = faults + n + 1

PersistLater(t, status, n) == UNCHANGED <<row, faults>>
Persist(t, status, n) == Upsert(t, status, n)

AllEnds(status) == <<IF status = "retrying" THEN "failed" ELSE status>>
FinalEnds(status) == IF status \in Finished THEN <<status>> ELSE <<>>

\* The deque drops its oldest entry for one too many.
Remember(past, ending) ==
  LET longer == Append(past, ending) IN
  IF Len(longer) > MaxOutcomes THEN Tail(longer) ELSE longer
Ending(t, status) == [task |-> t, status |-> status]
Count(t, statuses) ==
  history' = IF statuses = <<>> THEN history
               ELSE IF Len(statuses) = 1 THEN Remember(history, Ending(t, statuses[1]))
               ELSE Remember(Remember(history, Ending(t, statuses[1])), Ending(t, statuses[2]))

(***************************************************************************)
(* HTTP handlers that touch the task path                                  *)
(***************************************************************************)
NotUnfinished(t) == record[t] \notin Unfinished
New(t) == record[t] = "absent"

\* When the write raises the client is told 500, of a task that is enqueued.
SubmitTask(t) ==
  /\ Idle
  /\ New(t)
  /\ AgentOf[t] \in registered
  /\ Sched!Enqueue(t)
  /\ Record(t, "queued")
  /\ Persist(t, "queued", 0)
  /\ UNCHANGED <<history, registered, loopVars, poolVars, coro, crashes>>

DeleteAgent(a) ==
  /\ Idle
  /\ a \in registered
  /\ registered' = registered \ {a}
  /\ UNCHANGED <<queueVars, loopVars, poolVars, record, row, faults, history, coro, crashes>>

(***************************************************************************)
(* start(): when its sleep is over it dequeues until there is nothing.     *)
(* The callbacks it created are older than its timer, so they go first.    *)
(***************************************************************************)
Polling ==
  /\ toRestore = {}
  /\ loop = "draining" \/ (loop = "asleep" /\ ready = <<>>)

Dispatch(t) ==
  /\ Polling
  /\ Sched!DequeueTask(DefaultQueue, t)
  /\ loop' = "draining"
  /\ ready' = Append(ready, t)
  /\ Become(t, "created")
  /\ UNCHANGED <<toRestore, poolVars, dataVars, crashes>>

\* Nothing (more) to dequeue.  A poll that found nothing at all changes nothing.
Sleep ==
  /\ Polling
  /\ Sched!DequeueNone(DefaultQueue)
  /\ loop' = "asleep"
  /\ UNCHANGED <<ready, toRestore, poolVars, dataVars, coro, crashes>>

\* Before a dequeue, reconcile_runtimes raises over an agent (see module
\* AgentLifecycle for when): start() ends, and nobody dequeues any more.
LoopDies ==
  /\ Polling
  /\ registered # {}
  /\ loop' = "dead"
  /\ UNCHANGED <<queueVars, ready, toRestore, poolVars, dataVars, coro, crashes>>

(***************************************************************************)
(* _execute_task                                                           *)
(***************************************************************************)

\* The except clause: fail, then the record, its count and its row.
AttemptFails(t, n) ==
  LET status == IF Sched!WillRetry(t) THEN "retrying" ELSE "failed" IN
  /\ Sched!Fail(t)
  /\ Record(t, status)
  /\ Persist(t, status, n)
  /\ Count(t, FinalEnds(status))
  /\ Become(t, "none")

\* From registry.get to the wait_for, which hands the call to the executor;
\* the agent may be gone, or the write of its "running" raise.
CallAgent(t) ==
  \/ /\ AgentOf[t] \in registered
     /\ pool' = Append(pool, [task |-> t, try |-> retries[t]])
     /\ Become(t, "awaiting")
     /\ Record(t, "running")
     /\ UNCHANGED <<queueVars, row, faults, history>>
  \/ /\ AttemptFails(t, IF AgentOf[t] \in registered THEN 1 ELSE 0)
     /\ UNCHANGED pool

Begin(t) ==
  /\ Idle
  /\ ready # <<>> /\ Head(ready) = t
  /\ ready' = Tail(ready)
  /\ IF "pre_execute" \in Hooks
     THEN Record(t, "running") /\ Become(t, "pre") /\ UNCHANGED <<queueVars, row, faults, history, pool>>
     ELSE CallAgent(t)
  /\ UNCHANGED <<loop, toRestore, threads, outcome, registered, crashes>>

PreHookReturns(t) ==
  /\ Idle
  /\ coro[t] = "pre"
  /\ CallAgent(t)
  /\ UNCHANGED <<loopVars, threads, outcome, registered, crashes>>

PreHookRaises(t) ==
  /\ Idle
  /\ coro[t] = "pre"
  /\ Become(t, "dead")
  /\ UNCHANGED <<queueVars, loopVars, poolVars, dataVars, crashes>>

\* The future is done and the coroutine resumes: lines 334-346.
StoredIfPossible(t) == Persist(t, "completed", 0)
StoredFirst(t) == row' = [row EXCEPT ![t] = "completed"] /\ UNCHANGED faults

Complete(t) ==
  /\ outcome[t] = "ok"
  /\ Sched!Complete(t)
  /\ Record(t, "completed")
  /\ StoredFirst(t)
  /\ Count(t, FinalEnds("completed"))
  /\ Become(t, IF "post_execute" \in Hooks THEN "post" ELSE "none")

\* The task was taken out of the scheduler and counted, then a write raises,
\* which makes it fail.  json.dumps rejects a result in both rows' writes; of
\* the store's errors, touch may raise the first.
CompletedThenFails(t) ==
  /\ Sched!Complete(t)
  /\ Record(t, "failed")
  /\ Count(t, <<"completed", "failed">>)
  /\ Become(t, "none")
  /\ \/ outcome[t] = "unserializable" /\ UNCHANGED <<row, faults>>
     \/ outcome[t] = "ok" /\ Persist(t, "failed", 1)
     \/ /\ outcome[t] = "ok" /\ AgentOf[t] \in registered
        /\ row' = [row EXCEPT ![t] = "completed"]
        /\ faults + 2 <= MaxFaults /\ faults' = faults + 2

\* Whatever the handler did, the attempt fails when the agent's old status
\* cannot be written: a task that succeeded may then run again.
Resume(t) ==
  /\ Idle
  /\ coro[t] = "awaiting"
  /\ \/ Complete(t)
     \/ CompletedThenFails(t)
     \/ outcome[t] = "raise" /\ AttemptFails(t, 0)
     \/ outcome[t] # "none" /\ AgentOf[t] \in registered /\ AttemptFails(t, 1)
  /\ outcome' = [outcome EXCEPT ![t] = "none"]
  /\ UNCHANGED <<loopVars, pool, threads, registered, crashes>>

\* wait_for gives up.  It cancels the future: a work item still in the pool
\* will be skipped, one on a thread runs on and nobody hears of its end.
\* A result that has just arrived may be lost to the timeout.
OnThread(t) == coro[t] = "awaiting" /\ \E w \in threads : w.task = t /\ w.try = retries[t]
TimerRuns(t) == coro[t] = "awaiting"

Timeout(t) ==
  /\ Idle
  /\ TimerRuns(t)
  /\ \/ AttemptFails(t, 0)
     \/ AgentOf[t] \in registered /\ AttemptFails(t, 1)
  /\ outcome' = [outcome EXCEPT ![t] = "none"]
  /\ UNCHANGED <<loopVars, pool, threads, registered, crashes>>

\* A post_execute hook returns, or raises: then the except clause runs for a
\* task that is complete and persisted.
PostHookReturns(t) ==
  /\ Idle
  /\ coro[t] = "post"
  /\ Become(t, "none")
  /\ UNCHANGED <<queueVars, loopVars, poolVars, dataVars, crashes>>

PostHookRaises(t) ==
  /\ Idle
  /\ coro[t] = "post"
  /\ AttemptFails(t, 0)
  /\ UNCHANGED <<loopVars, poolVars, registered, crashes>>

(***************************************************************************)
(* Worker threads: they run beside the event loop.                         *)
(***************************************************************************)

\* The coroutine still waits for this very call (else it was cancelled).
AwaitedTask(w) == coro[w.task] = "awaiting"
Awaited(w) == coro[w.task] = "awaiting" /\ retries[w.task] = w.try

TakeWork ==
  /\ pool # <<>>
  /\ Cardinality(threads) < MaxWorkers
  /\ pool' = Tail(pool)
  /\ threads' = IF Awaited(Head(pool)) THEN threads \cup {Head(pool)} ELSE threads
  /\ UNCHANGED <<queueVars, loopVars, dataVars, outcome, coro, crashes>>

HandlerEnds(w) ==
  /\ w \in threads
  /\ threads' = threads \ {w}
  /\ \E o \in Outcomes :
       outcome' = IF Awaited(w) THEN [outcome EXCEPT ![w.task] = o] ELSE outcome
  /\ UNCHANGED <<queueVars, loopVars, dataVars, pool, coro, crashes>>

(***************************************************************************)
(* The process dies, at any point, and a new engine reads the store.  Rows *)
(* are read in no particular order (SELECT without ORDER BY).              *)
(***************************************************************************)
ReloadEveryRow(t) == row[t] # "absent"
ReloadQueued(t) == row[t] = "queued"
Reload(t) == row[t] \in Unfinished

Crash ==
  /\ crashes < MaxCrashes
  /\ crashes' = crashes + 1
  /\ Sched!Restart
  /\ record' = [t \in Tasks |-> IF Reload(t) THEN "queued" ELSE row[t]]
  /\ toRestore' = {t \in Tasks : Reload(t)}
  /\ loop' = "asleep"
  /\ ready' = <<>>
  /\ coro' = [t \in Tasks |-> "none"]
  /\ pool' = <<>>
  /\ threads' = {}
  /\ outcome' = [t \in Tasks |-> "none"]
  /\ history' = <<>>
  /\ UNCHANGED <<row, faults, registered>>

Restore(t) ==
  /\ t \in toRestore
  /\ toRestore' = toRestore \ {t}
  /\ Sched!Enqueue(t)
  /\ UNCHANGED <<loop, ready, poolVars, dataVars, coro, crashes>>

Next ==
  \/ \E t \in Tasks :
       \/ SubmitTask(t) \/ Dispatch(t) \/ Begin(t) \/ PreHookReturns(t) \/ PreHookRaises(t)
       \/ Resume(t) \/ Timeout(t) \/ PostHookReturns(t) \/ PostHookRaises(t) \/ Restore(t)
  \/ \E a \in Agents : DeleteAgent(a)
  \/ Sleep \/ LoopDies
  \/ TakeWork
  \/ \E w \in threads : HandlerEnds(w)
  \/ Crash

Spec == Init /\ [][Next]_vars

(***************************************************************************)
(* Safety                                                                  *)
(***************************************************************************)
Created(t) == \E i \in 1 .. Len(ready) : ready[i] = t
InPool(t) == \E i \in 1 .. Len(pool) : pool[i].task = t /\ Awaited(pool[i])
Working(t) == \E w \in threads : w.task = t /\ Awaited(w)

\* What a client reads in a record is where the task is: the queue, the
\* scheduler's in-flight table, the coroutines and the records never
\* disagree, so no task is lost, and none has two coroutines.  (A coroutine
\* killed by a pre_execute hook leaves its task "running" for good.)
TaskPlacement ==
  \A t \in Tasks :
    /\ Sched!Waiting(t) \/ t \in toRestore => record[t] \in {"queued", "retrying"}
    /\ record[t] \in {"queued", "retrying"} /\ ~Created(t) =>
         (Sched!Waiting(t) <=> t \notin toRestore)
    /\ Created(t) <=> coro[t] = "created"
    /\ coro[t] = "created" => record[t] \in {"queued", "retrying"}
    /\ record[t] = "running" <=> coro[t] \in {"pre", "awaiting", "dead"}
    /\ t \in inFlight <=> coro[t] \in {"created", "pre", "awaiting", "dead"}

\* A coroutine that awaits its call has exactly one live call, in the pool,
\* on a thread or answered, however many cancelled calls of earlier tries
\* still clog the pool and the threads; no other task has a live call.
AwaitedWork ==
  \A t \in Tasks :
    /\ coro[t] # "awaiting" => outcome[t] = "none"
    /\ coro[t] = "awaiting" =>
         \/ InPool(t) /\ ~Working(t) /\ outcome[t] = "none"
         \/ ~InPool(t) /\ Working(t) /\ outcome[t] = "none"
         \/ ~InPool(t) /\ ~Working(t) /\ outcome[t] # "none"
    /\ \A i, j \in 1 .. Len(pool) : pool[i] = pool[j] => i = j

\* Whatever hooks, results and writes raise, the end of the event loop's step
\* finds a result that clients read as completed in the store, for good.
CompletedIsDurable == \A t \in Tasks : record[t] = "completed" => row[t] = "completed"

\* The store never lags behind on what matters: a result is durable as soon
\* as a client can see it, and unfinished work has an unfinished row.
RowFollowsRecord ==
  \A t \in Tasks : IF record[t] \in Finished \cup {"absent"} THEN row[t] = record[t]
                                                             ELSE row[t] \in Unfinished

\* Unless a hook or an unserializable result makes a finished task fail once
\* more: the throughput history holds a task at most once, as what the task is
\* recorded as, and no attempt that is retried; and it lacks a task that
\* finished in this process only when it is full and may have dropped it.
CountedOnce ==
  /\ \A i, j \in 1 .. Len(history) : history[i].task = history[j].task => i = j
  /\ \A i \in 1 .. Len(history) : record[history[i].task] = history[i].status
  /\ \A t \in Tasks :
       crashes = 0 /\ record[t] \in Finished =>
         \/ \E i \in 1 .. Len(history) : history[i].task = t
         \/ Len(history) = MaxOutcomes

(***************************************************************************)
(* Refinement                                                              *)
(***************************************************************************)
Told(status) == IF status \in {"queued", "retrying"} THEN "pending" ELSE status

Life == INSTANCE TaskLifecycle WITH
          state <- [t \in Tasks |-> Told(record[t])],
          failures <- [t \in Tasks |-> IF retries[t] = Sched!Absent THEN 0 ELSE retries[t]]

\* The engine keeps TaskLifecycle's promises, across restarts too: what one
\* enqueues again was "queued/running" (README.md:124), never finished.
KeepsLifecycle == Life!Spec

\* The engine calls the scheduler as TaskScheduler assumes: a task enters
\* once per process, so the scheduler's properties hold inside the engine.
UsesScheduler == Sched!Spec

(***************************************************************************)
(* Liveness.  asyncio runs every ready callback and fires every timer; a   *)
(* coroutine competes with endless other steps, hence SF.  The loop of     *)
(* start polls while it lives, and it may die at any poll.  Nothing is     *)
(* assumed of handlers, which may hang, nor of the threads.                *)
(***************************************************************************)
Fairness ==
  /\ WF_vars(Sleep)
  /\ \A t \in Tasks :
       /\ WF_vars(Dispatch(t)) /\ WF_vars(Restore(t))
       /\ SF_vars(Begin(t)) /\ SF_vars(PreHookReturns(t) \/ PreHookRaises(t))
       /\ SF_vars(Resume(t) \/ Timeout(t)) /\ SF_vars(PostHookReturns(t) \/ PostHookRaises(t))

FairSpec == Spec /\ Fairness

\* Without start() a task that waits in a heap waits until the next restart.
Stranded(t) == loop = "dead" /\ Sched!Waiting(t)

\* A submitted task of the queue the loop polls gets its result or its
\* failure, although every worker thread may hang: the timer of wait_for
\* covers the time in the pool too.  The death of start() strands the tasks
\* that wait in the heap, to be retried among them, and no other: what was
\* dispatched is decided all the same.
EveryTaskFinishes ==
  \A t \in {u \in Tasks : QueueOf[u] = DefaultQueue} :
    record[t] # "absent" ~> record[t] \in Finished \/ Stranded(t)
=============================================================================
