---------------------------- MODULE TaskScheduler ----------------------------
(***************************************************************************)
(* src/orchestrator/scheduler.py: priority queues, delayed tasks, the      *)
(* in-flight table and the retry counter.  Every method runs without an    *)
(* await inside, so each is one step.  A task stands for its id together   *)
(* with the queue and priority its caller gave it.                         *)
(***************************************************************************)
EXTENDS Integers, FiniteSets

CONSTANTS
  Tasks,        \* task ids
  Queues,       \* queue names
  QueueOf,      \* task -> the queue it is enqueued in
  PriorityOf,   \* task -> its priority
  DefaultQueue, \* "default", the queue dequeue() polls when given none
  MaxRetries,   \* TaskScheduler(max_retries)
  Delays,       \* the delays schedule() is called with
  MaxTime       \* bound of the model: the clock stops here

ASSUME SchedulerAssumption ==
  /\ QueueOf \in [Tasks -> Queues]
  /\ PriorityOf \in [Tasks -> Int]
  /\ DefaultQueue \in Queues
  /\ MaxRetries \in Nat
  /\ Delays \subseteq Nat
  /\ MaxTime \in Nat

VARIABLES
  heap,         \* queue -> the tuples of its heapq list (PriorityQueue._queue)
  counter,      \* queue -> PriorityQueue._counter
  scheduled,    \* _scheduled; "order" is the position in the dict
  inFlight,     \* keys of _in_flight
  retries,      \* task["retries"], Absent before the first enqueue
  now           \* time.time()

schedVars == <<heap, counter, scheduled, inFlight, retries, now>>

Absent == -1

\* Waiting(t): some heap holds t.   Delayed(t): t sits in _scheduled.
Waiting(t) == \E q \in Queues : \E e \in heap[q] : e.task = t
Delayed(t) == \E s \in scheduled : s.task = t

TypeOK ==
  /\ heap \in [Queues -> SUBSET [task : Tasks, stamp : Nat]]
  /\ counter \in [Queues -> Nat]
  /\ scheduled \in SUBSET [task : Tasks, due : Nat, order : Nat]
  /\ inFlight \in SUBSET Tasks
  /\ retries \in [Tasks -> Nat \cup {Absent}]
  /\ now \in Nat

Init ==
  /\ heap = [q \in Queues |-> {}]
  /\ counter = [q \in Queues |-> 0]
  /\ scheduled = {}
  /\ inFlight = {}
  /\ retries = [t \in Tasks |-> Absent]
  /\ now = 0

(***************************************************************************)
(* PriorityQueue.  heapq keeps tuples (-priority, counter, item) and pops  *)
(* the least one; a heap is modelled by its set of tuples.                 *)
(***************************************************************************)
BeforeLifo(e, f) ==
  \/ PriorityOf[e.task] > PriorityOf[f.task]
  \/ PriorityOf[e.task] = PriorityOf[f.task] /\ e.stamp > f.stamp
Before(e, f) ==
  \/ PriorityOf[e.task] > PriorityOf[f.task]
  \/ PriorityOf[e.task] = PriorityOf[f.task] /\ e.stamp < f.stamp

\* heappop is well defined only if two tuples never tie on (priority,
\* counter): on a tie heapq compares the task dicts and raises TypeError.
Least(e, entries) == e \in entries /\ \A f \in entries \ {e} : Before(e, f)

NextCounterStuck(n) == n
NextCounterBelow(n) == n - 1
NextCounter(n) == n + 1

Push(t) ==
  /\ heap' = [heap EXCEPT ![QueueOf[t]] = @ \cup {[task |-> t, stamp |-> counter[QueueOf[t]]]}]
  /\ counter' = [counter EXCEPT ![QueueOf[t]] = NextCounter(@)]

(***************************************************************************)
(* enqueue and schedule                                                    *)
(***************************************************************************)
Enqueue(t) ==
  /\ Push(t)
  /\ retries' = [retries EXCEPT ![t] = IF @ = Absent THEN 0 ELSE @]
  /\ UNCHANGED <<scheduled, inFlight, now>>

\* The dict keeps insertion order: a new entry comes just after the last of
\* those that are left, however many before them have been promoted.
Positions == {0} \cup {s.order + 1 : s \in scheduled}
IsBehindAll(n) == \A s \in scheduled : s.order < n

Schedule(t, delay) ==
  /\ \E n \in Positions :
       /\ IsBehindAll(n)
       /\ scheduled' = scheduled \cup {[task |-> t, due |-> now + delay, order |-> n]}
  /\ UNCHANGED <<heap, counter, inFlight, retries, now>>

(***************************************************************************)
(* dequeue: first _promote_due_tasks over every queue, in dict order, then *)
(* pop the polled queue.                                                   *)
(***************************************************************************)
DueInDefault == {s \in scheduled : s.due <= now /\ QueueOf[s.task] = DefaultQueue}
DueStrictly == {s \in scheduled : s.due < now}
Due == {s \in scheduled : s.due <= now}
DueIn(q) == {s \in Due : QueueOf[s.task] = q}
Earlier(s) == {r \in DueIn(QueueOf[s.task]) : r.order < s.order}

Promoted(q) ==
  heap[q] \cup {[task |-> s.task, stamp |-> counter[q] + Cardinality(Earlier(s))] : s \in DueIn(q)}

Promote ==
  /\ scheduled' = scheduled \ Due
  /\ counter' = [q \in Queues |-> counter[q] + Cardinality(DueIn(q))]
  /\ retries' = [t \in Tasks |->
                   IF retries[t] = Absent /\ \E s \in Due : s.task = t THEN 0 ELSE retries[t]]

DequeueTask(q, t) ==
  /\ Promote
  /\ \E e \in Promoted(q) :
       /\ Least(e, Promoted(q))
       /\ e.task = t
       /\ heap' = [[p \in Queues |-> Promoted(p)] EXCEPT ![q] = @ \ {e}]
  /\ inFlight' = inFlight \cup {t}
  /\ UNCHANGED now

DequeueNone(q) ==
  /\ Promoted(q) = {}
  /\ Promote
  /\ heap' = [p \in Queues |-> Promoted(p)]
  /\ UNCHANGED <<inFlight, now>>

Dequeue(q) == DequeueNone(q) \/ \E t \in Tasks : DequeueTask(q, t)

(***************************************************************************)
(* complete and fail.  Both are no-ops for a task that is not in flight.   *)
(***************************************************************************)
\* _in_flight.pop(task_id, None), and the slip of reading without popping.
ReadInFlight(t) == UNCHANGED inFlight
PopInFlight(t) == inFlight' = inFlight \ {t}

Complete(t) ==
  /\ PopInFlight(t)
  /\ UNCHANGED <<heap, counter, scheduled, retries, now>>

MayRetryOneMore(n) == n <= MaxRetries + 1
MayRetry(n) == n <= MaxRetries

\* The value fail(t) returns.
WillRetry(t) == t \in inFlight /\ MayRetry(retries[t] + 1)

Fail(t) ==
  /\ PopInFlight(t)
  /\ retries' = [retries EXCEPT ![t] = IF t \in inFlight THEN @ + 1 ELSE @]
  /\ IF WillRetry(t) THEN Push(t) ELSE UNCHANGED <<heap, counter>>
  /\ UNCHANGED <<scheduled, now>>

(***************************************************************************)
(* The environment: the clock, and the process dying and constructing a    *)
(* new scheduler, which starts empty.                                      *)
(***************************************************************************)
Tick ==
  /\ now < MaxTime
  /\ now' = now + 1
  /\ UNCHANGED <<heap, counter, scheduled, inFlight, retries>>

Restart ==
  /\ heap' = [q \in Queues |-> {}]
  /\ counter' = [q \in Queues |-> 0]
  /\ scheduled' = {}
  /\ inFlight' = {}
  /\ retries' = [t \in Tasks |-> Absent]
  /\ UNCHANGED now

\* Callers hand over a task under a new id (uuid4), so an id enters once.
Fresh(t) == retries[t] = Absent /\ ~Delayed(t)

Next ==
  \/ \E t \in Tasks : Fresh(t) /\ Enqueue(t)
  \/ \E t \in Tasks, d \in Delays : Fresh(t) /\ Schedule(t, d)
  \/ \E q \in Queues : Dequeue(q)
  \/ \E t \in Tasks : Complete(t)
  \/ \E t \in Tasks : Fail(t)
  \/ Tick
  \/ Restart

Spec == Init /\ [][Next]_schedVars

(***************************************************************************)
(* What the engine needs of the scheduler.                                 *)
(***************************************************************************)

\* A task is in one place: one tuple of one heap (its own queue's), one
\* entry of _scheduled, or in flight, whatever calls of enqueue, schedule,
\* dequeue, complete and fail came before.  Two places are two executions.
OnePlace ==
  \A t \in Tasks :
    /\ ~(Waiting(t) /\ Delayed(t)) /\ ~(Waiting(t) /\ t \in inFlight)
    /\ ~(Delayed(t) /\ t \in inFlight)
    /\ \A q \in Queues : \A e, f \in heap[q] :
         e.task = t => QueueOf[t] = q /\ (f.task = t => e = f)
    /\ \A r, s \in scheduled : r.task = t /\ s.task = t => r = s

\* Two tuples of a heap never carry one counter value, across pushes,
\* retries and the promotion of several delayed tasks in one call, so
\* heapq never compares two task dicts (a TypeError out of dequeue).
StampsDistinct ==
  \A q \in Queues : \A e \in heap[q] :
    /\ e.stamp < counter[q]
    /\ \A f \in heap[q] : e.stamp = f.stamp => e = f

\* A task that may still run has used at most MaxRetries of its retries: it
\* runs at most MaxRetries + 1 times between two starts of the process.
RetryBudget ==
  \A t \in Tasks : Waiting(t) \/ t \in inFlight => retries[t] \in 0 .. MaxRetries

\* A task that enters a heap (submitted, promoted, or retried by fail) goes
\* behind every task of its priority that was there and stays.
LateArrivalsGoBehind ==
  [][\A q \in Queues : \A e \in heap'[q] \ heap[q], f \in heap[q] \cap heap'[q] :
       PriorityOf[e.task] = PriorityOf[f.task] => Before(f, e)]_schedVars

\* dequeue hands out a task only if its queue keeps no task of a higher
\* priority, counting the delayed tasks that are due by then.
NoOvertaking ==
  [][\A t \in inFlight' \ inFlight, u \in Tasks :
       /\ QueueOf[u] = QueueOf[t]
       /\ Waiting(u)' \/ \E s \in scheduled' : s.task = u /\ s.due <= now
       => PriorityOf[u] <= PriorityOf[t]]_schedVars

\* A delayed task whose time comes leaves _scheduled, in whatever queue it
\* belongs, although the engine polls the default queue only.
DelayedTaskIsPromoted ==
  \A t \in Tasks : (\E s \in scheduled : s.task = t /\ s.due <= MaxTime) ~> ~Delayed(t)

\* The caller polls again and again, as the engine does while its start()
\* lives, and time passes.
FairSpec == Spec /\ WF_schedVars(Tick) /\ WF_schedVars(Dequeue(DefaultQueue))
=============================================================================
