------------------------ MODULE TaskExecutionProofs ------------------------
(***************************************************************************)
(* Proofs about TaskExecution, for any tasks, queues, agents, threads and  *)
(* hooks, and any number of retries, crashes and failing writes.           *)
(***************************************************************************)
EXTENDS TaskExecution, TLAPS

\* A task has one tuple, in the heap of its own queue.
OneTuple ==
  \A q \in Queues : \A e, f \in heap[q] :
    QueueOf[e.task] = q /\ (e.task = f.task => e = f)

\* A task that waits in a heap has no coroutine.
WaitsAlone == \A t \in Tasks : Sched!Waiting(t) => coro[t] = "none"

\* A task has one coroutine in the event loop's queue.
ReadyDistinct == \A i, j \in 1 .. Len(ready) : ready[i] = ready[j] => i = j

\* While _restore_state runs nothing else of the new process exists.
RestoringAlone ==
  toRestore # {} =>
    pool = <<>> /\ threads = {} /\ \A t \in Tasks : coro[t] = "none"

\* A post_execute hook, if there is one, runs for a completed task.
PostIsDone ==
  \A t \in Tasks : coro[t] = "post" => record[t] = "completed" /\ "post_execute" \in Hooks

\* What may still run has used at most MaxRetries retries; what was never
\* enqueued in this process has no counter.
RetriesKnown ==
  \A t \in Tasks :
    /\ Sched!Waiting(t) \/ t \in inFlight => retries[t] \in 0 .. MaxRetries
    /\ record[t] = "absent" \/ t \in toRestore => retries[t] = Sched!Absent

\* A call in the pool or on a thread is of an earlier try, or is awaited.
StaleOrAwaited(w) ==
  /\ w.try <= retries[w.task]
  /\ w.try = retries[w.task] => coro[w.task] = "awaiting"
NoForgottenCall ==
  /\ \A i \in 1 .. Len(pool) : StaleOrAwaited(pool[i])
  /\ \A w \in threads : StaleOrAwaited(w)

Inv ==
  /\ TypeOK /\ OneTuple /\ TaskPlacement /\ WaitsAlone /\ ReadyDistinct
  /\ RestoringAlone /\ PostIsDone /\ RetriesKnown /\ AwaitedWork /\ NoForgottenCall /\ CompletedIsDurable

(***************************************************************************)
(* What the engine's calls of the scheduler do.  With nothing delayed, a   *)
(* promotion changes nothing.                                              *)
(***************************************************************************)
LEMMA NothingDelayed ==
  ASSUME NEW q \in Queues, heap \in [Queues -> SUBSET [task : Tasks, stamp : Nat]]
  PROVE  /\ Sched!Due = {} /\ Sched!DueIn(q) = {} /\ Sched!Promoted(q) = heap[q]
         /\ [p \in Queues |-> Sched!Promoted(p)] = heap
<1>1. Sched!Due = {} /\ \A p \in Queues : Sched!DueIn(p) = {}
  BY DEF Sched!Due, Sched!DueIn
<1>2. \A p \in Queues : Sched!Promoted(p) = heap[p]
  BY <1>1 DEF Sched!Promoted
<1> QED BY <1>1, <1>2

LEMMA PromoteDoesNothing ==
  ASSUME TypeOK, Sched!Promote
  PROVE  counter' = counter /\ retries' = retries
<1>1. heap \in [Queues -> SUBSET [task : Tasks, stamp : Nat]]
      /\ counter \in [Queues -> Nat] /\ retries \in [Tasks -> Nat \cup {Sched!Absent}]
  BY DEF TypeOK, Sched!TypeOK
<1>2. ASSUME NEW q \in Queues PROVE counter'[q] = counter[q]
  <2>1. Sched!DueIn(q) = {}
    BY <1>1, NothingDelayed
  <2>2. Sched!Cardinality(Sched!DueIn(q)) = 0
    BY <2>1 DEF Sched!Cardinality
  <2> QED BY <1>1, <2>2 DEF Sched!Promote
<1>3. counter' = counter
  BY <1>1, <1>2 DEF Sched!Promote
<1>4. Sched!Due = {}
  BY DEF Sched!Due
<1> QED BY <1>1, <1>3, <1>4 DEF Sched!Promote

\* A task that is popped had its only tuple in the heap: it waits no more.
LEMMA DequeueTaskDoes ==
  ASSUME TypeOK, OneTuple, NEW t \in Tasks, Sched!DequeueTask(DefaultQueue, t)
  PROVE  /\ Sched!TypeOK' /\ OneTuple'
         /\ inFlight' = inFlight \cup {t} /\ retries' = retries
         /\ Sched!Waiting(t)
         /\ \A u \in Tasks : Sched!Waiting(u)' <=> Sched!Waiting(u) /\ u # t
<1>1. /\ heap \in [Queues -> SUBSET [task : Tasks, stamp : Nat]] /\ DefaultQueue \in Queues
      /\ counter \in [Queues -> Nat] /\ inFlight \in SUBSET Tasks
      /\ retries \in [Tasks -> Nat \cup {Sched!Absent}]
  BY ExecutionAssumption DEF TypeOK, Sched!TypeOK
<1>2. Sched!Promoted(DefaultQueue) = heap[DefaultQueue]
      /\ [p \in Queues |-> Sched!Promoted(p)] = heap
  BY <1>1, NothingDelayed
<1>3. PICK e \in heap[DefaultQueue] :
        e.task = t /\ heap' = [heap EXCEPT ![DefaultQueue] = @ \ {e}]
  BY <1>2 DEF Sched!DequeueTask
<1>4. /\ counter' = counter /\ retries' = retries
      /\ inFlight' = inFlight \cup {t}
  BY PromoteDoesNothing DEF Sched!DequeueTask
<1>5. heap' \in [Queues -> SUBSET [task : Tasks, stamp : Nat]]
      /\ \A q \in Queues : heap'[q] = IF q = DefaultQueue THEN heap[q] \ {e} ELSE heap[q]
  BY <1>1, <1>3
<1>6. Sched!TypeOK'
  BY <1>1, <1>4, <1>5 DEF Sched!TypeOK
<1>7. OneTuple'
  BY <1>1, <1>5 DEF OneTuple
<1>8. Sched!Waiting(t)
  BY <1>1, <1>3 DEF Sched!Waiting
<1>9. ASSUME NEW u \in Tasks PROVE Sched!Waiting(u)' <=> Sched!Waiting(u) /\ u # t
  <2>1. \A q \in Queues : \A f \in heap[q] : f.task = t => q = DefaultQueue /\ f = e
    BY <1>1, <1>3 DEF OneTuple
  <2> QED BY <1>1, <1>3, <1>5, <2>1 DEF Sched!Waiting
<1> QED BY <1>4, <1>6, <1>7, <1>8, <1>9

LEMMA DequeueNoneDoes ==
  ASSUME TypeOK, Sched!DequeueNone(DefaultQueue)
  PROVE  UNCHANGED queueVars
<1>1. heap \in [Queues -> SUBSET [task : Tasks, stamp : Nat]] /\ DefaultQueue \in Queues
  BY ExecutionAssumption DEF TypeOK, Sched!TypeOK
<1>2. heap' = heap
  BY <1>1, NothingDelayed DEF Sched!DequeueNone
<1> QED BY <1>2, PromoteDoesNothing DEF Sched!DequeueNone, queueVars

LEMMA PushDoes ==
  ASSUME Sched!TypeOK, OneTuple, NEW t \in Tasks, ~Sched!Waiting(t), Sched!Push(t)
  PROVE  /\ heap' \in [Queues -> SUBSET [task : Tasks, stamp : Nat]]
         /\ counter' \in [Queues -> Nat]
         /\ OneTuple'
         /\ \A u \in Tasks : Sched!Waiting(u)' <=> Sched!Waiting(u) \/ u = t
<1> DEFINE e == [task |-> t, stamp |-> counter[QueueOf[t]]]
<1>1. /\ heap \in [Queues -> SUBSET [task : Tasks, stamp : Nat]]
      /\ counter \in [Queues -> Nat] /\ QueueOf[t] \in Queues
  BY ExecutionAssumption DEF Sched!TypeOK
<1>2. e.task = t /\ e \in [task : Tasks, stamp : Nat]
  BY <1>1
<1>3. /\ heap' = [heap EXCEPT ![QueueOf[t]] = @ \cup {e}]
      /\ counter' \in [Queues -> Nat]
  BY <1>1 DEF Sched!Push, Sched!NextCounter
<1> HIDE DEF e
<1>4. heap' \in [Queues -> SUBSET [task : Tasks, stamp : Nat]]
      /\ \A q \in Queues : heap'[q] = IF q = QueueOf[t] THEN heap[q] \cup {e} ELSE heap[q]
  BY <1>1, <1>2, <1>3
<1>5. \A q \in Queues : \A f \in heap[q] : f.task # t
  BY DEF Sched!Waiting
<1>6. OneTuple'
  BY <1>1, <1>2, <1>4, <1>5 DEF OneTuple
<1>7. \A u \in Tasks : Sched!Waiting(u)' <=> Sched!Waiting(u) \/ u = t
  BY <1>1, <1>2, <1>4 DEF Sched!Waiting
<1> QED BY <1>3, <1>4, <1>6, <1>7

LEMMA EnqueueDoes ==
  ASSUME Sched!TypeOK, OneTuple, NEW t \in Tasks, ~Sched!Waiting(t), retries[t] = Sched!Absent,
         Sched!Enqueue(t)
  PROVE  /\ Sched!TypeOK' /\ OneTuple'
         /\ inFlight' = inFlight /\ retries' = [retries EXCEPT ![t] = 0]
         /\ \A u \in Tasks : Sched!Waiting(u)' <=> Sched!Waiting(u) \/ u = t
<1>1. Sched!Push(t) /\ inFlight' = inFlight /\ retries' = [retries EXCEPT ![t] = 0]
  BY DEF Sched!Enqueue
<1>2. retries' \in [Tasks -> Nat \cup {Sched!Absent}]
  BY <1>1 DEF Sched!TypeOK
<1>3. Sched!TypeOK'
  BY <1>1, <1>2, PushDoes DEF Sched!TypeOK
<1> QED BY <1>1, <1>3, PushDoes

\* fail() of a task in flight pushes it again while its retries last.
LEMMA FailDoes ==
  ASSUME Sched!TypeOK, OneTuple, NEW t \in Tasks, t \in inFlight, ~Sched!Waiting(t),
         retries[t] \in Nat, Sched!Fail(t)
  PROVE  /\ Sched!TypeOK' /\ OneTuple'
         /\ inFlight' = inFlight \ {t} /\ retries' = [retries EXCEPT ![t] = @ + 1]
         /\ Sched!WillRetry(t) <=> retries[t] + 1 <= MaxRetries
         /\ \A u \in Tasks :
              Sched!Waiting(u)' <=> Sched!Waiting(u) \/ (u = t /\ Sched!WillRetry(t))
<1>1. inFlight' = inFlight \ {t} /\ retries' = [retries EXCEPT ![t] = @ + 1]
  BY DEF Sched!Fail, Sched!PopInFlight
<1>2. Sched!WillRetry(t) <=> retries[t] + 1 <= MaxRetries
  BY DEF Sched!WillRetry, Sched!MayRetry
<1>3. inFlight' \in SUBSET Tasks /\ retries' \in [Tasks -> Nat \cup {Sched!Absent}]
  BY <1>1 DEF Sched!TypeOK
<1>4. CASE Sched!WillRetry(t)
  <2>1. Sched!Push(t)
    BY <1>4 DEF Sched!Fail
  <2>2. Sched!TypeOK'
    BY <1>3, <2>1, PushDoes DEF Sched!TypeOK
  <2> QED BY <1>1, <1>2, <1>4, <2>1, <2>2, PushDoes
<1>5. CASE ~Sched!WillRetry(t)
  <2>1. UNCHANGED <<heap, counter>>
    BY <1>5 DEF Sched!Fail
  <2>2. Sched!TypeOK' /\ OneTuple'
    BY <1>3, <2>1 DEF Sched!TypeOK, OneTuple
  <2>3. \A u \in Tasks : Sched!Waiting(u)' <=> Sched!Waiting(u)
    BY <2>1 DEF Sched!Waiting
  <2> QED BY <1>1, <1>2, <1>5, <2>2, <2>3
<1> QED BY <1>4, <1>5

\* Of a task that is not in flight any more it is a no-op.
LEMMA LateFailDoes ==
  ASSUME Sched!TypeOK, NEW t \in Tasks, t \notin inFlight, Sched!Fail(t)
  PROVE  UNCHANGED queueVars /\ ~Sched!WillRetry(t)
BY DEF Sched!Fail, Sched!PopInFlight, Sched!WillRetry, Sched!TypeOK, queueVars

(***************************************************************************)
(* Writes, calls and the initial state.                                    *)
(***************************************************************************)
LEMMA PersistDoes ==
  ASSUME TypeOK, NEW t \in Tasks, NEW status \in Statuses, NEW n \in {0, 1},
         Persist(t, status, n)
  PROVE  /\ row' \in [Tasks -> Statuses] /\ faults' \in Nat
         /\ \A u \in Tasks \ {t} : row'[u] = row[u]
         /\ row'[t] = status \/ (row'[t] = row[t] /\ faults < MaxFaults)
<1>1. CASE row' = [row EXCEPT ![t] = status] /\ faults' = faults + n
  BY <1>1 DEF TypeOK
<1>2. CASE row' = row /\ faults + n < MaxFaults /\ faults' = faults + n + 1
  BY <1>2, ExecutionAssumption DEF TypeOK
<1> QED BY <1>1, <1>2 DEF Persist, Upsert

LEMMA SameCalls ==
  ASSUME TypeOK, UNCHANGED <<pool, threads>>, NEW u \in Tasks,
         coro'[u] = coro[u], retries'[u] = retries[u]
  PROVE  (InPool(u)' <=> InPool(u)) /\ (Working(u)' <=> Working(u))
<1>1. (\A i \in 1 .. Len(pool) : pool[i] \in WorkItems) /\ threads \subseteq WorkItems
  BY DEF TypeOK
<1>2. \A w \in WorkItems : w.task = u => (Awaited(w)' <=> Awaited(w))
  BY DEF Awaited
<1> QED BY <1>1, <1>2 DEF InPool, Working

LEMMA InitInv == Init => Inv
<1> SUFFICES ASSUME Init PROVE Inv
  OBVIOUS
<1>1. TypeOK
  <2>1. Sched!TypeOK
    BY DEF Init, Sched!Init, Sched!TypeOK
  <2>2. <<>> \in Seq(Tasks) /\ <<>> \in Seq(WorkItems) /\ <<>> \in Seq(Endings)
    OBVIOUS
  <2> QED BY <2>1, <2>2, ExecutionAssumption DEF Init, TypeOK, Statuses, Phases
<1>2. /\ ready = <<>> /\ pool = <<>> /\ threads = {} /\ toRestore = {} /\ inFlight = {}
      /\ \A t \in Tasks : /\ ~Sched!Waiting(t) /\ ~Created(t)
                          /\ record[t] = "absent" /\ coro[t] = "none" /\ outcome[t] = "none"
                          /\ retries[t] = Sched!Absent
  BY DEF Init, Sched!Init, Sched!Waiting, Created
<1>3. OneTuple /\ TaskPlacement /\ WaitsAlone /\ ReadyDistinct /\ RestoringAlone /\ PostIsDone
  BY <1>2 DEF Init, Sched!Init, OneTuple, TaskPlacement, WaitsAlone, ReadyDistinct,
              RestoringAlone, PostIsDone
<1>4. RetriesKnown /\ AwaitedWork /\ NoForgottenCall /\ CompletedIsDurable
  BY <1>2 DEF RetriesKnown, AwaitedWork, NoForgottenCall, CompletedIsDurable
<1> QED BY <1>1, <1>3, <1>4 DEF Inv

(***************************************************************************)
(* The except clause of _execute_task, wherever it is entered from.        *)
(***************************************************************************)
LEMMA FinalEndsType == \A s : FinalEnds(s) \in Seq(Finished)
<1>1. <<>> \in Seq(Finished) /\ \A s \in Finished : <<s>> \in Seq(Finished)
  OBVIOUS
<1> QED BY <1>1 DEF FinalEnds

\* The deque after an append: the newest entry at its end, and before it the
\* older ones, the oldest of which it may have dropped.
LEMMA RememberDoes ==
  ASSUME NEW past \in Seq(Endings), NEW ending \in Endings
  PROVE  /\ Remember(past, ending) \in Seq(Endings)
         /\ \E k \in {0, 1} :
              /\ k = 1 <=> Len(past) >= MaxOutcomes
              /\ Len(Remember(past, ending)) = Len(past) + 1 - k
              /\ Remember(past, ending)[Len(past) + 1 - k] = ending
              /\ \A i \in 1 .. Len(past) - k :
                   i + k \in 1 .. Len(past) /\ Remember(past, ending)[i] = past[i + k]
<1> DEFINE longer == Append(past, ending)
<1>1. /\ longer \in Seq(Endings) /\ Len(longer) = Len(past) + 1 /\ Len(past) \in Nat
      /\ longer[Len(past) + 1] = ending
      /\ \A i \in 1 .. Len(past) : longer[i] = past[i]
      /\ MaxOutcomes \in Nat \ {0}
  BY ExecutionAssumption
<1>2. Remember(past, ending) = IF Len(longer) > MaxOutcomes THEN Tail(longer) ELSE longer
  BY DEF Remember
<1> HIDE DEF longer
<1>3. CASE Len(longer) > MaxOutcomes
  <2>1. /\ Tail(longer) \in Seq(Endings) /\ Len(Tail(longer)) = Len(past)
        /\ \A i \in 1 .. Len(past) : Tail(longer)[i] = longer[i + 1]
    BY <1>1
  <2>2. /\ Len(past) >= MaxOutcomes /\ Len(past) \in 1 .. Len(past)
        /\ \A i \in 1 .. Len(past) - 1 : i + 1 \in 1 .. Len(past) /\ i \in 1 .. Len(past)
    BY <1>1, <1>3
  <2>3. Tail(longer)[Len(past)] = ending
    BY <1>1, <2>1, <2>2
  <2>4. Remember(past, ending) = Tail(longer) /\ Len(past) + 1 - 1 = Len(past)
    BY <1>1, <1>2, <1>3
  <2> QED BY <1>1, <2>1, <2>2, <2>3, <2>4
<1>4. CASE ~(Len(longer) > MaxOutcomes)
  <2>1. Remember(past, ending) = longer /\ ~(Len(past) >= MaxOutcomes) /\ Len(past) + 1 - 0 = Len(past) + 1
    BY <1>1, <1>2, <1>4
  <2> QED BY <1>1, <2>1
<1> QED BY <1>3, <1>4

LEMMA CountType ==
  ASSUME NEW t \in Tasks, NEW ends \in Seq(Finished), history \in Seq(Endings), Count(t, ends)
  PROVE  history' \in Seq(Endings)
<1>1. CASE ends = <<>>
  BY <1>1 DEF Count
<1>2. CASE ends # <<>>
  <2>1. Ending(t, ends[1]) \in Endings
    <3>1. ends[1] \in Finished
      BY <1>2
    <3> QED BY <3>1 DEF Ending, Endings
  <2>2. Remember(history, Ending(t, ends[1])) \in Seq(Endings)
    BY <2>1, RememberDoes
  <2>3. CASE Len(ends) = 1
    BY <1>2, <2>2, <2>3 DEF Count
  <2>4. CASE Len(ends) # 1
    <3>1. ends[2] \in Finished
      <4>1. Len(ends) \in Nat /\ 1 \in 1 .. Len(ends)
        BY <1>2
      <4>2. 2 \in 1 .. Len(ends)
        BY <2>4, <4>1
      <4> QED BY <4>2
    <3>2. Ending(t, ends[2]) \in Endings
      BY <3>1 DEF Ending, Endings
    <3>3. Remember(Remember(history, Ending(t, ends[1])), Ending(t, ends[2])) \in Seq(Endings)
      BY <2>2, <3>2, RememberDoes
    <3> QED BY <1>2, <2>4, <3>3 DEF Count
  <2> QED BY <2>3, <2>4
<1> QED BY <1>1, <1>2

\* What the scheduler makes of a failure: a task in flight uses up a retry.
LEMMA FailureInScheduler ==
  ASSUME Inv, NEW t \in Tasks, coro[t] \in {"created", "pre", "awaiting", "post"},
         Sched!Fail(t)
  PROVE  /\ Sched!TypeOK' /\ OneTuple'
         /\ inFlight' = inFlight \ {t}
         /\ retries' = [retries EXCEPT ![t] = IF coro[t] = "post" THEN @ ELSE @ + 1]
         /\ Sched!WillRetry(t) <=> coro[t] # "post" /\ retries[t] + 1 <= MaxRetries
         /\ \A u \in Tasks :
              Sched!Waiting(u)' <=> Sched!Waiting(u) \/ (u = t /\ Sched!WillRetry(t))
<1>1. Sched!TypeOK /\ OneTuple /\ TaskPlacement /\ retries \in [Tasks -> Nat \cup {Sched!Absent}]
  BY DEF Inv, TypeOK, Sched!TypeOK
<1>2. CASE coro[t] = "post"
  <2>1. t \notin inFlight
    BY <1>1, <1>2 DEF TaskPlacement
  <2>2. UNCHANGED queueVars /\ ~Sched!WillRetry(t)
    BY <1>1, <2>1, LateFailDoes
  <2>3. Sched!TypeOK' /\ OneTuple' /\ \A u \in Tasks : Sched!Waiting(u)' <=> Sched!Waiting(u)
    BY <1>1, <2>2 DEF queueVars, Sched!TypeOK, OneTuple, Sched!Waiting
  <2> QED BY <1>1, <1>2, <2>1, <2>2, <2>3 DEF queueVars
<1>3. CASE coro[t] # "post"
  <2>1. t \in inFlight
    BY <1>1, <1>3 DEF TaskPlacement
  <2>2. ~Sched!Waiting(t)
    BY DEF Inv, WaitsAlone
  <2>3. retries[t] \in Nat
    BY <2>1 DEF Inv, RetriesKnown
  <2> QED BY <1>1, <1>3, <2>1, <2>2, <2>3, FailDoes
<1> QED BY <1>2, <1>3

LEMMA FailureInv ==
  ASSUME Inv, NEW t \in Tasks, NEW n \in {0, 1}, toRestore = {},
         coro[t] \in {"created", "pre", "awaiting", "post"}, AttemptFails(t, n),
         ready' \in Seq(Tasks), ReadyDistinct',
         \A u \in Tasks : Created(u)' <=> Created(u) /\ u # t,
         outcome' = [outcome EXCEPT ![t] = "none"],
         UNCHANGED <<toRestore, loop, pool, threads, registered, crashes>>
  PROVE  Inv'
<1> DEFINE retry == Sched!WillRetry(t)
           ended == IF retry THEN "retrying" ELSE "failed"
<1>1. /\ TypeOK /\ TaskPlacement /\ AwaitedWork /\ NoForgottenCall /\ RetriesKnown
      /\ record \in [Tasks -> Statuses] /\ coro \in [Tasks -> Phases]
      /\ retries \in [Tasks -> Nat \cup {Sched!Absent}] /\ MaxRetries \in Nat
  BY ExecutionAssumption DEF Inv, TypeOK, Sched!TypeOK
<1>2. /\ Sched!TypeOK' /\ OneTuple'
      /\ inFlight' = inFlight \ {t}
      /\ retries' = [retries EXCEPT ![t] = IF coro[t] = "post" THEN @ ELSE @ + 1]
      /\ retry <=> coro[t] # "post" /\ retries[t] + 1 <= MaxRetries
      /\ \A u \in Tasks : Sched!Waiting(u)' <=> Sched!Waiting(u) \/ (u = t /\ retry)
  BY FailureInScheduler DEF AttemptFails
<1>3. ended \in {"retrying", "failed"} /\ (ended = "retrying" <=> retry)
  OBVIOUS
<1>4. /\ record' = [record EXCEPT ![t] = ended]
      /\ coro' = [coro EXCEPT ![t] = "none"]
      /\ Count(t, FinalEnds(ended))
      /\ Persist(t, ended, n)
  BY DEF AttemptFails, Record, Become
<1> HIDE DEF retry, ended
<1>5. /\ row' \in [Tasks -> Statuses] /\ faults' \in Nat
      /\ \A u \in Tasks \ {t} : row'[u] = row[u]
  <2>1. ended \in Statuses
    BY <1>3 DEF Statuses
  <2> QED BY <1>1, <1>4, <2>1, PersistDoes
<1>6. TypeOK'
  <2>1. FinalEnds(ended) \in Seq(Finished)
    BY <1>3, FinalEndsType
  <2>2. history' \in Seq(Endings)
    BY <1>1, <1>4, <2>1, CountType DEF TypeOK
  <2>3. record' \in [Tasks -> Statuses] /\ coro' \in [Tasks -> Phases]
    BY <1>1, <1>3, <1>4 DEF Statuses, Phases
  <2> QED BY <1>1, <1>2, <1>5, <2>2, <2>3 DEF TypeOK
<1>7. TaskPlacement'
  <2> SUFFICES ASSUME NEW u \in Tasks PROVE TaskPlacement!(u)'
    BY DEF TaskPlacement
  <2>1. CASE u = t
    BY <1>1, <1>2, <1>3, <1>4, <2>1 DEF TaskPlacement, Inv, WaitsAlone
  <2>2. CASE u # t
    BY <1>1, <1>2, <1>4, <2>2 DEF TaskPlacement
  <2> QED BY <2>1, <2>2
<1>8. WaitsAlone'
  BY <1>1, <1>2, <1>4 DEF Inv, WaitsAlone
<1>12. RestoringAlone' /\ PostIsDone' /\ CompletedIsDurable'
  BY <1>1, <1>3, <1>4, <1>5 DEF Inv, RestoringAlone, PostIsDone, CompletedIsDurable
<1>9. RetriesKnown'
  <2> SUFFICES ASSUME NEW u \in Tasks PROVE RetriesKnown!(u)'
    BY DEF RetriesKnown
  <2>1. CASE u = t
    BY <1>1, <1>2, <1>3, <1>4, <2>1 DEF RetriesKnown, TaskPlacement, Inv, WaitsAlone
  <2>2. CASE u # t
    BY <1>1, <1>2, <1>4, <2>2 DEF RetriesKnown
  <2> QED BY <2>1, <2>2
<1>10. AwaitedWork'
  <2>1. \A u \in Tasks \ {t} : (InPool(u)' <=> InPool(u)) /\ (Working(u)' <=> Working(u))
    BY <1>1, <1>2, <1>4, SameCalls
  <2> QED BY <1>1, <1>4, <2>1 DEF AwaitedWork, TypeOK
<1>11. NoForgottenCall'
  <2>1. ASSUME NEW w \in WorkItems, StaleOrAwaited(w) PROVE StaleOrAwaited(w)'
    BY <1>1, <1>2, <1>4, <2>1 DEF StaleOrAwaited, WorkItems, RetriesKnown, TaskPlacement
  <2> QED BY <1>1, <2>1 DEF NoForgottenCall, TypeOK
<1> QED BY <1>2, <1>6, <1>7, <1>8, <1>9, <1>10, <1>11, <1>12 DEF Inv

(***************************************************************************)
(* The call of the agent, and its end.                                     *)
(***************************************************************************)
LEMMA CallInv ==
  ASSUME Inv, NEW t \in Tasks, toRestore = {}, coro[t] \in {"created", "pre"},
         pool' = Append(pool, [task |-> t, try |-> retries[t]]),
         Become(t, "awaiting"), Record(t, "running"),
         ready' \in Seq(Tasks), ReadyDistinct',
         \A u \in Tasks : Created(u)' <=> Created(u) /\ u # t,
         UNCHANGED <<queueVars, row, faults, history, registered>>,
         UNCHANGED <<toRestore, loop, threads, outcome, crashes>>
  PROVE  Inv'
<1>1. /\ TypeOK /\ TaskPlacement /\ AwaitedWork /\ NoForgottenCall /\ RetriesKnown /\ WaitsAlone
      /\ pool \in Seq(WorkItems) /\ threads \in SUBSET WorkItems
      /\ record \in [Tasks -> Statuses] /\ coro \in [Tasks -> Phases]
  BY DEF Inv, TypeOK
<1>2. /\ record' = [record EXCEPT ![t] = "running"] /\ coro' = [coro EXCEPT ![t] = "awaiting"]
      /\ UNCHANGED <<heap, counter, inFlight, retries>>
  BY DEF Record, Become, queueVars
<1>3. t \in inFlight /\ retries[t] \in Nat
  BY <1>1, ExecutionAssumption DEF TaskPlacement, RetriesKnown
<1>4. PICK w0 \in WorkItems : w0.task = t /\ w0.try = retries[t] /\ pool' = Append(pool, w0)
  BY <1>3 DEF WorkItems
<1>5. /\ pool' \in Seq(WorkItems) /\ Len(pool') = Len(pool) + 1 /\ Len(pool) \in Nat
      /\ \A i \in 1 .. Len(pool) : pool'[i] = pool[i] /\ pool[i] \in WorkItems
      /\ pool'[Len(pool) + 1] = w0
  BY <1>1, <1>4
<1>6. TypeOK'
  <2>1. Sched!TypeOK'
    BY <1>1, <1>2 DEF TypeOK, Sched!TypeOK
  <2>2. record' \in [Tasks -> Statuses] /\ coro' \in [Tasks -> Phases]
    BY <1>1, <1>2 DEF Statuses, Phases
  <2> QED BY <1>1, <1>5, <2>1, <2>2 DEF TypeOK
<1>7. OneTuple' /\ \A u \in Tasks : Sched!Waiting(u)' <=> Sched!Waiting(u)
  BY <1>2 DEF Inv, OneTuple, Sched!Waiting
<1>8. TaskPlacement' /\ WaitsAlone'
  BY <1>1, <1>2, <1>7 DEF TaskPlacement, WaitsAlone
<1>9. RestoringAlone' /\ PostIsDone' /\ CompletedIsDurable' /\ RetriesKnown'
  BY <1>1, <1>2, <1>7 DEF Inv, RestoringAlone, PostIsDone, CompletedIsDurable, RetriesKnown
<1>10. NoForgottenCall'
  <2>1. ASSUME NEW w \in WorkItems, StaleOrAwaited(w) PROVE StaleOrAwaited(w)'
    BY <1>1, <1>2, <2>1 DEF StaleOrAwaited, WorkItems
  <2>2. StaleOrAwaited(w0)'
    BY <1>1, <1>2, <1>3, <1>4 DEF StaleOrAwaited
  <2>3. \A i \in 1 .. Len(pool') : i = Len(pool) + 1 \/ i \in 1 .. Len(pool)
    BY <1>5
  <2>4. \A i \in 1 .. Len(pool') : StaleOrAwaited(pool[i])'
    BY <1>1, <1>2, <1>5, <2>1, <2>2, <2>3 DEF NoForgottenCall, StaleOrAwaited
  <2>5. \A w \in threads : StaleOrAwaited(w)'
    BY <1>1, <2>1 DEF NoForgottenCall
  <2> QED BY <1>1, <2>4, <2>5 DEF NoForgottenCall
<1>11. AwaitedWork'
  <2>1. /\ \A i \in 1 .. Len(pool) : pool[i].task = t => pool[i].try # retries[t]
        /\ \A w \in threads : w.task = t => w.try # retries[t]
    BY <1>1 DEF NoForgottenCall, StaleOrAwaited
  <2>2. InPool(t)' /\ ~Working(t)' /\ outcome'[t] = "none"
    <3>1. outcome[t] = "none"
      BY <1>1 DEF AwaitedWork
    <3>2. Len(pool) + 1 \in 1 .. Len(pool') /\ coro'[t] = "awaiting"
      BY <1>1, <1>2, <1>5
    <3>3. InPool(t)'
      BY <1>2, <1>4, <1>5, <3>2 DEF InPool, Awaited
    <3>4. ~Working(t)'
      BY <1>2, <2>1 DEF Working, Awaited
    <3> QED BY <3>1, <3>3, <3>4
  <2>3. ASSUME NEW u \in Tasks \ {t}
        PROVE  (InPool(u)' <=> InPool(u)) /\ (Working(u)' <=> Working(u))
    <3>1. coro'[u] = coro[u] /\ retries' = retries /\ threads' = threads
      BY <1>1, <1>2
    <3>2. Working(u)' <=> Working(u)
      BY <3>1 DEF Working, Awaited
    <3>3. InPool(u) => InPool(u)'
      BY <1>5, <3>1 DEF InPool, Awaited
    <3>4. \A i \in 1 .. Len(pool') : pool'[i].task = u => i \in 1 .. Len(pool)
      BY <1>4, <1>5
    <3>5. InPool(u)' => InPool(u)
      <4> SUFFICES ASSUME NEW i \in 1 .. Len(pool'), pool'[i].task = u, Awaited(pool[i])'
                   PROVE  InPool(u)
        BY DEF InPool
      <4>1. i \in 1 .. Len(pool) /\ pool'[i] = pool[i]
        BY <1>5, <3>4
      <4>2. Awaited(pool[i])
        BY <3>1, <4>1 DEF Awaited
      <4> QED BY <4>1, <4>2 DEF InPool
    <3> QED BY <3>2, <3>3, <3>5
  <2>4. \A i, j \in 1 .. Len(pool') : pool'[i] = pool'[j] => i = j
    <3>1. \A i \in 1 .. Len(pool) : pool[i] # w0
      BY <1>4, <2>1
    <3>2. \A i, j \in 1 .. Len(pool) : pool[i] = pool[j] => i = j
      BY <1>1 DEF AwaitedWork
    <3> QED BY <1>5, <3>1, <3>2
  <2> QED BY <1>1, <1>2, <2>2, <2>3, <2>4 DEF AwaitedWork
<1> QED BY <1>6, <1>7, <1>8, <1>9, <1>10, <1>11 DEF Inv

\* The task leaves the scheduler for good, as completed or, if a write
\* raised after that, as failed.
LEMMA CompletionInv ==
  ASSUME Inv, NEW t \in Tasks, toRestore = {}, coro[t] = "awaiting", outcome[t] # "none",
         Sched!Complete(t),
         NEW end \in Finished, Record(t, end),
         NEW phase \in {"none", "post"}, Become(t, phase),
         NEW more \in Seq(Finished), Count(t, more),
         row' \in [Tasks -> Statuses], \A u \in Tasks \ {t} : row'[u] = row[u],
         end = "completed" => row'[t] = "completed",
         phase = "post" => end = "completed" /\ "post_execute" \in Hooks,
         faults' \in Nat,
         outcome' = [outcome EXCEPT ![t] = "none"],
         UNCHANGED <<loopVars, pool, threads, registered, crashes>>
  PROVE  Inv'
<1>1. /\ TypeOK /\ TaskPlacement /\ AwaitedWork /\ NoForgottenCall /\ RetriesKnown /\ WaitsAlone
      /\ record \in [Tasks -> Statuses] /\ coro \in [Tasks -> Phases]
      /\ retries \in [Tasks -> Nat \cup {Sched!Absent}]
  BY DEF Inv, TypeOK, Sched!TypeOK
<1>2. /\ record' = [record EXCEPT ![t] = end] /\ coro' = [coro EXCEPT ![t] = phase]
      /\ UNCHANGED <<heap, counter, retries>> /\ inFlight' = inFlight \ {t}
      /\ UNCHANGED <<loop, ready, toRestore>>
  BY DEF Record, Become, loopVars, Sched!Complete, Sched!PopInFlight
<1>3. /\ OneTuple' /\ \A u \in Tasks : (Sched!Waiting(u)' <=> Sched!Waiting(u))
                                     /\ (Created(u)' <=> Created(u))
  BY <1>2 DEF Inv, OneTuple, Sched!Waiting, Created
<1>4. TypeOK'
  <2>1. Sched!TypeOK'
    BY <1>1, <1>2 DEF TypeOK, Sched!TypeOK
  <2>2. history' \in Seq(Endings)
    BY <1>1, CountType DEF TypeOK
  <2>3. record' \in [Tasks -> Statuses] /\ coro' \in [Tasks -> Phases]
    BY <1>1, <1>2 DEF Statuses, Phases, Finished
  <2> QED BY <1>1, <1>2, <2>1, <2>2, <2>3 DEF TypeOK
<1>5. TaskPlacement' /\ WaitsAlone'
  <2> SUFFICES ASSUME NEW u \in Tasks PROVE TaskPlacement!(u)' /\ WaitsAlone!(u)'
    BY DEF TaskPlacement, WaitsAlone
  <2>1. CASE u = t
    BY <1>1, <1>2, <1>3, <2>1 DEF TaskPlacement, WaitsAlone, Finished
  <2>2. CASE u # t
    BY <1>1, <1>2, <1>3, <2>2 DEF TaskPlacement, WaitsAlone
  <2> QED BY <2>1, <2>2
<1>6. RestoringAlone' /\ PostIsDone' /\ CompletedIsDurable' /\ ReadyDistinct'
  BY <1>1, <1>2 DEF Inv, RestoringAlone, PostIsDone, CompletedIsDurable, ReadyDistinct
<1>7. RetriesKnown'
  BY <1>1, <1>2, <1>3 DEF RetriesKnown, Finished
<1>8. ~InPool(t) /\ ~Working(t)
  BY <1>1 DEF AwaitedWork
<1>9. AwaitedWork'
  <2>1. \A u \in Tasks \ {t} : (InPool(u)' <=> InPool(u)) /\ (Working(u)' <=> Working(u))
    BY <1>1, <1>2, SameCalls
  <2> QED BY <1>1, <1>2, <2>1 DEF AwaitedWork, TypeOK
<1>10. NoForgottenCall'
  <2>1. ASSUME NEW w \in WorkItems, StaleOrAwaited(w), w.task = t => w.try # retries[t]
        PROVE StaleOrAwaited(w)'
    BY <1>1, <1>2, <2>1 DEF StaleOrAwaited, WorkItems
  <2>2. /\ \A i \in 1 .. Len(pool) : pool[i].task = t => pool[i].try # retries[t]
        /\ \A w \in threads : w.task = t => w.try # retries[t]
    BY <1>8 DEF InPool, Working, Awaited
  <2> QED BY <1>1, <2>1, <2>2 DEF NoForgottenCall, TypeOK
<1> QED BY <1>3, <1>4, <1>5, <1>6, <1>7, <1>9, <1>10 DEF Inv

(***************************************************************************)
(* The event loop's queue of new coroutines, and steps that touch no call. *)
(***************************************************************************)
LEMMA OldestBegins ==
  ASSUME Inv, ready # <<>>, ready' = Tail(ready)
  PROVE  /\ Head(ready) \in Tasks /\ Created(Head(ready))
         /\ ready' \in Seq(Tasks) /\ ReadyDistinct'
         /\ \A u \in Tasks : Created(u)' <=> Created(u) /\ u # Head(ready)
<1>1. ready \in Seq(Tasks) /\ ReadyDistinct
  BY DEF Inv, TypeOK
<1>2. /\ Head(ready) = ready[1] /\ ready[1] \in Tasks /\ 1 \in 1 .. Len(ready)
      /\ ready' \in Seq(Tasks) /\ Len(ready') = Len(ready) - 1 /\ Len(ready) \in Nat
      /\ \A i \in 1 .. Len(ready') : ready'[i] = ready[i + 1] /\ i + 1 \in 1 .. Len(ready)
  BY <1>1
<1>3. ReadyDistinct'
  <2> SUFFICES ASSUME NEW i \in 1 .. Len(ready'), NEW j \in 1 .. Len(ready'),
                      ready'[i] = ready'[j]
               PROVE  i = j
    BY DEF ReadyDistinct
  <2>1. i + 1 = j + 1
    BY <1>1, <1>2 DEF ReadyDistinct
  <2> QED BY <2>1
<1>4. ASSUME NEW u \in Tasks PROVE Created(u)' <=> Created(u) /\ u # Head(ready)
  <2>1. ASSUME Created(u)' PROVE Created(u) /\ u # Head(ready)
    <3>1. PICK i \in 1 .. Len(ready') : ready'[i] = u
      BY <2>1 DEF Created
    <3>2. ready[i + 1] = u /\ i + 1 \in 1 .. Len(ready) /\ i + 1 # 1
      BY <1>2, <3>1
    <3> QED BY <1>1, <1>2, <3>2 DEF Created, ReadyDistinct
  <2>2. ASSUME Created(u), u # Head(ready) PROVE Created(u)'
    <3>1. PICK i \in 1 .. Len(ready) : ready[i] = u
      BY <2>2 DEF Created
    <3>2. i # 1 /\ i - 1 \in 1 .. Len(ready') /\ (i - 1) + 1 = i
      BY <1>2, <2>2, <3>1
    <3> QED BY <1>2, <3>1, <3>2 DEF Created
  <2> QED BY <2>1, <2>2
<1> QED BY <1>2, <1>3, <1>4 DEF Created

\* No coroutine starts or stops to await its call, and a retry counter
\* changes only when its task enters the scheduler.
LEMMA CallsUntouched ==
  ASSUME Inv, UNCHANGED poolVars,
         \A u \in Tasks : coro'[u] = coro[u] \/ (coro[u] # "awaiting" /\ coro'[u] # "awaiting"),
         \A u \in Tasks : retries'[u] = retries[u] \/ retries[u] = Sched!Absent
  PROVE  AwaitedWork' /\ NoForgottenCall'
<1>1. /\ TypeOK /\ AwaitedWork /\ NoForgottenCall /\ TaskPlacement /\ RetriesKnown
      /\ UNCHANGED <<pool, threads, outcome>>
      /\ Sched!Absent = -1
  BY DEF Inv, poolVars, Sched!Absent
<1>2. \A u \in Tasks : coro[u] = "awaiting" => retries'[u] = retries[u]
  BY <1>1, ExecutionAssumption DEF TaskPlacement, RetriesKnown
<1>3. (\A i \in 1 .. Len(pool) : pool[i] \in WorkItems) /\ threads \subseteq WorkItems
  BY <1>1 DEF TypeOK
<1>4. \A w \in WorkItems : Awaited(w)' <=> Awaited(w)
  BY <1>2 DEF Awaited, WorkItems
<1>5. \A u \in Tasks : (InPool(u)' <=> InPool(u)) /\ (Working(u)' <=> Working(u))
  BY <1>1, <1>3, <1>4 DEF InPool, Working
<1>6. AwaitedWork'
  BY <1>1, <1>5 DEF AwaitedWork
<1>7. ASSUME NEW w \in WorkItems, StaleOrAwaited(w) PROVE StaleOrAwaited(w)'
  <2>1. w.task \in Tasks /\ w.try \in Nat /\ w.try <= retries[w.task]
        /\ (w.try = retries[w.task] => coro[w.task] = "awaiting")
    BY <1>7 DEF StaleOrAwaited, WorkItems
  <2>2. retries'[w.task] = retries[w.task]
    BY <1>1, <2>1
  <2> QED BY <2>1, <2>2 DEF StaleOrAwaited
<1> QED BY <1>1, <1>3, <1>6, <1>7 DEF NoForgottenCall

\* A step of the coroutine of t that neither calls nor fails, or one of no
\* coroutine at all.
LEMMA PhaseInv ==
  ASSUME Inv, NEW t \in Tasks, NEW phase \in {"none", "pre", "dead"}, Become(t, phase),
         NEW status \in {"running", "completed"}, Record(t, status),
         coro[t] \in {"created", "pre", "post"},
         status = "running" <=> phase \in {"pre", "dead"},
         t \in inFlight <=> status = "running",
         status = "completed" => record[t] = "completed",
         ready' \in Seq(Tasks), ReadyDistinct',
         \A u \in Tasks : Created(u)' <=> Created(u) /\ u # t,
         UNCHANGED <<queueVars, loop, toRestore, row, faults, history, registered, crashes>>,
         UNCHANGED poolVars
  PROVE  Inv'
<1>1. /\ TypeOK /\ TaskPlacement /\ WaitsAlone
      /\ record' = [record EXCEPT ![t] = status] /\ coro' = [coro EXCEPT ![t] = phase]
      /\ record \in [Tasks -> Statuses] /\ coro \in [Tasks -> Phases]
      /\ UNCHANGED <<heap, counter, inFlight, retries>>
      /\ UNCHANGED <<pool, threads, outcome>>
  BY DEF Inv, TypeOK, Record, Become, queueVars, poolVars
<1>2. TypeOK'
  <2>1. Sched!TypeOK'
    BY <1>1 DEF TypeOK, Sched!TypeOK
  <2> QED BY <1>1, <2>1 DEF TypeOK, Statuses, Phases
<1>3. OneTuple' /\ \A u \in Tasks : Sched!Waiting(u)' <=> Sched!Waiting(u)
  BY <1>1 DEF Inv, OneTuple, Sched!Waiting
<1>4. TaskPlacement'
  <2> SUFFICES ASSUME NEW u \in Tasks PROVE TaskPlacement!(u)'
    BY DEF TaskPlacement
  <2>1. CASE u = t
    <3>1. ~Sched!Waiting(t) /\ t \notin toRestore /\ coro'[t] = phase /\ record'[t] = status
      BY <1>1 DEF Inv, WaitsAlone, RestoringAlone
    <3> QED BY <1>1, <1>3, <2>1, <3>1 DEF TaskPlacement
  <2>2. CASE u # t
    BY <1>1, <1>3, <2>2 DEF TaskPlacement
  <2> QED BY <2>1, <2>2
<1>5. WaitsAlone'
  BY <1>1, <1>3 DEF WaitsAlone
<1>6. RestoringAlone' /\ PostIsDone'
  BY <1>1 DEF Inv, RestoringAlone, PostIsDone, Phases
<1>7. CompletedIsDurable' /\ RetriesKnown'
  BY <1>1, <1>3 DEF Inv, CompletedIsDurable, RetriesKnown
<1>8. AwaitedWork' /\ NoForgottenCall'
  BY <1>1, CallsUntouched
<1> QED BY <1>2, <1>3, <1>4, <1>5, <1>6, <1>7, <1>8 DEF Inv

\* A step that changes the loop's flag or the agents only.
LEMMA FrameInv ==
  ASSUME Inv, loop' \in {"asleep", "draining", "dead"}, registered' \in SUBSET Agents, crashes' \in Nat,
         UNCHANGED <<queueVars, ready, toRestore, poolVars, record, row, faults, history, coro>>
  PROVE  Inv'
<1>1. /\ TypeOK
      /\ UNCHANGED <<heap, counter, inFlight, retries, ready, toRestore>>
      /\ UNCHANGED <<pool, threads, outcome, record, row, faults, history, coro>>
  BY DEF Inv, queueVars, poolVars
<1>2. TypeOK'
  <2>1. Sched!TypeOK'
    BY <1>1 DEF TypeOK, Sched!TypeOK
  <2> QED BY <1>1, <2>1 DEF TypeOK
<1>3. OneTuple' /\ \A u \in Tasks : (Sched!Waiting(u)' <=> Sched!Waiting(u))
                                    /\ (Created(u)' <=> Created(u))
  BY <1>1 DEF Inv, OneTuple, Sched!Waiting, Created
<1>4. TaskPlacement' /\ WaitsAlone'
  BY <1>1, <1>3 DEF Inv, TaskPlacement, WaitsAlone
<1>5. ReadyDistinct' /\ RestoringAlone' /\ PostIsDone' /\ CompletedIsDurable'
  BY <1>1 DEF Inv, ReadyDistinct, RestoringAlone, PostIsDone, CompletedIsDurable
<1>6. RetriesKnown'
  BY <1>1, <1>3 DEF Inv, RetriesKnown
<1>7. AwaitedWork' /\ NoForgottenCall'
  BY <1>1, CallsUntouched
<1> QED BY <1>2, <1>3, <1>4, <1>5, <1>6, <1>7 DEF Inv

(***************************************************************************)
(* The actions, one by one.                                                *)
(***************************************************************************)
\* A task enters the scheduler: a new one, or one that a restart finds.
LEMMA EnteringInv ==
  ASSUME Inv, NEW t \in Tasks, Sched!Enqueue(t), coro[t] = "none", retries[t] = Sched!Absent,
         ~Sched!Waiting(t), NEW status \in {"queued", "retrying"},
         Record(t, status) \/ (record' = record /\ record[t] = status),
         row' \in [Tasks -> Statuses], faults' \in Nat, \A u \in Tasks \ {t} : row'[u] = row[u],
         toRestore' = toRestore \ {t},
         UNCHANGED <<ready, loop, poolVars, history, registered, coro, crashes>>
  PROVE  Inv'
<1>1. /\ TypeOK /\ TaskPlacement /\ WaitsAlone /\ RetriesKnown
      /\ Sched!TypeOK /\ OneTuple
      /\ record \in [Tasks -> Statuses] /\ retries \in [Tasks -> Nat \cup {Sched!Absent}]
      /\ UNCHANGED <<ready, loop, pool, threads, outcome, history, registered, coro, crashes>>
  BY DEF Inv, TypeOK, Sched!TypeOK, poolVars
<1>2. /\ Sched!TypeOK' /\ OneTuple'
      /\ inFlight' = inFlight /\ retries' = [retries EXCEPT ![t] = 0]
      /\ \A u \in Tasks : Sched!Waiting(u)' <=> Sched!Waiting(u) \/ u = t
  BY <1>1, EnqueueDoes
<1>3. /\ record' \in [Tasks -> Statuses] /\ record'[t] = status
      /\ \A u \in Tasks \ {t} : record'[u] = record[u]
  BY <1>1 DEF Record, Statuses
<1>4. TypeOK'
  BY <1>1, <1>2, <1>3 DEF TypeOK
<1>5. \A u \in Tasks : Created(u)' <=> Created(u)
  BY <1>1 DEF Created
<1>6. TaskPlacement'
  <2> SUFFICES ASSUME NEW u \in Tasks PROVE TaskPlacement!(u)'
    BY DEF TaskPlacement
  <2>1. CASE u = t
    <3>1. ~Created(t) /\ t \notin inFlight
      BY <1>1 DEF TaskPlacement
    <3> QED BY <1>1, <1>2, <1>3, <1>5, <2>1, <3>1
  <2>2. CASE u # t
    BY <1>1, <1>2, <1>3, <1>5, <2>2 DEF TaskPlacement
  <2> QED BY <2>1, <2>2
<1>7. WaitsAlone' /\ ReadyDistinct' /\ RestoringAlone'
  BY <1>1, <1>2 DEF Inv, WaitsAlone, ReadyDistinct, RestoringAlone
<1>8. PostIsDone' /\ CompletedIsDurable'
  BY <1>1, <1>3 DEF Inv, PostIsDone, CompletedIsDurable
<1>9. RetriesKnown'
  <2> SUFFICES ASSUME NEW u \in Tasks PROVE RetriesKnown!(u)'
    BY DEF RetriesKnown
  <2>1. CASE u = t
    BY <1>1, <1>2, <1>3, <2>1, ExecutionAssumption
  <2>2. CASE u # t
    BY <1>1, <1>2, <1>3, <2>2 DEF RetriesKnown
  <2> QED BY <2>1, <2>2
<1>10. AwaitedWork' /\ NoForgottenCall'
  <2>1. \A u \in Tasks : retries'[u] = retries[u] \/ retries[u] = Sched!Absent
    BY <1>1, <1>2
  <2> QED BY <1>1, <2>1, CallsUntouched
<1> QED BY <1>2, <1>4, <1>6, <1>7, <1>8, <1>9, <1>10 DEF Inv

LEMMA SubmitTaskInv ==
  ASSUME Inv, NEW t \in Tasks, SubmitTask(t)
  PROVE  Inv'
<1>1. record[t] = "absent" /\ toRestore = {}
  BY DEF SubmitTask, New, Idle
<1>2. coro[t] = "none" /\ ~Sched!Waiting(t) /\ retries[t] = Sched!Absent
  BY <1>1 DEF Inv, TypeOK, Phases, TaskPlacement, PostIsDone, RetriesKnown
<1>3. /\ row' \in [Tasks -> Statuses] /\ faults' \in Nat
      /\ \A u \in Tasks \ {t} : row'[u] = row[u]
  <2>1. Persist(t, "queued", 0) /\ "queued" \in Statuses
    BY DEF SubmitTask, Statuses
  <2> QED BY <2>1, PersistDoes DEF Inv
<1>4. toRestore' = toRestore \ {t} /\ UNCHANGED <<ready, loop>>
  BY <1>1 DEF SubmitTask, loopVars
<1> QED BY <1>1, <1>2, <1>3, <1>4, EnteringInv DEF SubmitTask

LEMMA RestoreInv ==
  ASSUME Inv, NEW t \in Tasks, Restore(t)
  PROVE  Inv'
<1>1. t \in toRestore /\ toRestore' = toRestore \ {t} /\ Sched!Enqueue(t)
      /\ UNCHANGED <<ready, loop, poolVars, history, registered, coro, crashes>>
      /\ UNCHANGED <<record, row, faults>>
  BY DEF Restore, dataVars
<1>2. coro[t] = "none" /\ retries[t] = Sched!Absent
  BY <1>1 DEF Inv, RestoringAlone, RetriesKnown
<1>3. ~Sched!Waiting(t) /\ record[t] \in {"queued", "retrying"}
  BY <1>1, <1>2 DEF Inv, TaskPlacement
<1>4. row' \in [Tasks -> Statuses] /\ faults' \in Nat
  BY <1>1 DEF Inv, TypeOK
<1> QED BY <1>1, <1>2, <1>3, <1>4, EnteringInv

LEMMA DispatchInv ==
  ASSUME Inv, NEW t \in Tasks, Dispatch(t)
  PROVE  Inv'
<1>1. /\ TypeOK /\ OneTuple /\ TaskPlacement /\ WaitsAlone /\ ReadyDistinct
      /\ toRestore = {} /\ loop' = "draining" /\ ready' = Append(ready, t)
      /\ coro' = [coro EXCEPT ![t] = "created"]
      /\ UNCHANGED <<toRestore, pool, threads, outcome>>
      /\ UNCHANGED <<record, row, faults, history, registered, crashes>>
      /\ ready \in Seq(Tasks) /\ coro \in [Tasks -> Phases]
  BY DEF Inv, TypeOK, Dispatch, Polling, Become, poolVars, dataVars
<1>2. /\ Sched!TypeOK' /\ OneTuple'
      /\ inFlight' = inFlight \cup {t} /\ retries' = retries
      /\ Sched!Waiting(t)
      /\ \A u \in Tasks : Sched!Waiting(u)' <=> Sched!Waiting(u) /\ u # t
  BY <1>1, DequeueTaskDoes DEF Dispatch
<1>3. coro[t] = "none" /\ ~Created(t) /\ record[t] \in {"queued", "retrying"}
  BY <1>1, <1>2 DEF TaskPlacement, WaitsAlone
<1>4. /\ ready' \in Seq(Tasks) /\ Len(ready') = Len(ready) + 1 /\ Len(ready) \in Nat
      /\ ready'[Len(ready) + 1] = t
      /\ \A i \in 1 .. Len(ready) : ready'[i] = ready[i] /\ ready[i] # t
      /\ \A i \in 1 .. Len(ready') : i = Len(ready) + 1 \/ i \in 1 .. Len(ready)
  BY <1>1, <1>3 DEF Created
<1>5. TypeOK'
  BY <1>1, <1>2, <1>4 DEF TypeOK, Phases
<1>6. \A u \in Tasks : Created(u)' <=> Created(u) \/ u = t
  <2>1. Created(t)'
    BY <1>4 DEF Created
  <2>2. ASSUME NEW u \in Tasks, Created(u) PROVE Created(u)'
    BY <1>4, <2>2 DEF Created
  <2>3. ASSUME NEW u \in Tasks, u # t, Created(u)' PROVE Created(u)
    BY <1>4, <2>3 DEF Created
  <2> QED BY <2>1, <2>2, <2>3
<1>7. TaskPlacement' /\ WaitsAlone'
  <2> SUFFICES ASSUME NEW u \in Tasks PROVE TaskPlacement!(u)' /\ WaitsAlone!(u)'
    BY DEF TaskPlacement, WaitsAlone
  <2>1. CASE u = t
    BY <1>1, <1>2, <1>3, <1>6, <2>1
  <2>2. CASE u # t
    BY <1>1, <1>2, <1>6, <2>2 DEF TaskPlacement, WaitsAlone
  <2> QED BY <2>1, <2>2
<1>8. ReadyDistinct'
  BY <1>1, <1>4 DEF ReadyDistinct
<1>9. RestoringAlone' /\ PostIsDone' /\ CompletedIsDurable'
  BY <1>1 DEF Inv, RestoringAlone, PostIsDone, CompletedIsDurable
<1>10. RetriesKnown'
  BY <1>1, <1>2 DEF Inv, RetriesKnown
<1>11. AwaitedWork' /\ NoForgottenCall'
  BY <1>1, <1>2, <1>3, CallsUntouched DEF poolVars
<1> QED BY <1>2, <1>5, <1>7, <1>8, <1>9, <1>10, <1>11 DEF Inv

LEMMA SleepInv ==
  ASSUME Inv, Sleep
  PROVE  Inv'
<1>1. UNCHANGED queueVars
  BY DequeueNoneDoes DEF Inv, Sleep
<1> QED BY <1>1, FrameInv DEF Sleep, Inv, TypeOK, dataVars

LEMMA LoopDiesInv ==
  ASSUME Inv, LoopDies
  PROVE  Inv'
BY FrameInv DEF LoopDies, Inv, TypeOK, dataVars

LEMMA DeleteAgentInv ==
  ASSUME Inv, NEW a \in Agents, DeleteAgent(a)
  PROVE  Inv'
BY FrameInv DEF DeleteAgent, Inv, TypeOK, loopVars

\* From registry.get on, with or without a pre_execute hook before it.
LEMMA CallAgentInv ==
  ASSUME Inv, NEW t \in Tasks, toRestore = {}, coro[t] \in {"created", "pre"}, CallAgent(t),
         ready' \in Seq(Tasks), ReadyDistinct',
         \A u \in Tasks : Created(u)' <=> Created(u) /\ u # t,
         UNCHANGED <<loop, toRestore, threads, outcome, registered, crashes>>
  PROVE  Inv'
<1>1. CASE /\ pool' = Append(pool, [task |-> t, try |-> retries[t]])
           /\ Become(t, "awaiting") /\ Record(t, "running")
           /\ UNCHANGED <<queueVars, row, faults, history>>
  BY <1>1, CallInv
<1>2. CASE (\E n \in {0, 1} : AttemptFails(t, n)) /\ UNCHANGED pool
  <2>1. outcome[t] = "none" /\ outcome \in [Tasks -> Outcomes \cup {"none"}]
    BY DEF Inv, AwaitedWork, TypeOK
  <2>2. outcome' = [outcome EXCEPT ![t] = "none"]
    BY <2>1
  <2> QED BY <1>2, <2>2, FailureInv
<1>3. (IF AgentOf[t] \in registered THEN 1 ELSE 0) \in {0, 1}
  OBVIOUS
<1> QED BY <1>1, <1>2, <1>3 DEF CallAgent

LEMMA BeginInv ==
  ASSUME Inv, NEW t \in Tasks, Begin(t)
  PROVE  Inv'
<1>1. /\ Head(ready) = t /\ toRestore = {} /\ Created(t)
      /\ ready' \in Seq(Tasks) /\ ReadyDistinct'
      /\ \A u \in Tasks : Created(u)' <=> Created(u) /\ u # t
      /\ UNCHANGED <<loop, toRestore, threads, outcome, registered, crashes>>
  BY OldestBegins DEF Begin, Idle
<1>2. coro[t] = "created" /\ t \in inFlight
  BY <1>1 DEF Inv, TaskPlacement
<1>3. CASE "pre_execute" \in Hooks
  <2>1. /\ Record(t, "running") /\ Become(t, "pre")
        /\ UNCHANGED <<queueVars, row, faults, history>> /\ UNCHANGED poolVars
    BY <1>1, <1>3 DEF Begin, poolVars
  <2> QED BY <1>1, <1>2, <2>1, PhaseInv
<1>4. CASE "pre_execute" \notin Hooks
  BY <1>1, <1>2, <1>4, CallAgentInv DEF Begin
<1> QED BY <1>3, <1>4

\* A coroutine that is past its beginning is not in the event loop's queue.
LEMMA BegunBefore ==
  ASSUME Inv, NEW t \in Tasks, coro[t] # "created", UNCHANGED ready
  PROVE  /\ ready' \in Seq(Tasks) /\ ReadyDistinct'
         /\ \A u \in Tasks : Created(u)' <=> Created(u) /\ u # t
<1>1. ~Created(t)
  BY DEF Inv, TaskPlacement
<1>2. \A u \in Tasks : Created(u)' <=> Created(u)
  BY DEF Created
<1> QED BY <1>1, <1>2 DEF Inv, TypeOK, ReadyDistinct

LEMMA PreHookReturnsInv ==
  ASSUME Inv, NEW t \in Tasks, PreHookReturns(t)
  PROVE  Inv'
<1>1. /\ toRestore = {} /\ coro[t] = "pre" /\ CallAgent(t) /\ UNCHANGED <<loop, ready, toRestore>>
      /\ UNCHANGED <<threads, outcome, registered, crashes>>
  BY DEF PreHookReturns, Idle, loopVars
<1> QED BY <1>1, BegunBefore, CallAgentInv

LEMMA PreHookRaisesInv ==
  ASSUME Inv, NEW t \in Tasks, PreHookRaises(t)
  PROVE  Inv'
<1>1. /\ coro[t] = "pre" /\ Become(t, "dead")
      /\ UNCHANGED <<queueVars, loop, ready, toRestore, poolVars>>
      /\ UNCHANGED <<record, row, faults, history, registered, crashes>>
  BY DEF PreHookRaises, loopVars, dataVars
<1>2. t \in inFlight /\ record[t] = "running"
  BY <1>1 DEF Inv, TaskPlacement
<1>3. Record(t, "running")
  BY <1>1, <1>2 DEF Inv, TypeOK, Record
<1> QED BY <1>1, <1>2, <1>3, BegunBefore, PhaseInv

LEMMA PostHookReturnsInv ==
  ASSUME Inv, NEW t \in Tasks, PostHookReturns(t)
  PROVE  Inv'
<1>1. /\ coro[t] = "post" /\ Become(t, "none")
      /\ UNCHANGED <<queueVars, loop, ready, toRestore, poolVars>>
      /\ UNCHANGED <<record, row, faults, history, registered, crashes>>
  BY DEF PostHookReturns, loopVars, dataVars
<1>2. t \notin inFlight /\ record[t] = "completed"
  BY <1>1 DEF Inv, TaskPlacement, PostIsDone
<1>3. Record(t, "completed")
  BY <1>1, <1>2 DEF Inv, TypeOK, Record
<1> QED BY <1>1, <1>2, <1>3, BegunBefore, PhaseInv

LEMMA PostHookRaisesInv ==
  ASSUME Inv, NEW t \in Tasks, PostHookRaises(t)
  PROVE  Inv'
<1>1. /\ toRestore = {} /\ coro[t] = "post" /\ AttemptFails(t, 0)
      /\ UNCHANGED <<loop, ready, toRestore, pool, threads, outcome, registered, crashes>>
  BY DEF PostHookRaises, Idle, loopVars, poolVars
<1>2. outcome' = [outcome EXCEPT ![t] = "none"]
  <2>1. outcome[t] = "none" /\ outcome \in [Tasks -> Outcomes \cup {"none"}]
    BY <1>1 DEF Inv, AwaitedWork, TypeOK
  <2> QED BY <1>1, <2>1
<1> QED BY <1>1, <1>2, BegunBefore, FailureInv

LEMMA TimeoutInv ==
  ASSUME Inv, NEW t \in Tasks, Timeout(t)
  PROVE  Inv'
<1>1. /\ toRestore = {} /\ coro[t] = "awaiting" /\ \E n \in {0, 1} : AttemptFails(t, n)
      /\ outcome' = [outcome EXCEPT ![t] = "none"]
      /\ UNCHANGED <<loop, ready, toRestore, pool, threads, registered, crashes>>
  BY DEF Timeout, TimerRuns, Idle, loopVars
<1> QED BY <1>1, BegunBefore, FailureInv

LEMMA ResumeInv ==
  ASSUME Inv, NEW t \in Tasks, Resume(t)
  PROVE  Inv'
<1>1. /\ toRestore = {} /\ coro[t] = "awaiting"
      /\ outcome' = [outcome EXCEPT ![t] = "none"]
      /\ UNCHANGED <<loopVars, pool, threads, registered, crashes>>
      /\ UNCHANGED <<loop, ready, toRestore>>
      /\ row \in [Tasks -> Statuses] /\ faults \in Nat
      /\ TypeOK
  BY DEF Resume, Idle, loopVars, Inv, TypeOK
<1>2. CASE Complete(t)
  <2>1. /\ outcome[t] # "none" /\ Sched!Complete(t) /\ Record(t, "completed")
        /\ row' = [row EXCEPT ![t] = "completed"] /\ faults' = faults
        /\ Count(t, FinalEnds("completed"))
        /\ \E phase \in {"none", "post"} :
             Become(t, phase) /\ (phase = "post" => "post_execute" \in Hooks)
    BY <1>2 DEF Complete, StoredFirst
  <2>2. "completed" \in Finished /\ "completed" \in Statuses /\ FinalEnds("completed") \in Seq(Finished)
    BY FinalEndsType DEF Finished, Statuses
  <2>3. row' \in [Tasks -> Statuses] /\ row'[t] = "completed" /\ \A u \in Tasks \ {t} : row'[u] = row[u]
    BY <1>1, <2>1, <2>2
  <2> QED BY <1>1, <2>1, <2>2, <2>3, CompletionInv
<1>3. CASE CompletedThenFails(t)
  <2>1. /\ outcome[t] # "none" /\ Sched!Complete(t) /\ Record(t, "failed")
        /\ Count(t, <<"completed", "failed">>) /\ Become(t, "none")
    BY <1>3 DEF CompletedThenFails
  <2>2. /\ row' \in [Tasks -> Statuses] /\ faults' \in Nat
        /\ \A u \in Tasks \ {t} : row'[u] = row[u]
    <3>1. CASE UNCHANGED <<row, faults>>
      BY <1>1, <3>1
    <3>2. CASE Persist(t, "failed", 1)
      <4>1. "failed" \in Statuses
        BY DEF Statuses
      <4> QED BY <1>1, <3>2, <4>1, PersistDoes
    <3>3. CASE row' = [row EXCEPT ![t] = "completed"] /\ faults' = faults + 2
      BY <1>1, <3>3 DEF Statuses
    <3> QED BY <1>3, <3>1, <3>2, <3>3 DEF CompletedThenFails
  <2>3. "failed" \in Finished /\ <<"completed", "failed">> \in Seq(Finished)
    BY DEF Finished
  <2> QED BY <1>1, <2>1, <2>2, <2>3, CompletionInv
<1>4. CASE \E n \in {0, 1} : AttemptFails(t, n)
  BY <1>1, <1>4, BegunBefore, FailureInv
<1> QED BY <1>2, <1>3, <1>4 DEF Resume

\* The threads leave everything alone but the calls.
LEMMA ThreadsInv ==
  ASSUME Inv, pool' \in Seq(WorkItems), threads' \in SUBSET WorkItems,
         outcome' \in [Tasks -> Outcomes \cup {"none"}],
         toRestore = {} \/ (pool' = <<>> /\ threads' = {}),
         AwaitedWork', NoForgottenCall',
         UNCHANGED <<queueVars, loopVars, dataVars, coro, crashes>>
  PROVE  Inv'
<1>1. /\ TypeOK
      /\ UNCHANGED <<heap, counter, inFlight, retries, ready, loop, toRestore>>
      /\ UNCHANGED <<record, row, faults, history, registered, coro, crashes>>
  BY DEF Inv, queueVars, loopVars, dataVars
<1>2. TypeOK'
  <2>1. Sched!TypeOK'
    BY <1>1 DEF TypeOK, Sched!TypeOK
  <2> QED BY <1>1, <2>1 DEF TypeOK
<1>3. OneTuple' /\ \A u \in Tasks : (Sched!Waiting(u)' <=> Sched!Waiting(u))
                                    /\ (Created(u)' <=> Created(u))
  BY <1>1 DEF Inv, OneTuple, Sched!Waiting, Created
<1>4. TaskPlacement' /\ WaitsAlone'
  BY <1>1, <1>3 DEF Inv, TaskPlacement, WaitsAlone
<1>5. ReadyDistinct' /\ RestoringAlone' /\ PostIsDone' /\ CompletedIsDurable'
  BY <1>1 DEF Inv, ReadyDistinct, RestoringAlone, PostIsDone, CompletedIsDurable
<1>6. RetriesKnown'
  BY <1>1, <1>3 DEF Inv, RetriesKnown
<1> QED BY <1>2, <1>3, <1>4, <1>5, <1>6 DEF Inv

LEMMA TakeWorkInv ==
  ASSUME Inv, TakeWork
  PROVE  Inv'
<1> DEFINE h == Head(pool)
<1>1. /\ AwaitedWork /\ NoForgottenCall /\ pool \in Seq(WorkItems) /\ pool # <<>>
      /\ threads \in SUBSET WorkItems /\ outcome \in [Tasks -> Outcomes \cup {"none"}]
      /\ pool' = Tail(pool)
      /\ threads' = IF Awaited(h) THEN threads \cup {h} ELSE threads
      /\ outcome' = outcome /\ coro' = coro /\ retries' = retries
      /\ UNCHANGED <<queueVars, loopVars, dataVars, coro, crashes>>
  BY DEF Inv, TypeOK, TakeWork, queueVars
<1>2. /\ h \in WorkItems /\ h = pool[1] /\ 1 \in 1 .. Len(pool) /\ Len(pool) \in Nat
      /\ pool' \in Seq(WorkItems) /\ Len(pool') = Len(pool) - 1
      /\ \A i \in 1 .. Len(pool') : pool'[i] = pool[i + 1] /\ i + 1 \in 1 .. Len(pool)
      /\ \A i \in 1 .. Len(pool) : pool[i] \in WorkItems
  BY <1>1
<1>3. PICK w0 \in WorkItems : w0 = h
  BY <1>2
<1> HIDE DEF h
<1>4. toRestore = {}
  BY <1>1 DEF Inv, RestoringAlone
<1>5. threads' \in SUBSET WorkItems /\ \A w \in threads' : w \in threads \/ (w = w0 /\ Awaited(w0))
  BY <1>1, <1>2, <1>3
<1>6. \A w \in WorkItems : (Awaited(w)' <=> Awaited(w)) /\ (StaleOrAwaited(w)' <=> StaleOrAwaited(w))
  BY <1>1 DEF Awaited, StaleOrAwaited
<1>7. NoForgottenCall'
  <2>1. \A i \in 1 .. Len(pool') : StaleOrAwaited(pool[i])'
    <3> SUFFICES ASSUME NEW i \in 1 .. Len(pool') PROVE StaleOrAwaited(pool[i])'
      OBVIOUS
    <3>1. StaleOrAwaited(pool[i + 1])
      BY <1>1, <1>2 DEF NoForgottenCall
    <3> QED BY <1>1, <1>2, <3>1 DEF StaleOrAwaited
  <2>2. \A w \in threads' : StaleOrAwaited(w)'
    BY <1>1, <1>2, <1>3, <1>5, <1>6 DEF NoForgottenCall
  <2> QED BY <2>1, <2>2 DEF NoForgottenCall
<1>8. \A i, j \in 1 .. Len(pool) : pool[i] = pool[j] => i = j
  BY <1>1, <1>3 DEF AwaitedWork, WorkItems
<1>9. \A i, j \in 1 .. Len(pool') : pool'[i] = pool'[j] => i = j
  <2> SUFFICES ASSUME NEW i \in 1 .. Len(pool'), NEW j \in 1 .. Len(pool'), pool'[i] = pool'[j]
               PROVE  i = j
    OBVIOUS
  <2>1. i + 1 = j + 1
    BY <1>2, <1>8
  <2> QED BY <2>1
<1>10. ASSUME NEW u \in Tasks
       PROVE  InPool(u)' <=> \E i \in 2 .. Len(pool) : pool[i].task = u /\ Awaited(pool[i])
  <2>1. ASSUME InPool(u)' PROVE \E i \in 2 .. Len(pool) : pool[i].task = u /\ Awaited(pool[i])
    <3>1. PICK i \in 1 .. Len(pool') : pool'[i].task = u /\ Awaited(pool[i])'
      BY <2>1 DEF InPool
    <3>2. i + 1 \in 2 .. Len(pool) /\ pool'[i] = pool[i + 1]
      BY <1>2
    <3> QED BY <1>1, <3>1, <3>2 DEF Awaited
  <2>2. ASSUME NEW i \in 2 .. Len(pool), pool[i].task = u, Awaited(pool[i]) PROVE InPool(u)'
    <3>1. i - 1 \in 1 .. Len(pool') /\ (i - 1) + 1 = i
      BY <1>2
    <3>2. pool'[i - 1] = pool[i]
      BY <1>2, <3>1
    <3> QED BY <1>1, <2>2, <3>1, <3>2 DEF InPool, Awaited
  <2> QED BY <2>1, <2>2
<1>11. ASSUME NEW u \in Tasks
       PROVE  Working(u)' <=> Working(u) \/ (w0.task = u /\ Awaited(w0))
  BY <1>1, <1>3, <1>5, <1>6 DEF Working
<1>12. ASSUME NEW u \in Tasks
       PROVE  InPool(u) <=> InPool(u)' \/ (w0.task = u /\ Awaited(w0))
  BY <1>2, <1>3, <1>10 DEF InPool
<1>13. ASSUME NEW u \in Tasks, w0.task = u, Awaited(w0) PROVE ~InPool(u)'
  <2> SUFFICES ASSUME NEW i \in 2 .. Len(pool), pool[i].task = u, Awaited(pool[i]) PROVE FALSE
    BY <1>10
  <2>1. pool[i] = pool[1]
    BY <1>2, <1>3, <1>13 DEF Awaited, WorkItems
  <2> QED BY <1>2, <1>8, <2>1
<1>14. AwaitedWork'
  <2> SUFFICES ASSUME NEW u \in Tasks PROVE AwaitedWork!(u)'
    BY DEF AwaitedWork
  <2>1. CASE w0.task = u /\ Awaited(w0)
    BY <1>1, <1>9, <1>11, <1>12, <1>13, <2>1 DEF AwaitedWork
  <2>2. CASE ~(w0.task = u /\ Awaited(w0))
    BY <1>1, <1>9, <1>11, <1>12, <2>2 DEF AwaitedWork
  <2> QED BY <2>1, <2>2
<1> QED BY <1>1, <1>2, <1>4, <1>5, <1>7, <1>14, ThreadsInv

LEMMA HandlerEndsInv ==
  ASSUME Inv, NEW w0 \in threads, HandlerEnds(w0)
  PROVE  Inv'
<1>1. /\ AwaitedWork /\ NoForgottenCall /\ pool \in Seq(WorkItems) /\ threads \in SUBSET WorkItems
      /\ outcome \in [Tasks -> Outcomes \cup {"none"}] /\ w0 \in WorkItems
      /\ threads' = threads \ {w0}
      /\ pool' = pool /\ coro' = coro /\ retries' = retries
      /\ UNCHANGED <<queueVars, loopVars, dataVars, coro, crashes>>
  BY DEF Inv, TypeOK, HandlerEnds, queueVars
<1>2. PICK o \in Outcomes :
        outcome' = IF Awaited(w0) THEN [outcome EXCEPT ![w0.task] = o] ELSE outcome
  BY DEF HandlerEnds
<1>3. o # "none" /\ w0.task \in Tasks /\ outcome' \in [Tasks -> Outcomes \cup {"none"}]
  BY <1>1, <1>2, ExecutionAssumption DEF WorkItems
<1>4. toRestore = {}
  BY DEF Inv, RestoringAlone
<1>5. \A w \in WorkItems : (Awaited(w)' <=> Awaited(w)) /\ (StaleOrAwaited(w)' <=> StaleOrAwaited(w))
  BY <1>1 DEF Awaited, StaleOrAwaited
<1>6. NoForgottenCall'
  BY <1>1, <1>5 DEF NoForgottenCall
<1>7. ASSUME NEW u \in Tasks PROVE InPool(u)' <=> InPool(u)
  BY <1>1, <1>5 DEF InPool
<1>8. AwaitedWork'
  <2> SUFFICES ASSUME NEW u \in Tasks PROVE AwaitedWork!(u)'
    BY DEF AwaitedWork
  <2>1. CASE w0.task = u /\ Awaited(w0)
    <3>1. Working(u) /\ coro[u] = "awaiting"
      BY <2>1 DEF Working, Awaited
    <3>2. ~InPool(u)
      BY <1>1, <3>1 DEF AwaitedWork
    <3>3. ~Working(u)'
      BY <1>1, <1>5, <2>1 DEF Working, Awaited, WorkItems
    <3> QED BY <1>1, <1>2, <1>3, <1>7, <2>1, <3>1, <3>2, <3>3 DEF AwaitedWork
  <2>2. CASE ~(w0.task = u /\ Awaited(w0))
    <3>1. Working(u)' <=> Working(u)
      BY <1>1, <1>5, <2>2 DEF Working
    <3>2. outcome'[u] = outcome[u]
      BY <1>1, <1>2, <1>3, <2>2
    <3> QED BY <1>1, <1>7, <3>1, <3>2 DEF AwaitedWork
  <2> QED BY <2>1, <2>2
<1> QED BY <1>1, <1>3, <1>4, <1>6, <1>8, ThreadsInv

LEMMA CrashInv ==
  ASSUME Inv, Crash
  PROVE  Inv'
<1>1. /\ heap' = [q \in Queues |-> {}] /\ counter' = [q \in Queues |-> 0] /\ inFlight' = {}
      /\ retries' = [t \in Tasks |-> Sched!Absent]
  BY DEF Crash, Sched!Restart
<1>2. /\ record' = [t \in Tasks |-> IF Reload(t) THEN "queued" ELSE row[t]]
      /\ toRestore' = {t \in Tasks : Reload(t)}
      /\ ready' = <<>> /\ pool' = <<>> /\ threads' = {}
      /\ coro' = [t \in Tasks |-> "none"] /\ outcome' = [t \in Tasks |-> "none"]
      /\ history' = <<>>
      /\ row' = row /\ row \in [Tasks -> Statuses]
  BY DEF Crash, Inv, TypeOK
<1>3. TypeOK'
  <2>1. Sched!TypeOK'
    BY <1>1 DEF Inv, TypeOK, Sched!TypeOK
  <2>2. <<>> \in Seq(Tasks) /\ <<>> \in Seq(WorkItems) /\ <<>> \in Seq(Endings)
    OBVIOUS
  <2>3. record' \in [Tasks -> Statuses] /\ coro' \in [Tasks -> Phases]
    BY <1>2 DEF Statuses, Phases
  <2>4. /\ history' \in Seq(Endings) /\ outcome' \in [Tasks -> Outcomes \cup {"none"}]
        /\ toRestore' \in SUBSET Tasks
    BY <1>2, <2>2
  <2>5. /\ loop' = "asleep" /\ UNCHANGED <<row, faults, registered>>
        /\ crashes' \in Nat /\ faults \in Nat /\ registered \in SUBSET Agents
    BY DEF Inv, TypeOK, Crash
  <2> QED BY <1>2, <2>1, <2>2, <2>3, <2>4, <2>5 DEF TypeOK
<1>4. \A t \in Tasks : ~Sched!Waiting(t)' /\ ~Created(t)'
  BY <1>1, <1>2 DEF Sched!Waiting, Created
<1>5. OneTuple' /\ TaskPlacement' /\ WaitsAlone' /\ ReadyDistinct'
  BY <1>1, <1>2, <1>4 DEF OneTuple, TaskPlacement, WaitsAlone, ReadyDistinct, Reload, Unfinished
<1>6. RestoringAlone' /\ PostIsDone' /\ CompletedIsDurable'
  BY <1>2 DEF RestoringAlone, PostIsDone, CompletedIsDurable, Reload, Unfinished
<1>7. RetriesKnown' /\ AwaitedWork' /\ NoForgottenCall'
  BY <1>1, <1>2, <1>4 DEF RetriesKnown, AwaitedWork, NoForgottenCall
<1> QED BY <1>3, <1>5, <1>6, <1>7 DEF Inv

LEMMA NextInv == Inv /\ [Next]_vars => Inv'
<1> SUFFICES ASSUME Inv, [Next]_vars PROVE Inv'
  OBVIOUS
<1>1. ASSUME NEW t \in Tasks, SubmitTask(t) PROVE Inv'
  BY <1>1, SubmitTaskInv
<1>2. ASSUME NEW t \in Tasks, Dispatch(t) PROVE Inv'
  BY <1>2, DispatchInv
<1>3. ASSUME NEW t \in Tasks, Begin(t) PROVE Inv'
  BY <1>3, BeginInv
<1>4. ASSUME NEW t \in Tasks, PreHookReturns(t) \/ PreHookRaises(t) PROVE Inv'
  BY <1>4, PreHookReturnsInv, PreHookRaisesInv
<1>5. ASSUME NEW t \in Tasks, Resume(t) PROVE Inv'
  BY <1>5, ResumeInv
<1>6. ASSUME NEW t \in Tasks, Timeout(t) PROVE Inv'
  BY <1>6, TimeoutInv
<1>7. ASSUME NEW t \in Tasks, PostHookReturns(t) \/ PostHookRaises(t) PROVE Inv'
  BY <1>7, PostHookReturnsInv, PostHookRaisesInv
<1>8. ASSUME NEW t \in Tasks, Restore(t) PROVE Inv'
  BY <1>8, RestoreInv
<1>9. ASSUME NEW a \in Agents, DeleteAgent(a) PROVE Inv'
  BY <1>9, DeleteAgentInv
<1>10. ASSUME NEW w \in threads, HandlerEnds(w) PROVE Inv'
  BY <1>10, HandlerEndsInv
<1>11. CASE Sleep \/ LoopDies \/ TakeWork \/ Crash
  BY <1>11, SleepInv, LoopDiesInv, TakeWorkInv, CrashInv
<1>12. CASE UNCHANGED vars
  <2>1. /\ UNCHANGED <<queueVars, poolVars, coro, crashes>> /\ UNCHANGED <<ready, loop, toRestore>>
        /\ UNCHANGED <<record, row, faults, history, registered>>
    BY <1>12 DEF vars, loopVars, dataVars
  <2> QED BY <2>1, FrameInv DEF Inv, TypeOK
<1> QED BY <1>1, <1>2, <1>3, <1>4, <1>5, <1>6, <1>7, <1>8, <1>9, <1>10, <1>11, <1>12 DEF Next

\* Whatever hooks raise, handlers do, writes fail and processes die, the
\* engine keeps the inductive invariant: what a record says is where its task
\* is, and every awaited call has one live work item.
THEOREM ExecutionInvariant == Spec => []Inv
<1> QED BY InitInv, NextInv, PTL DEF Spec

\* Every variable keeps its type.
THEOREM ExecutionTypes == Spec => []TypeOK
<1>1. Inv => TypeOK
  BY DEF Inv
<1> QED BY <1>1, ExecutionInvariant, PTL

\* The queue, the in-flight table, the coroutines and the records that
\* clients read never disagree about a task (submit_task, start,
\* _execute_task and _restore_state).
THEOREM TasksArePlaced == Spec => []TaskPlacement
<1>1. Inv => TaskPlacement
  BY DEF Inv
<1> QED BY <1>1, ExecutionInvariant, PTL

\* Every wait_for has exactly one live call in the thread pool, however many
\* cancelled calls of earlier attempts are still in it.
THEOREM AwaitedCallsLive == Spec => []AwaitedWork
<1>1. Inv => AwaitedWork
  BY DEF Inv
<1> QED BY <1>1, ExecutionInvariant, PTL

\* A result that clients read as completed is in the store.
THEOREM CompletedResultsAreDurable == Spec => []CompletedIsDurable
<1>1. Inv => CompletedIsDurable
  BY DEF Inv
<1> QED BY <1>1, ExecutionInvariant, PTL

(***************************************************************************)
(* The engine implements TaskScheduler.                                    *)
(***************************************************************************)
LEMMA LeavesScheduler ==
  ASSUME UNCHANGED queueVars
  PROVE  [Sched!Next]_(Sched!schedVars)
BY DEF queueVars, Sched!schedVars

LEMMA CallsScheduler ==
  ASSUME NEW t \in Tasks,
         \/ Sched!Fresh(t) /\ Sched!Enqueue(t)
         \/ \E q \in Queues : Sched!DequeueTask(q, t) \/ Sched!DequeueNone(q)
         \/ Sched!Complete(t) \/ Sched!Fail(t)
  PROVE  Sched!Next
BY DEF Sched!Next, Sched!Dequeue

\* A task that is about to enter has not entered before.
LEMMA EntersFresh ==
  ASSUME Inv, NEW t \in Tasks, record[t] = "absent" \/ t \in toRestore
  PROVE  Sched!Fresh(t)
BY DEF Inv, RetriesKnown, Sched!Fresh, Sched!Delayed

LEMMA SchedulerStep == Inv /\ [Next]_vars => [Sched!Next]_(Sched!schedVars)
<1> SUFFICES ASSUME Inv, [Next]_vars PROVE [Sched!Next]_(Sched!schedVars)
  OBVIOUS
<1>1. ASSUME NEW t \in Tasks, SubmitTask(t) \/ Restore(t) PROVE Sched!Next
  <2>1. Sched!Fresh(t) /\ Sched!Enqueue(t)
    BY <1>1, EntersFresh DEF SubmitTask, New, Restore
  <2> QED BY <2>1, CallsScheduler
<1>2. ASSUME NEW t \in Tasks, Dispatch(t) PROVE Sched!Next
  <2>1. Sched!DequeueTask(DefaultQueue, t) /\ DefaultQueue \in Queues
    BY <1>2, ExecutionAssumption DEF Dispatch
  <2> QED BY <2>1, CallsScheduler
<1>3. CASE Sleep
  <2>1. UNCHANGED queueVars
    BY <1>3, DequeueNoneDoes DEF Inv, Sleep
  <2> QED BY <2>1, LeavesScheduler
<1>4. ASSUME NEW t \in Tasks, CallAgent(t) PROVE [Sched!Next]_(Sched!schedVars)
  <2>1. UNCHANGED queueVars \/ Sched!Fail(t)
    BY <1>4 DEF CallAgent, AttemptFails
  <2> QED BY <2>1, CallsScheduler, LeavesScheduler
<1>5. ASSUME NEW t \in Tasks, Begin(t) \/ PreHookReturns(t) PROVE [Sched!Next]_(Sched!schedVars)
  <2>1. UNCHANGED queueVars \/ CallAgent(t)
    BY <1>5 DEF Begin, PreHookReturns
  <2> QED BY <1>4, <2>1, LeavesScheduler
<1>6. ASSUME NEW t \in Tasks, Resume(t) PROVE Sched!Next
  <2>1. Sched!Complete(t) \/ Sched!Fail(t)
    BY <1>6 DEF Resume, Complete, CompletedThenFails, AttemptFails
  <2> QED BY <2>1, CallsScheduler
<1>7. ASSUME NEW t \in Tasks, Timeout(t) \/ PostHookRaises(t) PROVE Sched!Next
  <2>1. Sched!Fail(t)
    BY <1>7 DEF Timeout, PostHookRaises, AttemptFails
  <2> QED BY <2>1, CallsScheduler
<1>8. ASSUME NEW t \in Tasks, PreHookRaises(t) \/ PostHookReturns(t)
      PROVE  [Sched!Next]_(Sched!schedVars)
  BY <1>8, LeavesScheduler DEF PreHookRaises, PostHookReturns
<1>9. ASSUME NEW a \in Agents, DeleteAgent(a) PROVE [Sched!Next]_(Sched!schedVars)
  BY <1>9, LeavesScheduler DEF DeleteAgent
<1>10. ASSUME NEW w \in threads, HandlerEnds(w) PROVE [Sched!Next]_(Sched!schedVars)
  BY <1>10, LeavesScheduler DEF HandlerEnds
<1>11. CASE LoopDies \/ TakeWork \/ UNCHANGED vars
  BY <1>11, LeavesScheduler DEF LoopDies, TakeWork, vars
<1>12. CASE Crash
  BY <1>12 DEF Crash, Sched!Next
<1> QED BY <1>1, <1>2, <1>3, <1>5, <1>6, <1>7, <1>8, <1>9, <1>10, <1>11, <1>12 DEF Next

\* The engine implements the scheduler's specification: whatever hooks,
\* writes, timers and crashes do, it hands a task over once per process and
\* calls nothing else that the scheduler's proofs do not cover.
THEOREM EngineUsesScheduler == Spec => UsesScheduler
<1>1. Init => Sched!Init
  BY DEF Init
<1> QED BY <1>1, SchedulerStep, ExecutionInvariant, PTL DEF Spec, UsesScheduler, Sched!Spec

(***************************************************************************)
(* While no write raises and every result can be stored: what a step does  *)
(* to a task's record, its row and its retries, and to the history.        *)
(***************************************************************************)
WritesSucceed == MaxFaults = 0 /\ "unserializable" \notin Outcomes

Becomes(t, status) == record' = [record EXCEPT ![t] = status]
Stores(t, status) == row' = [row EXCEPT ![t] = status]

Enters(t) ==
  /\ record[t] = "absent" /\ retries[t] = Sched!Absent
  /\ Becomes(t, "queued") /\ Stores(t, "queued")
  /\ retries' = [retries EXCEPT ![t] = 0] /\ UNCHANGED <<history, crashes>>
Starts(t) ==
  /\ record[t] \in Unfinished
  /\ Becomes(t, "running")
  /\ UNCHANGED <<row, history, retries, crashes>>
Fails(t) ==
  LET status == IF retries[t] = MaxRetries THEN "failed" ELSE "retrying" IN
  /\ record[t] \in Unfinished /\ retries[t] \in 0 .. MaxRetries
  /\ Becomes(t, status) /\ Stores(t, status) /\ Count(t, FinalEnds(status))
  /\ retries' = [retries EXCEPT ![t] = @ + 1] /\ UNCHANGED crashes
Finishes(t) ==
  /\ record[t] = "running"
  /\ Becomes(t, "completed") /\ Stores(t, "completed") /\ Count(t, <<"completed">>)
  /\ UNCHANGED <<retries, crashes>>
FailsAfterAll(t) ==
  /\ record[t] = "completed" /\ "post_execute" \in Hooks
  /\ Becomes(t, "failed") /\ Stores(t, "failed") /\ Count(t, <<"failed">>)
  /\ UNCHANGED <<retries, crashes>>
Reenters(t) ==
  /\ retries[t] = Sched!Absent /\ retries' = [retries EXCEPT ![t] = 0]
  /\ UNCHANGED <<record, row, history, crashes>>

EngineMove ==
  \/ \E t \in Tasks : Enters(t) \/ Starts(t) \/ Fails(t) \/ Finishes(t) \/ FailsAfterAll(t) \/ Reenters(t)
  \/ Crash
  \/ UNCHANGED <<record, row, history, retries, crashes>>

LEMMA PersistStores ==
  ASSUME TypeOK, MaxFaults = 0, NEW t, NEW status, NEW n \in {0, 1}, Persist(t, status, n)
  PROVE  Stores(t, status)
BY DEF TypeOK, Persist, Upsert, Stores

LEMMA FailureMove ==
  ASSUME Inv, WritesSucceed, NEW t \in Tasks, NEW n \in {0, 1}, crashes' = crashes,
         coro[t] \in {"created", "pre", "awaiting", "post"}, AttemptFails(t, n)
  PROVE  IF coro[t] = "post" THEN FailsAfterAll(t) ELSE Fails(t)
<1> DEFINE ended == IF Sched!WillRetry(t) THEN "retrying" ELSE "failed"
<1>1. /\ TypeOK /\ TaskPlacement /\ RetriesKnown /\ PostIsDone /\ MaxRetries \in Nat
      /\ retries \in [Tasks -> Nat \cup {Sched!Absent}]
  BY ExecutionAssumption DEF Inv, TypeOK, Sched!TypeOK
<1>2. /\ retries' = [retries EXCEPT ![t] = IF coro[t] = "post" THEN @ ELSE @ + 1]
      /\ Sched!WillRetry(t) <=> coro[t] # "post" /\ retries[t] + 1 <= MaxRetries
  BY FailureInScheduler DEF AttemptFails
<1>3. Becomes(t, ended) /\ Stores(t, ended) /\ Count(t, FinalEnds(ended))
  <2>1. Record(t, ended) /\ Persist(t, ended, n) /\ Count(t, FinalEnds(ended))
    BY DEF AttemptFails
  <2> QED BY <1>1, <2>1, PersistStores DEF WritesSucceed, Record, Becomes
<1>4. CASE coro[t] = "post"
  <2>1. ended = "failed" /\ FinalEnds(ended) = <<"failed">>
    BY <1>2, <1>4 DEF FinalEnds, Finished
  <2>2. record[t] = "completed" /\ "post_execute" \in Hooks /\ retries' = retries
    BY <1>1, <1>2, <1>4 DEF PostIsDone
  <2> QED BY <1>3, <1>4, <2>1, <2>2 DEF FailsAfterAll
<1>5. CASE coro[t] # "post"
  <2>1. record[t] \in Unfinished /\ retries[t] \in 0 .. MaxRetries
    BY <1>1, <1>5 DEF TaskPlacement, RetriesKnown, Unfinished
  <2>2. ended = IF retries[t] = MaxRetries THEN "failed" ELSE "retrying"
    BY <1>1, <1>2, <1>5, <2>1
  <2> QED BY <1>2, <1>3, <1>5, <2>1, <2>2 DEF Fails
<1> QED BY <1>4, <1>5

LEMMA CallMove ==
  ASSUME Inv, WritesSucceed, NEW t \in Tasks, coro[t] \in {"created", "pre"}, CallAgent(t),
         crashes' = crashes
  PROVE  EngineMove
<1>1. CASE Record(t, "running") /\ UNCHANGED <<queueVars, row, faults, history>>
  <2>1. record[t] \in Unfinished
    BY DEF Inv, TaskPlacement, Unfinished
  <2> QED BY <1>1, <2>1 DEF EngineMove, Starts, Record, Becomes, queueVars
<1>2. CASE \E n \in {0, 1} : AttemptFails(t, n)
  BY <1>2, FailureMove DEF EngineMove
<1>3. (IF AgentOf[t] \in registered THEN 1 ELSE 0) \in {0, 1}
  OBVIOUS
<1> QED BY <1>1, <1>2, <1>3 DEF CallAgent

LEMMA CompleteMove ==
  ASSUME Inv, WritesSucceed, NEW t \in Tasks, coro[t] = "awaiting", Complete(t), crashes' = crashes
  PROVE  EngineMove
<1>1. record[t] = "running" /\ FinalEnds("completed") = <<"completed">>
  BY DEF Inv, TaskPlacement, FinalEnds, Finished
<1>2. Finishes(t)
  BY <1>1 DEF Complete, Finishes, Record, Becomes, StoredFirst, Stores, Sched!Complete
<1> QED BY <1>2 DEF EngineMove

LEMMA EngineMoves ==
  ASSUME Inv, WritesSucceed, [Next]_vars
  PROVE  EngineMove
<1>1. ASSUME NEW t \in Tasks, SubmitTask(t) PROVE EngineMove
  <2>1. record[t] = "absent" /\ retries[t] = Sched!Absent
    BY <1>1 DEF SubmitTask, New, Inv, RetriesKnown
  <2>2. Persist(t, "queued", 0) /\ TypeOK
    BY <1>1 DEF SubmitTask, Inv
  <2>3. Becomes(t, "queued") /\ Stores(t, "queued") /\ UNCHANGED <<history, crashes>>
    BY <1>1, <2>2, PersistStores DEF SubmitTask, Record, Becomes, WritesSucceed
  <2>4. retries' = [retries EXCEPT ![t] = 0]
    BY <1>1, <2>1 DEF SubmitTask, Sched!Enqueue
  <2> QED BY <2>1, <2>3, <2>4 DEF EngineMove, Enters
<1>2. ASSUME NEW t \in Tasks, Restore(t) PROVE EngineMove
  <2>1. retries[t] = Sched!Absent
    BY <1>2 DEF Restore, Inv, RetriesKnown
  <2>2. retries' = [retries EXCEPT ![t] = 0] /\ UNCHANGED <<record, row, history, crashes>>
    BY <1>2, <2>1 DEF Restore, Sched!Enqueue, dataVars
  <2> QED BY <2>1, <2>2 DEF EngineMove, Reenters
<1>3. ASSUME NEW t \in Tasks, Dispatch(t) PROVE EngineMove
  <2>1. retries' = retries
    BY <1>3, DequeueTaskDoes DEF Dispatch, Inv
  <2> QED BY <1>3, <2>1 DEF EngineMove, Dispatch, dataVars
<1>4. CASE Sleep
  <2>1. UNCHANGED queueVars
    BY <1>4, DequeueNoneDoes DEF Sleep, Inv
  <2> QED BY <1>4, <2>1 DEF EngineMove, Sleep, dataVars, queueVars
<1>5. ASSUME NEW t \in Tasks, Begin(t) PROVE EngineMove
  <2>1. coro[t] = "created" /\ record[t] \in Unfinished /\ crashes' = crashes
    BY <1>5, OldestBegins DEF Begin, Inv, TaskPlacement, Unfinished
  <2>2. CASE "pre_execute" \in Hooks
    BY <1>5, <2>1, <2>2 DEF EngineMove, Starts, Begin, Record, Becomes, queueVars
  <2>3. CASE "pre_execute" \notin Hooks
    BY <1>5, <2>1, <2>3, CallMove DEF Begin
  <2> QED BY <2>2, <2>3
<1>6. ASSUME NEW t \in Tasks, PreHookReturns(t) PROVE EngineMove
  BY <1>6, CallMove DEF PreHookReturns
<1>7. ASSUME NEW t \in Tasks, PreHookRaises(t) \/ PostHookReturns(t) PROVE EngineMove
  BY <1>7 DEF EngineMove, PreHookRaises, PostHookReturns, queueVars, dataVars
<1>8. ASSUME NEW t \in Tasks, Timeout(t) \/ PostHookRaises(t) PROVE EngineMove
  <2>1. coro[t] \in {"awaiting", "post"} /\ crashes' = crashes /\ \E n \in {0, 1} : AttemptFails(t, n)
    BY <1>8 DEF Timeout, TimerRuns, PostHookRaises
  <2> QED BY <2>1, FailureMove DEF EngineMove
<1>9. ASSUME NEW t \in Tasks, Resume(t) PROVE EngineMove
  <2>1. coro[t] = "awaiting" /\ crashes' = crashes
    BY <1>9 DEF Resume
  <2>2. CASE Complete(t)
    BY <2>1, <2>2, CompleteMove
  <2>3. CASE \E n \in {0, 1} : AttemptFails(t, n)
    BY <2>1, <2>3, FailureMove DEF EngineMove
  <2>4. ~CompletedThenFails(t)
    <3>1. outcome[t] # "unserializable" /\ faults \in Nat
      BY DEF Inv, TypeOK, WritesSucceed
    <3>2. ~Persist(t, "failed", 1) /\ ~(faults + 2 <= MaxFaults)
      BY <3>1 DEF Persist, Upsert, WritesSucceed
    <3> QED BY <3>1, <3>2 DEF CompletedThenFails
  <2> QED BY <1>9, <2>2, <2>3, <2>4 DEF Resume
<1>10. ASSUME NEW a \in Agents, DeleteAgent(a) PROVE EngineMove
  BY <1>10 DEF EngineMove, DeleteAgent, queueVars
<1>11. ASSUME NEW w \in threads, HandlerEnds(w) PROVE EngineMove
  BY <1>11 DEF EngineMove, HandlerEnds, queueVars, dataVars
<1>12. CASE LoopDies \/ TakeWork \/ UNCHANGED vars
  BY <1>12 DEF EngineMove, LoopDies, TakeWork, vars, queueVars, dataVars
<1>13. CASE Crash
  BY <1>13 DEF EngineMove
<1> QED BY <1>1, <1>2, <1>3, <1>4, <1>5, <1>6, <1>7, <1>8, <1>9, <1>10, <1>11, <1>12, <1>13 DEF Next

LEMMA RowsStep ==
  ASSUME Inv, RowFollowsRecord, WritesSucceed, [Next]_vars
  PROVE  RowFollowsRecord'
<1>1. /\ EngineMove
      /\ record \in [Tasks -> Statuses] /\ row \in [Tasks -> Statuses]
  BY EngineMoves DEF Inv, TypeOK
<1>2. ASSUME NEW t \in Tasks, Enters(t) \/ Fails(t) \/ Finishes(t) \/ FailsAfterAll(t)
      PROVE  RowFollowsRecord'
  <2>1. PICK status \in {"queued", "retrying", "failed", "completed"} :
          Becomes(t, status) /\ Stores(t, status)
    BY <1>2 DEF Enters, Fails, Finishes, FailsAfterAll
  <2> QED BY <1>1, <2>1 DEF RowFollowsRecord, Becomes, Stores, Finished, Unfinished
<1>3. ASSUME NEW t \in Tasks, Starts(t) PROVE RowFollowsRecord'
  BY <1>1, <1>3 DEF RowFollowsRecord, Starts, Becomes, Finished, Unfinished
<1>4. CASE UNCHANGED <<record, row>>
  BY <1>4 DEF RowFollowsRecord
<1>5. CASE Crash
  <2>1. row' = row /\ \A t \in Tasks : record'[t] = IF row[t] \in Unfinished THEN "queued" ELSE row[t]
    BY <1>5 DEF Crash, Reload
  <2> QED BY <1>1, <2>1 DEF RowFollowsRecord, Finished, Unfinished, Statuses
<1> QED BY <1>1, <1>2, <1>3, <1>4, <1>5 DEF EngineMove, Reenters

\* While the store takes every write and every result, what it holds never
\* lags behind the records, across restarts too, whatever the hooks raise.
THEOREM StoreFollowsRecords ==
  ASSUME MaxFaults = 0, "unserializable" \notin Outcomes
  PROVE  Spec => []RowFollowsRecord
<1>1. WritesSucceed
  BY DEF WritesSucceed
<1>2. Init => RowFollowsRecord
  BY DEF Init, RowFollowsRecord
<1>3. Inv /\ RowFollowsRecord /\ [Next]_vars => RowFollowsRecord'
  BY <1>1, RowsStep
<1> QED BY <1>2, <1>3, ExecutionInvariant, PTL DEF Spec

\* The deque never outgrows its bound.
HistoryFits == Len(history) <= MaxOutcomes

\* One outcome more, of a task that has none in the history yet.
LEMMA RememberedOnce ==
  ASSUME Inv, CountedOnce, HistoryFits, NEW t \in Tasks, record[t] \in Unfinished,
         NEW status \in Finished, Becomes(t, status), crashes' = crashes,
         history' = Remember(history, Ending(t, status))
  PROVE  CountedOnce' /\ HistoryFits'
<1>1. /\ history \in Seq(Endings) /\ record \in [Tasks -> Statuses] /\ Len(history) \in Nat
      /\ MaxOutcomes \in Nat \ {0}
  BY ExecutionAssumption DEF Inv, TypeOK
<1>2. PICK ending \in Endings :
        ending.task = t /\ ending.status = status /\ history' = Remember(history, ending)
  BY DEF Ending, Endings
<1>3. PICK k \in {0, 1} :
        /\ k = 1 <=> Len(history) >= MaxOutcomes
        /\ Len(history') = Len(history) + 1 - k
        /\ history'[Len(history) + 1 - k] = ending
        /\ \A i \in 1 .. Len(history) - k :
             i + k \in 1 .. Len(history) /\ history'[i] = history[i + k]
  <2> DEFINE longer == Remember(history, ending)
  <2>1. \E k \in {0, 1} :
          /\ k = 1 <=> Len(history) >= MaxOutcomes
          /\ Len(longer) = Len(history) + 1 - k
          /\ longer[Len(history) + 1 - k] = ending
          /\ \A i \in 1 .. Len(history) - k :
               i + k \in 1 .. Len(history) /\ longer[i] = history[i + k]
    BY <1>1, RememberDoes
  <2>2. history' = longer
    BY <1>2
  <2> HIDE DEF longer
  <2> QED BY <2>1, <2>2
<1>4. record'[t] = status /\ \A u \in Tasks \ {t} : record'[u] = record[u]
  BY <1>1 DEF Becomes
<1>5. \A i \in 1 .. Len(history) :
        history[i].task \in Tasks /\ history[i].task # t /\ record[history[i].task] = history[i].status
  <2> SUFFICES ASSUME NEW i \in 1 .. Len(history)
               PROVE  history[i].task \in Tasks /\ history[i].task # t
                      /\ record[history[i].task] = history[i].status
    OBVIOUS
  <2>1. history[i] \in Endings
    BY <1>1
  <2>2. history[i].task \in Tasks /\ history[i].status \in Finished
    BY <2>1 DEF Endings
  <2>3. record[history[i].task] = history[i].status
    BY DEF CountedOnce
  <2> QED BY <2>2, <2>3 DEF Unfinished, Finished
<1>6. HistoryFits'
  BY <1>1, <1>3 DEF HistoryFits
<1>7. \A i \in 1 .. Len(history') : i = Len(history) + 1 - k \/ i \in 1 .. Len(history) - k
  <2>1. Len(history') = Len(history) + 1 - k /\ k \in Int
    BY <1>3
  <2> QED BY <1>1, <2>1
<1>8. \A i \in 1 .. Len(history') : record'[history'[i].task] = history'[i].status
  BY <1>2, <1>3, <1>4, <1>5, <1>7
<1>9. ASSUME NEW i \in 1 .. Len(history'), NEW j \in 1 .. Len(history'),
             history'[i].task = history'[j].task
      PROVE  i = j
  <2>1. CASE i \in 1 .. Len(history) - k /\ j \in 1 .. Len(history) - k
    <3>1. i + k = j + k
      BY <1>3, <1>9, <2>1 DEF CountedOnce
    <3> QED BY <2>1, <3>1
  <2>2. CASE i \in 1 .. Len(history) - k /\ j = Len(history) + 1 - k
    BY <1>2, <1>3, <1>5, <1>9, <2>2
  <2>3. CASE i = Len(history) + 1 - k /\ j \in 1 .. Len(history) - k
    BY <1>2, <1>3, <1>5, <1>9, <2>3
  <2> QED BY <1>7, <2>1, <2>2, <2>3
<1>10. ASSUME NEW u \in Tasks, crashes' = 0, record'[u] \in Finished, Len(history') # MaxOutcomes
       PROVE  \E i \in 1 .. Len(history') : history'[i].task = u
  <2>1. k = 0 /\ Len(history) + 1 \in 1 .. Len(history')
    BY <1>1, <1>3, <1>10 DEF HistoryFits
  <2>2. CASE u = t
    BY <1>2, <1>3, <2>1, <2>2
  <2>3. CASE u # t
    <3>1. PICK i \in 1 .. Len(history) : history[i].task = u
      BY <1>1, <1>3, <1>4, <1>10, <2>1, <2>3 DEF CountedOnce
    <3>2. i \in 1 .. Len(history') /\ history'[i] = history[i]
      BY <1>1, <1>3, <2>1
    <3> QED BY <3>1, <3>2
  <2> QED BY <2>2, <2>3
<1> QED BY <1>6, <1>8, <1>9, <1>10 DEF CountedOnce

LEMMA CountsStep ==
  ASSUME Inv, RowFollowsRecord, CountedOnce, HistoryFits, WritesSucceed, "post_execute" \notin Hooks,
         [Next]_vars
  PROVE  CountedOnce' /\ HistoryFits'
<1>1. /\ EngineMove
      /\ record \in [Tasks -> Statuses] /\ history \in Seq(Endings)
  BY EngineMoves DEF Inv, TypeOK
<1>2. ASSUME NEW t \in Tasks, NEW status \in Statuses \ Finished, record[t] \notin Finished,
             Becomes(t, status), UNCHANGED <<history, crashes>>
      PROVE  CountedOnce' /\ HistoryFits'
  <2>1. ASSUME NEW i \in 1 .. Len(history)
        PROVE  record'[history[i].task] = history[i].status
    <3>1. history[i] \in Endings
      BY <1>1
    <3>2. history[i].task \in Tasks /\ history[i].status \in Finished
      BY <3>1 DEF Endings
    <3>3. record[history[i].task] = history[i].status
      BY DEF CountedOnce
    <3> QED BY <1>1, <1>2, <3>2, <3>3 DEF Becomes
  <2>2. \A u \in Tasks : record'[u] \in Finished => record[u] \in Finished
    BY <1>1, <1>2 DEF Becomes
  <2> QED BY <1>2, <2>1, <2>2 DEF CountedOnce, HistoryFits
<1>3. ASSUME NEW t \in Tasks, Enters(t) \/ Starts(t) PROVE CountedOnce' /\ HistoryFits'
  <2>1. PICK status \in {"queued", "running"} : Becomes(t, status)
    BY <1>3 DEF Enters, Starts
  <2>2. /\ status \in Statuses \ Finished /\ record[t] \notin Finished
        /\ UNCHANGED <<history, crashes>>
    BY <1>3 DEF Enters, Starts, Statuses, Finished, Unfinished
  <2> QED BY <1>2, <2>1, <2>2
<1>4. ASSUME NEW t \in Tasks, Fails(t) \/ Finishes(t) PROVE CountedOnce' /\ HistoryFits'
  <2>1. PICK status \in {"retrying", "failed", "completed"} :
          Becomes(t, status) /\ Count(t, FinalEnds(status)) /\ record[t] \in Unfinished
          /\ crashes' = crashes
    BY <1>4 DEF Fails, Finishes, Unfinished, FinalEnds, Finished
  <2>2. CASE status = "retrying"
    <3>1. history' = history
      BY <2>1, <2>2 DEF Count, FinalEnds, Finished
    <3>2. status \in Statuses \ Finished /\ record[t] \notin Finished
      BY <2>1, <2>2 DEF Statuses, Finished, Unfinished
    <3> QED BY <1>2, <2>1, <3>1, <3>2
  <2>3. CASE status \in Finished
    <3>1. FinalEnds(status) = <<status>>
      BY <2>3 DEF FinalEnds
    <3>2. history' = Remember(history, Ending(t, status))
      BY <2>1, <3>1 DEF Count
    <3> QED BY <2>1, <2>3, <3>2, RememberedOnce
  <2> QED BY <2>1, <2>2, <2>3 DEF Finished
<1>5. ASSUME NEW t \in Tasks, Reenters(t) PROVE CountedOnce' /\ HistoryFits'
  BY <1>5 DEF CountedOnce, HistoryFits, Reenters
<1>6. CASE UNCHANGED <<record, history, crashes>>
  BY <1>6 DEF CountedOnce, HistoryFits
<1>7. CASE Crash
  <2>1. history' = <<>> /\ crashes' # 0 /\ MaxOutcomes \in Nat
    BY <1>7, ExecutionAssumption DEF Crash, Inv, TypeOK
  <2> QED BY <2>1 DEF CountedOnce, HistoryFits
<1> QED BY <1>1, <1>3, <1>4, <1>5, <1>6, <1>7 DEF EngineMove, FailsAfterAll

\* With no post_execute hook either, the throughput history holds a task at
\* most once, as what it is recorded as, and no attempt that is retried; what
\* ended in this process is in it, unless the bounded deque (engine.py:48) is
\* full and may have dropped it.
THEOREM OutcomesCountedOnce ==
  ASSUME MaxFaults = 0, "unserializable" \notin Outcomes, "post_execute" \notin Hooks
  PROVE  Spec => []CountedOnce
<1>1. WritesSucceed
  BY DEF WritesSucceed
<1>2. Init => CountedOnce /\ HistoryFits
  BY ExecutionAssumption DEF Init, CountedOnce, HistoryFits, Finished
<1>3. Inv /\ RowFollowsRecord /\ CountedOnce /\ HistoryFits /\ [Next]_vars
        => CountedOnce' /\ HistoryFits'
  BY <1>1, CountsStep
<1> QED BY <1>2, <1>3, StoreFollowsRecords, ExecutionInvariant, PTL DEF Spec

(***************************************************************************)
(* The engine implements TaskLifecycle.                                    *)
(***************************************************************************)
LEMMA LifeStep ==
  ASSUME Inv, RowFollowsRecord, WritesSucceed, "post_execute" \notin Hooks, [Next]_vars
  PROVE  [Life!Next]_(Life!lifeVars)
<1> DEFINE state == [t \in Tasks |-> Told(record[t])]
           failures == [t \in Tasks |-> IF retries[t] = Sched!Absent THEN 0 ELSE retries[t]]
<1>1. /\ EngineMove /\ MaxRetries \in Nat /\ Sched!Absent = -1
      /\ record \in [Tasks -> Statuses] /\ row \in [Tasks -> Statuses]
      /\ retries \in [Tasks -> Nat \cup {Sched!Absent}]
  BY EngineMoves, ExecutionAssumption DEF Inv, TypeOK, Sched!TypeOK, Sched!Absent
<1>2. ASSUME NEW t \in Tasks, NEW status, Becomes(t, status)
      PROVE  state' = [state EXCEPT ![t] = Told(status)]
  BY <1>1, <1>2 DEF Becomes
<1>3. /\ \A t \in Tasks : record[t] \in Unfinished => state[t] \in Life!Unfinished
      /\ \A t \in Tasks : record[t] = "running" => state[t] = "running"
      /\ Told("queued") = "pending" /\ Told("retrying") = "pending" /\ Told("running") = "running"
      /\ Told("completed") = "completed" /\ Told("failed") = "failed" /\ Told("absent") = "absent"
  BY DEF Told, Unfinished, Life!Unfinished
<1>4. ASSUME NEW t \in Tasks, Enters(t) PROVE Life!Submit(t)
  <2>1. failures' = failures
    BY <1>1, <1>4 DEF Enters
  <2>2. state[t] = "absent" /\ state' = [state EXCEPT ![t] = "pending"]
    BY <1>2, <1>3, <1>4 DEF Enters
  <2> QED BY <2>1, <2>2 DEF Life!Submit, Life!Become
<1>5. ASSUME NEW t \in Tasks, Starts(t) PROVE Life!Start(t) \/ UNCHANGED Life!lifeVars
  <2>1. failures' = failures /\ state' = [state EXCEPT ![t] = "running"]
    BY <1>2, <1>3, <1>5 DEF Starts
  <2>2. state[t] \in {"pending", "running"}
    BY <1>3, <1>5 DEF Starts, Life!Unfinished
  <2>3. CASE state[t] = "pending"
    BY <2>1, <2>3 DEF Life!Start, Life!Become
  <2>4. CASE state[t] = "running"
    <3>1. state' = state
      BY <2>1, <2>4
    <3> QED BY <2>1, <3>1 DEF Life!lifeVars
  <2> QED BY <2>2, <2>3, <2>4
<1>6. ASSUME NEW t \in Tasks, Fails(t) PROVE Life!Failure(t)
  <2>1. /\ retries[t] \in 0 .. MaxRetries /\ retries' = [retries EXCEPT ![t] = @ + 1]
        /\ record[t] \in Unfinished
    BY <1>6 DEF Fails
  <2>2. failures[t] = retries[t]
    BY <1>1, <2>1
  <2>3. failures' = [failures EXCEPT ![t] = @ + 1]
    <3>1. retries[t] + 1 # Sched!Absent /\ retries'[t] = retries[t] + 1
      BY <1>1, <2>1
    <3>2. \A u \in Tasks \ {t} : retries'[u] = retries[u]
      BY <1>1, <2>1
    <3>3. \A u \in Tasks : failures'[u] = IF u = t THEN failures[u] + 1 ELSE failures[u]
      BY <2>2, <3>1, <3>2
    <3>4. failures' = [u \in Tasks |-> IF u = t THEN failures[u] + 1 ELSE failures[u]]
      BY <3>3
    <3> QED BY <3>4
  <2>4. state' = [state EXCEPT ![t] = IF failures[t] = MaxRetries THEN "failed" ELSE "pending"]
    BY <1>2, <1>3, <1>6, <2>2 DEF Fails
  <2> QED BY <1>1, <1>3, <2>1, <2>2, <2>3, <2>4 DEF Life!Failure, Life!Become
<1>7. ASSUME NEW t \in Tasks, Finishes(t) PROVE Life!Finish(t)
  <2>1. failures' = failures /\ state' = [state EXCEPT ![t] = "completed"] /\ state[t] = "running"
    BY <1>2, <1>3, <1>7 DEF Finishes
  <2> QED BY <2>1 DEF Life!Finish, Life!Become
<1>8. ASSUME NEW t \in Tasks, Reenters(t) PROVE UNCHANGED Life!lifeVars
  <2>1. failures' = failures /\ state' = state
    BY <1>1, <1>8 DEF Reenters
  <2> QED BY <2>1 DEF Life!lifeVars
<1>9. CASE UNCHANGED <<record, retries>>
  BY <1>9 DEF Life!lifeVars
<1>10. CASE Crash
  <2>1. /\ \A t \in Tasks : record'[t] = IF row[t] \in Unfinished THEN "queued" ELSE row[t]
        /\ retries' = [t \in Tasks |-> Sched!Absent]
    BY <1>10 DEF Crash, Reload, Sched!Restart
  <2>2. failures' = [t \in Tasks |-> 0]
    BY <2>1
  <2>3. ASSUME NEW t \in Tasks
        PROVE  Told(record'[t]) = IF state[t] \in Life!Unfinished THEN "pending" ELSE state[t]
    BY <1>1, <2>1 DEF RowFollowsRecord, Told, Unfinished, Life!Unfinished, Finished, Statuses
  <2>4. state' = [t \in Tasks |-> IF state[t] \in Life!Unfinished THEN "pending" ELSE state[t]]
    BY <2>3
  <2> QED BY <2>2, <2>4 DEF Life!Next, Life!Restart
<1> QED BY <1>1, <1>4, <1>5, <1>6, <1>7, <1>8, <1>9, <1>10 DEF EngineMove, FailsAfterAll, Life!Next

\* Under the same conditions the engine keeps the promises of TaskLifecycle:
\* a bounded number of attempts, and a result, once given, stays, over any
\* number of crashes and restarts.
THEOREM EngineKeepsLifecycle ==
  ASSUME MaxFaults = 0, "unserializable" \notin Outcomes, "post_execute" \notin Hooks
  PROVE  Spec => KeepsLifecycle
<1>1. WritesSucceed
  BY DEF WritesSucceed
<1>2. Init => Life!Init
  BY DEF Init, Sched!Init, Life!Init, Told
<1>3. Inv /\ RowFollowsRecord /\ [Next]_vars => [Life!Next]_(Life!lifeVars)
  BY <1>1, LifeStep
<1> QED BY <1>2, <1>3, StoreFollowsRecords, ExecutionInvariant, PTL
        DEF Spec, KeepsLifecycle, Life!Spec
=============================================================================
