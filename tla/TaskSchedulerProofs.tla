------------------------- MODULE TaskSchedulerProofs -------------------------
(***************************************************************************)
(* Proofs about TaskScheduler, for every set of tasks and queues, every    *)
(* assignment of priorities and delays, and every retry limit.             *)
(***************************************************************************)
EXTENDS TaskScheduler, TLAPS, FiniteSetTheorems

\* _scheduled is a finite dict, with one position per entry.
DictOrder ==
  /\ IsFiniteSet(scheduled)
  /\ \A r, s \in scheduled : r.order = s.order => r = s

\* A task that waits for its time has never been enqueued.
DelayedIsNew == \A t \in Tasks : Delayed(t) => retries[t] = Absent

Inv == TypeOK /\ DictOrder /\ DelayedIsNew /\ OnePlace /\ StampsDistinct /\ RetryBudget

(***************************************************************************)
(* Facts about one promotion.                                              *)
(***************************************************************************)

\* The stamps that one call of _promote_due_tasks gives out in a queue lie
\* between the old counter and the new one, and no two are the same.
LEMMA RanksDistinct ==
  ASSUME TypeOK, DictOrder, NEW q \in Queues
  PROVE  /\ Cardinality(DueIn(q)) \in Nat
         /\ \A s \in DueIn(q) :
              /\ Cardinality(Earlier(s)) \in Nat
              /\ Cardinality(Earlier(s)) < Cardinality(DueIn(q))
         /\ \A r, s \in DueIn(q) :
              Cardinality(Earlier(r)) = Cardinality(Earlier(s)) => r = s
<1>0. DueIn(q) \subseteq scheduled /\ IsFiniteSet(DueIn(q))
  BY FS_Subset DEF DueIn, Due, DictOrder
<1>1. Cardinality(DueIn(q)) \in Nat
  BY <1>0, FS_CardinalityType
<1>2. ASSUME NEW s \in DueIn(q)
      PROVE  /\ Earlier(s) \subseteq DueIn(q) /\ s \notin Earlier(s)
             /\ IsFiniteSet(Earlier(s)) /\ Cardinality(Earlier(s)) \in Nat
             /\ Cardinality(Earlier(s)) < Cardinality(DueIn(q))
  <2>1. Earlier(s) \subseteq DueIn(q) /\ s \notin Earlier(s)
    BY <1>0 DEF Earlier, DueIn, Due, TypeOK
  <2>2. IsFiniteSet(Earlier(s)) /\ Cardinality(Earlier(s)) <= Cardinality(DueIn(q))
        /\ Cardinality(Earlier(s)) # Cardinality(DueIn(q))
    BY <1>0, <2>1, FS_Subset
  <2>3. Cardinality(Earlier(s)) \in Nat
    BY <2>2, FS_CardinalityType
  <2> QED BY <1>1, <2>1, <2>2, <2>3
<1>3. ASSUME NEW r \in DueIn(q), NEW s \in DueIn(q), r.order < s.order
      PROVE  Cardinality(Earlier(r)) < Cardinality(Earlier(s))
  <2>1. Earlier(r) \subseteq Earlier(s) /\ r \in Earlier(s) /\ r \notin Earlier(r)
    BY <1>0, <1>2, <1>3 DEF Earlier, DueIn, Due, TypeOK
  <2>2. Cardinality(Earlier(r)) <= Cardinality(Earlier(s))
        /\ Cardinality(Earlier(r)) # Cardinality(Earlier(s))
    BY <1>2, <2>1, FS_Subset
  <2> QED BY <1>2, <2>2
<1>4. ASSUME NEW r \in DueIn(q), NEW s \in DueIn(q),
             Cardinality(Earlier(r)) = Cardinality(Earlier(s))
      PROVE  r = s
  <2>1. r.order \in Nat /\ s.order \in Nat
    BY <1>0 DEF TypeOK
  <2>2. r.order = s.order
    BY <1>2, <1>3, <1>4, <2>1
  <2> QED BY <1>0, <2>2 DEF DictOrder
<1> QED BY <1>1, <1>2, <1>4

\* After a promotion every tuple of a heap was there or is a due task's; the
\* tuples have distinct stamps below the new counter, the due tasks' above
\* the old one; and a task still has one tuple, in its own queue's heap.
LEMMA PromotedHeap ==
  ASSUME Inv, NEW q \in Queues
  PROVE  /\ Promoted(q) \in SUBSET [task : Tasks, stamp : Nat]
         /\ counter[q] + Cardinality(DueIn(q)) \in Nat
         /\ \A e \in Promoted(q) :
              /\ e \notin heap[q] => /\ e.stamp >= counter[q]
                                     /\ \E s \in Due : s.task = e.task
              /\ e.stamp < counter[q] + Cardinality(DueIn(q))
              /\ QueueOf[e.task] = q
         /\ \A e, f \in Promoted(q) : e.stamp = f.stamp \/ e.task = f.task => e = f
<1> DEFINE Tuple(s) == [task |-> s.task, stamp |-> counter[q] + Cardinality(Earlier(s))]
<1>0. TypeOK /\ DictOrder /\ OnePlace /\ StampsDistinct /\ counter[q] \in Nat
  BY DEF Inv, TypeOK
<1>1. Cardinality(DueIn(q)) \in Nat
  BY <1>0, RanksDistinct
<1>2. ASSUME NEW s \in DueIn(q)
      PROVE  /\ s \in scheduled /\ s \in Due /\ s.task \in Tasks /\ QueueOf[s.task] = q
             /\ Cardinality(Earlier(s)) \in Nat
             /\ Cardinality(Earlier(s)) < Cardinality(DueIn(q))
             /\ Tuple(s).task = s.task /\ Tuple(s) \in [task : Tasks, stamp : Nat]
             /\ Tuple(s).stamp >= counter[q]
             /\ Tuple(s).stamp < counter[q] + Cardinality(DueIn(q))
  <2>1. s \in scheduled /\ s \in Due /\ s.task \in Tasks /\ QueueOf[s.task] = q
    BY <1>0 DEF DueIn, Due, TypeOK
  <2>2. /\ Cardinality(Earlier(s)) \in Nat
        /\ Cardinality(Earlier(s)) < Cardinality(DueIn(q))
    BY <1>0, RanksDistinct
  <2> QED BY <1>0, <1>1, <2>1, <2>2
<1>3. ASSUME NEW e \in heap[q]
      PROVE  /\ e \in [task : Tasks, stamp : Nat] /\ e.stamp < counter[q]
             /\ QueueOf[e.task] = q /\ Waiting(e.task)
  BY <1>0 DEF TypeOK, OnePlace, StampsDistinct, Waiting
<1>4. ASSUME NEW e \in Promoted(q), e \notin heap[q]
      PROVE  \E s \in DueIn(q) : e = Tuple(s)
  BY <1>4 DEF Promoted
<1>5. \A e, f \in heap[q] : e.stamp = f.stamp \/ e.task = f.task => e = f
  BY <1>0, <1>3 DEF OnePlace, StampsDistinct
<1>6. ASSUME NEW e \in heap[q], NEW s \in DueIn(q)
      PROVE  e.stamp # Tuple(s).stamp /\ e.task # Tuple(s).task
  <2>1. ~Waiting(s.task)
    BY <1>0, <1>2 DEF OnePlace, Delayed
  <2> QED BY <1>0, <1>2, <1>3, <2>1
<1>7. ASSUME NEW r \in DueIn(q), NEW s \in DueIn(q),
             Tuple(r).stamp = Tuple(s).stamp \/ Tuple(r).task = Tuple(s).task
      PROVE  r = s
  <2>1. CASE Tuple(r).stamp = Tuple(s).stamp
    <3>1. Cardinality(Earlier(r)) = Cardinality(Earlier(s))
      BY <1>0, <1>2, <2>1
    <3> QED BY <1>0, <3>1, RanksDistinct
  <2>2. CASE Tuple(r).task = Tuple(s).task
    BY <1>0, <1>2, <2>2 DEF OnePlace
  <2> QED BY <1>7, <2>1, <2>2
<1>8. Promoted(q) \in SUBSET [task : Tasks, stamp : Nat]
  BY <1>2, <1>3, <1>4
<1>9. ASSUME NEW e \in Promoted(q)
      PROVE  /\ e \notin heap[q] => /\ e.stamp >= counter[q]
                                    /\ \E s \in Due : s.task = e.task
             /\ e.stamp < counter[q] + Cardinality(DueIn(q))
             /\ QueueOf[e.task] = q
  <2>1. CASE e \in heap[q]
    BY <1>0, <1>1, <1>3, <2>1
  <2>2. CASE e \notin heap[q]
    BY <1>2, <1>4, <2>2
  <2> QED BY <2>1, <2>2
<1>10. ASSUME NEW e \in Promoted(q), NEW f \in Promoted(q), e.stamp = f.stamp \/ e.task = f.task
       PROVE  e = f
  BY <1>4, <1>5, <1>6, <1>7, <1>10
<1> QED BY <1>0, <1>1, <1>8, <1>9, <1>10

(***************************************************************************)
(* The steps.                                                              *)
(***************************************************************************)

\* A push of a task that no heap holds keeps the heaps in order.
LEMMA PushKeeps ==
  ASSUME Inv, NEW t \in Tasks, ~Waiting(t), Push(t)
  PROVE  /\ heap' \in [Queues -> SUBSET [task : Tasks, stamp : Nat]]
         /\ counter' \in [Queues -> Nat]
         /\ StampsDistinct'
         /\ \A u \in Tasks : Waiting(u)' <=> Waiting(u) \/ u = t
         /\ \A u \in Tasks, q \in Queues : \A e, f \in heap'[q] :
              e.task = u => QueueOf[u] = q /\ (f.task = u => e = f)
<1> DEFINE new == [task |-> t, stamp |-> counter[QueueOf[t]]]
<1>1. /\ QueueOf[t] \in Queues /\ TypeOK /\ StampsDistinct /\ OnePlace
      /\ new \in [task : Tasks, stamp : Nat]
  BY SchedulerAssumption DEF Inv, TypeOK
<1>2. ASSUME NEW q \in Queues
      PROVE  /\ heap'[q] = heap[q] \cup (IF q = QueueOf[t] THEN {new} ELSE {})
             /\ counter'[q] = IF q = QueueOf[t] THEN counter[q] + 1 ELSE counter[q]
  BY <1>1 DEF Push, NextCounter, TypeOK
<1>3. heap' \in [Queues -> SUBSET [task : Tasks, stamp : Nat]] /\ counter' \in [Queues -> Nat]
  BY <1>1 DEF Push, NextCounter, TypeOK
<1>4. StampsDistinct'
  BY <1>1, <1>2, <1>3 DEF StampsDistinct, TypeOK
<1>5. ASSUME NEW u \in Tasks
      PROVE  Waiting(u)' <=> Waiting(u) \/ u = t
  <2>1. ASSUME Waiting(u) PROVE Waiting(u)'
    <3>1. PICK q \in Queues : \E e \in heap[q] : e.task = u
      BY <2>1 DEF Waiting
    <3> QED BY <1>2, <3>1 DEF Waiting
  <2>2. Waiting(t)'
    <3>1. new \in heap'[QueueOf[t]] /\ new.task = t
      BY <1>1, <1>2
    <3> QED BY <1>1, <3>1 DEF Waiting
  <2>3. ASSUME Waiting(u)', u # t PROVE Waiting(u)
    <3>1. PICK q \in Queues : \E e \in heap'[q] : e.task = u
      BY <2>3 DEF Waiting
    <3>2. \E e \in heap[q] : e.task = u
      BY <1>2, <2>3, <3>1
    <3> QED BY <3>1, <3>2 DEF Waiting
  <2> QED BY <2>1, <2>2, <2>3
<1>6. \A u \in Tasks, q \in Queues : \A e, f \in heap'[q] :
        e.task = u => QueueOf[u] = q /\ (f.task = u => e = f)
  BY <1>1, <1>2 DEF OnePlace, Waiting, TypeOK
<1> QED BY <1>3, <1>4, <1>5, <1>6

\* The part of the invariant about one promotion, whatever happens to the
\* heap of the polled queue afterwards short of adding to it.
LEMMA PromoteKeeps ==
  ASSUME Inv, Promote, heap' \in [Queues -> SUBSET [task : Tasks, stamp : Nat]],
         \A q \in Queues : heap'[q] \subseteq Promoted(q)
  PROVE  /\ scheduled' \subseteq scheduled /\ DictOrder' /\ DelayedIsNew' /\ StampsDistinct'
         /\ counter' \in [Queues -> Nat]
         /\ retries' \in [Tasks -> Nat \cup {Absent}]
         /\ \A u \in Tasks :
              /\ Waiting(u)' => /\ Waiting(u) \/ Delayed(u)
                                /\ ~Delayed(u)' /\ u \notin inFlight
                                /\ retries'[u] \in 0 .. MaxRetries
              /\ u \in inFlight => retries'[u] = retries[u] /\ ~Delayed(u)'
              /\ \A q \in Queues : \A e, f \in heap'[q] :
                   e.task = u => QueueOf[u] = q /\ (f.task = u => e = f)
<1>1. /\ TypeOK /\ DictOrder /\ DelayedIsNew /\ OnePlace /\ StampsDistinct /\ RetryBudget
      /\ Absent \notin Nat /\ MaxRetries \in Nat
  BY SchedulerAssumption DEF Inv, Absent
<1>2. /\ scheduled' = scheduled \ Due /\ scheduled' \subseteq scheduled
      /\ \A q \in Queues : counter'[q] = counter[q] + Cardinality(DueIn(q))
  BY DEF Promote
<1>3. DictOrder'
  BY <1>1, <1>2, FS_Subset DEF DictOrder
<1>4. retries' \in [Tasks -> Nat \cup {Absent}]
  BY <1>1 DEF Promote, TypeOK
<1>5. counter' \in [Queues -> Nat]
  BY PromotedHeap DEF Promote
<1>6. StampsDistinct'
  BY <1>2, PromotedHeap DEF StampsDistinct
<1>7. DelayedIsNew'
  <2>1. ASSUME NEW u \in Tasks, Delayed(u)' PROVE retries'[u] = Absent
    <3>1. PICK s \in scheduled' : s.task = u
      BY <2>1 DEF Delayed
    <3>2. Delayed(u) /\ \A r \in Due : r.task # u
      BY <1>1, <1>2, <3>1 DEF Delayed, OnePlace, Due
    <3> QED BY <1>1, <3>2 DEF DelayedIsNew, Promote
  <2> QED BY <2>1 DEF DelayedIsNew
<1>8. ASSUME NEW u \in Tasks, u \in inFlight
      PROVE  retries'[u] = retries[u] /\ ~Delayed(u)'
  <2>1. ~Delayed(u)
    BY <1>1, <1>8 DEF OnePlace
  <2> QED BY <1>2, <2>1 DEF Delayed, Promote, Due
<1>9. ASSUME NEW u \in Tasks, Waiting(u)'
      PROVE  /\ Waiting(u) \/ Delayed(u)
             /\ ~Delayed(u)' /\ u \notin inFlight
             /\ retries'[u] \in 0 .. MaxRetries
  <2>1. PICK q \in Queues : \E e \in Promoted(q) : e.task = u
    BY <1>9 DEF Waiting
  <2>2. Waiting(u) \/ \E s \in Due : s.task = u
    BY <2>1, PromotedHeap DEF Waiting
  <2>3. CASE Waiting(u)
    <3>1. ~Delayed(u) /\ u \notin inFlight /\ retries[u] \in 0 .. MaxRetries
      BY <1>1, <2>3 DEF OnePlace, RetryBudget
    <3> QED BY <1>1, <1>2, <2>3, <3>1 DEF Delayed, Promote, Due
  <2>4. CASE \E s \in Due : s.task = u
    <3>1. Delayed(u) /\ u \notin inFlight /\ retries[u] = Absent
      BY <1>1, <2>4 DEF OnePlace, DelayedIsNew, Delayed, Due
    <3>2. ~Delayed(u)'
      BY <1>1, <1>2, <2>4 DEF OnePlace, Delayed, Due
    <3>3. retries'[u] = 0
      BY <2>4, <3>1 DEF Promote
    <3> QED BY <1>1, <3>1, <3>2, <3>3
  <2> QED BY <2>2, <2>3, <2>4
<1>10. ASSUME NEW u \in Tasks, NEW q \in Queues, NEW e \in heap'[q], NEW f \in heap'[q], e.task = u
       PROVE  QueueOf[u] = q /\ (f.task = u => e = f)
  BY <1>10, PromotedHeap
<1> QED BY <1>2, <1>3, <1>4, <1>5, <1>6, <1>7, <1>8, <1>9, <1>10

LEMMA InitInv == Init => Inv
<1> SUFFICES ASSUME Init PROVE Inv
  OBVIOUS
<1>1. TypeOK
  BY DEF Init, TypeOK
<1>2. DictOrder /\ DelayedIsNew
  BY FS_EmptySet DEF Init, DictOrder, DelayedIsNew, Delayed
<1>3. OnePlace /\ StampsDistinct /\ RetryBudget
  BY DEF Init, OnePlace, StampsDistinct, RetryBudget, Waiting, Delayed
<1> QED BY <1>1, <1>2, <1>3 DEF Inv

LEMMA EnqueueInv ==
  ASSUME Inv, NEW t \in Tasks, Fresh(t), Enqueue(t)
  PROVE  Inv'
<1>1. /\ TypeOK /\ DictOrder /\ DelayedIsNew /\ OnePlace /\ RetryBudget
      /\ Absent \notin Nat /\ MaxRetries \in Nat
  BY SchedulerAssumption DEF Inv, Absent
<1>2. ~Waiting(t) /\ t \notin inFlight /\ ~Delayed(t)
  BY <1>1 DEF Fresh, RetryBudget
<1>3. /\ StampsDistinct'
      /\ heap' \in [Queues -> SUBSET [task : Tasks, stamp : Nat]] /\ counter' \in [Queues -> Nat]
      /\ \A u \in Tasks : Waiting(u)' <=> Waiting(u) \/ u = t
      /\ \A u \in Tasks, q \in Queues : \A e, f \in heap'[q] :
           e.task = u => QueueOf[u] = q /\ (f.task = u => e = f)
  BY <1>2, PushKeeps DEF Enqueue
<1>4. TypeOK'
  BY <1>1, <1>3 DEF TypeOK, Enqueue
<1>5. DictOrder' /\ \A u \in Tasks : Delayed(u)' <=> Delayed(u)
  BY <1>1 DEF DictOrder, Delayed, Enqueue
<1>6. DelayedIsNew' /\ RetryBudget'
  <2>1. \A u \in Tasks : retries'[u] = IF u = t THEN 0 ELSE retries[u]
    BY <1>1 DEF Fresh, Enqueue, TypeOK
  <2>2. inFlight' = inFlight
    BY DEF Enqueue
  <2>3. DelayedIsNew'
    BY <1>1, <1>2, <1>5, <2>1 DEF DelayedIsNew
  <2>4. RetryBudget'
    BY <1>1, <1>2, <1>3, <2>1, <2>2 DEF RetryBudget
  <2> QED BY <2>3, <2>4
<1>7. OnePlace'
  BY <1>1, <1>2, <1>3, <1>5 DEF OnePlace, Enqueue
<1> QED BY <1>3, <1>4, <1>5, <1>6, <1>7 DEF Inv

LEMMA ScheduleInv ==
  ASSUME Inv, NEW t \in Tasks, NEW d \in Delays, Fresh(t), Schedule(t, d)
  PROVE  Inv'
<1>1. /\ TypeOK /\ DictOrder /\ DelayedIsNew /\ OnePlace /\ StampsDistinct /\ RetryBudget
      /\ Absent \notin Nat /\ MaxRetries \in Nat /\ d \in Nat
  BY SchedulerAssumption DEF Inv, Absent
<1>2. ~Waiting(t) /\ t \notin inFlight /\ ~Delayed(t) /\ retries[t] = Absent
  BY <1>1 DEF Fresh, RetryBudget
<1>3. PICK n \in Positions :
        /\ \A s \in scheduled : s.order < n
        /\ scheduled' = scheduled \cup {[task |-> t, due |-> now + d, order |-> n]}
  BY DEF Schedule, IsBehindAll
<1>4. n \in Nat
  BY <1>1, <1>3 DEF TypeOK, Positions
<1>5. UNCHANGED <<heap, counter, inFlight, retries, now>>
  BY DEF Schedule
<1>6. TypeOK'
  <2>1. [task |-> t, due |-> now + d, order |-> n] \in [task : Tasks, due : Nat, order : Nat]
    BY <1>1, <1>4 DEF TypeOK
  <2>2. scheduled' \in SUBSET [task : Tasks, due : Nat, order : Nat]
    BY <1>1, <1>3, <2>1 DEF TypeOK
  <2> QED BY <1>1, <1>5, <2>2 DEF TypeOK
<1>7. DictOrder'
  <2> DEFINE new == [task |-> t, due |-> now + d, order |-> n]
  <2>1. new.order = n /\ scheduled' = scheduled \cup {new}
    BY <1>3
  <2>. HIDE DEF new
  <2>2. IsFiniteSet(scheduled')
    BY <1>1, <2>1, FS_AddElement DEF DictOrder
  <2>3. \A s \in scheduled : s.order \in Nat /\ s.order < new.order
    BY <1>1, <1>3, <2>1 DEF TypeOK
  <2>4. \A r, s \in scheduled' : r.order = s.order => r = s
    BY <1>1, <1>4, <2>1, <2>3 DEF DictOrder
  <2> QED BY <2>2, <2>4 DEF DictOrder
<1>8. \A u \in Tasks : /\ Delayed(u)' <=> Delayed(u) \/ u = t
                       /\ Waiting(u)' <=> Waiting(u)
  <2>1. \A u \in Tasks : Waiting(u)' <=> Waiting(u)
    BY <1>5 DEF Waiting
  <2>2. ASSUME NEW u \in Tasks PROVE Delayed(u)' <=> Delayed(u) \/ u = t
    <3> DEFINE new == [task |-> t, due |-> now + d, order |-> n]
    <3>1. new.task = t /\ scheduled' = scheduled \cup {new}
      BY <1>3
    <3>. HIDE DEF new
    <3> QED BY <3>1 DEF Delayed
  <2> QED BY <2>1, <2>2
<1>9. DelayedIsNew' /\ RetryBudget' /\ StampsDistinct'
  BY <1>1, <1>2, <1>5, <1>8 DEF DelayedIsNew, RetryBudget, StampsDistinct
<1>10. OnePlace'
  BY <1>1, <1>2, <1>3, <1>5, <1>8 DEF OnePlace, Delayed
<1> QED BY <1>6, <1>7, <1>9, <1>10 DEF Inv

LEMMA DequeueInv ==
  ASSUME Inv, NEW q \in Queues, Dequeue(q)
  PROVE  Inv'
<1>1. /\ TypeOK /\ OnePlace /\ RetryBudget /\ MaxRetries \in Nat
  BY SchedulerAssumption DEF Inv
<1>2. Promote /\ now' = now
  BY DEF Dequeue, DequeueTask, DequeueNone
<1>3. /\ heap' \in [Queues -> SUBSET [task : Tasks, stamp : Nat]]
      /\ \A p \in Queues : heap'[p] \subseteq Promoted(p)
  <2> DEFINE after == [p \in Queues |-> Promoted(p)]
  <2>1. after \in [Queues -> SUBSET [task : Tasks, stamp : Nat]]
    BY PromotedHeap
  <2>2. heap' = after \/ \E e : heap' = [after EXCEPT ![q] = @ \ {e}]
    BY DEF Dequeue, DequeueTask, DequeueNone
  <2>. HIDE DEF after
  <2>3. /\ heap' \in [Queues -> SUBSET [task : Tasks, stamp : Nat]]
        /\ \A p \in Queues : heap'[p] \subseteq after[p]
    BY <2>1, <2>2
  <2> QED BY <2>3 DEF after
<1>4. /\ scheduled' \subseteq scheduled /\ DictOrder' /\ DelayedIsNew' /\ StampsDistinct'
      /\ counter' \in [Queues -> Nat] /\ retries' \in [Tasks -> Nat \cup {Absent}]
      /\ \A u \in Tasks :
           /\ Waiting(u)' => /\ ~Delayed(u)' /\ u \notin inFlight
                             /\ retries'[u] \in 0 .. MaxRetries
           /\ u \in inFlight => retries'[u] = retries[u] /\ ~Delayed(u)'
           /\ \A p \in Queues : \A e, f \in heap'[p] :
                e.task = u => QueueOf[u] = p /\ (f.task = u => e = f)
  BY <1>2, <1>3, PromoteKeeps
<1>5. ASSUME NEW u \in inFlight' \ inFlight
      PROVE  /\ u \in Tasks /\ ~Waiting(u)' /\ ~Delayed(u)'
             /\ retries'[u] \in 0 .. MaxRetries
  <2>1. PICK t \in Tasks : DequeueTask(q, t)
    BY <1>5 DEF Dequeue, DequeueNone
  <2>2. u = t
    BY <1>5, <2>1 DEF DequeueTask
  <2>3. PICK e \in Promoted(q) :
          /\ e.task = t
          /\ heap' = [[p \in Queues |-> Promoted(p)] EXCEPT ![q] = @ \ {e}]
    BY <2>1 DEF DequeueTask
  <2>4. ~Waiting(u)'
    <3>1. ASSUME NEW p \in Queues, NEW f \in heap'[p], f.task = t PROVE FALSE
      <4>1. p = q /\ f \in Promoted(q) /\ f # e
        BY <2>3, <3>1, PromotedHeap
      <4> QED BY <2>3, <3>1, <4>1, PromotedHeap
    <3> QED BY <2>2, <3>1 DEF Waiting
  <2>5. ~Delayed(u)' /\ retries'[u] \in 0 .. MaxRetries
    <3>1. CASE e \in heap[q]
      <4>1. Waiting(t) /\ ~Delayed(t) /\ retries[t] \in 0 .. MaxRetries
        BY <1>1, <2>3, <3>1 DEF Waiting, OnePlace, RetryBudget
      <4> QED BY <1>1, <1>2, <2>2, <4>1 DEF Delayed, Promote, Due
    <3>2. CASE e \notin heap[q]
      <4>1. \E s \in Due : s.task = t
        BY <2>3, <3>2, PromotedHeap
      <4>2. retries[t] = Absent /\ Delayed(t)
        BY <4>1 DEF Inv, DelayedIsNew, Delayed, Due
      <4>3. ~Delayed(t)'
        BY <1>1, <1>2, <4>1 DEF Promote, OnePlace, Delayed, Due
      <4> QED BY <1>1, <1>2, <2>2, <4>1, <4>2, <4>3 DEF Promote
    <3> QED BY <3>1, <3>2
  <2> QED BY <2>2, <2>4, <2>5
<1>6. inFlight' \in SUBSET Tasks /\ inFlight \subseteq inFlight'
  BY <1>1 DEF TypeOK, Dequeue, DequeueTask, DequeueNone
<1>7. TypeOK'
  BY <1>1, <1>2, <1>3, <1>4, <1>6 DEF TypeOK
<1>8. RetryBudget'
  BY <1>1, <1>4, <1>5, <1>6 DEF RetryBudget
<1>9. OnePlace'
  BY <1>1, <1>4, <1>5, <1>6 DEF OnePlace
<1> QED BY <1>4, <1>7, <1>8, <1>9 DEF Inv

LEMMA CompleteInv ==
  ASSUME Inv, NEW t \in Tasks, Complete(t)
  PROVE  Inv'
<1>1. inFlight' = inFlight \ {t} /\ UNCHANGED <<heap, counter, scheduled, retries, now>>
  BY DEF Complete, PopInFlight
<1>2. TypeOK' /\ DictOrder' /\ DelayedIsNew' /\ StampsDistinct'
  BY <1>1 DEF Inv, TypeOK, DictOrder, DelayedIsNew, StampsDistinct, Delayed
<1>3. OnePlace' /\ RetryBudget'
  BY <1>1 DEF Inv, OnePlace, RetryBudget, Waiting, Delayed
<1> QED BY <1>2, <1>3 DEF Inv

LEMMA FailInv ==
  ASSUME Inv, NEW t \in Tasks, Fail(t)
  PROVE  Inv'
<1>1. /\ TypeOK /\ DictOrder /\ DelayedIsNew /\ OnePlace /\ StampsDistinct /\ RetryBudget
      /\ Absent \notin Nat /\ MaxRetries \in Nat
  BY SchedulerAssumption DEF Inv, Absent
<1>2. /\ inFlight' = inFlight \ {t} /\ UNCHANGED <<scheduled, now>>
      /\ retries' = [retries EXCEPT ![t] = IF t \in inFlight THEN @ + 1 ELSE @]
  BY DEF Fail, PopInFlight
<1>3. DictOrder' /\ \A u \in Tasks : Delayed(u)' <=> Delayed(u)
  BY <1>1, <1>2 DEF DictOrder, Delayed
<1>4. retries' \in [Tasks -> Nat \cup {Absent}]
  BY <1>1, <1>2 DEF TypeOK, RetryBudget
<1>5. DelayedIsNew'
  BY <1>1, <1>2, <1>3 DEF DelayedIsNew, OnePlace, TypeOK
<1>6. CASE WillRetry(t)
  <2>1. t \in inFlight /\ ~Waiting(t) /\ ~Delayed(t) /\ retries'[t] \in 0 .. MaxRetries
    BY <1>1, <1>2, <1>6 DEF WillRetry, MayRetry, OnePlace, RetryBudget, TypeOK
  <2>2. Push(t)
    BY <1>6 DEF Fail
  <2>3. /\ StampsDistinct'
        /\ heap' \in [Queues -> SUBSET [task : Tasks, stamp : Nat]] /\ counter' \in [Queues -> Nat]
        /\ \A u \in Tasks : Waiting(u)' <=> Waiting(u) \/ u = t
        /\ \A u \in Tasks, q \in Queues : \A e, f \in heap'[q] :
             e.task = u => QueueOf[u] = q /\ (f.task = u => e = f)
    BY <2>1, <2>2, PushKeeps
  <2>4. TypeOK'
    BY <1>1, <1>2, <1>4, <2>3 DEF TypeOK
  <2>5. RetryBudget'
    BY <1>1, <1>2, <2>1, <2>3 DEF RetryBudget, TypeOK
  <2>6. OnePlace'
    BY <1>1, <1>2, <1>3, <2>1, <2>3 DEF OnePlace
  <2> QED BY <1>3, <1>5, <2>3, <2>4, <2>5, <2>6 DEF Inv
<1>7. CASE ~WillRetry(t)
  <2>1. UNCHANGED <<heap, counter>>
    BY <1>7 DEF Fail
  <2>2. TypeOK' /\ StampsDistinct' /\ \A u \in Tasks : Waiting(u)' <=> Waiting(u)
    BY <1>1, <1>2, <1>4, <2>1 DEF TypeOK, StampsDistinct, Waiting
  <2>3. RetryBudget'
    BY <1>1, <1>2, <2>2 DEF RetryBudget, OnePlace, TypeOK
  <2>4. OnePlace'
    BY <1>1, <1>2, <1>3, <2>1, <2>2 DEF OnePlace
  <2> QED BY <1>3, <1>5, <2>2, <2>3, <2>4 DEF Inv
<1> QED BY <1>6, <1>7

\* Inv is inductive.
LEMMA NextInv == Inv /\ [Next]_schedVars => Inv'
<1> SUFFICES ASSUME Inv, [Next]_schedVars PROVE Inv'
  OBVIOUS
<1>1. CASE \E t \in Tasks : Fresh(t) /\ Enqueue(t)
  BY <1>1, EnqueueInv
<1>2. CASE \E t \in Tasks, d \in Delays : Fresh(t) /\ Schedule(t, d)
  BY <1>2, ScheduleInv
<1>3. CASE \E q \in Queues : Dequeue(q)
  BY <1>3, DequeueInv
<1>4. CASE \E t \in Tasks : Complete(t)
  BY <1>4, CompleteInv
<1>5. CASE \E t \in Tasks : Fail(t)
  BY <1>5, FailInv
<1>6. CASE Tick
  <2>1. UNCHANGED <<heap, counter, scheduled, inFlight, retries>> /\ now' \in Nat
    BY <1>6 DEF Tick, Inv, TypeOK
  <2>2. TypeOK' /\ DictOrder' /\ DelayedIsNew' /\ StampsDistinct'
    BY <2>1 DEF Inv, TypeOK, DictOrder, DelayedIsNew, StampsDistinct, Delayed
  <2>3. OnePlace' /\ RetryBudget'
    BY <2>1 DEF Inv, OnePlace, RetryBudget, Waiting, Delayed
  <2> QED BY <2>2, <2>3 DEF Inv
<1>7. CASE Restart
  <2>1. TypeOK' /\ DictOrder'
    BY <1>7, FS_EmptySet DEF Restart, Inv, TypeOK, DictOrder
  <2>2. DelayedIsNew' /\ OnePlace' /\ StampsDistinct' /\ RetryBudget'
    BY <1>7 DEF Restart, DelayedIsNew, OnePlace, StampsDistinct, RetryBudget, Waiting, Delayed
  <2> QED BY <2>1, <2>2 DEF Inv
<1>8. CASE UNCHANGED schedVars
  <2>1. TypeOK' /\ DictOrder' /\ DelayedIsNew' /\ StampsDistinct'
    BY <1>8 DEF schedVars, Inv, TypeOK, DictOrder, DelayedIsNew, StampsDistinct, Delayed
  <2>2. OnePlace' /\ RetryBudget'
    BY <1>8 DEF schedVars, Inv, OnePlace, RetryBudget, Waiting, Delayed
  <2> QED BY <2>1, <2>2 DEF Inv
<1> QED BY <1>1, <1>2, <1>3, <1>4, <1>5, <1>6, <1>7, <1>8 DEF Next

(***************************************************************************)
(* schedule() always finds its place at the end of the dict.               *)
(***************************************************************************)
LEMMA LeastNatural ==
  ASSUME NEW T \in SUBSET Nat, T # {}
  PROVE  \E m \in T : \A k \in T : m <= k
<1> DEFINE R == {p \in Nat \X Nat : p[1] < p[2]}
<1>1. IsWellFoundedOn(R, Nat)
  BY NatLessThanWellFounded DEF OpToRel
<1>2. PICK m \in T : \A k \in T : <<k, m>> \notin R
  <2> HIDE DEF R
  <2> QED BY <1>1, WFMin
<1>3. \A k \in T : m <= k
  <2> TAKE k \in T
  <2>1. <<k, m>> \in Nat \X Nat /\ k \in Nat /\ m \in Nat
    OBVIOUS
  <2>2. ~(k < m)
    BY <1>2, <2>1
  <2> QED BY <2>1, <2>2
<1> QED BY <1>3

\* Of the entries that are left, the one with the fewest behind it is last.
LEMMA PlaceAtTheEnd ==
  ASSUME TypeOK, DictOrder
  PROVE  \E n \in Positions : IsBehindAll(n)
<1> DEFINE Behind(s) == {r \in scheduled : s.order < r.order}
           Counts == {Cardinality(Behind(s)) : s \in scheduled}
<1>1. CASE scheduled = {}
  BY <1>1 DEF Positions, IsBehindAll
<1>2. CASE scheduled # {}
  <2>1. ASSUME NEW s \in scheduled
        PROVE  IsFiniteSet(Behind(s)) /\ Cardinality(Behind(s)) \in Nat
    <3>1. Behind(s) \subseteq scheduled
      OBVIOUS
    <3> QED BY <3>1, FS_Subset, FS_CardinalityType DEF DictOrder
  <2>2. Counts \in SUBSET Nat /\ Counts # {}
    BY <1>2, <2>1
  <2>3. PICK last \in scheduled :
          \A s \in scheduled : Cardinality(Behind(last)) <= Cardinality(Behind(s))
    <3>1. PICK m \in Counts : \A k \in Counts : m <= k
      <4> HIDE DEF Counts
      <4> QED BY <2>2, LeastNatural
    <3> QED BY <3>1
  <2>4. ASSUME NEW s \in scheduled, last.order < s.order PROVE FALSE
    <3>1. /\ Behind(s) \subseteq Behind(last)
          /\ s \in Behind(last) /\ s \notin Behind(s)
      BY <2>4 DEF TypeOK
    <3>2. /\ Cardinality(Behind(s)) <= Cardinality(Behind(last))
          /\ Cardinality(Behind(s)) # Cardinality(Behind(last))
      BY <2>1, <3>1, FS_Subset
    <3>3. /\ Cardinality(Behind(last)) <= Cardinality(Behind(s))
          /\ Cardinality(Behind(s)) \in Nat /\ Cardinality(Behind(last)) \in Nat
      BY <2>1, <2>3
    <3> HIDE DEF Behind
    <3> QED BY <3>2, <3>3
  <2>5. last.order + 1 \in Positions /\ IsBehindAll(last.order + 1)
    BY <2>4 DEF TypeOK, Positions, IsBehindAll
  <2> QED BY <2>5
<1> QED BY <1>1, <1>2

(***************************************************************************)
(* The theorems.                                                           *)
(***************************************************************************)
\* The inductive invariant holds in every reachable state of the scheduler.
THEOREM SchedulerInvariant == Spec => []Inv
  BY InitInv, NextInv, PTL DEF Spec

\* Every variable of the scheduler keeps its type.
THEOREM TypeCorrect == Spec => []TypeOK
<1>1. Inv => TypeOK
  BY DEF Inv
<1> QED BY <1>1, SchedulerInvariant, PTL

\* No sequence of calls puts one task in two places at once.
THEOREM TaskInOnePlace == Spec => []OnePlace
<1>1. Inv => OnePlace
  BY DEF Inv
<1> QED BY <1>1, SchedulerInvariant, PTL

\* heappop never meets a tie, so dequeue never compares two dicts.
THEOREM NoTie == Spec => []StampsDistinct
<1>1. Inv => StampsDistinct
  BY DEF Inv
<1> QED BY <1>1, SchedulerInvariant, PTL

\* No task runs more often than its retries allow.
THEOREM RetriesBounded == Spec => []RetryBudget
<1>1. Inv => RetryBudget
  BY DEF Inv
<1> QED BY <1>1, SchedulerInvariant, PTL

\* Whatever a step adds to a heap goes behind the equals that stay there.
THEOREM ArrivalOrder == Spec => LateArrivalsGoBehind
<1> DEFINE Behind == \A q \in Queues : \A e \in heap'[q] \ heap[q], f \in heap[q] \cap heap'[q] :
                       PriorityOf[e.task] = PriorityOf[f.task] => Before(f, e)
<1>1. ASSUME Inv, [Next]_schedVars PROVE [Behind]_schedVars
  <2>1. SUFFICES ASSUME NEW q \in Queues, NEW e \in heap'[q] \ heap[q], NEW f \in heap[q],
                        PriorityOf[e.task] = PriorityOf[f.task]
                 PROVE  Before(f, e)
    OBVIOUS
  <2>2. f.stamp \in Nat /\ f.stamp < counter[q] /\ counter[q] \in Nat
    BY <1>1 DEF Inv, StampsDistinct, TypeOK
  <2>3. e.stamp \in Nat /\ e.stamp >= counter[q]
    <3>1. CASE \E t \in Tasks : Push(t)
      BY <2>2, <3>1, SchedulerAssumption, <1>1, <2>1 DEF Push, Inv, TypeOK
    <3>2. CASE \E p \in Queues : Dequeue(p)
      <4>1. e \in Promoted(q)
        BY <3>2 DEF Dequeue, DequeueNone, DequeueTask
      <4> QED BY <1>1, <4>1, PromotedHeap
    <3>3. CASE heap' = heap
      BY <3>3
    <3>4. CASE Restart
      BY <3>4 DEF Restart
    <3> QED BY <1>1, <3>1, <3>2, <3>3, <3>4
            DEF Next, Enqueue, Schedule, Complete, Fail, Tick, schedVars
  <2> QED BY <2>1, <2>2, <2>3 DEF Before
<1> QED BY <1>1, SchedulerInvariant, PTL DEF Spec, LateArrivalsGoBehind

\* A dispatched task leaves nothing more urgent behind in its queue.
THEOREM PriorityOrder == Spec => NoOvertaking
<1> DEFINE Best == \A t \in inFlight' \ inFlight, u \in Tasks :
                     /\ QueueOf[u] = QueueOf[t]
                     /\ Waiting(u)' \/ \E s \in scheduled' : s.task = u /\ s.due <= now
                     => PriorityOf[u] <= PriorityOf[t]
<1>1. ASSUME Inv, Inv', [Next]_schedVars PROVE [Best]_schedVars
  <2>1. SUFFICES ASSUME NEW t \in inFlight' \ inFlight, NEW u \in Tasks, QueueOf[u] = QueueOf[t],
                        Waiting(u)' \/ \E s \in scheduled' : s.task = u /\ s.due <= now
                 PROVE  PriorityOf[u] <= PriorityOf[t]
    OBVIOUS
  <2>2. PICK q \in Queues : DequeueTask(q, t)
    BY <1>1, <2>1 DEF Next, Enqueue, Schedule, Dequeue, DequeueNone, DequeueTask, Complete,
                      Fail, PopInFlight, Tick, Restart, schedVars
  <2>3. PICK e \in Promoted(q) :
          /\ Least(e, Promoted(q)) /\ e.task = t
          /\ heap' = [[p \in Queues |-> Promoted(p)] EXCEPT ![q] = @ \ {e}]
    BY <2>2 DEF DequeueTask
  <2>4. scheduled' = scheduled \ Due /\ QueueOf[t] = q
    BY <1>1, <2>2, <2>3, PromotedHeap DEF DequeueTask, Promote
  <2>5. Waiting(u)'
    BY <2>1, <2>4 DEF Due
  <2>6. PICK p \in Queues : \E f \in heap'[p] : f.task = u
    BY <2>5 DEF Waiting
  <2>7. p = q
    BY <1>1, <2>1, <2>4, <2>6 DEF Inv, OnePlace
  <2>8. PICK f \in Promoted(q) \ {e} : f.task = u
    BY <2>3, <2>6, <2>7
  <2>9. PriorityOf[t] > PriorityOf[u] \/ PriorityOf[t] = PriorityOf[u]
    BY <2>3, <2>8 DEF Least, Before
  <2>10. t \in Tasks /\ PriorityOf[t] \in Int /\ PriorityOf[u] \in Int
    BY <1>1, <2>1, SchedulerAssumption DEF Inv, TypeOK
  <2> QED BY <2>9, <2>10
<1> QED BY <1>1, SchedulerInvariant, PTL DEF Spec, NoOvertaking

\* Whatever was promoted and is left, a task can be scheduled: there is a
\* place behind all entries of _scheduled (schedule, scheduler.py:53-57).
THEOREM ScheduleIsNeverRefused == Spec => [](\E n \in Positions : IsBehindAll(n))
<1>1. Inv => \E n \in Positions : IsBehindAll(n)
  BY PlaceAtTheEnd DEF Inv
<1> QED BY <1>1, SchedulerInvariant, PTL
=============================================================================
