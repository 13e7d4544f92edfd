-------------------------- MODULE AgentExecutorProofs --------------------------
(***************************************************************************)
(* Theorems about AgentExecutor, for every finite set of executions, every *)
(* number of slots and every kind of handler.                              *)
(***************************************************************************)
EXTENDS AgentExecutor, FiniteSetTheorems, TLAPS

\* Only an execution that somebody cancelled can end without an outcome to store.
CancelledWasAsked ==
  \A e \in Executions :
    /\ stage[e] = "cancelling" \/ outcome[e] = "cancelled" => e \in asked
    /\ stage[e] = "done" => outcome[e] # "none"

Inv ==
  /\ TypeOK
  /\ SlotsAccounted
  /\ ActiveTasksKnown
  /\ CancelledWasAsked
  /\ AnsweredUnlessCancelled

\* What Inv says of slots, and what it says of each execution.
Holders == {e \in Executions : HoldsSlot(e)}
RecordsInv == ActiveTasksKnown /\ CancelledWasAsked /\ AnsweredUnlessCancelled

LEMMA InitInv == Init => Inv
<1> SUFFICES ASSUME Init PROVE Inv
  OBVIOUS
<1>1. TypeOK
  BY ExecutorAssumption DEF Init, TypeOK, Stages, Outcomes
<1>2. SlotsAccounted
  <2>1. {e \in Executions : HoldsSlot(e)} = {}
    BY DEF Init, HoldsSlot
  <2> QED BY <2>1, FS_EmptySet, ExecutorAssumption DEF Init, SlotsAccounted
<1>3. RecordsInv
  BY DEF Init, RecordsInv, ActiveTasksKnown, CancelledWasAsked, AnsweredUnlessCancelled
<1> QED BY <1>1, <1>2, <1>3 DEF Inv, RecordsInv

\* A slot is taken: one more execution holds one.
LEMMA SlotTaken ==
  ASSUME Inv, NEW e \in Executions, e \notin Holders, Holders' = Holders \cup {e},
         free > 0, free' = free - 1
  PROVE  SlotsAccounted' /\ free' \in 0..MaxConcurrent
<1>1. IsFiniteSet(Holders)
  BY FS_Subset, ExecutorAssumption DEF Holders
<1>2. Cardinality(Holders') = Cardinality(Holders) + 1 /\ Cardinality(Holders) \in Nat
  BY <1>1, FS_AddElement, FS_CardinalityType
<1>3. free \in 0..MaxConcurrent /\ free + Cardinality(Holders) = MaxConcurrent
  BY DEF Inv, TypeOK, SlotsAccounted, Holders
<1>4. free' + Cardinality(Holders') = MaxConcurrent /\ free' \in 0..MaxConcurrent
  BY <1>2, <1>3, ExecutorAssumption
<1> QED BY <1>4 DEF SlotsAccounted, Holders

\* A slot comes back: one execution less holds one.
LEMMA SlotBack ==
  ASSUME Inv, NEW e \in Executions, e \in Holders, Holders' = Holders \ {e}, free' = free + 1
  PROVE  SlotsAccounted' /\ free' \in 0..MaxConcurrent
<1>1. IsFiniteSet(Holders)
  BY FS_Subset, ExecutorAssumption DEF Holders
<1>2. /\ Cardinality(Holders') = Cardinality(Holders) - 1
      /\ Cardinality(Holders) \in Nat /\ Cardinality(Holders') \in Nat
  BY <1>1, FS_RemoveElement, FS_CardinalityType
<1>3. free \in 0..MaxConcurrent /\ free + Cardinality(Holders) = MaxConcurrent
  BY DEF Inv, TypeOK, SlotsAccounted, Holders
<1>4. free' + Cardinality(Holders') = MaxConcurrent /\ free' \in 0..MaxConcurrent
  BY <1>2, <1>3, ExecutorAssumption
<1> QED BY <1>4 DEF SlotsAccounted, Holders

\* Nothing happens to slots.
LEMMA SlotsKept ==
  ASSUME Inv, Holders' = Holders, free' = free
  PROVE  SlotsAccounted' /\ free' \in 0..MaxConcurrent
BY DEF Inv, TypeOK, SlotsAccounted, Holders

LEMMA ExecuteInv == ASSUME Inv, NEW e \in Executions, Execute(e) PROVE Inv'
<1>1. SlotsAccounted' /\ free' \in 0..MaxConcurrent
  <2>1. CASE Contended
    <3>1. Holders' = Holders /\ free' = free
      BY <2>1 DEF Execute, Goes, Holders, HoldsSlot, Inv, TypeOK
    <3> QED BY <3>1, SlotsKept
  <2>2. CASE ~Contended
    <3>1. e \notin Holders /\ Holders' = Holders \cup {e}
      BY <2>2 DEF Execute, Goes, Holders, HoldsSlot, Inv, TypeOK
    <3>2. free > 0 /\ free' = free - 1
      BY <2>2, ExecutorAssumption DEF Execute, Contended, Inv, TypeOK
    <3> QED BY <3>1, <3>2, SlotTaken
  <2> QED BY <2>1, <2>2
<1>2. TypeOK'
  BY <1>1 DEF Execute, Goes, Inv, TypeOK, Stages
<1>3. RecordsInv'
  BY DEF Execute, Goes, Inv, TypeOK, RecordsInv, ActiveTasksKnown, CancelledWasAsked,
         AnsweredUnlessCancelled
<1> QED BY <1>1, <1>2, <1>3 DEF Inv, RecordsInv

LEMMA GrantInv == ASSUME Inv, NEW e \in Executions, Grant(e) PROVE Inv'
<1>1. SlotsAccounted' /\ free' \in 0..MaxConcurrent
  <2>1. /\ e \notin Holders /\ Holders' = Holders \cup {e}
        /\ free > 0 /\ free' = free - 1
    BY DEF Grant, Goes, Holders, HoldsSlot, Inv, TypeOK
  <2> QED BY <2>1, SlotTaken
<1>2. TypeOK'
  BY <1>1 DEF Grant, Goes, Inv, TypeOK, Stages
<1>3. RecordsInv'
  BY DEF Grant, Goes, Inv, TypeOK, RecordsInv, ActiveTasksKnown, CancelledWasAsked,
         AnsweredUnlessCancelled
<1> QED BY <1>1, <1>2, <1>3 DEF Inv, RecordsInv

LEMMA StartInv == ASSUME Inv, NEW e \in Executions, Start(e) PROVE Inv'
<1>1. SlotsAccounted' /\ free' \in 0..MaxConcurrent
  <2>1. Holders' = Holders /\ free' = free
    BY DEF Start, Goes, Holders, HoldsSlot, Inv, TypeOK
  <2> QED BY <2>1, SlotsKept
<1>2. TypeOK'
  BY <1>1 DEF Start, Goes, Inv, TypeOK, Stages
<1>3. RecordsInv'
  BY DEF Start, Goes, Inv, TypeOK, RecordsInv, ActiveTasksKnown, CancelledWasAsked,
         AnsweredUnlessCancelled
<1> QED BY <1>1, <1>2, <1>3 DEF Inv, RecordsInv

\* The inner task ends: "cancelled" only if it was being cancelled.
LEMMA InnerEndsInv ==
  ASSUME Inv, NEW e \in Executions, NEW o \in {"ok", "error", "cancelled"},
         (stage[e] = "running" /\ o # "cancelled") \/ stage[e] = "cancelling",
         InnerEnds(e, o)
  PROVE  Inv'
<1>1. SlotsAccounted' /\ free' \in 0..MaxConcurrent
  <2>1. Holders' = Holders /\ free' = free
    BY DEF InnerEnds, Goes, Holders, HoldsSlot, Inv, TypeOK
  <2> QED BY <2>1, SlotsKept
<1>2. TypeOK'
  BY <1>1 DEF InnerEnds, Goes, Inv, TypeOK, Stages, Outcomes
<1>3. RecordsInv'
  BY DEF InnerEnds, Goes, Inv, TypeOK, RecordsInv, ActiveTasksKnown, CancelledWasAsked,
         AnsweredUnlessCancelled
<1> QED BY <1>1, <1>2, <1>3 DEF Inv, RecordsInv

LEMMA SwallowsInv == ASSUME Inv, NEW e \in Executions, Swallows(e) PROVE Inv'
<1>1. SlotsAccounted' /\ free' \in 0..MaxConcurrent
  <2>1. Holders' = Holders /\ free' = free
    BY DEF Swallows, Goes, Holders, HoldsSlot, Inv, TypeOK
  <2> QED BY <2>1, SlotsKept
<1>2. TypeOK'
  BY <1>1 DEF Swallows, Goes, Inv, TypeOK, Stages
<1>3. RecordsInv'
  BY DEF Swallows, Goes, Inv, TypeOK, RecordsInv, ActiveTasksKnown, CancelledWasAsked,
         AnsweredUnlessCancelled
<1> QED BY <1>1, <1>2, <1>3 DEF Inv, RecordsInv

LEMMA ResumeInv == ASSUME Inv, NEW e \in Executions, Resume(e) PROVE Inv'
<1>1. SlotsAccounted' /\ free' \in 0..MaxConcurrent
  <2>1. e \in Holders /\ Holders' = Holders \ {e} /\ free' = free + 1
    BY DEF Resume, Freed, Goes, Holders, HoldsSlot, Inv, TypeOK
  <2> QED BY <2>1, SlotBack
<1>2. TypeOK'
  <2>1. outcome[e] \in {"ok", "error", "cancelled"}
    BY DEF Resume, Inv, TypeOK, Outcomes, CancelledWasAsked
  <2> QED BY <1>1, <2>1 DEF Resume, Popped, Stored, Goes, Inv, TypeOK, Stages
<1>3. RecordsInv'
  BY DEF Resume, Popped, Stored, Goes, Inv, TypeOK, RecordsInv, ActiveTasksKnown,
         CancelledWasAsked, AnsweredUnlessCancelled
<1> QED BY <1>1, <1>2, <1>3 DEF Inv, RecordsInv

\* cancel() and shutdown() cancel inner tasks of active executions only.
LEMMA CancelsInv ==
  ASSUME Inv, NEW A \in SUBSET active, Cancels(A),
         shutdown' \in {"no", "gathering", "returned"}, gathered' \in SUBSET Executions,
         UNCHANGED <<calls, ticket, free, active, outcome, result>>
  PROVE  Inv'
<1>1. SlotsAccounted' /\ free' \in 0..MaxConcurrent
  <2>1. Holders' = Holders /\ free' = free
    BY DEF Cancels, Cancelled, Ended, Holders, HoldsSlot, Inv, TypeOK, ActiveTasksKnown
  <2> QED BY <2>1, SlotsKept
<1>2. TypeOK'
  BY <1>1 DEF Cancels, Cancelled, Inv, TypeOK, Stages
<1>3. RecordsInv'
  BY DEF Cancels, Cancelled, Ended, Inv, TypeOK, RecordsInv, ActiveTasksKnown,
         CancelledWasAsked, AnsweredUnlessCancelled
<1> QED BY <1>1, <1>2, <1>3 DEF Inv, RecordsInv

LEMMA CallerCancelledInv == ASSUME Inv, NEW e \in Executions, CallerCancelled(e) PROVE Inv'
<1>1. SlotsAccounted' /\ free' \in 0..MaxConcurrent
  <2>1. CASE stage[e] = "granted"
    <3>1. e \in Holders /\ Holders' = Holders \ {e} /\ free' = free + 1
      BY <2>1 DEF CallerCancelled, Left, Goes, Holders, HoldsSlot, Inv, TypeOK
    <3> QED BY <3>1, SlotBack
  <2>2. CASE stage[e] # "granted"
    <3>1. Holders' = Holders /\ free' = free
      BY <2>2 DEF CallerCancelled, Left, Goes, Holders, HoldsSlot, Inv, TypeOK
    <3> QED BY <3>1, SlotsKept
  <2> QED BY <2>1, <2>2
<1>2. TypeOK'
  BY <1>1 DEF CallerCancelled, Goes, Inv, TypeOK, Stages, Outcomes
<1>3. RecordsInv'
  BY DEF CallerCancelled, Goes, Inv, TypeOK, RecordsInv, ActiveTasksKnown,
         CancelledWasAsked, AnsweredUnlessCancelled
<1> QED BY <1>1, <1>2, <1>3 DEF Inv, RecordsInv

LEMMA ShutdownReturnsInv == ASSUME Inv, ShutdownReturns PROVE Inv'
BY DEF ShutdownReturns, Inv, TypeOK, SlotsAccounted, HoldsSlot, ActiveTasksKnown,
       CancelledWasAsked, AnsweredUnlessCancelled

LEMMA NextInv == Inv /\ [Next]_vars => Inv'
<1> SUFFICES ASSUME Inv, [Next]_vars PROVE Inv'
  OBVIOUS
<1>1. ASSUME NEW e \in Executions, HandlerEnds(e) \/ TimesOut(e) \/ CancelEnds(e) PROVE Inv'
  <2>1. \E o \in {"ok", "error", "cancelled"} :
          /\ (stage[e] = "running" /\ o # "cancelled") \/ stage[e] = "cancelling"
          /\ InnerEnds(e, o)
    BY <1>1 DEF HandlerEnds, TimesOut, CancelEnds
  <2> QED BY <2>1, InnerEndsInv
<1>2. ASSUME NEW e \in Executions, Cancel(e) PROVE Inv'
  <2>1. {e} \in SUBSET active /\ Cancels({e}) /\ UNCHANGED <<calls, ticket, free, active, outcome, result>>
    BY <1>2 DEF Cancel
  <2>2. shutdown' \in {"no", "gathering", "returned"} /\ gathered' \in SUBSET Executions
    BY <1>2 DEF Cancel, Inv, TypeOK
  <2> QED BY <2>1, <2>2, CancelsInv
<1>3. ASSUME Shutdown PROVE Inv'
  <2>1. active \in SUBSET active /\ Cancels(active) /\ UNCHANGED <<calls, ticket, free, active, outcome, result>>
    BY <1>3 DEF Shutdown
  <2>2. shutdown' \in {"no", "gathering", "returned"} /\ gathered' \in SUBSET Executions
    BY <1>3 DEF Shutdown, Inv, TypeOK
  <2> QED BY <2>1, <2>2, CancelsInv
<1>4. CASE UNCHANGED vars
  BY <1>4 DEF vars, Inv, TypeOK, SlotsAccounted, HoldsSlot, ActiveTasksKnown,
     CancelledWasAsked, AnsweredUnlessCancelled
<1> QED
  BY <1>1, <1>2, <1>3, <1>4, ExecuteInv, GrantInv, StartInv, SwallowsInv, ResumeInv,
     CallerCancelledInv, ShutdownReturnsInv DEF Next

(***************************************************************************)
(* The theorems                                                            *)
(***************************************************************************)

\* Inv is an invariant of AgentExecutor.
THEOREM ExecutorInvariant == Spec => []Inv
<1> QED BY InitInv, NextInv, PTL DEF Spec

\* The type invariant; above all, the semaphore's value never exceeds
\* max_concurrent, in whatever way executions end (executor.py:19-32).
THEOREM ExecutorTypeCorrect == Spec => []TypeOK
<1>1. Inv => TypeOK
  BY DEF Inv
<1> QED BY <1>1, ExecutorInvariant, PTL

\* executor.py:20-32: free slots and executions holding one always add up.
THEOREM SlotsRight == Spec => []SlotsAccounted
<1>1. Inv => SlotsAccounted
  BY DEF Inv
<1> QED BY <1>1, ExecutorInvariant, PTL

\* executor.py:24-31: _active_tasks holds exactly the inner tasks not resumed.
THEOREM ActiveRight == Spec => []ActiveTasksKnown
<1>1. Inv => ActiveTasksKnown
  BY DEF Inv
<1> QED BY <1>1, ExecutorInvariant, PTL

\* executor.py:26-31: what is over has an answer, unless it was cancelled.
THEOREM AnswersRight == Spec => []AnsweredUnlessCancelled
<1>1. Inv => AnsweredUnlessCancelled
  BY DEF Inv
<1> QED BY <1>1, ExecutorInvariant, PTL
=============================================================================
