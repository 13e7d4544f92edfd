------------------------ MODULE WorkflowStatusProofs ------------------------
(***************************************************************************)
(* Theorems about what a client reads of a workflow: its status and its    *)
(* steps are right unless runs overlap, and a restart takes nothing back.  *)
(* The invariant rests on WorkflowRunProofs'.                              *)
(***************************************************************************)
EXTENDS WorkflowRunProofs

\* The row of a workflow that is there is the object; only the status that a
\* restart turns into "pending" is still "running" in it.
RowMatches ==
  poisoned = {} /\ life = "present" =>
    /\ row # NoRow
    /\ row.step = step
    /\ row.status = status \/ (row.status = "running" /\ status = "pending")

AtStep(r) == run[r].pc \in {"launch", "polling", "handler"}
Past(r, s) == s < run[r].at \/ (run[r].pc = "next" /\ s = run[r].at)

\* The object is right, by what its run, if it has one, has done.
EndRight ==
  /\ status = "completed" => \A s \in steps : step[s] = "completed"
  /\ status = "failed" /\ steps = Steps => \E s \in Steps : step[s] = "failed"
ObjectRight ==
  /\ EndRight
  /\ status = "running" <=> \E r \in Runs : Begun(r)
  /\ \A r \in Runs : Begun(r) => \A s \in steps : Past(r, s) => step[s] = "completed"
  /\ crashes = 0 =>
       \A s \in steps : step[s] = "running" => \E r \in Runs : AtStep(r) /\ run[r].at = s

\* So would be the object that a restart made of the row.
RowRight ==
  row # NoRow =>
    /\ row.status = "completed" => \A s \in row.steps : row.step[s] = "completed"
    /\ row.status = "failed" /\ row.steps \ HandlerSteps = Steps =>
         \E s \in Steps : row.step[s] = "failed"

Alone == \A r, o \in Runs : Unfinished(r) /\ Unfinished(o) => r = o

\* A result that cannot be stored ends the only run there is.
SoloInv ==
  ~overlapped =>
    /\ Alone
    /\ life = "absent" => poisoned = {} /\ \A r \in Runs : ~Unfinished(r)
    /\ poisoned # {} => \A r \in Runs : ~Begun(r)
    /\ poisoned = {} => ObjectRight
    /\ RowRight

(***************************************************************************)
(* Restarts                                                                *)
(***************************************************************************)

\* What a step does to the object and its row: it writes the row, or leaves
\* something that cannot be written, or the workflow is gone, or neither
\* changes, or the process dies.
RowMove ==
  \/ PersistWorkflow(status', step') /\ UNCHANGED steps
  \/ poisoned' # {}
  \/ life' # "present"
  \/ UNCHANGED <<status, step, row, poisoned, life>>
  \/ Crash

LEMMA StepsArePositive ==
  ASSUME NEW s \in Steps
  PROVE  s \in Int /\ ~(s < 0) /\ s # 0
BY WorkflowAssumption DEF Steps

LEMMA FailMoves ==
  ASSUME NEW r \in Runs, NEW poison, poison # {} => poisoned' # {}, FailStep(r, poison), steps' = steps
  PROVE  RowMove
BY DEF FailStep, RowMove

LEMMA DoneMoves ==
  ASSUME NEW r \in Runs, NEW poison, poison # {} => poisoned' # {}, StepDone(r, poison), steps' = steps
  PROVE  RowMove
<1>1. CASE poison = {}
  BY <1>1 DEF StepDone, RowMove
<1>2. CASE poison # {}
  BY <1>2, FailMoves DEF StepDone
<1> QED BY <1>1, <1>2

LEMMA RunRowMoves ==
  ASSUME NEW r \in Runs,
         \/ RequestRun(r) \/ Begin(r) \/ EnterStep(r) \/ Launch(r) \/ Poll(r)
         \/ TimesOut(r) \/ HandlerEnds(r) \/ Finish(r)
  PROVE  RowMove
<1>1. CASE RequestRun(r)
  BY <1>1 DEF RequestRun, RowMove, objectVars
<1>2. CASE Begin(r)
  BY <1>2 DEF Begin, RowMove
<1>3. CASE EnterStep(r)
  BY <1>3 DEF EnterStep, RowMove
<1>4. CASE Launch(r)
  <2>1. FailStep(r, poisoned) \/ UNCHANGED <<status, step, row>>
    BY <1>4 DEF Launch
  <2>2. UNCHANGED <<life, steps, poisoned>>
    BY <1>4 DEF Launch
  <2> QED BY <2>1, <2>2, FailMoves DEF RowMove
<1>5. CASE Poll(r) \/ TimesOut(r)
  <2>1. FailStep(r, poisoned) \/ StepDone(r, poisoned)
    BY <1>5 DEF Poll, TimesOut
  <2>2. UNCHANGED <<steps, poisoned>>
    BY <1>5 DEF Poll, TimesOut
  <2> QED BY <2>1, <2>2, FailMoves, DoneMoves
<1>6. CASE HandlerEnds(r)
  <2>1. \/ FailStep(r, poisoned) /\ UNCHANGED poisoned
        \/ StepDone(r, poisoned')
    BY <1>6 DEF HandlerEnds
  <2>2. UNCHANGED steps
    BY <1>6 DEF HandlerEnds
  <2> QED BY <2>1, <2>2, FailMoves, DoneMoves
<1>7. CASE Finish(r)
  BY <1>7 DEF Finish, RowMove
<1> QED BY <1>1, <1>2, <1>3, <1>4, <1>5, <1>6, <1>7

LEMMA RowMoves == [Next]_vars => RowMove
<1>1. CASE CreateWorkflow
  BY <1>1 DEF CreateWorkflow, RowMove, objectVars
<1>2. CASE DeleteWorkflow
  BY <1>2 DEF DeleteWorkflow, RowMove
<1>3. ASSUME NEW a \in Agents, DeleteAgent(a) PROVE RowMove
  BY <1>3 DEF DeleteAgent, RowMove, objectVars
<1>4. ASSUME NEW t \in Tasks, TaskMoves(t) PROVE RowMove
  BY <1>4 DEF TaskMoves, RowMove, objectVars
<1>5. CASE Crash
  BY <1>5 DEF RowMove
<1>6. CASE UNCHANGED vars
  BY <1>6 DEF vars, objectVars, RowMove
<1> QED BY <1>1, <1>2, <1>3, <1>4, <1>5, <1>6, RunRowMoves DEF Next

LEMMA PersistedRow ==
  ASSUME NEW st, NEW sp, PersistWorkflow(st, sp)
  PROVE  row' # NoRow /\ row'.status = st /\ row'.step = sp /\ row'.steps = steps
<1>1. row' = [status |-> st, step |-> sp, steps |-> steps]
  BY DEF PersistWorkflow
<1>2. "step" \in DOMAIN row' /\ "step" \notin DOMAIN NoRow
  BY <1>1 DEF NoRow
<1> QED BY <1>1, <1>2

LEMMA MatchesStep ==
  ASSUME Inv, RowMatches, [Next]_vars
  PROVE  RowMatches'
<1>1. CASE PersistWorkflow(status', step')
  BY <1>1, PersistedRow DEF RowMatches
<1>2. CASE poisoned' # {} \/ life' # "present" \/ UNCHANGED <<status, step, row, poisoned, life>>
  BY <1>2 DEF RowMatches
<1>3. CASE Crash
  <2>1. UNCHANGED row
    BY <1>3 DEF Crash
  <2>2. row = NoRow => life' # "present"
    BY <1>3 DEF Crash
  <2>3. row # NoRow => status' = Restored /\ step' = row.step
    BY <1>3 DEF Crash
  <2> QED BY <2>1, <2>2, <2>3 DEF RowMatches, Restored
<1> QED BY <1>1, <1>2, <1>3, RowMoves DEF RowMove

\* Only the death of the process changes the number of crashes.
LEMMA CrashesCount == [Next]_vars /\ crashes' # crashes => Crash
<1>1. ASSUME NEW r \in Runs,
             \/ RequestRun(r) \/ Begin(r) \/ EnterStep(r) \/ Launch(r) \/ Poll(r)
             \/ TimesOut(r) \/ HandlerEnds(r) \/ Finish(r)
      PROVE  crashes' = crashes
  BY <1>1 DEF RequestRun, Begin, EnterStep, Launch, Poll, TimesOut, HandlerEnds, Finish
<1>2. ASSUME NEW t \in Tasks, TaskMoves(t) PROVE crashes' = crashes
  BY <1>2 DEF TaskMoves
<1>3. ASSUME NEW a \in Agents, DeleteAgent(a) PROVE crashes' = crashes
  BY <1>3 DEF DeleteAgent
<1>4. CreateWorkflow \/ DeleteWorkflow \/ UNCHANGED vars => crashes' = crashes
  BY DEF CreateWorkflow, DeleteWorkflow, vars
<1> QED BY <1>1, <1>2, <1>3, <1>4 DEF Next

\* Whenever the process dies, a workflow whose results can be stored comes
\* back with every step (but a callable's) as it was, however its runs
\* overlapped before (persist_workflow, _restore_state).
THEOREM RestartsKeepProgress == Spec => RestartKeepsProgress
<1> DEFINE Kept == crashes' # crashes /\ life = "present" /\ poisoned = {} =>
                     /\ life' = "present"
                     /\ \A s \in steps' : step'[s] = step[s]
                     /\ status' = IF status = "running" THEN "pending" ELSE status
<1>1. Init => RowMatches
  BY DEF Init, RowMatches
<1>2. Inv /\ RowMatches /\ [Next]_vars => RowMatches'
  BY MatchesStep
<1>3. RowMatches /\ [Next]_vars => [Kept]_vars
  <2> SUFFICES ASSUME RowMatches, [Next]_vars, crashes' # crashes, life = "present", poisoned = {}
               PROVE  Kept
    OBVIOUS
  <2>1. Crash /\ row # NoRow /\ row.step = step
        /\ (row.status = status \/ (row.status = "running" /\ status = "pending"))
    BY CrashesCount DEF RowMatches
  <2>2. life' = "present" /\ status' = Restored /\ step' = row.step
    BY <2>1 DEF Crash
  <2> QED BY <2>1, <2>2 DEF Restored
<1> QED BY <1>1, <1>2, <1>3, WorkflowInvariant, PTL DEF Spec, RestartKeepsProgress

(***************************************************************************)
(* The moves of the only run                                               *)
(***************************************************************************)
LEMMA OnlyRun ==
  ASSUME Inv, SoloInv, ~overlapped, NEW r \in Runs, Begun(r)
  PROVE  /\ poisoned = {} /\ ObjectRight /\ RowRight /\ Alone /\ Unfinished(r)
         /\ status = "running" /\ life # "absent"
         /\ \A o \in Runs : Begun(o) => o = r
<1>1. Unfinished(r) /\ Alone /\ RowRight
  BY DEF SoloInv, Unfinished
<1>2. poisoned = {} /\ life # "absent"
  BY <1>1 DEF SoloInv
<1>3. ObjectRight /\ status = "running"
  BY <1>2 DEF SoloInv, ObjectRight
<1>4. \A o \in Runs : Begun(o) => o = r
  BY <1>1 DEF Alone, Unfinished
<1> QED BY <1>1, <1>2, <1>3, <1>4

Goes(r, pc, n) == run' = [run EXCEPT ![r] = [pc |-> pc, at |-> n]]

LEMMA OnlyRunMoves ==
  ASSUME Inv, Alone, NEW r \in Runs, Unfinished(r), NEW pc \in Phases, NEW n \in 0 .. N,
         Goes(r, pc, n)
  PROVE  /\ Alone'
         /\ run'[r].pc = pc /\ run'[r].at = n
         /\ \A o \in Runs : Begun(o)' <=> o = r /\ pc \in {"next", "launch", "polling", "handler"}
         /\ \A o \in Runs : AtStep(o)' <=> o = r /\ pc \in {"launch", "polling", "handler"}
<1> DEFINE new == [pc |-> pc, at |-> n]
<1>1. new.pc = pc /\ new.at = n
  OBVIOUS
<1>2. run \in [Runs -> [pc : Phases, at : 0 .. N]] /\ run' = [run EXCEPT ![r] = new]
  BY DEF Inv, TypeOK, Goes
<1> HIDE DEF new
<1>3. run'[r] = new /\ \A o \in Runs : o # r => run'[o] = run[o] /\ ~Unfinished(o)
  BY <1>2 DEF Alone
<1>4. \A o \in Runs : o # r => ~Unfinished(o)' /\ ~Begun(o)' /\ ~AtStep(o)'
  BY <1>3 DEF Unfinished, Begun, AtStep
<1>5. /\ Begun(r)' <=> pc \in {"next", "launch", "polling", "handler"}
      /\ AtStep(r)' <=> pc \in {"launch", "polling", "handler"}
  BY <1>1, <1>3 DEF Begun, AtStep
<1> QED BY <1>1, <1>3, <1>4, <1>5 DEF Alone

\* What is persisted of a right object is a right row.
LEMMA PersistedRight ==
  ASSUME steps \in SUBSET Steps, steps' = steps, EndRight', PersistWorkflow(status', step')
  PROVE  RowRight'
<1>1. row' # NoRow /\ row'.status = status' /\ row'.step = step' /\ row'.steps = steps
  BY PersistedRow
<1> QED BY <1>1 DEF RowRight, EndRight

\* The run ends, and a failed step tells why the workflow failed.
LEMMA SoloFails ==
  ASSUME Inv, SoloInv, ~overlapped, NEW r \in Runs, AtStep(r), FailStep(r, poisoned'),
         UNCHANGED <<life, steps, crashes, overlapped>>
  PROVE  SoloInv'
<1> DEFINE s == run[r].at
<1>1. /\ Begun(r) /\ s \in Steps /\ s \in 0 .. N
      /\ steps \in SUBSET Steps /\ step \in [Steps -> Statuses]
  BY DEF AtStep, Begun, Inv, TypeOK, PlaceOfRun
<1>2. /\ ObjectRight /\ RowRight /\ Alone /\ Unfinished(r) /\ life # "absent"
      /\ \A o \in Runs : Begun(o) => o = r
  BY <1>1, OnlyRun
<1>3. Goes(r, "done", s) /\ "done" \in Phases
  BY DEF FailStep, Ends, Awaits, Now, Phases, Goes
<1>4. Alone' /\ \A o \in Runs : ~Begun(o)'
  BY <1>1, <1>2, <1>3, OnlyRunMoves
<1>5. status' = "failed" /\ step' = [step EXCEPT ![s] = "failed"]
  BY DEF FailStep
<1>6. EndRight'
  BY <1>1, <1>5 DEF EndRight
<1>7. crashes' = 0 => \A p \in steps : step'[p] # "running"
  <2> SUFFICES ASSUME crashes = 0, NEW p \in steps, step'[p] = "running" PROVE FALSE
    OBVIOUS
  <2>1. p # s /\ step[p] = "running"
    BY <1>1, <1>5
  <2>2. PICK o \in Runs : AtStep(o) /\ run[o].at = p
    BY <1>2, <2>1 DEF ObjectRight
  <2>3. o = r
    BY <1>2, <2>2 DEF AtStep, Begun
  <2> QED BY <2>1, <2>2, <2>3
<1>8. ObjectRight'
  BY <1>4, <1>5, <1>6, <1>7 DEF ObjectRight
<1>9. RowRight'
  <2>1. CASE PersistWorkflow(status', step')
    BY <1>1, <1>6, <2>1, PersistedRight
  <2>2. CASE UNCHANGED row
    BY <1>2, <2>2 DEF RowRight
  <2> QED BY <2>1, <2>2 DEF FailStep
<1> QED BY <1>2, <1>4, <1>8, <1>9 DEF SoloInv

\* A step is completed, and with it all those the run has passed.
LEMMA SoloGoesOn ==
  ASSUME Inv, SoloInv, ~overlapped, NEW r \in Runs, run[r].pc \in {"polling", "handler"},
         StepDone(r, poisoned'),
         UNCHANGED <<life, steps, crashes, overlapped>>
  PROVE  SoloInv'
<1> DEFINE s == run[r].at
<1>1. CASE poisoned' # {}
  BY <1>1, SoloFails DEF StepDone, AtStep
<1>2. CASE poisoned' = {}
  <2>1. /\ Begun(r) /\ s \in Steps /\ s \in 0 .. N /\ run[r].pc # "next"
        /\ steps \in SUBSET Steps /\ step \in [Steps -> Statuses]
    BY DEF Begun, Inv, TypeOK, PlaceOfRun
  <2>2. /\ ObjectRight /\ RowRight /\ Alone /\ Unfinished(r) /\ life # "absent"
        /\ status = "running" /\ \A o \in Runs : Begun(o) => o = r
    BY <2>1, OnlyRun
  <2>3. /\ Goes(r, "next", s) /\ "next" \in Phases
        /\ step' = [step EXCEPT ![s] = "completed"] /\ status' = status
        /\ PersistWorkflow(status', step')
    BY <1>2 DEF StepDone, Proceeds, Phases, Goes
  <2>4. /\ Alone' /\ run'[r].at = s /\ run'[r].pc = "next"
        /\ \A o \in Runs : (Begun(o)' <=> o = r)
    BY <2>1, <2>2, <2>3, OnlyRunMoves
  <2>5. EndRight' /\ (status' = "running" <=> \E o \in Runs : Begun(o)')
    BY <2>2, <2>3, <2>4 DEF EndRight
  <2>6. ASSUME NEW o \in Runs, Begun(o)', NEW p \in steps, Past(o, p)' PROVE step'[p] = "completed"
    <3>1. o = r /\ (p < s \/ p = s)
      BY <2>4, <2>6 DEF Past
    <3>2. p < s => step[p] = "completed"
      BY <2>1, <2>2 DEF ObjectRight, Past
    <3> QED BY <2>1, <2>3, <3>1, <3>2
  <2>7. crashes' = 0 => \A p \in steps : step'[p] # "running"
    <3> SUFFICES ASSUME crashes = 0, NEW p \in steps, step'[p] = "running" PROVE FALSE
      OBVIOUS
    <3>1. p # s /\ step[p] = "running"
      BY <2>1, <2>3
    <3>2. PICK o \in Runs : AtStep(o) /\ run[o].at = p
      BY <2>2, <3>1 DEF ObjectRight
    <3> QED BY <2>2, <3>1, <3>2 DEF AtStep, Begun
  <2>8. ObjectRight'
    BY <2>5, <2>6, <2>7 DEF ObjectRight
  <2>9. RowRight'
    BY <2>1, <2>3, <2>5, PersistedRight
  <2> QED BY <1>2, <2>2, <2>4, <2>8, <2>9 DEF SoloInv
<1> QED BY <1>1, <1>2

\* The run steps from await to await, and nothing is written.
LEMMA SoloAwaits ==
  ASSUME Inv, SoloInv, ~overlapped, NEW r \in Runs, AtStep(r),
         NEW pc \in {"polling", "handler"}, Awaits(r, pc),
         UNCHANGED <<life, objectVars, row, crashes, overlapped>>
  PROVE  SoloInv'
<1>1. /\ Begun(r) /\ run[r].at \in 0 .. N /\ run[r].pc # "next" /\ pc # "next" /\ pc \in Phases
      /\ UNCHANGED <<status, step, steps, poisoned>>
  BY DEF AtStep, Begun, Inv, TypeOK, PlaceOfRun, Phases, objectVars
<1>2. /\ ObjectRight /\ RowRight /\ Alone /\ Unfinished(r) /\ life # "absent" /\ poisoned = {}
      /\ status = "running" /\ \A o \in Runs : Begun(o) => o = r
  BY <1>1, OnlyRun
<1>3. Goes(r, pc, run[r].at)
  BY DEF Awaits, Now, Goes
<1>4. /\ Alone' /\ run'[r].at = run[r].at /\ run'[r].pc = pc
      /\ \A o \in Runs : (Begun(o)' <=> o = r) /\ (AtStep(o)' <=> o = r)
  BY <1>1, <1>2, <1>3, OnlyRunMoves
<1>5. \A p \in steps : Past(r, p)' <=> Past(r, p)
  BY <1>1, <1>4 DEF Past
<1>6. \A o \in Runs : AtStep(o) => o = r
  BY <1>2 DEF AtStep, Begun
<1>7. \A o \in Runs : Begun(o)' => \A p \in steps : Past(o, p)' => step[p] = "completed"
  BY <1>1, <1>2, <1>4, <1>5 DEF ObjectRight
<1>8. crashes = 0 => \A p \in steps : step[p] = "running" => AtStep(r)' /\ run'[r].at = p
  BY <1>2, <1>4, <1>6 DEF ObjectRight
<1>9. ObjectRight' /\ RowRight'
  BY <1>1, <1>2, <1>4, <1>7, <1>8 DEF ObjectRight, EndRight, RowRight
<1> QED BY <1>1, <1>2, <1>4, <1>9 DEF SoloInv

(***************************************************************************)
(* The actions                                                             *)
(***************************************************************************)
\* Nothing of the workflow changes, or nothing but its row for the better.
LEMMA SoloFrame ==
  ASSUME Inv, SoloInv, ~overlapped', UNCHANGED <<objectVars, run, crashes, overlapped>>,
         RowRight', life' = "absent" => life = "absent"
  PROVE  SoloInv'
<1>1. /\ UNCHANGED <<status, step, steps, poisoned>>
      /\ Alone /\ (poisoned = {} => ObjectRight) /\ (poisoned # {} => \A r \in Runs : ~Begun(r))
      /\ life = "absent" => poisoned = {} /\ \A r \in Runs : ~Unfinished(r)
  BY DEF SoloInv, objectVars
<1>2. \A r \in Runs : /\ (Begun(r)' <=> Begun(r)) /\ (Unfinished(r)' <=> Unfinished(r))
                      /\ (AtStep(r)' <=> AtStep(r)) /\ \A s \in steps : Past(r, s)' <=> Past(r, s)
  BY DEF Begun, Unfinished, AtStep, Past
<1>3. ObjectRight' <=> ObjectRight
  BY <1>1, <1>2 DEF ObjectRight, EndRight
<1>4. Alone'
  BY <1>1, <1>2 DEF Alone
<1> QED BY <1>1, <1>2, <1>3, <1>4 DEF SoloInv

LEMMA CreateSolo ==
  ASSUME Inv, SoloInv, ~overlapped', CreateWorkflow
  PROVE  SoloInv'
<1>1. /\ UNCHANGED <<status, step, steps, poisoned>> /\ UNCHANGED <<objectVars, run, crashes, overlapped>>
      /\ life = "absent" /\ life' = "present" /\ PersistWorkflow(status', step')
      /\ steps \in SUBSET Steps
  BY DEF CreateWorkflow, objectVars, Inv, TypeOK
<1>2. ObjectRight
  BY <1>1 DEF SoloInv
<1>3. EndRight'
  BY <1>1, <1>2 DEF ObjectRight, EndRight
<1>4. RowRight'
  BY <1>1, <1>3, PersistedRight
<1> QED BY <1>1, <1>4, SoloFrame

LEMMA QuietSolo ==
  ASSUME Inv, SoloInv, ~overlapped',
         \/ DeleteWorkflow \/ (\E a \in Agents : DeleteAgent(a))
         \/ (\E t \in Tasks : TaskMoves(t)) \/ UNCHANGED vars
  PROVE  SoloInv'
<1>1. /\ UNCHANGED <<objectVars, run, crashes, overlapped>>
      /\ life' = "absent" => life = "absent"
      /\ row' = row \/ row' = NoRow
  BY DEF DeleteWorkflow, DeleteAgent, TaskMoves, vars
<1>2. RowRight
  BY <1>1 DEF SoloInv
<1>3. RowRight'
  BY <1>1, <1>2 DEF RowRight
<1> QED BY <1>1, <1>3, SoloFrame

\* A request is accepted when no other run is unfinished, or they overlap.
LEMMA RequestSolo ==
  ASSUME Inv, SoloInv, ~overlapped', NEW r \in Runs, RequestRun(r)
  PROVE  SoloInv'
<1>1. /\ ~overlapped /\ \A o \in Runs : ~Unfinished(o)
      /\ life = "present" /\ UNCHANGED <<life, status, step, steps, poisoned, row, crashes>>
      /\ run \in [Runs -> [pc : Phases, at : 0 .. N]]
  BY DEF RequestRun, objectVars, Inv, TypeOK
<1> DEFINE new == Now(r, "requested")
<1>2. run' = [run EXCEPT ![r] = new] /\ new.pc = "requested"
  BY DEF RequestRun, Now
<1> HIDE DEF new
<1>3. \A o \in Runs : ~Begun(o) /\ ~AtStep(o)
  BY <1>1 DEF Unfinished, Begun, AtStep
<1>4. \A o \in Runs : ~Begun(o)' /\ ~AtStep(o)' /\ (Unfinished(o)' => o = r)
  BY <1>1, <1>2, <1>3 DEF Unfinished, Begun, AtStep
<1>5. ObjectRight => ObjectRight'
  BY <1>1, <1>3, <1>4 DEF ObjectRight, EndRight
<1>6. RowRight /\ (poisoned = {} => ObjectRight)
  BY <1>1 DEF SoloInv
<1>7. RowRight' /\ Alone'
  BY <1>1, <1>4, <1>6 DEF RowRight, Alone
<1> QED BY <1>1, <1>4, <1>5, <1>6, <1>7 DEF SoloInv

\* A run ends that has not begun, or begins with an old result that cannot
\* be stored: it dies at once.
LEMMA BeginSolo ==
  ASSUME Inv, SoloInv, ~overlapped', NEW r \in Runs, Begin(r)
  PROVE  SoloInv'
<1>1. /\ ~overlapped /\ run[r].pc = "requested" /\ run[r].at = 0 /\ 0 \in 0 .. N
      /\ UNCHANGED <<life, step, steps, poisoned, crashes, overlapped>>
      /\ steps \in SUBSET Steps
  BY WorkflowAssumption DEF Begin, Inv, TypeOK, PlaceOfRun
<1>2. /\ Unfinished(r) /\ Alone /\ RowRight /\ life # "absent"
      /\ poisoned = {} => ObjectRight
  BY <1>1 DEF Unfinished, SoloInv
<1>3. \A o \in Runs : ~Begun(o) /\ ~AtStep(o)
  BY <1>1, <1>2 DEF Alone, Unfinished, Begun, AtStep
<1>4. CASE Ends(r)
  <2>1. Goes(r, "done", 0) /\ "done" \in Phases
    BY <1>1, <1>4 DEF Ends, Awaits, Now, Goes, Phases
  <2>2. Alone' /\ \A o \in Runs : ~Begun(o)' /\ ~AtStep(o)'
    BY <1>1, <1>2, <2>1, OnlyRunMoves
  <2>3. row' = row /\ (poisoned = {} => status' = status)
    <3>1. ~Proceeds(r, "next", 0)
      BY <1>4 DEF Ends, Awaits, Proceeds, NoRun, Now, Inv, TypeOK
    <3> QED BY <3>1 DEF Begin
  <2>4. poisoned = {} => ObjectRight'
    BY <1>1, <1>2, <1>3, <2>2, <2>3 DEF ObjectRight, EndRight
  <2>5. RowRight'
    BY <1>2, <2>3 DEF RowRight
  <2> QED BY <1>1, <1>2, <2>2, <2>4, <2>5 DEF SoloInv
<1>5. CASE /\ poisoned = {} /\ status' = "running"
           /\ PersistWorkflow(status', step) /\ Proceeds(r, "next", 0)
  <2>1. Goes(r, "next", 0) /\ "next" \in Phases
    BY <1>5 DEF Proceeds, Goes, Phases
  <2>2. /\ Alone' /\ run'[r].at = 0 /\ run'[r].pc = "next"
        /\ \A o \in Runs : (Begun(o)' <=> o = r)
    BY <1>1, <1>2, <2>1, OnlyRunMoves
  <2>3. EndRight'
    BY <1>5 DEF EndRight
  <2>4. \A s \in steps : ~Past(r, s)'
    <3>1. \A s \in steps : s \in Int /\ ~(s < 0) /\ s # 0
      BY <1>1, StepsArePositive
    <3> QED BY <2>2, <3>1 DEF Past
  <2>5. crashes = 0 => \A s \in steps : step[s] # "running"
    BY <1>2, <1>3, <1>5 DEF ObjectRight
  <2>6. ObjectRight'
    BY <1>1, <1>5, <2>2, <2>3, <2>4, <2>5 DEF ObjectRight
  <2>7. RowRight'
    BY <1>1, <1>5, <2>3, PersistedRight
  <2> QED BY <1>1, <1>2, <1>5, <2>2, <2>6, <2>7 DEF SoloInv
<1> QED BY <1>4, <1>5 DEF Begin

LEMMA EnterSolo ==
  ASSUME Inv, SoloInv, ~overlapped', NEW r \in Runs, EnterStep(r)
  PROVE  SoloInv'
<1>1. /\ ~overlapped /\ run[r].pc = "next" /\ Begun(r)
      /\ UNCHANGED <<life, status, steps, poisoned, crashes, overlapped>>
      /\ steps \in SUBSET Steps /\ step \in [Steps -> Statuses] /\ run[r].at \in 0 .. N
  BY DEF EnterStep, Inv, TypeOK, Begun
<1>2. /\ poisoned = {} /\ ObjectRight /\ RowRight /\ Alone /\ Unfinished(r) /\ life # "absent"
      /\ status = "running" /\ \A o \in Runs : Begun(o) => o = r
  BY <1>1, OnlyRun
<1>3. PICK s \in Remaining(r) :
        /\ \A p \in Remaining(r) : s <= p
        /\ step' = [step EXCEPT ![s] = "running"]
        /\ PersistWorkflow(status, step') /\ Proceeds(r, "launch", s)
  BY <1>2 DEF EnterStep
<1>4. s \in steps /\ s \in Steps /\ s \in 0 .. N /\ s > run[r].at
  BY <1>1, <1>3, WorkflowAssumption DEF Remaining, Steps
<1>5. Goes(r, "launch", s) /\ "launch" \in Phases
  BY <1>3 DEF Proceeds, Goes, Phases
<1>6. /\ Alone' /\ run'[r].at = s /\ run'[r].pc = "launch"
      /\ \A o \in Runs : (Begun(o)' <=> o = r) /\ (AtStep(o)' <=> o = r)
  BY <1>1, <1>2, <1>4, <1>5, OnlyRunMoves
<1>7. EndRight'
  BY <1>1, <1>2 DEF EndRight
<1>8. ASSUME NEW p \in steps, Past(r, p)' PROVE step'[p] = "completed"
  <2>1. p < s /\ p \in Int /\ run[r].at \in Int /\ s \in Int
    BY <1>1, <1>4, <1>6, <1>8, WorkflowAssumption DEF Past, Steps
  <2>2. p \notin Remaining(r)
    BY <1>3, <2>1 DEF Remaining
  <2>3. p < run[r].at \/ p = run[r].at
    BY <1>8, <2>1, <2>2 DEF Remaining
  <2>4. step[p] = "completed"
    BY <1>1, <1>2, <2>3 DEF ObjectRight, Past
  <2> QED BY <1>1, <1>3, <2>1, <2>4
<1>9. ASSUME crashes = 0, NEW p \in steps, step'[p] = "running" PROVE p = s
  <2>1. ~(\E o \in Runs : AtStep(o))
    BY <1>1, <1>2 DEF AtStep, Begun
  <2>2. step[p] # "running"
    BY <1>2, <1>9, <2>1 DEF ObjectRight
  <2> QED BY <1>1, <1>3, <1>9, <2>2
<1>10. ObjectRight'
  BY <1>1, <1>2, <1>6, <1>7, <1>8, <1>9 DEF ObjectRight
<1>11. RowRight'
  BY <1>1, <1>3, <1>7, PersistedRight
<1> QED BY <1>1, <1>2, <1>6, <1>10, <1>11 DEF SoloInv

LEMMA FinishSolo ==
  ASSUME Inv, SoloInv, ~overlapped', NEW r \in Runs, Finish(r)
  PROVE  SoloInv'
<1>1. /\ ~overlapped /\ run[r].pc = "next" /\ Begun(r) /\ Remaining(r) = {} /\ Ends(r)
      /\ UNCHANGED <<life, step, steps, poisoned, crashes, overlapped>>
      /\ steps \in SUBSET Steps /\ run[r].at \in 0 .. N /\ status' = "completed"
  BY DEF Finish, Inv, TypeOK, Begun
<1>2. /\ poisoned = {} /\ ObjectRight /\ RowRight /\ Alone /\ Unfinished(r) /\ life # "absent"
      /\ \A o \in Runs : Begun(o) => o = r
  BY <1>1, OnlyRun
<1>3. Goes(r, "done", run[r].at) /\ "done" \in Phases
  BY <1>1 DEF Ends, Awaits, Now, Goes, Phases
<1>4. Alone' /\ \A o \in Runs : ~Begun(o)'
  BY <1>1, <1>2, <1>3, OnlyRunMoves
<1>5. ASSUME NEW p \in steps PROVE step[p] = "completed"
  <2>1. ~(p > run[r].at) /\ p \in Int /\ run[r].at \in Int
    BY <1>1, WorkflowAssumption DEF Remaining, Steps
  <2>2. Past(r, p)
    BY <1>1, <2>1 DEF Past
  <2> QED BY <1>1, <1>2, <2>2 DEF ObjectRight
<1>6. EndRight' /\ ObjectRight'
  BY <1>1, <1>4, <1>5 DEF EndRight, ObjectRight
<1>7. RowRight'
  <2>1. PersistWorkflow(status', step')
    BY <1>1, <1>2 DEF Finish
  <2> QED BY <1>1, <1>6, <2>1, PersistedRight
<1> QED BY <1>1, <1>2, <1>4, <1>6, <1>7 DEF SoloInv

LEMMA StepSolo ==
  ASSUME Inv, SoloInv, ~overlapped', NEW r \in Runs,
         Launch(r) \/ Poll(r) \/ TimesOut(r) \/ HandlerEnds(r)
  PROVE  SoloInv'
<1>1. /\ ~overlapped /\ AtStep(r) /\ UNCHANGED <<life, steps, crashes, overlapped>>
  BY DEF Launch, Poll, TimesOut, MayTimeOut, HandlerEnds, AtStep
<1>2. CASE Launch(r)
  <2>1. UNCHANGED poisoned
    BY <1>2 DEF Launch
  <2>2. CASE FailStep(r, poisoned)
    BY <1>1, <2>1, <2>2, SoloFails
  <2>3. CASE UNCHANGED <<status, step, row>> /\ \E pc \in {"polling", "handler"} : Awaits(r, pc)
    BY <1>1, <2>1, <2>3, SoloAwaits DEF objectVars
  <2> QED BY <1>2, <2>2, <2>3 DEF Launch
<1>3. CASE Poll(r) \/ TimesOut(r)
  <2>1. UNCHANGED poisoned /\ run[r].pc = "polling" /\ (FailStep(r, poisoned) \/ StepDone(r, poisoned))
    BY <1>3 DEF Poll, TimesOut, MayTimeOut
  <2> QED BY <1>1, <2>1, SoloFails, SoloGoesOn
<1>4. CASE HandlerEnds(r)
  <2>1. run[r].pc = "handler" /\ (FailStep(r, poisoned') \/ StepDone(r, poisoned'))
    BY <1>4 DEF HandlerEnds
  <2> QED BY <1>1, <2>1, SoloFails, SoloGoesOn
<1> QED BY <1>2, <1>3, <1>4

\* A restart makes a right object of a right row, and ends every run.
LEMMA CrashSolo ==
  ASSUME Inv, SoloInv, ~overlapped', Crash
  PROVE  SoloInv'
<1>1. /\ ~overlapped /\ row' = row /\ poisoned' = {} /\ crashes \in Nat /\ crashes' = crashes + 1
      /\ row \in Rows \cup {NoRow} /\ run \in [Runs -> [pc : Phases, at : 0 .. N]]
      /\ run' = [r \in Runs |-> IF Unfinished(r) THEN Now(r, "done") ELSE run[r]]
  BY DEF Crash, Inv, TypeOK
<1>2. RowRight
  BY <1>1 DEF SoloInv
<1>3. \A r \in Runs : ~Unfinished(r)' /\ ~Begun(r)'
  <2> SUFFICES ASSUME NEW r \in Runs PROVE ~Unfinished(r)'
    BY DEF Unfinished
  <2>1. CASE Unfinished(r)
    BY <1>1, <2>1 DEF Unfinished, Begun, Now
  <2>2. CASE ~Unfinished(r)
    BY <1>1, <2>2 DEF Unfinished, Begun
  <2> QED BY <2>1, <2>2
<1>4. EndRight' /\ status' # "running"
  <2>1. CASE row = NoRow
    BY <2>1 DEF Crash, NoObject, EndRight
  <2>2. CASE row # NoRow
    <3>1. status' = Restored /\ step' = row.step /\ steps' = row.steps \ HandlerSteps
      BY <2>2 DEF Crash
    <3> QED BY <1>2, <2>2, <3>1 DEF RowRight, EndRight, Restored
  <2> QED BY <2>1, <2>2
<1>5. ObjectRight'
  BY <1>1, <1>3, <1>4 DEF ObjectRight
<1>6. RowRight' /\ Alone'
  BY <1>1, <1>2, <1>3 DEF RowRight, Alone
<1> QED BY <1>1, <1>3, <1>5, <1>6 DEF SoloInv

LEMMA SoloStep == Inv /\ SoloInv /\ [Next]_vars => SoloInv'
<1> SUFFICES ASSUME Inv, SoloInv, [Next]_vars, ~overlapped' PROVE SoloInv'
  BY DEF SoloInv
<1>1. ASSUME NEW r \in Runs,
             \/ RequestRun(r) \/ Begin(r) \/ EnterStep(r) \/ Launch(r) \/ Poll(r)
             \/ TimesOut(r) \/ HandlerEnds(r) \/ Finish(r)
      PROVE  SoloInv'
  BY <1>1, RequestSolo, BeginSolo, EnterSolo, StepSolo, FinishSolo
<1> QED BY <1>1, CreateSolo, QuietSolo, CrashSolo DEF Next

\* What GET shows of a workflow is right, over any number of requests, time
\* outs, deletions and restarts, unless two runs overlapped or a result could
\* not be stored (run_workflow, persist_workflow, _restore_state).
THEOREM SoloStatusIsRight == Spec => []SoloStatusRight
<1>1. Init => SoloInv
  <2> SUFFICES ASSUME Init PROVE SoloInv
    OBVIOUS
  <2>1. \A r \in Runs : ~Unfinished(r) /\ ~Begun(r) /\ ~AtStep(r)
    BY DEF Init, Unfinished, Begun, AtStep
  <2>2. row = NoRow /\ status = "pending" /\ \A s \in steps : step[s] = "pending"
    BY DEF Init, NoObject
  <2>3. EndRight /\ ObjectRight /\ RowRight /\ Alone
    BY <2>1, <2>2 DEF EndRight, ObjectRight, RowRight, Alone
  <2> QED BY <2>1, <2>3 DEF SoloInv, Init
<1>2. Inv /\ SoloInv => SoloStatusRight
  <2> SUFFICES ASSUME Inv, SoloInv, ~overlapped, poisoned = {} PROVE SoloStatusRight
    BY DEF SoloStatusRight
  <2>1. ObjectRight /\ crashes \in Nat /\ steps \in SUBSET Steps
    BY DEF SoloInv, Inv, TypeOK
  <2>2. status = "failed" /\ steps = Steps => \E s \in steps : step[s] = "failed"
    BY <2>1 DEF ObjectRight, EndRight
  <2>3. \A r \in Runs : Begun(r) => \A s \in steps : s < run[r].at => step[s] = "completed"
    BY <2>1 DEF ObjectRight, Past
  <2>4. \A s \in steps : step[s] = "running" => status = "running" \/ crashes > 0
    BY <2>1 DEF ObjectRight, AtStep, Begun
  <2> QED BY <2>1, <2>2, <2>3, <2>4 DEF ObjectRight, EndRight, SoloStatusRight
<1> QED BY <1>1, <1>2, SoloStep, WorkflowInvariant, PTL DEF Spec
=============================================================================
