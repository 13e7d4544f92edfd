-------------------------- MODULE WorkflowRunProofs --------------------------
(***************************************************************************)
(* Theorems about WorkflowRun, for every number of steps, every choice of  *)
(* callables among them, and any number of runs and crashes.               *)
(***************************************************************************)
EXTENDS WorkflowRun, TLAPS

TaskSteps == Steps \ HandlerSteps
CompletedBefore(r, n) == \A p \in TaskSteps : p < n => state[<<r, p>>] = "completed"

\* Where a coroutine stands says which tasks of its run have completed.
PlaceOfRun ==
  \A r \in Runs :
    /\ run[r].pc \in {"idle", "requested"} => run[r].at = 0
    /\ run[r].pc = "next" => CompletedBefore(r, run[r].at + 1)
    /\ run[r].pc \in {"launch", "polling", "handler"} =>
         run[r].at \in Steps /\ CompletedBefore(r, run[r].at)
    /\ run[r].pc = "handler" => run[r].at \in HandlerSteps

\* No restart loses a step that is a task.
TaskStepsKept ==
  /\ TaskSteps \subseteq steps
  /\ row # NoRow => TaskSteps \subseteq row.steps

Inv == TypeOK /\ RunsStepsInOrder /\ PlaceOfRun /\ TaskStepsKept

LEMMA InitInv == Init => Inv
<1> SUFFICES ASSUME Init PROVE Inv
  OBVIOUS
<1>1. TypeOK
  <2>1. run \in [Runs -> [pc : Phases, at : 0 .. N]]
    BY WorkflowAssumption DEF Init, Phases
  <2>2. state \in [Tasks -> Life!States] /\ failures \in [Tasks -> Nat]
    BY DEF Init, Life!Init, Life!States
  <2>3. step \in [Steps -> Statuses] /\ steps \in SUBSET Steps /\ status \in Statuses
    BY DEF Init, NoObject, Statuses
  <2> QED BY <2>1, <2>2, <2>3 DEF Init, TypeOK
<1>2. \A r \in Runs : \A s \in Steps : state[<<r, s>>] = "absent"
  BY DEF Init, Life!Init, Tasks
<1>3. RunsStepsInOrder
  BY <1>2 DEF RunsStepsInOrder
<1>4. PlaceOfRun /\ TaskStepsKept
  BY DEF Init, NoObject, PlaceOfRun, TaskStepsKept, TaskSteps
<1> QED BY <1>1, <1>3, <1>4 DEF Inv

(***************************************************************************)
(* The tasks                                                               *)
(***************************************************************************)

\* A submission creates one task; whatever else happens to tasks, what is
\* completed stays so and nothing appears.
LEMMA SubmitCreatesOne ==
  ASSUME TypeOK, NEW t \in Tasks, Life!Submit(t)
  PROVE  /\ state' \in [Tasks -> Life!States] /\ failures' \in [Tasks -> Nat]
         /\ state[t] = "absent"
         /\ \A u \in Tasks : u # t => state'[u] = state[u]
  BY DEF TypeOK, Life!Submit, Life!Become, Life!States

LEMMA TaskMovesKeep ==
  ASSUME TypeOK, NEW t \in Tasks, Life!Start(t) \/ Life!Finish(t) \/ Life!Failure(t)
  PROVE  /\ state' \in [Tasks -> Life!States] /\ failures' \in [Tasks -> Nat]
         /\ \A u \in Tasks : /\ state[u] = "completed" => state'[u] = "completed"
                             /\ state[u] = "absent" => state'[u] = "absent"
  BY DEF TypeOK, Life!Start, Life!Finish, Life!Failure, Life!Become, Life!States, Life!Unfinished

LEMMA RestartKeeps ==
  ASSUME TypeOK, Life!Restart
  PROVE  /\ state' \in [Tasks -> Life!States] /\ failures' \in [Tasks -> Nat]
         /\ \A u \in Tasks : /\ state[u] = "completed" => state'[u] = "completed"
                             /\ state[u] = "absent" => state'[u] = "absent"
  BY DEF TypeOK, Life!Restart, Life!States, Life!Unfinished

(***************************************************************************)
(* The object and its row                                                  *)
(***************************************************************************)

\* Whatever is persisted is a row with every task step.
LEMMA PersistKeeps ==
  ASSUME Inv, NEW st \in Statuses, NEW sp \in [Steps -> Statuses], steps' = steps,
         PersistWorkflow(st, sp) \/ UNCHANGED row
  PROVE  row' \in Rows \cup {NoRow} /\ TaskStepsKept'
<1>1. steps \in SUBSET Steps /\ row \in Rows \cup {NoRow} /\ TaskStepsKept
  BY DEF Inv, TypeOK
<1>2. CASE PersistWorkflow(st, sp)
  <2> DEFINE new == [status |-> st, step |-> sp, steps |-> steps]
  <2>1. new \in Rows /\ new.steps = steps
    BY <1>1 DEF Rows
  <2>2. row' = new
    BY <1>2 DEF PersistWorkflow
  <2> HIDE DEF new
  <2> QED BY <1>1, <2>1, <2>2 DEF TaskStepsKept
<1>3. CASE UNCHANGED row
  BY <1>1, <1>3 DEF TaskStepsKept
<1> QED BY <1>2, <1>3

(***************************************************************************)
(* The moves of a coroutine                                                *)
(***************************************************************************)
RunOK == run \in [Runs -> [pc : Phases, at : 0 .. N]] /\ current \in Runs \cup {NoRun}
RunInv == RunOK /\ RunsStepsInOrder /\ PlaceOfRun
ObjectOK ==
  /\ status \in Statuses
  /\ step \in [Steps -> Statuses]
  /\ row \in Rows \cup {NoRow}
  /\ TaskStepsKept

\* What has to hold of the place (pc, n) that the coroutine of r moves to.
MayBeAt(r, pc, n) ==
  /\ pc \in {"idle", "requested"} => n = 0
  /\ pc = "next" => CompletedBefore(r, n + 1)
  /\ pc \in {"launch", "polling", "handler"} => n \in Steps /\ CompletedBefore(r, n)
  /\ pc = "handler" => n \in HandlerSteps

LEMMA MoveKeeps ==
  ASSUME Inv, NEW r \in Runs, NEW pc \in Phases, NEW n \in 0 .. N,
         run' = [run EXCEPT ![r] = [pc |-> pc, at |-> n]],
         current' \in Runs \cup {NoRun},
         state' = state,
         run[r].at <= n,
         MayBeAt(r, pc, n)
  PROVE  RunInv'
<1> DEFINE new == [pc |-> pc, at |-> n]
<1>1. new \in [pc : Phases, at : 0 .. N] /\ new.pc = pc /\ new.at = n
  OBVIOUS
<1>2. run' = [run EXCEPT ![r] = new]
  OBVIOUS
<1> HIDE DEF new
<1>3. run \in [Runs -> [pc : Phases, at : 0 .. N]] /\ RunsStepsInOrder /\ PlaceOfRun
  BY DEF Inv, TypeOK
<1>4. RunOK'
  BY <1>1, <1>2, <1>3 DEF RunOK
<1>5. RunsStepsInOrder'
  <2> SUFFICES ASSUME NEW o \in Runs, NEW s \in Steps, state[<<o, s>>] # "absent"
               PROVE  /\ s <= run'[o].at
                      /\ \A p \in TaskSteps : p < s => state[<<o, p>>] = "completed"
    BY DEF RunsStepsInOrder, TaskSteps
  <2>1. /\ s <= run[o].at
        /\ \A p \in TaskSteps : p < s => state[<<o, p>>] = "completed"
    BY <1>3 DEF RunsStepsInOrder, TaskSteps
  <2>2. s \in Int /\ n \in Int /\ run[r].at \in Int
    BY <1>3, WorkflowAssumption DEF Steps
  <2> QED BY <1>1, <1>2, <1>3, <2>1, <2>2
<1>6. PlaceOfRun'
  <2> SUFFICES ASSUME NEW o \in Runs PROVE MayBeAt(o, run'[o].pc, run'[o].at)
    BY DEF PlaceOfRun, MayBeAt, CompletedBefore
  <2>1. CASE o = r
    BY <1>1, <1>2, <1>3, <2>1
  <2>2. CASE o # r
    BY <1>2, <1>3, <2>2 DEF PlaceOfRun, MayBeAt
  <2> QED BY <2>1, <2>2
<1> QED BY <1>4, <1>5, <1>6 DEF RunInv

\* An await or an end leaves the coroutine at its step.
LEMMA AwaitKeeps ==
  ASSUME Inv, NEW r \in Runs, NEW pc \in Phases, Awaits(r, pc), state' = state,
         MayBeAt(r, pc, run[r].at)
  PROVE  RunInv'
<1>1. run[r] \in [pc : Phases, at : 0 .. N] /\ run \in [Runs -> [pc : Phases, at : 0 .. N]]
  BY DEF Inv, TypeOK
<1>2. run' = [run EXCEPT ![r] = [pc |-> pc, at |-> run[r].at]]
  BY DEF Awaits, Now
<1>3. run[r].at \in 0 .. N /\ run[r].at <= run[r].at /\ current' \in Runs \cup {NoRun}
  BY <1>1, WorkflowAssumption DEF Awaits
<1> QED BY <1>2, <1>3, MoveKeeps

LEMMA EndKeeps ==
  ASSUME Inv, NEW r \in Runs, Ends(r), state' = state
  PROVE  RunInv'
<1>1. "done" \in Phases /\ Awaits(r, "done") /\ MayBeAt(r, "done", run[r].at)
  BY DEF Ends, Phases, MayBeAt
<1> QED BY <1>1, AwaitKeeps

LEMMA FailKeeps ==
  ASSUME Inv, NEW r \in Runs, NEW poison, FailStep(r, poison), state' = state, steps' = steps
  PROVE  RunInv' /\ ObjectOK'
<1>1. RunInv'
  BY EndKeeps DEF FailStep
<1>2. status' \in Statuses /\ step' \in [Steps -> Statuses]
  BY DEF FailStep, Inv, TypeOK, Statuses
<1>3. PersistWorkflow(status', step') \/ UNCHANGED row
  BY DEF FailStep
<1>4. row' \in Rows \cup {NoRow} /\ TaskStepsKept'
  BY <1>2, <1>3, PersistKeeps
<1> QED BY <1>1, <1>2, <1>4 DEF ObjectOK

\* The coroutine goes on from a step whose task, if it has one, completed.
LEMMA DoneKeeps ==
  ASSUME Inv, NEW r \in Runs, NEW poison, StepDone(r, poison), state' = state, steps' = steps,
         run[r].pc \in {"polling", "handler"},
         run[r].at \in TaskSteps => state[<<r, run[r].at>>] = "completed"
  PROVE  RunInv' /\ ObjectOK'
<1>1. CASE poison = {}
  <2>1. run[r].at \in 0 .. N /\ "next" \in Phases /\ CompletedBefore(r, run[r].at)
    BY DEF Inv, TypeOK, Phases, PlaceOfRun
  <2>2. CompletedBefore(r, run[r].at + 1)
    BY <2>1, WorkflowAssumption DEF CompletedBefore, TaskSteps, Steps
  <2>3. MayBeAt(r, "next", run[r].at) /\ run[r].at <= run[r].at
    BY <2>1, <2>2, WorkflowAssumption DEF MayBeAt
  <2>4. /\ run' = [run EXCEPT ![r] = [pc |-> "next", at |-> run[r].at]]
        /\ current' \in Runs \cup {NoRun}
    BY <1>1 DEF StepDone, Proceeds
  <2>5. RunInv'
    BY <2>1, <2>3, <2>4, MoveKeeps
  <2>6. status' \in Statuses /\ step' \in [Steps -> Statuses]
    BY <1>1 DEF StepDone, Inv, TypeOK, Statuses
  <2>7. PersistWorkflow(status', step')
    BY <1>1 DEF StepDone
  <2>8. row' \in Rows \cup {NoRow} /\ TaskStepsKept'
    BY <2>6, <2>7, PersistKeeps
  <2> QED BY <2>5, <2>6, <2>8 DEF ObjectOK
<1>2. CASE poison # {}
  BY <1>2, FailKeeps DEF StepDone
<1> QED BY <1>1, <1>2

(***************************************************************************)
(* One lemma per action                                                    *)
(***************************************************************************)

\* The parts of the invariant that no coroutine touches.
RestOK ==
  /\ life \in {"absent", "present", "deleted"}
  /\ steps \in SUBSET Steps
  /\ poisoned \in SUBSET HandlerSteps
  /\ state \in [Tasks -> Life!States]
  /\ failures \in [Tasks -> Nat]
  /\ registered \in SUBSET Agents
  /\ crashes \in Nat
  /\ overlapped \in BOOLEAN

LEMMA Parts == Inv <=> RunInv /\ ObjectOK /\ RestOK
  BY DEF Inv, TypeOK, RunInv, RunOK, ObjectOK, RestOK

LEMMA PartsNext == RunInv' /\ ObjectOK' /\ RestOK' => Inv'
  BY DEF Inv, TypeOK, RunInv, RunOK, ObjectOK, RestOK

LEMMA RestSame ==
  ASSUME Inv, UNCHANGED <<life, steps, poisoned, taskVars, registered, crashes, overlapped>>
  PROVE  RestOK'
  BY Parts DEF RestOK, taskVars

LEMMA RunSame == ASSUME Inv, UNCHANGED <<run, current, state>> PROVE RunInv'
  BY DEF Inv, TypeOK, RunInv, RunOK, RunsStepsInOrder, PlaceOfRun, CompletedBefore

LEMMA CreateWorkflowInv == ASSUME Inv, CreateWorkflow PROVE Inv'
<1>1. RunInv'
  BY RunSame DEF CreateWorkflow, taskVars
<1>2. ObjectOK'
  BY PersistKeeps, Parts DEF CreateWorkflow, objectVars, ObjectOK
<1>3. RestOK'
  BY Parts DEF CreateWorkflow, objectVars, taskVars, RestOK
<1> QED BY <1>1, <1>2, <1>3, PartsNext

LEMMA DeleteWorkflowInv == ASSUME Inv, DeleteWorkflow PROVE Inv'
<1>1. RunInv'
  BY RunSame DEF DeleteWorkflow, taskVars
<1>2. ObjectOK' /\ RestOK'
  BY Parts DEF DeleteWorkflow, objectVars, taskVars, ObjectOK, TaskStepsKept, RestOK
<1> QED BY <1>1, <1>2, PartsNext

LEMMA DeleteAgentInv == ASSUME Inv, NEW a \in Agents, DeleteAgent(a) PROVE Inv'
<1>1. RunInv'
  BY RunSame DEF DeleteAgent, taskVars
<1>2. ObjectOK' /\ RestOK'
  BY Parts DEF DeleteAgent, objectVars, taskVars, ObjectOK, TaskStepsKept, RestOK
<1> QED BY <1>1, <1>2, PartsNext

LEMMA RequestRunInv == ASSUME Inv, NEW r \in Runs, RequestRun(r) PROVE Inv'
<1>1. RunInv'
  <2>1. run[r] \in [pc : Phases, at : 0 .. N] /\ run[r].at = 0 /\ "requested" \in Phases
    BY DEF RequestRun, Inv, TypeOK, PlaceOfRun, Phases
  <2>2. /\ run' = [run EXCEPT ![r] = [pc |-> "requested", at |-> run[r].at]]
        /\ current' \in Runs \cup {NoRun} /\ state' = state
    BY DEF RequestRun, Now, Inv, TypeOK, taskVars
  <2>3. MayBeAt(r, "requested", run[r].at) /\ run[r].at <= run[r].at
    BY <2>1 DEF MayBeAt
  <2> QED BY <2>1, <2>2, <2>3, MoveKeeps
<1>2. ObjectOK' /\ RestOK'
  BY Parts DEF RequestRun, objectVars, taskVars, ObjectOK, TaskStepsKept, RestOK
<1> QED BY <1>1, <1>2, PartsNext

LEMMA BeginInv == ASSUME Inv, NEW r \in Runs, Begin(r) PROVE Inv'
<1>1. UNCHANGED <<life, step, steps, poisoned, taskVars, registered, crashes, overlapped>>
  BY DEF Begin
<1>2. RestOK' /\ state' = state /\ steps' = steps /\ step' = step
  BY <1>1, RestSame DEF taskVars
<1>3. run[r].at = 0 /\ run[r] \in [pc : Phases, at : 0 .. N] /\ "next" \in Phases
  BY DEF Begin, Inv, TypeOK, PlaceOfRun, Phases
<1>4. RunInv'
  <2>1. CASE Ends(r)
    BY <1>2, <2>1, EndKeeps
  <2>2. CASE Proceeds(r, "next", 0)
    <3>1. MayBeAt(r, "next", 0)
      BY WorkflowAssumption DEF MayBeAt, CompletedBefore, TaskSteps, Steps
    <3>2. current' \in Runs \cup {NoRun} /\ run' = [run EXCEPT ![r] = [pc |-> "next", at |-> 0]]
      BY <2>2 DEF Proceeds
    <3>3. 0 \in 0 .. N /\ run[r].at <= 0
      BY <1>3, WorkflowAssumption
    <3> QED BY <1>2, <1>3, <3>1, <3>2, <3>3, MoveKeeps
  <2> QED BY <2>1, <2>2 DEF Begin
<1>5. ObjectOK'
  <2>1. status' \in Statuses /\ step' \in [Steps -> Statuses]
    BY <1>2 DEF Begin, Inv, TypeOK, Statuses
  <2>2. PersistWorkflow(status', step') \/ UNCHANGED row
    BY <1>2 DEF Begin
  <2>3. row' \in Rows \cup {NoRow} /\ TaskStepsKept'
    BY <1>2, <2>1, <2>2, PersistKeeps
  <2> QED BY <2>1, <2>3 DEF ObjectOK
<1> QED BY <1>2, <1>4, <1>5, PartsNext

\* The next step is the first that remains, and the steps in between are not
\* the object's: they are no tasks.
LEMMA EnterStepInv == ASSUME Inv, NEW r \in Runs, EnterStep(r) PROVE Inv'
<1>1. UNCHANGED <<life, status, steps, poisoned, taskVars, registered, crashes, overlapped>>
  BY DEF EnterStep
<1>2. RestOK' /\ state' = state /\ steps' = steps /\ status' = status
  BY <1>1, RestSame DEF taskVars
<1>3. PICK s \in Remaining(r) :
        /\ \A p \in Remaining(r) : s <= p
        /\ step' = [step EXCEPT ![s] = "running"]
        /\ IF poisoned = {} THEN PersistWorkflow(status, step') /\ Proceeds(r, "launch", s)
                            ELSE Ends(r) /\ UNCHANGED row
  BY DEF EnterStep
<1>4. /\ s \in Steps /\ s \in 0 .. N /\ s > run[r].at
      /\ run[r].at \in 0 .. N /\ run[r].pc = "next" /\ "launch" \in Phases
      /\ TaskSteps \subseteq steps /\ CompletedBefore(r, run[r].at + 1)
  BY <1>3, WorkflowAssumption
     DEF EnterStep, Remaining, Inv, TypeOK, PlaceOfRun, Phases, Steps, TaskStepsKept
<1>5. RunInv'
  <2>1. CASE Ends(r)
    BY <1>2, <2>1, EndKeeps
  <2>2. CASE Proceeds(r, "launch", s)
    <3>1. CompletedBefore(r, s)
      <4> SUFFICES ASSUME NEW p \in TaskSteps, p < s PROVE state[<<r, p>>] = "completed"
        BY DEF CompletedBefore
      <4>1. p \in steps /\ p \in Int /\ s \in Int /\ run[r].at \in Int
        BY <1>4, WorkflowAssumption DEF TaskSteps, Steps
      <4>2. ~(p > run[r].at)
        BY <1>3, <4>1 DEF Remaining
      <4> QED BY <1>4, <4>1, <4>2 DEF CompletedBefore
    <3>2. MayBeAt(r, "launch", s) /\ run[r].at <= s
      BY <1>4, <3>1, WorkflowAssumption DEF MayBeAt
    <3>3. current' \in Runs \cup {NoRun} /\ run' = [run EXCEPT ![r] = [pc |-> "launch", at |-> s]]
      BY <2>2 DEF Proceeds
    <3> QED BY <1>2, <1>4, <3>2, <3>3, MoveKeeps
  <2> QED BY <1>3, <2>1, <2>2
<1>6. ObjectOK'
  <2>1. status' \in Statuses /\ step' \in [Steps -> Statuses]
    BY <1>2, <1>3 DEF Inv, TypeOK, Statuses
  <2>2. PersistWorkflow(status', step') \/ UNCHANGED row
    BY <1>2, <1>3
  <2>3. row' \in Rows \cup {NoRow} /\ TaskStepsKept'
    BY <1>2, <2>1, <2>2, PersistKeeps
  <2> QED BY <2>1, <2>3 DEF ObjectOK
<1> QED BY <1>2, <1>5, <1>6, PartsNext

\* Only here a task appears: those of the steps before it have completed.
LEMMA LaunchInv == ASSUME Inv, NEW r \in Runs, Launch(r) PROVE Inv'
<1> DEFINE s == run[r].at
<1>1. UNCHANGED <<life, steps, poisoned, registered, crashes, overlapped>>
  BY DEF Launch
<1>2. /\ s \in Steps /\ CompletedBefore(r, s) /\ run[r].pc = "launch"
      /\ "handler" \in Phases /\ "polling" \in Phases /\ TypeOK
      /\ RunsStepsInOrder /\ PlaceOfRun
  BY DEF Launch, Inv, PlaceOfRun, Phases
<1>3. CASE FailStep(r, poisoned) /\ UNCHANGED taskVars
  <2>1. RestOK'
    BY <1>1, <1>3, RestSame
  <2>2. RunInv' /\ ObjectOK'
    BY <1>1, <1>3, FailKeeps DEF taskVars
  <2> QED BY <2>1, <2>2, PartsNext
<1>4. CASE UNCHANGED <<status, step, row, taskVars>> /\ s \in HandlerSteps /\ Awaits(r, "handler")
  <2>1. RestOK' /\ ObjectOK'
    BY <1>1, <1>4, RestSame, Parts DEF ObjectOK, TaskStepsKept
  <2>2. MayBeAt(r, "handler", run[r].at)
    BY <1>2, <1>4 DEF MayBeAt
  <2>3. RunInv'
    BY <1>2, <1>4, <2>2, AwaitKeeps DEF taskVars
  <2> QED BY <2>1, <2>3, PartsNext
<1>5. CASE UNCHANGED <<status, step, row>> /\ Awaits(r, "polling") /\ Life!Submit(<<r, s>>)
  <2>1. <<r, s>> \in Tasks
    BY <1>2 DEF Tasks
  <2>2. /\ state' \in [Tasks -> Life!States] /\ failures' \in [Tasks -> Nat]
        /\ state[<<r, s>>] = "absent"
        /\ \A u \in Tasks : u # <<r, s>> => state'[u] = state[u]
    BY <1>2, <1>5, <2>1, SubmitCreatesOne
  <2>3. RestOK' /\ ObjectOK'
    BY <1>1, <1>5, <2>2, Parts DEF RestOK, ObjectOK, TaskStepsKept
  <2> DEFINE new == [pc |-> "polling", at |-> s]
  <2>4. new.pc = "polling" /\ new.at = s /\ new \in [pc : Phases, at : 0 .. N]
    BY <1>2 DEF TypeOK
  <2>5. run' = [run EXCEPT ![r] = new] /\ current' = NoRun
    BY <1>5 DEF Awaits, Now
  <2> HIDE DEF new
  <2>6. RunOK' /\ \A o \in Runs : run'[o].at = run[o].at
    BY <1>2, <2>4, <2>5 DEF RunOK, TypeOK
  <2>7. \A o \in Runs : \A p \in Steps :
          state[<<o, p>>] = "completed" => state'[<<o, p>>] = "completed"
    BY <2>2 DEF Tasks
  <2>8. RunsStepsInOrder'
    <3> SUFFICES ASSUME NEW o \in Runs, NEW q \in Steps, state'[<<o, q>>] # "absent"
                 PROVE  /\ q <= run'[o].at
                        /\ \A p \in TaskSteps : p < q => state'[<<o, p>>] = "completed"
      BY DEF RunsStepsInOrder, TaskSteps
    <3>1. CASE o = r /\ q = s
      BY <1>2, <2>6, <2>7, <3>1, WorkflowAssumption DEF CompletedBefore, TaskSteps, Steps
    <3>2. CASE ~(o = r /\ q = s)
      <4>1. state[<<o, q>>] # "absent"
        BY <2>2, <3>2 DEF Tasks
      <4> QED BY <1>2, <2>6, <2>7, <4>1 DEF RunsStepsInOrder, TaskSteps
    <3> QED BY <3>1, <3>2
  <2>9. PlaceOfRun'
    <3> SUFFICES ASSUME NEW o \in Runs PROVE MayBeAt(o, run[o].pc, run[o].at)'
      BY DEF PlaceOfRun, MayBeAt, CompletedBefore
    <3>1. CASE o = r
      BY <1>2, <2>4, <2>5, <2>7, <3>1 DEF MayBeAt, CompletedBefore, TaskSteps, TypeOK
    <3>2. CASE o # r
      BY <1>2, <2>5, <2>7, <3>2 DEF MayBeAt, PlaceOfRun, CompletedBefore, TaskSteps, TypeOK
    <3> QED BY <3>1, <3>2
  <2> QED BY <2>3, <2>6, <2>8, <2>9, PartsNext DEF RunInv
<1> QED BY <1>3, <1>4, <1>5 DEF Launch

LEMMA PollInv == ASSUME Inv, NEW r \in Runs, Poll(r) PROVE Inv'
<1>1. RestOK' /\ state' = state /\ steps' = steps /\ run[r].pc = "polling"
  <2>1. UNCHANGED <<life, steps, poisoned, taskVars, registered, crashes, overlapped>>
    BY DEF Poll
  <2> QED BY <2>1, RestSame DEF Poll, taskVars
<1>2. CASE HasCompleted(r) /\ StepDone(r, poisoned)
  <2>1. RunInv' /\ ObjectOK'
    BY <1>1, <1>2, DoneKeeps DEF HasCompleted, TaskOf
  <2> QED BY <1>1, <2>1, PartsNext
<1>3. CASE FailStep(r, poisoned)
  <2>1. RunInv' /\ ObjectOK'
    BY <1>1, <1>3, FailKeeps
  <2> QED BY <1>1, <2>1, PartsNext
<1> QED BY <1>2, <1>3 DEF Poll

LEMMA TimesOutInv == ASSUME Inv, NEW r \in Runs, TimesOut(r) PROVE Inv'
<1>1. UNCHANGED <<life, steps, poisoned, taskVars, registered, crashes, overlapped>>
  BY DEF TimesOut
<1>2. RestOK' /\ state' = state /\ steps' = steps
  BY <1>1, RestSame DEF taskVars
<1>3. RunInv' /\ ObjectOK'
  BY <1>2, FailKeeps DEF TimesOut
<1> QED BY <1>2, <1>3, PartsNext

LEMMA HandlerEndsInv == ASSUME Inv, NEW r \in Runs, HandlerEnds(r) PROVE Inv'
<1>1. /\ UNCHANGED <<life, steps, taskVars, registered, crashes, overlapped>>
      /\ run[r].pc = "handler" /\ run[r].at \in HandlerSteps
  BY DEF HandlerEnds, Inv, PlaceOfRun
<1>2. poisoned' \in SUBSET HandlerSteps
  BY <1>1 DEF HandlerEnds, Inv, TypeOK
<1>3. RestOK' /\ state' = state /\ steps' = steps
  BY <1>1, <1>2, Parts DEF RestOK, taskVars
<1>4. CASE FailStep(r, poisoned)
  BY <1>3, <1>4, FailKeeps, PartsNext
<1>5. CASE StepDone(r, poisoned')
  <2>1. run[r].at \notin TaskSteps
    BY <1>1 DEF TaskSteps
  <2>2. RunInv' /\ ObjectOK'
    BY <1>1, <1>3, <1>5, <2>1, DoneKeeps
  <2> QED BY <1>3, <2>2, PartsNext
<1> QED BY <1>4, <1>5 DEF HandlerEnds

LEMMA FinishInv == ASSUME Inv, NEW r \in Runs, Finish(r) PROVE Inv'
<1>1. UNCHANGED <<life, step, steps, poisoned, taskVars, registered, crashes, overlapped>>
  BY DEF Finish
<1>2. RestOK' /\ state' = state /\ steps' = steps /\ step' = step
  BY <1>1, RestSame DEF taskVars
<1>3. RunInv'
  BY <1>2, EndKeeps DEF Finish
<1>4. status' \in Statuses /\ step' \in [Steps -> Statuses]
  BY <1>2 DEF Finish, Inv, TypeOK, Statuses
<1>5. PersistWorkflow(status', step') \/ UNCHANGED row
  BY <1>2 DEF Finish
<1>6. row' \in Rows \cup {NoRow} /\ TaskStepsKept'
  BY <1>2, <1>4, <1>5, PersistKeeps
<1> QED BY <1>2, <1>3, <1>4, <1>6, PartsNext DEF ObjectOK

\* Tasks move on and coroutines die where they are.
LEMMA TasksMoveOn ==
  ASSUME Inv, RunOK',
         \A r \in Runs : run'[r].at = run[r].at /\ run'[r].pc \in {run[r].pc, "done"},
         \A u \in Tasks : /\ state[u] = "completed" => state'[u] = "completed"
                          /\ state[u] = "absent" => state'[u] = "absent"
  PROVE  RunInv'
<1>1. RunsStepsInOrder /\ PlaceOfRun
  BY DEF Inv
<1>2. \A o \in Runs : \A p \in Steps :
        /\ state[<<o, p>>] = "completed" => state'[<<o, p>>] = "completed"
        /\ state[<<o, p>>] = "absent" => state'[<<o, p>>] = "absent"
  BY DEF Tasks
<1>3. RunsStepsInOrder'
  BY <1>1, <1>2 DEF RunsStepsInOrder
<1>4. PlaceOfRun'
  <2> SUFFICES ASSUME NEW o \in Runs PROVE MayBeAt(o, run[o].pc, run[o].at)'
    BY DEF PlaceOfRun, MayBeAt, CompletedBefore
  <2> QED BY <1>1, <1>2 DEF MayBeAt, PlaceOfRun, CompletedBefore, TaskSteps
<1> QED BY <1>3, <1>4 DEF RunInv

LEMMA TaskMovesInv == ASSUME Inv, NEW t \in Tasks, TaskMoves(t) PROVE Inv'
<1>1. /\ state' \in [Tasks -> Life!States] /\ failures' \in [Tasks -> Nat]
      /\ \A u \in Tasks : /\ state[u] = "completed" => state'[u] = "completed"
                          /\ state[u] = "absent" => state'[u] = "absent"
  BY TaskMovesKeep DEF TaskMoves, Inv
<1>2. UNCHANGED <<life, objectVars, row, run, current, registered, crashes, overlapped>>
  BY DEF TaskMoves
<1>3. ObjectOK' /\ RestOK'
  BY <1>1, <1>2, Parts DEF ObjectOK, RestOK, objectVars, TaskStepsKept
<1>4. RunOK'
  BY <1>2, Parts DEF RunInv, RunOK
<1>5. RunInv'
  BY <1>1, <1>2, <1>4, TasksMoveOn
<1> QED BY <1>3, <1>5, PartsNext

LEMMA CrashInv == ASSUME Inv, Crash PROVE Inv'
<1>1. /\ state' \in [Tasks -> Life!States] /\ failures' \in [Tasks -> Nat]
      /\ \A u \in Tasks : /\ state[u] = "completed" => state'[u] = "completed"
                          /\ state[u] = "absent" => state'[u] = "absent"
  BY RestartKeeps DEF Crash, Inv
<1>2. RunOK' /\ \A r \in Runs : run'[r].at = run[r].at /\ run'[r].pc \in {run[r].pc, "done"}
  <2>1. /\ run \in [Runs -> [pc : Phases, at : 0 .. N]] /\ "done" \in Phases
        /\ run' = [r \in Runs |-> IF Unfinished(r) THEN Now(r, "done") ELSE run[r]]
        /\ current' = NoRun
    BY DEF Crash, Inv, TypeOK, Phases
  <2>2. ASSUME NEW r \in Runs
        PROVE  /\ Now(r, "done") \in [pc : Phases, at : 0 .. N]
               /\ Now(r, "done").at = run[r].at /\ Now(r, "done").pc = "done"
    BY <2>1 DEF Now
  <2> QED BY <2>1, <2>2 DEF RunOK
<1>3. RunInv'
  BY <1>1, <1>2, TasksMoveOn
<1>4. ObjectOK' /\ RestOK'
  <2>1. ObjectOK /\ RestOK /\ UNCHANGED <<row, registered, overlapped>>
    BY Parts DEF Crash
  <2>2. CASE row = NoRow
    BY <1>1, <2>1, <2>2
       DEF Crash, NoObject, ObjectOK, RestOK, Statuses, TaskStepsKept, TaskSteps
  <2>3. CASE row # NoRow
    <3>1. row \in Rows
      BY <2>1, <2>3 DEF ObjectOK
    <3>2. row.status \in Statuses /\ row.step \in [Steps -> Statuses] /\ row.steps \in SUBSET Steps
      BY <3>1 DEF Rows
    <3> QED BY <1>1, <2>1, <2>3, <3>2
            DEF Crash, Restored, ObjectOK, RestOK, Statuses, TaskStepsKept, TaskSteps
  <2> QED BY <2>2, <2>3
<1> QED BY <1>3, <1>4, PartsNext

(***************************************************************************)
(* The theorems                                                            *)
(***************************************************************************)
LEMMA NextInv == Inv /\ [Next]_vars => Inv'
<1> SUFFICES ASSUME Inv, [Next]_vars PROVE Inv'
  OBVIOUS
<1>1. CASE UNCHANGED vars
  <2>1. UNCHANGED <<run, current, state>> /\ RestOK'
    BY <1>1, Parts DEF vars, objectVars, taskVars, RestOK
  <2>2. ObjectOK'
    BY <1>1, Parts DEF vars, objectVars, ObjectOK, TaskStepsKept
  <2> QED BY <2>1, <2>2, RunSame, PartsNext
<1>2. CASE Next
  <2>1. ASSUME NEW r \in Runs,
               \/ RequestRun(r) \/ Begin(r) \/ EnterStep(r) \/ Launch(r) \/ Poll(r)
               \/ TimesOut(r) \/ HandlerEnds(r) \/ Finish(r)
        PROVE  Inv'
    BY <2>1, RequestRunInv, BeginInv, EnterStepInv, LaunchInv, PollInv, TimesOutInv,
       HandlerEndsInv, FinishInv
  <2> QED BY <1>2, <2>1, CreateWorkflowInv, DeleteWorkflowInv, DeleteAgentInv, TaskMovesInv,
             CrashInv DEF Next
<1> QED BY <1>1, <1>2

THEOREM WorkflowInvariant == Spec => []Inv
  BY InitInv, NextInv, PTL DEF Spec

\* Every variable of WorkflowRun keeps its type.
THEOREM TypeCorrect == Spec => []TypeOK
<1>1. Inv => TypeOK
  BY DEF Inv
<1> QED BY <1>1, WorkflowInvariant, PTL

\* engine.py:154-177: however runs overlap, time out, die with the process
\* or leave tasks behind, none submits the task of a step before the tasks
\* of all its earlier steps have completed.
THEOREM StepsInOrder == Spec => []RunsStepsInOrder
<1>1. Inv => RunsStepsInOrder
  BY DEF Inv
<1> QED BY <1>1, WorkflowInvariant, PTL
=============================================================================
