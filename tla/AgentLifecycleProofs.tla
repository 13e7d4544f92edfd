------------------------ MODULE AgentLifecycleProofs ------------------------
(***************************************************************************)
(* Theorems about AgentLifecycle, for every set of agents and executions   *)
(* and any number of shutdowns and kills.                                  *)
(***************************************************************************)
EXTENDS AgentLifecycle, TLAPS

\* Executions of an agent that is not disturbed do not overlap, and each has
\* saved the status that was asked last.
SavedStatusRight ==
  \A e \in Executions : exec[e] # Free =>
    \/ exec[e].agent \in disturbed
    \/ /\ exec[e].saved = asked[exec[e].agent]
       /\ \A o \in Executions : exec[o] # Free /\ exec[o].agent = exec[e].agent => o = e

\* A server that closes has stopped its processes and starts no more.
StoppedWhileDown == phase # "up" => \A a \in Agents : proc[a] # "alive"

Inv ==
  /\ TypeOK
  /\ SavedStatusRight
  /\ UndisturbedStatusRight
  /\ RuntimeHonest
  /\ GracefulStopLeavesNoOrphan
  /\ StoppedWhileDown

\* The part of Inv about statuses, and the part about processes: an action
\* that touches only one of them keeps the other.
StatusInv == SavedStatusRight /\ UndisturbedStatusRight
ProcessInv == RuntimeHonest /\ StoppedWhileDown /\ GracefulStopLeavesNoOrphan

LEMMA InitInv == Init => Inv
  BY DEF Init, Inv, TypeOK, SavedStatusRight, UndisturbedStatusRight, RuntimeHonest,
         GracefulStopLeavesNoOrphan, StoppedWhileDown, GetState, Known, Gone, Statuses, Busy

\* Setting the status of some agents keeps the statuses right: those that
\* are executing count as disturbed from then on.
LEMMA AsksKeeps ==
  ASSUME TypeOK, StatusInv, NEW A \in SUBSET Agents, NEW s \in Statuses,
         Asks(A, s), exec' = exec
  PROVE  /\ StatusInv'
         /\ status' \in [Agents -> Statuses \cup Gone]
         /\ asked' \in [Agents -> Statuses]
         /\ disturbed' \in SUBSET Agents
<1>1. /\ status' \in [Agents -> Statuses \cup Gone]
      /\ asked' \in [Agents -> Statuses]
      /\ disturbed' \in SUBSET Agents
  BY DEF Asks, TypeOK
<1>2. SavedStatusRight'
  <2> SUFFICES ASSUME NEW e \in Executions, exec[e] # Free
               PROVE  \/ exec[e].agent \in disturbed'
                      \/ /\ exec[e].saved = asked'[exec[e].agent]
                         /\ \A o \in Executions :
                              exec[o] # Free /\ exec[o].agent = exec[e].agent => o = e
    BY DEF SavedStatusRight
  <2>1. exec[e].agent \in Agents
    BY DEF TypeOK
  <2>2. CASE exec[e].agent \in A
    BY <2>1, <2>2 DEF Asks, Busy
  <2>3. CASE exec[e].agent \notin A
    BY <2>1, <2>3 DEF Asks, StatusInv, SavedStatusRight
  <2> QED BY <2>2, <2>3
<1>3. UndisturbedStatusRight'
  BY <1>1 DEF Asks, TypeOK, StatusInv, UndisturbedStatusRight, Known, Busy
<1> QED BY <1>1, <1>2, <1>3 DEF StatusInv

\* Registration, and what the operator or reconcile_runtimes does to processes.
LEMMA RegisterInv == ASSUME Inv, NEW a \in Agents, Register(a) PROVE Inv'
<1>1. StatusInv' /\ TypeOK'
  <2>1. {a} \in SUBSET Agents /\ "pending" \in Statuses
    BY DEF Statuses
  <2>2. Asks({a}, "pending") /\ exec' = exec
    BY DEF Register
  <2>3. /\ StatusInv'
        /\ status' \in [Agents -> Statuses \cup Gone]
        /\ asked' \in [Agents -> Statuses]
        /\ disturbed' \in SUBSET Agents
    BY <2>1, <2>2, AsksKeeps DEF Inv, StatusInv
  <2> QED BY <2>3 DEF Inv, TypeOK, Register, runtimeVars, serverVars
<1>2. ProcessInv'
  BY DEF Inv, TypeOK, Register, Asks, runtimeVars, serverVars, ProcessInv, RuntimeHonest,
         StoppedWhileDown, GracefulStopLeavesNoOrphan, GetState
<1> QED BY <1>1, <1>2 DEF Inv, StatusInv, ProcessInv

LEMMA StartAgentInv == ASSUME Inv, NEW a \in Agents, StartAgent(a) PROVE Inv'
<1>1. StatusInv' /\ TypeOK'
  <2>1. {a} \in SUBSET Agents /\ "running" \in Statuses
    BY DEF Statuses
  <2>2. Asks({a}, "running") /\ exec' = exec
    BY DEF StartAgent
  <2>3. /\ StatusInv'
        /\ status' \in [Agents -> Statuses \cup Gone]
        /\ asked' \in [Agents -> Statuses]
        /\ disturbed' \in SUBSET Agents
    BY <2>1, <2>2, AsksKeeps DEF Inv, StatusInv
  <2> QED BY <2>3 DEF Inv, TypeOK, StartAgent, serverVars
<1>2. ProcessInv'
  BY DEF Inv, TypeOK, StartAgent, NeedsLaunch, Asks, serverVars, ProcessInv, RuntimeHonest,
         StoppedWhileDown, GracefulStopLeavesNoOrphan, GetState
<1> QED BY <1>1, <1>2 DEF Inv, StatusInv, ProcessInv

LEMMA LaunchFailsInv == ASSUME Inv, NEW a \in Agents, LaunchFails(a) PROVE Inv'
<1>1. StatusInv' /\ TypeOK'
  <2>1. {a} \in SUBSET Agents /\ "failed" \in Statuses
    BY DEF Statuses
  <2>2. Asks({a}, "failed") /\ exec' = exec
    BY DEF LaunchFails
  <2>3. /\ StatusInv'
        /\ status' \in [Agents -> Statuses \cup Gone]
        /\ asked' \in [Agents -> Statuses]
        /\ disturbed' \in SUBSET Agents
    BY <2>1, <2>2, AsksKeeps DEF Inv, StatusInv
  <2> QED BY <2>3 DEF Inv, TypeOK, LaunchFails, serverVars
<1>2. ProcessInv'
  BY DEF Inv, TypeOK, LaunchFails, NeedsLaunch, Asks, serverVars, ProcessInv, RuntimeHonest,
         StoppedWhileDown, GracefulStopLeavesNoOrphan, GetState
<1> QED BY <1>1, <1>2 DEF Inv, StatusInv, ProcessInv

LEMMA StopAgentInv == ASSUME Inv, NEW a \in Agents, StopAgent(a) PROVE Inv'
<1>1. StatusInv' /\ TypeOK'
  <2>1. {a} \in SUBSET Agents /\ "paused" \in Statuses
    BY DEF Statuses
  <2>2. Asks({a}, "paused") /\ exec' = exec
    BY DEF StopAgent
  <2>3. /\ StatusInv'
        /\ status' \in [Agents -> Statuses \cup Gone]
        /\ asked' \in [Agents -> Statuses]
        /\ disturbed' \in SUBSET Agents
    BY <2>1, <2>2, AsksKeeps DEF Inv, StatusInv
  <2> QED BY <2>3 DEF Inv, TypeOK, StopAgent, Stopped, serverVars
<1>2. ProcessInv'
  BY DEF Inv, TypeOK, StopAgent, Stopped, Asks, serverVars, ProcessInv, RuntimeHonest,
         StoppedWhileDown, GracefulStopLeavesNoOrphan, GetState
<1> QED BY <1>1, <1>2 DEF Inv, StatusInv, ProcessInv

\* Both outcomes of reconcile_runtimes look at some agents and flag those crashed.
LEMMA LooksInv ==
  ASSUME Inv, NEW W \in SUBSET Commanded, Looks(W), looping' \in BOOLEAN
  PROVE  Inv'
<1>1. StatusInv' /\ TypeOK'
  <2>1. Crashed(W) \in SUBSET Agents /\ "failed" \in Statuses
    BY LifecycleAssumption DEF Statuses, Crashed
  <2>2. Asks(Crashed(W), "failed") /\ exec' = exec
    BY DEF Looks
  <2>3. /\ StatusInv'
        /\ status' \in [Agents -> Statuses \cup Gone]
        /\ asked' \in [Agents -> Statuses]
        /\ disturbed' \in SUBSET Agents
    BY <2>1, <2>2, AsksKeeps DEF Inv, StatusInv
  <2> QED BY <2>3 DEF Inv, TypeOK, Looks, GetState
<1>2. ProcessInv'
  BY DEF Inv, TypeOK, Looks, Crashed, Asks, ProcessInv, RuntimeHonest, StoppedWhileDown,
         GracefulStopLeavesNoOrphan, GetState
<1> QED BY <1>1, <1>2 DEF Inv, StatusInv, ProcessInv

LEMMA ReconcileInv == ASSUME Inv, Reconcile PROVE Inv'
<1>1. Looks(Running(Commanded)) /\ looping' \in BOOLEAN
  BY DEF Reconcile, Inv, TypeOK
<1>2. Running(Commanded) \in SUBSET Commanded
  BY DEF Running
<1> QED BY <1>1, <1>2, LooksInv

LEMMA ReconcileRaisesInv == ASSUME Inv, ReconcileRaises PROVE Inv'
<1>1. PICK W \in SUBSET Running(Commanded) : Looks(W)
  BY DEF ReconcileRaises
<1>2. W \in SUBSET Commanded /\ looping' \in BOOLEAN
  BY DEF Running, ReconcileRaises
<1> QED BY <1>1, <1>2, LooksInv

LEMMA DeleteInv == ASSUME Inv, NEW a \in Agents, Delete(a) PROVE Inv'
<1>1. TypeOK'
  BY DEF Inv, TypeOK, Delete, UpdateStatus, Gone, runtimeVars, serverVars
<1>2. StatusInv'
  BY DEF Inv, TypeOK, Delete, UpdateStatus, Known, Gone, Busy, StatusInv, SavedStatusRight,
         UndisturbedStatusRight
<1>3. ProcessInv'
  BY DEF Inv, Delete, runtimeVars, serverVars, ProcessInv, RuntimeHonest, StoppedWhileDown,
         GracefulStopLeavesNoOrphan, GetState
<1> QED BY <1>1, <1>2, <1>3 DEF Inv, StatusInv, ProcessInv

\* An execution saves the status that was asked last, or it overlaps another
\* and its agent is disturbed.
LEMMA BeginExecutionInv ==
  ASSUME Inv, NEW e \in Executions, NEW a \in Agents, BeginExecution(e, a)
  PROVE  Inv'
<1> DEFINE new == [agent |-> a, saved |-> status[a]]
<1>1. /\ exec[e] = Free /\ Known(a) /\ status[a] \in Statuses
      /\ exec' = [exec EXCEPT ![e] = new]
      /\ new \in [agent : Agents, saved : Statuses]
      /\ new.agent = a /\ new.saved = status[a]
      /\ asked' = asked
      /\ disturbed' = IF Busy(a) THEN disturbed \cup {a} ELSE disturbed
      /\ status' = [status EXCEPT ![a] = "running"]
  BY DEF BeginExecution, Found, Known, Gone, Inv, TypeOK, UpdateStatus
<1> HIDE DEF new
<1>2. TypeOK'
  BY <1>1 DEF Inv, TypeOK, BeginExecution, Statuses, runtimeVars, serverVars
<1>3. SavedStatusRight'
  <2> SUFFICES ASSUME NEW d \in Executions, exec'[d] # Free
               PROVE  \/ exec'[d].agent \in disturbed'
                      \/ /\ exec'[d].saved = asked[exec'[d].agent]
                         /\ \A o \in Executions :
                              exec'[o] # Free /\ exec'[o].agent = exec'[d].agent => o = d
    BY <1>1 DEF SavedStatusRight
  <2>1. CASE Busy(a) /\ exec'[d].agent = a
    BY <1>1, <2>1
  <2>2. CASE ~Busy(a) /\ exec'[d].agent = a
    <3>1. d = e /\ \A o \in Executions : exec'[o] # Free /\ exec'[o].agent = a => o = d
      BY <1>1, <2>2 DEF Busy, Inv, TypeOK
    <3>2. a \in disturbed \/ status[a] = asked[a]
      BY <1>1, <2>2 DEF Inv, UndisturbedStatusRight
    <3> QED BY <1>1, <2>2, <3>1, <3>2 DEF Inv, TypeOK
  <2>3. CASE exec'[d].agent # a
    <3>1. d # e /\ exec'[d] = exec[d]
      BY <1>1, <2>3 DEF Inv, TypeOK
    <3>2. \A o \in Executions : exec'[o] # Free /\ exec'[o].agent = exec[d].agent =>
                                 exec[o] # Free /\ exec[o].agent = exec[d].agent
      BY <1>1, <2>3, <3>1 DEF Inv, TypeOK
    <3> QED BY <1>1, <3>1, <3>2 DEF Inv, SavedStatusRight
  <2> QED BY <2>1, <2>2, <2>3
<1>4. UndisturbedStatusRight'
  <2> SUFFICES ASSUME NEW b \in Agents, Known(b)', b \notin disturbed', ~Busy(b)'
               PROVE  status'[b] = asked[b]
    BY <1>1 DEF UndisturbedStatusRight
  <2>1. exec'[e] # Free /\ exec'[e].agent = a
    <3>1. Free.saved = "none" /\ new.saved # "none"
      BY <1>1 DEF Free, Statuses
    <3> QED BY <1>1, <3>1 DEF Inv, TypeOK
  <2>2. b # a /\ ~Busy(b)
    BY <1>1, <2>1 DEF Busy, Inv, TypeOK
  <2> QED BY <1>1, <2>2 DEF Inv, TypeOK, UndisturbedStatusRight, Known
<1>5. ProcessInv'
  BY DEF Inv, BeginExecution, runtimeVars, serverVars, ProcessInv, RuntimeHonest,
         StoppedWhileDown, GracefulStopLeavesNoOrphan, GetState
<1> QED BY <1>2, <1>3, <1>4, <1>5 DEF Inv, ProcessInv

\* An execution puts back what it saved; if its agent is not disturbed, that
\* is what was asked last, and no other execution of the agent is left.
LEMMA EndExecutionInv == ASSUME Inv, NEW e \in Executions, EndExecution(e) PROVE Inv'
<1> DEFINE a == exec[e].agent
<1>1. /\ exec[e] # Free /\ exec[e] \in [agent : Agents, saved : Statuses]
      /\ a \in Agents /\ exec[e].saved \in Statuses
      /\ exec' = [exec EXCEPT ![e] = Free]
      /\ asked' = asked /\ disturbed' = disturbed
      /\ status' = IF Known(a) THEN [status EXCEPT ![a] = exec[e].saved] ELSE status
  BY DEF EndExecution, Restored, UpdateStatus, Inv, TypeOK
<1> HIDE DEF a
<1>2. TypeOK'
  BY <1>1 DEF Inv, TypeOK, EndExecution, runtimeVars, serverVars
<1>3. SavedStatusRight'
  BY <1>1 DEF Inv, TypeOK, SavedStatusRight
<1>4. UndisturbedStatusRight'
  <2> SUFFICES ASSUME NEW b \in Agents, Known(b)', b \notin disturbed, ~Busy(b)'
               PROVE  status'[b] = asked[b]
    BY <1>1 DEF UndisturbedStatusRight
  <2>1. CASE b = a
    BY <1>1, <2>1 DEF a, Inv, TypeOK, SavedStatusRight, Known
  <2>2. CASE b # a
    <3>1. ~Busy(b)
      BY <1>1, <2>2 DEF a, Busy, Inv, TypeOK
    <3> QED BY <1>1, <2>2, <3>1 DEF Inv, TypeOK, UndisturbedStatusRight, Known
  <2> QED BY <2>1, <2>2
<1>5. ProcessInv'
  BY DEF Inv, EndExecution, runtimeVars, serverVars, ProcessInv, RuntimeHonest,
         StoppedWhileDown, GracefulStopLeavesNoOrphan, GetState
<1> QED BY <1>2, <1>3, <1>4, <1>5 DEF Inv, ProcessInv

\* What happens to processes, and to the server, leaves the statuses alone.
LEMMA ProcessExitsInv == ASSUME Inv, NEW a \in Agents, ProcessExits(a) PROVE Inv'
<1>1. TypeOK'
  BY DEF Inv, TypeOK, ProcessExits, serverVars
<1>2. StatusInv'
  BY DEF Inv, ProcessExits, StatusInv, SavedStatusRight, UndisturbedStatusRight, Known, Busy
<1>3. ProcessInv'
  BY DEF Inv, TypeOK, ProcessExits, serverVars, ProcessInv, RuntimeHonest, StoppedWhileDown,
         GracefulStopLeavesNoOrphan, GetState
<1> QED BY <1>1, <1>2, <1>3 DEF Inv, StatusInv, ProcessInv

LEMMA RuntimeInfoInv == ASSUME Inv, NEW a \in Agents, RuntimeInfo(a) PROVE Inv'
<1>1. TypeOK'
  BY DEF Inv, TypeOK, RuntimeInfo, GetState, serverVars
<1>2. StatusInv'
  BY DEF Inv, RuntimeInfo, StatusInv, SavedStatusRight, UndisturbedStatusRight, Known, Busy
<1>3. ProcessInv'
  BY DEF Inv, TypeOK, RuntimeInfo, serverVars, ProcessInv, RuntimeHonest, StoppedWhileDown,
         GracefulStopLeavesNoOrphan, GetState
<1> QED BY <1>1, <1>2, <1>3 DEF Inv, StatusInv, ProcessInv

LEMMA OrphanExitsInv == ASSUME Inv, NEW a \in Agents, OrphanExits(a) PROVE Inv'
<1>1. TypeOK'
  BY DEF Inv, TypeOK, OrphanExits, serverVars
<1>2. StatusInv'
  BY DEF Inv, OrphanExits, StatusInv, SavedStatusRight, UndisturbedStatusRight, Known, Busy
<1>3. ProcessInv'
  BY DEF Inv, OrphanExits, serverVars, ProcessInv, RuntimeHonest, StoppedWhileDown,
         GracefulStopLeavesNoOrphan, GetState
<1> QED BY <1>1, <1>2, <1>3 DEF Inv, StatusInv, ProcessInv

LEMMA ShutdownInv == ASSUME Inv, Shutdown PROVE Inv'
<1>1. TypeOK'
  BY DEF Inv, TypeOK, Shutdown, Stopped
<1>2. StatusInv'
  BY DEF Inv, Shutdown, StatusInv, SavedStatusRight, UndisturbedStatusRight, Known, Busy
<1>3. ProcessInv'
  BY DEF Inv, TypeOK, Shutdown, Stopped, AllProcesses, ProcessInv, RuntimeHonest,
         StoppedWhileDown, GracefulStopLeavesNoOrphan, GetState
<1> QED BY <1>1, <1>2, <1>3 DEF Inv, StatusInv, ProcessInv

LEMMA CancelInv == ASSUME Inv, Cancel PROVE Inv'
<1>1. TypeOK'
  BY DEF Inv, TypeOK, Cancel, runtimeVars
<1>2. StatusInv'
  BY DEF Inv, Cancel, StatusInv, SavedStatusRight, UndisturbedStatusRight, Known, Busy
<1>3. ProcessInv'
  BY DEF Inv, Cancel, runtimeVars, ProcessInv, RuntimeHonest, StoppedWhileDown,
         GracefulStopLeavesNoOrphan, GetState
<1> QED BY <1>1, <1>2, <1>3 DEF Inv, StatusInv, ProcessInv

LEMMA BootInv == ASSUME Inv, Boot PROVE Inv'
<1>1. TypeOK'
  BY DEF Inv, TypeOK, Boot, NewRuntime
<1>2. StatusInv'
  BY DEF Inv, Boot, StatusInv, SavedStatusRight, UndisturbedStatusRight, Known, Busy
<1>3. ProcessInv'
  BY DEF Inv, TypeOK, Boot, NewRuntime, ProcessInv, RuntimeHonest, StoppedWhileDown,
         GracefulStopLeavesNoOrphan, GetState
<1> QED BY <1>1, <1>2, <1>3 DEF Inv, StatusInv, ProcessInv

LEMMA KillInv == ASSUME Inv, Kill PROVE Inv'
<1>1. TypeOK'
  BY DEF Inv, TypeOK, Kill, NewRuntime
<1>2. StatusInv'
  BY DEF Inv, TypeOK, Kill, StatusInv, SavedStatusRight, UndisturbedStatusRight, Known, Busy
<1>3. ProcessInv'
  BY DEF Inv, TypeOK, Kill, NewRuntime, ProcessInv, RuntimeHonest, StoppedWhileDown,
         GracefulStopLeavesNoOrphan, GetState
<1> QED BY <1>1, <1>2, <1>3 DEF Inv, StatusInv, ProcessInv

LEMMA NextInv == Inv /\ [Next]_vars => Inv'
<1> SUFFICES ASSUME Inv, [Next]_vars PROVE Inv'
  OBVIOUS
<1>1. CASE Next
  BY <1>1, ReconcileInv, ReconcileRaisesInv, RegisterInv, DeleteInv, StartAgentInv, LaunchFailsInv, StopAgentInv,
     RuntimeInfoInv, ProcessExitsInv, OrphanExitsInv, BeginExecutionInv, EndExecutionInv, ShutdownInv,
     CancelInv, BootInv, KillInv DEF Next
<1>2. CASE UNCHANGED vars
  BY <1>2 DEF vars, runtimeVars, serverVars, Inv, TypeOK, SavedStatusRight,
     UndisturbedStatusRight, RuntimeHonest, StoppedWhileDown, GracefulStopLeavesNoOrphan,
     GetState, Known, Busy
<1> QED BY <1>1, <1>2

(***************************************************************************)
(* The theorems                                                            *)
(***************************************************************************)

\* Inv is an invariant of AgentLifecycle.
THEOREM LifecycleInvariant == Spec => []Inv
<1> QED BY InitInv, NextInv, PTL DEF Spec

\* The type invariant: in particular, update_status is only ever given a
\* status that a live agent may have (engine.py:324-332).
THEOREM TypeCorrect == Spec => []TypeOK
<1>1. Inv => TypeOK
  BY DEF Inv
<1> QED BY <1>1, LifecycleInvariant, PTL

\* engine.py:324-332: as long as the executions of an agent do not overlap
\* each other or another writer, its status between them is what register,
\* start, stop or reconcile_runtimes set last, through every restart.
THEOREM StatusRight == Spec => []UndisturbedStatusRight
<1>1. Inv => UndisturbedStatusRight
  BY DEF Inv
<1> QED BY <1>1, LifecycleInvariant, PTL

\* README.md:105-107: reconcile_runtimes takes an agent its operator stopped for a
\* crashed one only while a task runs on it, or after disturbances.
THEOREM StoppedRight == Spec => StoppedIsFlaggedOnlyIfBusy
<1>1. ASSUME Inv, Reconcile \/ ReconcileRaises, NEW a \in Agents,
             asked[a] = "paused", asked'[a] = "failed"
      PROVE  NeedsLaunch(a) /\ (Busy(a) \/ a \in disturbed)
  <2>1. PICK W \in SUBSET Running(Commanded) : Looks(W)
    BY <1>1 DEF Reconcile, ReconcileRaises
  <2>2. a \in Crashed(W)
    BY <1>1, <2>1 DEF Looks, Asks, Inv, TypeOK
  <2>3. a \in Commanded /\ status[a] = "running" /\ GetState(a) = "crashed"
    BY <2>1, <2>2 DEF Crashed, Running
  <2>4. NeedsLaunch(a)
    BY <1>1, <2>3 DEF NeedsLaunch, Inv, RuntimeHonest
  <2>5. Known(a)
    BY <2>3 DEF Known, Gone
  <2> QED BY <1>1, <2>3, <2>4, <2>5 DEF Inv, UndisturbedStatusRight
<1>2. Inv /\ [Next]_vars =>
        [Reconcile \/ ReconcileRaises =>
           \A a \in Agents : asked[a] = "paused" /\ asked'[a] = "failed" =>
             NeedsLaunch(a) /\ (Busy(a) \/ a \in disturbed)]_vars
  BY <1>1
<1> QED BY <1>2, LifecycleInvariant, PTL DEF Spec, StoppedIsFlaggedOnlyIfBusy

\* runtime.py:81-85: get_state says "running" of exactly the live processes.
THEOREM RuntimeRight == Spec => []RuntimeHonest
<1>1. Inv => RuntimeHonest
  BY DEF Inv
<1> QED BY <1>1, LifecycleInvariant, PTL

\* server.py:33-36, runtime.py:98-100: shutdowns alone never leave a process.
THEOREM NoOrphans == Spec => []GracefulStopLeavesNoOrphan
<1>1. Inv => GracefulStopLeavesNoOrphan
  BY DEF Inv
<1> QED BY <1>1, LifecycleInvariant, PTL
=============================================================================
