---------------------------- MODULE MCWorkflowRun ----------------------------
(***************************************************************************)
(* Three steps: a task, a callable, a task of another agent.               *)
(***************************************************************************)
EXTENDS WorkflowRun

CONSTANTS a1, a2, r1, r2

MCAgentOf == [s \in Steps |-> IF s = 3 THEN a2 ELSE a1]
=============================================================================
