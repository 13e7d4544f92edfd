-------------------------- MODULE MCAgentExecutor --------------------------
(***************************************************************************)
(* Two slots for three executions: one whose handler hangs, one that hangs *)
(* but for its @task timeout, one that may swallow its cancellation.       *)
(***************************************************************************)
EXTENDS AgentExecutor

CONSTANTS hangs, timed, deaf
=============================================================================
