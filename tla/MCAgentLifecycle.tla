-------------------------- MODULE MCAgentLifecycle --------------------------
(***************************************************************************)
(* One agent with a process, one whose command cannot be parsed, and two   *)
(* executions that may overlap on either of them.                          *)
(***************************************************************************)
EXTENDS AgentLifecycle

CONSTANTS worker, broken, e1, e2
=============================================================================
