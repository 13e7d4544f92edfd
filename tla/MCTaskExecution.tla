--------------------------- MODULE MCTaskExecution ---------------------------
(***************************************************************************)
(* Tasks of the default queue, one of them urgent with an agent of its     *)
(* own, and a task of a queue that start() does not poll.                  *)
(***************************************************************************)
EXTENDS TaskExecution

CONSTANTS plain, plain2, urgent, other, default, slow, a1, a2

MCQueueOf == [t \in Tasks |-> IF t = other THEN slow ELSE default]
MCPriorityOf == [t \in Tasks |-> IF t = urgent THEN 5 ELSE 0]
MCAgentOf == [t \in Tasks |-> IF t = urgent THEN a2 ELSE a1]
=============================================================================
