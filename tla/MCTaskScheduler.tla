--------------------------- MODULE MCTaskScheduler ---------------------------
(***************************************************************************)
(* Two plain tasks and an urgent one in the default queue, and a fourth in *)
(* another queue.                                                          *)
(***************************************************************************)
EXTENDS TaskScheduler

CONSTANTS a, b, urgent, other, default, slow

MCQueueOf == [t \in Tasks |-> IF t = other THEN slow ELSE default]
MCPriorityOf == [t \in Tasks |-> IF t = urgent THEN 5 ELSE 0]
=============================================================================
