---------------------------- MODULE MCSubmitWait ----------------------------
(***************************************************************************)
(* A wait with the figures of the code: a tick is the 0.2 seconds between  *)
(* two polls, the limiter's 60 seconds are 300 ticks, and the submission   *)
(* is the client's only other request.  Each round of the loop is a step.  *)
(***************************************************************************)
EXTENDS SubmitWait

CONSTANTS Waits, Ends   \* how long to wait, and when the task ends, in ticks

VARIABLES
  wait,  \* the case
  round, \* rounds of the loop so far
  so     \* the server's table for this client, and the verdict

vars == <<wait, round, so>>

\* No try of the task fails, and the server can be reached throughout.
Init ==
  /\ wait \in UNION {[wait : {n}, before : {1}, pause : {1}, ends : Ends, raised : {n}, down : {n}]
                     : n \in Waits}
  /\ round = 0
  /\ so = [log |-> Before(wait), verdict |-> "waiting"]

Next ==
  /\ so.verdict = "waiting"
  /\ round' = round + 1
  /\ so' = Round(wait, round + 1, so)
  /\ UNCHANGED wait

Spec == Init /\ [][Next]_vars

\* main.py:231, "Wait up to SECONDS for the result": while the server answers
\* a wait goes on until there is a result or the seconds are over.
WaitsForTheResult == so.verdict # "refused"
=============================================================================
