----------------------------- MODULE SubmitWait -----------------------------
(***************************************************************************)
(* "ao submit --wait": cmd_submit of src/cli/main.py polls a task through  *)
(* OrchestratorClient, and its polls meet the rate limit of the server.    *)
(*                                                                         *)
(* A wait w begins at time 0, w.before requests of this client (the        *)
(* submission among them) just before it.  It polls every w.pause ticks    *)
(* (a request and the sleep) until w.wait; the task has ended at w.ends,   *)
(* its record has an "error", of a failed try, from w.raised, and the      *)
(* server cannot be reached from w.down on.                                *)
(***************************************************************************)
EXTENDS RateLimit

PollAt(w, i) == (i - 1) * w.pause

\* The requests of this client: those before the wait, then its polls.
Before(w) == 1 .. w.before
Arrivals(w) ==
  [j \in 1 .. w.before + w.wait |-> IF j \in Before(w) THEN 0 ELSE PollAt(w, j - w.before)]

\* _request: what is not answered, or answered with 400 and above, becomes
\* an envelope with "error" and "message"; a task's record has no "message".
Envelope == [error |-> TRUE, message |-> TRUE, ended |-> FALSE]
_request(w, now, accepted) ==
  IF now >= w.down \/ ~accepted THEN Envelope
  ELSE [error |-> now >= w.raised, message |-> FALSE, ended |-> now >= w.ends]

\* _check
RefusedByError(answer) == answer.error
Refused(answer) == answer.error /\ answer.message

\* Poll i: the server's table for this client, and the verdict.
Poll(w, i, log) ==
  LET now == PollAt(w, i)
      admitted == Dispatch(log, Arrivals(w), w.before + i)
      answer == _request(w, now, admitted.accepted)
  IN  [log |-> IF now < w.down THEN admitted.log ELSE log,
       verdict |-> IF Refused(answer) THEN "refused"
                   ELSE IF answer.ended THEN "ended" ELSE "waiting"]

\* One round of the loop.
Round(w, i, so) ==
  IF so.verdict # "waiting" THEN so
  ELSE IF PollAt(w, i) >= w.wait THEN [log |-> so.log, verdict |-> "still"]
  ELSE Poll(w, i, so.log)

cmd_submit(w) ==
  LET After[i \in 0 .. w.wait] ==
        IF i = 0 THEN [log |-> Before(w), verdict |-> "waiting"] ELSE Round(w, i, After[i - 1])
      last == After[w.wait].verdict
  IN  IF last = "waiting" THEN "still" ELSE last

\* What it does, which is less than it promises (see MCSubmitWait): it tells
\* what the first poll that fails or finds an end saw.  Polls that are all
\* admitted lie pause apart, and poll i is one too many if MaxRequests others
\* lie less than a window before it.
Polls(w) == {i \in 1 .. w.wait : PollAt(w, i) < w.wait}
TooMany(w, i) ==
  Cardinality({j \in 1 .. i - 1 : PollAt(w, i) - PollAt(w, j) < Window})
    + (IF PollAt(w, i) < Window THEN w.before ELSE 0) >= MaxRequests
Fails(w, i) == PollAt(w, i) >= w.down \/ TooMany(w, i)
Tells(w, i) == Fails(w, i) \/ PollAt(w, i) >= w.ends
SaysWhatItSaw(w) ==
  LET telling == {i \in Polls(w) : Tells(w, i)}
      first == CHOOSE i \in telling : \A j \in telling : i <= j
  IN  cmd_submit(w) = IF telling = {} THEN "still"
                      ELSE IF Fails(w, first) THEN "refused" ELSE "ended"
=============================================================================
