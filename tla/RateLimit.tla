------------------------------ MODULE RateLimit ------------------------------
(***************************************************************************)
(* RateLimitMiddleware of src/api/middleware.py: one client's requests in  *)
(* a sliding window, time in whole ticks.                                  *)
(***************************************************************************)
EXTENDS Integers, Sequences, FiniteSets

CONSTANTS MaxRequests, Window

ASSUME RateAssumption == MaxRequests \in Nat /\ Window \in Nat \ {0}

\* A client's timestamps are told by the requests they are of: at[j] is the
\* time of its request j, and its list is the set of the j whose time it has.
\* Those still in the window when request i arrives:
RecentInclusive(log, at, i) == {j \in log : at[i] - at[j] <= Window}
Recent(log, at, i) == {j \in log : at[i] - at[j] < Window}

\* dispatch: a refused request leaves the list as it was, expired timestamps
\* included.
Dispatch(log, at, i) ==
  LET recent == Recent(log, at, i) IN
  IF Cardinality(recent) >= MaxRequests
  THEN [log |-> log, accepted |-> FALSE]
  ELSE [log |-> recent \cup {i}, accepted |-> TRUE]

\* The answers to requests that arrive at these times, in order.
Answers(arrivals) ==
  LET After[i \in 0 .. Len(arrivals)] ==
        IF i = 0 THEN [log |-> {}, accepted |-> FALSE]
                 ELSE Dispatch(After[i - 1].log, arrivals, i)
  IN  [i \in 1 .. Len(arrivals) |-> After[i].accepted]

\* What it computes, said without a table: a request is accepted unless
\* MaxRequests accepted ones lie less than a window before it.
AcceptedRecently(arrivals, answers, i) ==
  {j \in 1 .. i - 1 : answers[j] /\ arrivals[i] - arrivals[j] < Window}
AdmitsByWindow(arrivals) ==
  LET answers == Answers(arrivals) IN
  \A i \in DOMAIN arrivals :
    answers[i] <=> Cardinality(AcceptedRecently(arrivals, answers, i)) < MaxRequests
=============================================================================
