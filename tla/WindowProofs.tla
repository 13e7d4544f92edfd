-------------------------- MODULE WindowProofs --------------------------
(***************************************************************************)
(* What the algorithms over time compute, for every input: the rate        *)
(* limit, the wait that polls through it, and the buckets of throughput.   *)
(* The loops of the model are recursive functions; what they compute is    *)
(* proved by induction over how far they got.                              *)
(***************************************************************************)
EXTENDS SubmitWait, Throughput, FiniteSetTheorems, TLAPS

(***************************************************************************)
(* Induction over the numbers up to n, and iteration, said of sets: a      *)
(* statement about every i is the set of the i it holds of.                *)
(***************************************************************************)
LEMMA LeastNatural ==
  ASSUME NEW T \in SUBSET Nat, T # {}
  PROVE  \E m \in T : \A k \in T : m <= k
<1> DEFINE R == {p \in Nat \X Nat : p[1] < p[2]}
<1>1. IsWellFoundedOn(R, Nat)
  BY NatLessThanWellFounded DEF OpToRel
<1>2. PICK m \in T : \A k \in T : <<k, m>> \notin R
  <2> HIDE DEF R
  <2> QED BY <1>1, WFMin
<1>3. \A k \in T : m <= k
  <2> TAKE k \in T
  <2>1. <<k, m>> \in Nat \X Nat /\ k \in Nat /\ m \in Nat
    OBVIOUS
  <2>2. ~(k < m)
    BY <1>2, <2>1
  <2> QED BY <2>1, <2>2
<1> QED BY <1>3

\* What holds of 0, and of i + 1 if of i, holds of the numbers up to n.
LEMMA UpToInduction ==
  ASSUME NEW n \in Nat, NEW T, 0 \in T, \A i \in 0 .. n - 1 : i \in T => i + 1 \in T
  PROVE  0 .. n \subseteq T
<1> SUFFICES ASSUME (0 .. n) \ T # {} PROVE FALSE
  OBVIOUS
<1>1. PICK m \in (0 .. n) \ T : \A k \in (0 .. n) \ T : m <= k
  <2> DEFINE Left == (0 .. n) \ T
  <2>1. Left \in SUBSET Nat /\ Left # {}
    OBVIOUS
  <2> HIDE DEF Left
  <2>2. \E m \in Left : \A k \in Left : m <= k
    BY <2>1, LeastNatural
  <2> QED BY <2>2 DEF Left
<1>2. m - 1 \in 0 .. n - 1 /\ m - 1 \in T
  BY <1>1
<1> QED BY <1>1, <1>2

\* The sequence that begins with start and goes on by step, a function of
\* what was before and of the position.
StepFunctions(S, n) == [S \X (1 .. n) -> S]
Iterates(g, S, start, n, step) ==
  g \in [0 .. n -> S] /\ g[0] = start /\ \A i \in 1 .. n : g[i] = step[<<g[i - 1], i>>]

\* There is such a sequence: the recursive functions of the model are total.
LEMMA Iteration ==
  ASSUME NEW S, NEW start \in S, NEW n \in Nat, NEW step \in StepFunctions(S, n)
  PROVE  \E g : Iterates(g, S, start, n, step)
<1>0. step \in [S \X (1 .. n) -> S]
  BY DEF StepFunctions
<1> DEFINE Upto(m, g) == g[0] = start /\ \A i \in 1 .. m : g[i] = step[<<g[i - 1], i>>]
           T == {m \in 0 .. n : \E g \in [0 .. m -> S] : Upto(m, g)}
<1>1. 0 \in T
  <2>1. [i \in 0 .. 0 |-> start] \in [0 .. 0 -> S] /\ Upto(0, [i \in 0 .. 0 |-> start])
    OBVIOUS
  <2>2. 0 \in 0 .. n
    OBVIOUS
  <2> HIDE DEF Upto
  <2> QED BY <2>1, <2>2
<1>2. ASSUME NEW m \in 0 .. n - 1, m \in T PROVE m + 1 \in T
  <2>1. PICK g \in [0 .. m -> S] : Upto(m, g)
    BY <1>2
  <2> DEFINE h == [i \in 0 .. m + 1 |-> IF i = m + 1 THEN step[<<g[m], m + 1>>] ELSE g[i]]
  <2>2. g[m] \in S /\ m + 1 \in 1 .. n
    BY <2>1
  <2>3. step[<<g[m], m + 1>>] \in S
    BY <1>0, <2>2
  <2>4. h \in [0 .. m + 1 -> S]
    BY <2>3
  <2>5. Upto(m + 1, h)
    <3>1. h[0] = start
      BY <2>1
    <3>2. ASSUME NEW i \in 1 .. m + 1 PROVE h[i] = step[<<h[i - 1], i>>]
      <4>1. h[i - 1] = g[i - 1] /\ i - 1 \in 0 .. m
        OBVIOUS
      <4>2. CASE i = m + 1
        <5>1. h[i] = step[<<g[m], m + 1>>] /\ h[i - 1] = g[m]
          BY <4>1, <4>2
        <5> HIDE DEF h
        <5> QED BY <4>2, <5>1
      <4>3. CASE i # m + 1
        <5>1. i \in 1 .. m
          BY <4>3
        <5> QED BY <2>1, <4>1, <5>1, <4>3
      <4> QED BY <4>2, <4>3
    <3> QED BY <3>1, <3>2
  <2>6. m + 1 \in 0 .. n
    OBVIOUS
  <2> HIDE DEF Upto, h
  <2> QED BY <2>4, <2>5, <2>6
<1>3. n \in T
  <2> HIDE DEF T
  <2> QED BY <1>1, <1>2, UpToInduction
<1> QED BY <1>3 DEF Iterates

(***************************************************************************)
(* RateLimit: the list keeps what later requests need.                     *)
(***************************************************************************)

\* Times that do not decrease.
InOrder(at) == \A i, j \in DOMAIN at : i <= j => at[i] <= at[j]

\* What is true of the list after request i: it has nothing but accepted
\* requests, and each that it has not any more was a window old before.
LogRight(log, at, accepted, i) ==
  /\ log \subseteq {j \in 1 .. i : accepted[j]}
  /\ \A j \in 1 .. i : accepted[j] /\ j \notin log =>
       \E k \in j .. i : at[k] - at[j] >= Window

\* Then the list tells which accepted requests are recent.
LEMMA RecentRight ==
  ASSUME NEW at \in Seq(Int), InOrder(at), NEW accepted, NEW i \in 1 .. Len(at), NEW log,
         LogRight(log, at, accepted, i - 1)
  PROVE  Recent(log, at, i) = AcceptedRecently(at, accepted, i)
<1>1. i - 1 \in Int /\ 1 .. i - 1 \subseteq 1 .. Len(at) /\ \A j \in 1 .. Len(at) : at[j] \in Int
  OBVIOUS
<1>2. ASSUME NEW j \in 1 .. i - 1, accepted[j], at[i] - at[j] < Window PROVE j \in log
  <2>1. ASSUME NEW k \in j .. i - 1 PROVE at[k] - at[j] < Window
    <3>1. k \in 1 .. Len(at) /\ k <= i
      BY <1>1
    <3>2. at[k] <= at[i] /\ at[k] \in Int /\ at[i] \in Int /\ at[j] \in Int
      BY <1>1, <3>1 DEF InOrder
    <3> QED BY <1>2, <3>2, RateAssumption
  <2>2. \A k \in j .. i - 1 : at[k] \in Int /\ at[j] \in Int
    BY <1>1
  <2> QED BY <1>2, <2>1, <2>2, RateAssumption DEF LogRight
<1> QED BY <1>2 DEF LogRight, Recent, AcceptedRecently

\* And it stays so, if the table is given the answer to request i.
LEMMA DispatchKeeps ==
  ASSUME NEW at \in Seq(Int), InOrder(at), NEW accepted, NEW i \in 1 .. Len(at), NEW log,
         LogRight(log, at, accepted, i - 1), accepted[i] <=> Dispatch(log, at, i).accepted
  PROVE  /\ accepted[i] <=> (Cardinality(AcceptedRecently(at, accepted, i)) < MaxRequests)
         /\ LogRight(Dispatch(log, at, i).log, at, accepted, i)
<1> DEFINE recent == Recent(log, at, i)
           after == Dispatch(log, at, i)
<1>1. recent = AcceptedRecently(at, accepted, i) /\ recent \subseteq log
  BY RecentRight DEF Recent
<1>2. Cardinality(recent) \in Nat /\ recent \subseteq 1 .. i - 1
  <2>1. recent \subseteq 1 .. i - 1
    BY <1>1 DEF AcceptedRecently
  <2>2. IsFiniteSet(1 .. i - 1)
    <3>1. 1 \in Int /\ i - 1 \in Int
      OBVIOUS
    <3> QED BY <3>1, FS_Interval
  <2> HIDE DEF recent
  <2>3. IsFiniteSet(recent)
    BY <2>1, <2>2, FS_Subset
  <2> QED BY <2>1, <2>3, FS_CardinalityType
<1>3. after = IF Cardinality(recent) >= MaxRequests
              THEN [log |-> log, accepted |-> FALSE]
              ELSE [log |-> recent \cup {i}, accepted |-> TRUE]
  BY DEF Dispatch
<1>4. ASSUME NEW j \in 1 .. i - 1, j \in log, j \notin recent PROVE at[i] - at[j] >= Window
  <2>1. at[i] \in Int /\ at[j] \in Int
    OBVIOUS
  <2> QED BY <1>4, <2>1, RateAssumption DEF Recent
<1>5. \A j \in Int : j \in 1 .. i <=> (j \in 1 .. i - 1 \/ j = i)
  OBVIOUS
<1>6. /\ log \subseteq {j \in 1 .. i - 1 : accepted[j]}
      /\ \A j \in 1 .. i - 1 : accepted[j] /\ j \notin log =>
           \E k \in j .. i - 1 : at[k] - at[j] >= Window
  BY DEF LogRight
<1>7. \A j \in 1 .. i - 1 : i \in j .. i /\ j .. i - 1 \subseteq j .. i
  OBVIOUS
<1>8. (accepted[i] <=> after.accepted) /\ i \notin 1 .. i - 1
  OBVIOUS
<1> HIDE DEF recent, after
<1>9. CASE Cardinality(recent) >= MaxRequests
  <2>1. after.log = log /\ ~accepted[i]
    BY <1>3, <1>8, <1>9
  <2>2. ~(Cardinality(recent) < MaxRequests)
    BY <1>2, <1>9, RateAssumption
  <2>3. \A j \in 1 .. i : accepted[j] => j \in 1 .. i - 1
    BY <1>5, <2>1
  <2>4. LogRight(after.log, at, accepted, i)
    BY <1>5, <1>6, <1>7, <2>1, <2>3 DEF LogRight
  <2> QED BY <1>1, <2>1, <2>2, <2>4 DEF after
<1>10. CASE ~(Cardinality(recent) >= MaxRequests)
  <2>1. after.log = recent \cup {i} /\ accepted[i]
    BY <1>3, <1>8, <1>10
  <2>2. Cardinality(recent) < MaxRequests
    BY <1>2, <1>10, RateAssumption
  <2>3. after.log \subseteq {j \in 1 .. i : accepted[j]}
    <3>1. \A j \in after.log : j \in 1 .. i /\ accepted[j]
      <4>1. \A j \in log : j \in 1 .. i - 1 /\ accepted[j]
        BY <1>6
      <4>2. i \in 1 .. i
        OBVIOUS
      <4> QED BY <1>1, <1>5, <2>1, <4>1, <4>2
    <3> QED BY <3>1
  <2>4. ASSUME NEW j \in 1 .. i, accepted[j], j \notin after.log
        PROVE  \E k \in j .. i : at[k] - at[j] >= Window
    <3>1. j \in 1 .. i - 1 /\ j \notin recent
      BY <1>5, <2>1, <2>4
    <3>2. CASE j \in log
      BY <1>4, <1>7, <3>1, <3>2
    <3>3. CASE j \notin log
      BY <1>6, <1>7, <2>4, <3>1, <3>3
    <3> QED BY <3>2, <3>3
  <2>5. LogRight(after.log, at, accepted, i)
    BY <2>3, <2>4 DEF LogRight
  <2> QED BY <1>1, <2>1, <2>2, <2>5 DEF after
<1> QED BY <1>9, <1>10

\* A client's requests are accepted as the sliding window says, however many
\* they are and whenever they come.
LEMMA RateRight ==
  ASSUME NEW at \in Seq(Int), InOrder(at)
  PROVE  AdmitsByWindow(at)
<1> DEFINE n == Len(at)
           Loop(F) == [i \in 0 .. n |-> IF i = 0 THEN [log |-> {}, accepted |-> FALSE]
                                                ELSE Dispatch(F[i - 1].log, at, i)]
           After == CHOOSE F : F = Loop(F)
           S == [log : SUBSET (1 .. n), accepted : BOOLEAN]
           begin == [log |-> {}, accepted |-> FALSE]
           answers == Answers(at)
<1>1. answers = [i \in 1 .. n |-> After[i].accepted]
  BY DEF Answers
<1>2. n \in Nat /\ DOMAIN at = 1 .. n /\ \A i \in 1 .. n : at[i] \in Int
  OBVIOUS
<1>3. ASSUME NEW log \in SUBSET (1 .. n), NEW i \in 1 .. n
      PROVE  Dispatch(log, at, i) \in S
  <2>1. Recent(log, at, i) \subseteq 1 .. n
    BY DEF Recent
  <2> QED BY <2>1 DEF Dispatch
<1>4. \E F : F = Loop(F)
  <2> DEFINE step == [p \in S \X (1 .. n) |-> Dispatch(p[1].log, at, p[2])]
  <2>1. step \in StepFunctions(S, n)
    <3>1. \A p \in S \X (1 .. n) : p[1].log \in SUBSET (1 .. n) /\ p[2] \in 1 .. n
      OBVIOUS
    <3> HIDE DEF n, S
    <3> QED BY <1>3, <3>1 DEF StepFunctions
  <2>2. PICK F : Iterates(F, S, begin, n, step)
    <3>1. n \in Nat /\ begin \in S
      BY <1>2
    <3> HIDE DEF step, n, S, begin
    <3> QED BY <2>1, <3>1, Iteration
  <2>3. ASSUME NEW i \in 1 .. n PROVE F[i] = Dispatch(F[i - 1].log, at, i)
    <3>1. i - 1 \in 0 .. n
      BY <1>2
    <3> HIDE DEF S, n
    <3>2. <<F[i - 1], i>> \in S \X (1 .. n)
      BY <2>2, <3>1 DEF Iterates
    <3> QED BY <2>2, <3>2 DEF Iterates
  <2>4. ASSUME NEW i \in 0 .. n PROVE F[i] = IF i = 0 THEN begin ELSE Dispatch(F[i - 1].log, at, i)
    <3>1. i # 0 => i \in 1 .. n
      BY <1>2
    <3> QED BY <2>2, <2>3, <3>1 DEF Iterates
  <2>5. F \in [0 .. n -> S]
    BY <2>2 DEF Iterates
  <2> HIDE DEF S, n
  <2> QED BY <2>4, <2>5
<1>5. After = Loop(After)
  <2> HIDE DEF Loop
  <2> QED BY <1>4
<1> HIDE DEF After, S
<1>6. After[0] = begin /\ \A i \in 1 .. n : After[i] = Dispatch(After[i - 1].log, at, i)
  <2>1. \A i \in 0 .. n : After[i] = IF i = 0 THEN begin ELSE Dispatch(After[i - 1].log, at, i)
    BY <1>5
  <2>2. 0 \in 0 .. n /\ \A i \in 1 .. n : i \in 0 .. n /\ i # 0
    BY <1>2
  <2> HIDE DEF begin, n
  <2> QED BY <2>1, <2>2
<1> DEFINE log(i) == After[i].log
           T == {i \in 0 .. n : LogRight(log(i), at, answers, i)}
<1>7. 0 \in T
  BY <1>2, <1>6 DEF LogRight
<1>8. \A i \in 1 .. n : answers[i] = After[i].accepted
  BY <1>1
<1>9. ASSUME NEW i \in 1 .. n, LogRight(log(i - 1), at, answers, i - 1)
      PROVE  /\ answers[i] <=> (Cardinality(AcceptedRecently(at, answers, i)) < MaxRequests)
             /\ LogRight(log(i), at, answers, i)
  <2>1. After[i] = Dispatch(log(i - 1), at, i) /\ answers[i] = Dispatch(log(i - 1), at, i).accepted
    BY <1>6, <1>8
  <2> HIDE DEF answers
  <2> QED BY <1>9, <2>1, DispatchKeeps
<1>10. 0 .. n \subseteq T
  <2>1. ASSUME NEW i \in 0 .. n - 1, i \in T PROVE i + 1 \in T
    <3>1. i + 1 \in 1 .. n /\ i + 1 \in 0 .. n /\ (i + 1) - 1 = i
      BY <1>2
    <3> HIDE DEF log, answers
    <3> QED BY <1>9, <2>1, <3>1
  <2> HIDE DEF T, n
  <2> QED BY <1>2, <1>7, <2>1, UpToInduction
<1>11. ASSUME NEW i \in 1 .. n
       PROVE  answers[i] <=> Cardinality(AcceptedRecently(at, answers, i)) < MaxRequests
  <2>1. i - 1 \in 0 .. n
    BY <1>2
  <2>2. LogRight(log(i - 1), at, answers, i - 1)
    BY <1>10, <2>1
  <2> HIDE DEF log, answers, n
  <2> QED BY <1>9, <2>2
<1> HIDE DEF answers
<1> QED BY <1>2, <1>11 DEF AdmitsByWindow, answers

(***************************************************************************)
(* SubmitWait: a wait up to round i.                                       *)
(***************************************************************************)

\* Any wait: a pause takes time, all else is any number of ticks or requests.
Waits == [wait : Nat, before : Nat, pause : Nat \ {0}, ends : Nat, raised : Nat, down : Nat]

\* The polls come in order.
LEMMA PollsInOrder ==
  ASSUME NEW w \in Waits
  PROVE  /\ \A i \in Nat \ {0} : PollAt(w, i) \in Nat
         /\ \A i, j \in Nat \ {0} : i <= j => PollAt(w, i) <= PollAt(w, j)
<1>1. w.pause \in Nat
  BY DEF Waits
<1>2. ASSUME NEW a \in Nat, NEW b \in Nat, NEW p \in Nat, a <= b PROVE a * p <= b * p
  BY <1>2
<1>3. ASSUME NEW i \in Nat \ {0} PROVE i - 1 \in Nat /\ PollAt(w, i) = (i - 1) * w.pause
  BY DEF PollAt
<1>4. ASSUME NEW a \in Nat PROVE a * w.pause \in Nat
  BY <1>1
<1>5. \A i \in Nat \ {0} : PollAt(w, i) \in Nat
  BY <1>3, <1>4
<1>6. ASSUME NEW i \in Nat \ {0}, NEW j \in Nat \ {0}, i <= j PROVE PollAt(w, i) <= PollAt(w, j)
  <2>1. i - 1 <= j - 1 /\ i - 1 \in Nat /\ j - 1 \in Nat
    BY <1>6
  <2>2. (i - 1) * w.pause <= (j - 1) * w.pause
    BY <1>1, <1>2, <2>1
  <2> QED BY <1>3, <2>2
<1> QED BY <1>5, <1>6

\* All requests of a wait that goes on were accepted.
All(w) == [j \in 1 .. w.before + w.wait |-> TRUE]

\* So do all the requests of a wait.
LEMMA ArrivalsInOrder ==
  ASSUME NEW w \in Waits
  PROVE  /\ Arrivals(w) \in Seq(Int) /\ Len(Arrivals(w)) = w.before + w.wait
         /\ InOrder(Arrivals(w))
         /\ \A j \in 1 .. w.before : Arrivals(w)[j] = 0
         /\ \A i \in 1 .. w.wait : Arrivals(w)[w.before + i] = PollAt(w, i)
<1> DEFINE n == w.before + w.wait
           at == Arrivals(w)
<1>1. w.before \in Nat /\ w.wait \in Nat /\ n \in Nat
  BY DEF Waits
<1>2. at = [j \in 1 .. n |-> IF j \in 1 .. w.before THEN 0 ELSE PollAt(w, j - w.before)]
  BY DEF Arrivals, Before
<1>3. ASSUME NEW j \in 1 .. n
      PROVE  /\ j \in 1 .. w.before => at[j] = 0
             /\ j \notin 1 .. w.before =>
                  j - w.before \in Nat \ {0} /\ at[j] = PollAt(w, j - w.before) /\ at[j] \in Nat
  <2>1. j \notin 1 .. w.before => j - w.before \in Nat \ {0}
    BY <1>1
  <2> HIDE DEF n
  <2> QED BY <1>2, <2>1, PollsInOrder
<1> HIDE DEF at
<1>4. \A j \in 1 .. n : at[j] \in Int /\ at[j] >= 0
  BY <1>3
<1>5. at \in Seq(Int) /\ Len(at) = n
  <2>1. at \in [1 .. n -> Int]
    <3>1. at = [j \in 1 .. n |-> at[j]]
      BY <1>2
    <3> QED BY <1>4, <3>1
  <2> HIDE DEF n
  <2> QED BY <1>1, <2>1
<1>6. ASSUME NEW i \in 1 .. n, NEW j \in 1 .. n, i <= j PROVE at[i] <= at[j]
  <2>1. CASE i \in 1 .. w.before
    BY <1>3, <1>4, <2>1
  <2>2. CASE i \notin 1 .. w.before
    <3>1. j \notin 1 .. w.before /\ i - w.before <= j - w.before
      BY <1>1, <1>6, <2>2
    <3> QED BY <1>3, <2>2, <3>1, PollsInOrder
  <2> QED BY <2>1, <2>2
<1>7. InOrder(at)
  <2>1. DOMAIN at = 1 .. n
    BY <1>2
  <2> QED BY <1>6, <2>1 DEF InOrder
<1>8. ASSUME NEW i \in 1 .. w.wait PROVE at[w.before + i] = PollAt(w, i)
  <2>1. w.before + i \in 1 .. n /\ w.before + i \notin 1 .. w.before /\ (w.before + i) - w.before = i
    BY <1>1
  <2> HIDE DEF n
  <2> QED BY <1>3, <2>1
<1>9. ASSUME NEW j \in 1 .. w.before PROVE at[j] = 0
  <2>1. j \in 1 .. n
    BY <1>1
  <2> QED BY <1>3, <2>1
<1> QED BY <1>5, <1>7, <1>8, <1>9 DEF at

\* A set of numbers moved up by n has as many elements.
LEMMA Moved ==
  ASSUME NEW n \in Int, NEW R, R \subseteq Int, IsFiniteSet(R)
  PROVE  IsFiniteSet({n + j : j \in R}) /\ Cardinality({n + j : j \in R}) = Cardinality(R)
<1> DEFINE M == {n + j : j \in R}
           f == [j \in R |-> n + j]
<1>1. f \in Bijection(R, M)
  BY DEF Bijection, Injection, Surjection, IsInjective
<1>2. ExistsBijection(R, M)
  BY <1>1 DEF ExistsBijection
<1> HIDE DEF M
<1>3. IsFiniteSet(M) /\ Cardinality(M) = Cardinality(R)
  BY <1>2, FS_Bijection
<1> QED BY <1>3 DEF M

\* A poll is one too many when the window holds MaxRequests requests.
LEMMA TooManyMeans ==
  ASSUME NEW w \in Waits, NEW i \in 1 .. w.wait
  PROVE  TooMany(w, i) <=>
           ~(Cardinality(AcceptedRecently(Arrivals(w), All(w), w.before + i)) < MaxRequests)
<1> DEFINE at == Arrivals(w)
           now == PollAt(w, i)
           R == {j \in 1 .. i - 1 : now - PollAt(w, j) < Window}
           Old == IF now < Window THEN 1 .. w.before ELSE {}
           New == {w.before + j : j \in R}
           A == AcceptedRecently(at, All(w), w.before + i)
<1>1. w.before \in Nat /\ w.wait \in Nat /\ now \in Nat /\ MaxRequests \in Nat /\ i - 1 \in Int
  BY PollsInOrder, RateAssumption DEF Waits
<1>2. A = {j \in 1 .. (w.before + i) - 1 : at[w.before + i] - at[j] < Window}
  <2>1. \A j \in 1 .. (w.before + i) - 1 : All(w)[j]
    BY <1>1 DEF All
  <2> QED BY <2>1 DEF AcceptedRecently
<1>3. /\ at[w.before + i] = now
      /\ \A j \in 1 .. w.before : at[j] = 0
      /\ \A j \in 1 .. i - 1 : at[w.before + j] = PollAt(w, j)
  <2>1. \A j \in 1 .. i - 1 : j \in 1 .. w.wait
    BY <1>1
  <2> HIDE DEF at, now
  <2> QED BY <2>1, ArrivalsInOrder DEF at, now
<1> HIDE DEF at, now
<1>4. A = Old \cup New
  <2>1. ASSUME NEW j \in A PROVE j \in Old \cup New
    <3>1. CASE j <= w.before
      BY <1>1, <1>2, <1>3, <3>1
    <3>2. CASE ~(j <= w.before)
      <4>1. j - w.before \in 1 .. i - 1 /\ w.before + (j - w.before) = j
        BY <1>1, <1>2, <3>2
      <4>2. j - w.before \in R
        BY <1>2, <1>3, <4>1
      <4> QED BY <4>1, <4>2
    <3> QED BY <3>1, <3>2
  <2>2. ASSUME NEW j \in Old PROVE j \in A
    BY <1>1, <1>2, <1>3, <2>2
  <2>3. ASSUME NEW j \in R PROVE w.before + j \in A
    BY <1>1, <1>2, <1>3
  <2> HIDE DEF A, R, Old
  <2> QED BY <2>1, <2>2, <2>3
<1>5. IsFiniteSet(Old) /\ Cardinality(Old) = IF now < Window THEN w.before ELSE 0
  <2>1. IsFiniteSet(1 .. w.before) /\ Cardinality(1 .. w.before) = w.before
    <3>1. 1 \in Int /\ w.before \in Int /\ (IF 1 > w.before THEN 0 ELSE w.before - 1 + 1) = w.before
      BY <1>1
    <3> QED BY <3>1, FS_Interval
  <2>2. IsFiniteSet({}) /\ Cardinality({}) = 0
    BY FS_EmptySet
  <2> QED BY <2>1, <2>2
<1>6. IsFiniteSet(R) /\ R \subseteq Int
  <2>1. R \subseteq 1 .. i - 1
    OBVIOUS
  <2>2. IsFiniteSet(1 .. i - 1)
    BY <1>1, FS_Interval
  <2>3. R \subseteq Int
    OBVIOUS
  <2> HIDE DEF R
  <2> QED BY <2>1, <2>2, <2>3, FS_Subset
<1>7. IsFiniteSet(New) /\ Cardinality(New) = Cardinality(R)
  <2>1. w.before \in Int
    BY <1>1
  <2> HIDE DEF R
  <2> QED BY <1>6, <2>1, Moved
<1>8. Old \cap New = {}
  BY <1>1
<1>9. Cardinality(A) = Cardinality(R) + (IF now < Window THEN w.before ELSE 0) /\ Cardinality(R) \in Nat
  <2> HIDE DEF A, R
  <2> HIDE DEF Old, New
  <2>1. Cardinality({}) = 0 /\ Cardinality(R) \in Nat
    BY <1>6, FS_EmptySet, FS_CardinalityType
  <2>2. Cardinality(Old \cup New) = Cardinality(Old) + Cardinality(New) - Cardinality(Old \cap New)
    BY <1>5, <1>7, FS_Union
  <2>3. Cardinality(A) = Cardinality(Old) + Cardinality(R) - 0
    BY <1>4, <1>7, <1>8, <2>1, <2>2
  <2> QED BY <1>1, <1>5, <2>1, <2>3
<1>10. TooMany(w, i) <=> Cardinality(R) + (IF now < Window THEN w.before ELSE 0) >= MaxRequests
  BY DEF TooMany, now
<1> HIDE DEF A, R
<1>11. TooMany(w, i) <=> ~(Cardinality(A) < MaxRequests)
  BY <1>1, <1>9, <1>10
<1> QED BY <1>11 DEF A, at

(***************************************************************************)
(* The wait after i rounds.                                                *)
(***************************************************************************)
Silent(w, i) == i \in Polls(w) /\ ~Tells(w, i)
Verdict(w, i, verdict) ==
  IF i \in Polls(w) THEN Tells(w, i) /\ verdict = IF Fails(w, i) THEN "refused" ELSE "ended"
  ELSE verdict = "still"
Told(w, so, i) ==
  IF so.verdict = "waiting"
  THEN /\ \A j \in 1 .. i : Silent(w, j)
       /\ LogRight(so.log, Arrivals(w), All(w), w.before + i)
  ELSE \E k \in 1 .. i : Verdict(w, k, so.verdict) /\ \A j \in 1 .. k - 1 : Silent(w, j)

\* A poll ends the wait as it should, or leaves the table right.
LEMMA PollTells ==
  ASSUME NEW w \in Waits, NEW i \in 1 .. w.wait, i \in Polls(w), NEW log,
         LogRight(log, Arrivals(w), All(w), w.before + (i - 1))
  PROVE  LET so == Poll(w, i, log) IN
         IF Tells(w, i) THEN so.verdict # "waiting" /\ Verdict(w, i, so.verdict)
         ELSE so.verdict = "waiting" /\ LogRight(so.log, Arrivals(w), All(w), w.before + i)
<1> DEFINE now == PollAt(w, i)
           admitted == Dispatch(log, Arrivals(w), w.before + i)
           answer == _request(w, now, admitted.accepted)
           so == Poll(w, i, log)
<1>1. so = [log |-> IF now < w.down THEN admitted.log ELSE log,
            verdict |-> IF Refused(answer) THEN "refused"
                        ELSE IF answer.ended THEN "ended" ELSE "waiting"]
  BY DEF Poll
<1>2. /\ w.before \in Nat /\ w.wait \in Nat /\ w.ends \in Nat /\ w.down \in Nat /\ now \in Nat
      /\ w.before + i \in 1 .. w.before + w.wait /\ (w.before + i) - 1 = w.before + (i - 1)
  BY PollsInOrder DEF Waits
<1>3. LogRight(log, Arrivals(w), All(w), (w.before + i) - 1)
  BY <1>2
<1>4. admitted.accepted \in BOOLEAN /\ (admitted.accepted <=> ~TooMany(w, i))
  <2>1. Recent(log, Arrivals(w), w.before + i) = AcceptedRecently(Arrivals(w), All(w), w.before + i)
    BY <1>2, <1>3, ArrivalsInOrder, RecentRight
  <2> DEFINE recent == Recent(log, Arrivals(w), w.before + i)
  <2>2. Cardinality(recent) \in Nat
    <3>1. recent \subseteq 1 .. (w.before + i) - 1
      BY <2>1 DEF AcceptedRecently
    <3>2. IsFiniteSet(1 .. (w.before + i) - 1)
      <4>1. 1 \in Int /\ (w.before + i) - 1 \in Int
        BY <1>2
      <4> QED BY <4>1, FS_Interval
    <3> HIDE DEF recent
    <3> QED BY <3>1, <3>2, FS_Subset, FS_CardinalityType
  <2>3. admitted = IF Cardinality(recent) >= MaxRequests
                   THEN [log |-> log, accepted |-> FALSE]
                   ELSE [log |-> recent \cup {w.before + i}, accepted |-> TRUE]
    BY DEF Dispatch
  <2>4. Cardinality(recent) >= MaxRequests <=> TooMany(w, i)
    <3>1. TooMany(w, i) <=> ~(Cardinality(recent) < MaxRequests)
      BY <2>1, TooManyMeans
    <3> HIDE DEF recent
    <3> QED BY <2>2, <3>1, RateAssumption
  <2> HIDE DEF admitted, recent
  <2>5. CASE TooMany(w, i)
    BY <2>3, <2>4, <2>5
  <2>6. CASE ~TooMany(w, i)
    BY <2>3, <2>4, <2>6
  <2> QED BY <2>5, <2>6
<1>5. Fails(w, i) <=> now >= w.down \/ ~admitted.accepted
  BY <1>4 DEF Fails
<1>6. Tells(w, i) <=> Fails(w, i) \/ now >= w.ends
  BY DEF Tells
<1> HIDE DEF now
<1>7. CASE Fails(w, i)
  <2>1. answer = Envelope
    BY <1>5, <1>7 DEF _request
  <2>2. so.verdict = "refused"
    BY <1>1, <2>1 DEF Refused, Envelope
  <2> QED BY <1>6, <1>7, <2>2 DEF Verdict
<1>8. CASE ~Fails(w, i)
  <2>1. answer = [error |-> now >= w.raised, message |-> FALSE, ended |-> now >= w.ends]
    BY <1>5, <1>8 DEF _request
  <2> HIDE DEF answer
  <2>2. ~Refused(answer) /\ (answer.ended <=> now >= w.ends)
    BY <2>1 DEF Refused
  <2>3. CASE now >= w.ends
    <3>1. so.verdict = "ended"
      BY <1>1, <2>2, <2>3
    <3> QED BY <1>6, <1>8, <2>3, <3>1 DEF Verdict
  <2>4. CASE ~(now >= w.ends)
    <3>1. so.verdict = "waiting"
      BY <1>1, <2>2, <2>4
    <3>2. now < w.down
      BY <1>2, <1>5, <1>8 DEF now
    <3>3. so.log = admitted.log
      BY <1>1, <3>2
    <3>4. ~Tells(w, i) /\ admitted.accepted
      BY <1>5, <1>6, <1>8, <2>4
    <3>5. LogRight(admitted.log, Arrivals(w), All(w), w.before + i)
      <4>1. All(w)[w.before + i]
        BY <1>2 DEF All
      <4> QED BY <1>2, <1>3, <3>4, <4>1, ArrivalsInOrder, DispatchKeeps
    <3> QED BY <3>1, <3>3, <3>4, <3>5
  <2> QED BY <2>3, <2>4
<1> QED BY <1>7, <1>8

\* And so does a round of the loop.
LEMMA RoundTells ==
  ASSUME NEW w \in Waits, NEW i \in 1 .. w.wait, NEW so, Told(w, so, i - 1)
  PROVE  Told(w, Round(w, i, so), i)
<1>1. w.wait \in Nat /\ \A j \in Int : j \in 1 .. i <=> (j \in 1 .. i - 1 \/ j = i)
  BY DEF Waits
<1>2. CASE so.verdict # "waiting"
  <2>1. Round(w, i, so) = so
    BY <1>2 DEF Round
  <2>2. PICK k \in 1 .. i - 1 : Verdict(w, k, so.verdict) /\ \A j \in 1 .. k - 1 : Silent(w, j)
    BY <1>2 DEF Told
  <2>3. k \in 1 .. i
    BY <1>1
  <2> QED BY <1>2, <2>1, <2>2, <2>3 DEF Told
<1>3. CASE so.verdict = "waiting"
  <2>1. (\A j \in 1 .. i - 1 : Silent(w, j)) /\ LogRight(so.log, Arrivals(w), All(w), w.before + (i - 1))
    BY <1>3 DEF Told
  <2>2. i \in Polls(w) <=> PollAt(w, i) < w.wait
    BY DEF Polls
  <2>3. PollAt(w, i) \in Nat /\ i \in 1 .. i
    BY <1>1, PollsInOrder
  <2>4. CASE i \notin Polls(w)
    <3>1. Round(w, i, so).verdict = "still"
      BY <1>1, <1>3, <2>2, <2>3, <2>4 DEF Round
    <3>2. Verdict(w, i, "still")
      BY <2>4 DEF Verdict
    <3> QED BY <2>1, <2>3, <3>1, <3>2 DEF Told
  <2>5. CASE i \in Polls(w)
    <3>1. Round(w, i, so) = Poll(w, i, so.log)
      BY <1>1, <1>3, <2>2, <2>3, <2>5 DEF Round
    <3> DEFINE end == Poll(w, i, so.log)
    <3>2. IF Tells(w, i) THEN end.verdict # "waiting" /\ Verdict(w, i, end.verdict)
          ELSE end.verdict = "waiting" /\ LogRight(end.log, Arrivals(w), All(w), w.before + i)
      BY <2>1, <2>5, PollTells
    <3> HIDE DEF end
    <3>3. CASE Tells(w, i)
      <4>1. Told(w, end, i)
        BY <2>1, <2>3, <3>2, <3>3 DEF Told
      <4> QED BY <3>1, <4>1 DEF end
    <3>4. CASE ~Tells(w, i)
      <4>1. Silent(w, i)
        BY <2>5, <3>4 DEF Silent
      <4>2. Told(w, end, i)
        BY <1>1, <2>1, <3>2, <3>4, <4>1 DEF Told
      <4> QED BY <3>1, <4>2 DEF end
    <3> QED BY <3>3, <3>4
  <2> QED BY <2>4, <2>5
<1> QED BY <1>2, <1>3

\* What a wait ends with says what the property asks.
LEMMA ToldSays ==
  ASSUME NEW w \in Waits, NEW so, Told(w, so, w.wait),
         cmd_submit(w) = IF so.verdict = "waiting" THEN "still" ELSE so.verdict
  PROVE  SaysWhatItSaw(w)
<1> DEFINE telling == {i \in Polls(w) : Tells(w, i)}
           first == CHOOSE i \in telling : \A j \in telling : i <= j
<1>1. SaysWhatItSaw(w) <=>
        cmd_submit(w) = IF telling = {} THEN "still" ELSE IF Fails(w, first) THEN "refused" ELSE "ended"
  BY DEF SaysWhatItSaw
<1>2. w.wait \in Nat /\ Polls(w) \subseteq 1 .. w.wait
  BY DEF Waits, Polls
<1>3. ASSUME NEW k \in 1 .. w.wait, k \notin Polls(w), NEW j \in Polls(w) PROVE j < k
  <2>1. k <= j => PollAt(w, k) <= PollAt(w, j)
    BY <1>2, PollsInOrder
  <2>2. ~(PollAt(w, k) < w.wait) /\ PollAt(w, j) < w.wait /\ PollAt(w, k) \in Nat /\ PollAt(w, j) \in Nat
    BY <1>2, <1>3, PollsInOrder DEF Polls
  <2> QED BY <1>2, <2>1, <2>2
<1>4. CASE so.verdict = "waiting"
  <2>1. telling = {}
    BY <1>2, <1>4 DEF Told, Silent
  <2> QED BY <1>1, <1>4, <2>1
<1>5. CASE so.verdict # "waiting"
  <2>1. PICK k \in 1 .. w.wait : Verdict(w, k, so.verdict) /\ \A j \in 1 .. k - 1 : Silent(w, j)
    BY <1>5 DEF Told
  <2>2. \A j \in telling : ~(j < k)
    BY <1>2, <2>1 DEF Silent
  <2>3. CASE k \notin Polls(w)
    <3>1. telling = {} /\ so.verdict = "still"
      BY <1>3, <2>1, <2>2, <2>3 DEF Verdict
    <3> QED BY <1>1, <1>5, <3>1
  <2>4. CASE k \in Polls(w)
    <3>1. k \in telling /\ so.verdict = IF Fails(w, k) THEN "refused" ELSE "ended"
      BY <2>1, <2>4 DEF Verdict
    <3>2. \A j \in telling : k <= j
      BY <1>2, <2>2
    <3>3. \A i \in telling : (\A j \in telling : i <= j) => i = k
      BY <1>2, <3>1, <3>2
    <3> HIDE DEF telling
    <3>4. first = k
      <4>1. first \in telling /\ \A j \in telling : first <= j
        BY <3>1, <3>2
      <4> HIDE DEF first
      <4> QED BY <3>3, <4>1
    <3> QED BY <1>1, <1>5, <3>1, <3>4
  <2> QED BY <2>3, <2>4
<1> QED BY <1>4, <1>5

\* Whatever the limit and the pace of the polls, a wait tells what it saw.
LEMMA WaitRight ==
  ASSUME NEW w \in Waits
  PROVE  SaysWhatItSaw(w)
<1> DEFINE n == w.wait
           begin == [log |-> Before(w), verdict |-> "waiting"]
           Loop(F) == [i \in 0 .. n |-> IF i = 0 THEN [log |-> Before(w), verdict |-> "waiting"]
                                                ELSE Round(w, i, F[i - 1])]
           After == CHOOSE F : F = Loop(F)
           S == [log : SUBSET (1 .. w.before + n), verdict : {"waiting", "still", "refused", "ended"}]
<1>1. cmd_submit(w) = IF After[n].verdict = "waiting" THEN "still" ELSE After[n].verdict
  BY DEF cmd_submit
<1>2. n \in Nat /\ w.before \in Nat
  BY DEF Waits
<1>3. ASSUME NEW so \in S, NEW i \in 1 .. n PROVE Round(w, i, so) \in S
  <2>1. w.before + i \in 1 .. w.before + n /\ so.log \in SUBSET (1 .. w.before + n)
    BY <1>2
  <2>2. Recent(so.log, Arrivals(w), w.before + i) \in SUBSET (1 .. w.before + n)
    BY <2>1 DEF Recent
  <2>3. Dispatch(so.log, Arrivals(w), w.before + i).log \in SUBSET (1 .. w.before + n)
    BY <2>1, <2>2 DEF Dispatch
  <2>4. Poll(w, i, so.log) \in S
    BY <2>1, <2>3 DEF Poll
  <2>5. [log |-> so.log, verdict |-> "still"] \in S
    BY <2>1
  <2> HIDE DEF S
  <2> QED BY <2>4, <2>5 DEF Round
<1>4. begin \in S
  BY <1>2 DEF Before
<1> HIDE DEF S
<1>5. \E F : F = Loop(F)
  <2> DEFINE step == [p \in S \X (1 .. n) |-> Round(w, p[2], p[1])]
  <2>1. step \in StepFunctions(S, n)
    BY <1>3 DEF StepFunctions
  <2>2. PICK F : Iterates(F, S, begin, n, step)
    <3> HIDE DEF step, n, begin
    <3> QED BY <1>2, <1>4, <2>1, Iteration
  <2>3. ASSUME NEW i \in 1 .. n PROVE F[i] = Round(w, i, F[i - 1])
    <3>1. i - 1 \in 0 .. n
      BY <1>2
    <3>2. <<F[i - 1], i>> \in S \X (1 .. n)
      BY <2>2, <3>1 DEF Iterates
    <3> QED BY <2>2, <3>2 DEF Iterates
  <2>4. ASSUME NEW i \in 0 .. n PROVE F[i] = IF i = 0 THEN begin ELSE Round(w, i, F[i - 1])
    <3>1. i # 0 => i \in 1 .. n
      BY <1>2
    <3> QED BY <2>2, <2>3, <3>1 DEF Iterates
  <2>5. F \in [0 .. n -> S]
    BY <2>2 DEF Iterates
  <2> QED BY <2>4, <2>5
<1>6. After = Loop(After)
  <2> HIDE DEF Loop
  <2> QED BY <1>5
<1> HIDE DEF After
<1>7. After[0] = begin /\ \A i \in 1 .. n : After[i] = Round(w, i, After[i - 1])
  <2>1. \A i \in 0 .. n : After[i] = IF i = 0 THEN begin ELSE Round(w, i, After[i - 1])
    BY <1>6
  <2>2. 0 \in 0 .. n /\ \A i \in 1 .. n : i \in 0 .. n /\ i # 0
    BY <1>2
  <2> HIDE DEF begin, n
  <2> QED BY <2>1, <2>2
<1> DEFINE T == {i \in 0 .. n : Told(w, After[i], i)}
<1>8. 0 \in T
  <2>1. LogRight(Before(w), Arrivals(w), All(w), w.before + 0)
    <3>1. w.before + 0 = w.before /\ \A j \in 1 .. w.before : j \in 1 .. w.before + w.wait
      BY <1>2
    <3> QED BY <3>1 DEF LogRight, Before, All
  <2>2. Told(w, begin, 0)
    BY <2>1 DEF Told
  <2> QED BY <1>2, <1>7, <2>2
<1>9. ASSUME NEW i \in 0 .. n - 1, i \in T PROVE i + 1 \in T
  <2>1. i + 1 \in 1 .. n /\ i + 1 \in 0 .. n /\ (i + 1) - 1 = i
    BY <1>2
  <2>2. Told(w, Round(w, i + 1, After[i]), i + 1)
    BY <1>9, <2>1, RoundTells
  <2> QED BY <1>7, <2>1, <2>2
<1>10. n \in T
  <2> HIDE DEF T, n
  <2> QED BY <1>2, <1>8, <1>9, UpToInduction
<1> QED BY <1>1, <1>10, ToldSays

(***************************************************************************)
(* Throughput: the buckets' edges, and the one an outcome lies in.         *)
(***************************************************************************)

\* The outcomes up to now, and a window and buckets of any size.
Outcomes(now) == {o \in [ts : Nat, outcome : {"completed", "failed"}] : o.ts <= now}

\* Division as the provers know it, for one divisor.
LEMMA Division ==
  ASSUME NEW x \in Int, NEW b \in Nat \ {0}
  PROVE  /\ x \div b \in Int /\ b * (x \div b) <= x /\ x < b * (x \div b) + b
         /\ x - (x % b) = b * (x \div b) /\ x % b \in 0 .. b - 1
<1>1. x \div b \in Int
  BY SMT
<1>2. b * (x \div b) <= x /\ x < b * (x \div b) + b
  BY SMT
<1>3. x - (x % b) = b * (x \div b) /\ x % b \in 0 .. b - 1
  BY SMT
<1> QED BY <1>1, <1>2, <1>3

\* Multiples of one number.
LEMMA Multiples ==
  ASSUME NEW x \in Int, NEW y \in Int, NEW b \in Nat \ {0}
  PROVE  /\ b * x \in Int /\ b * (x + y) = b * x + b * y
         /\ b * x < b * y <=> x < y
         /\ b * x <= b * y <=> x <= y
         /\ x * b = b * x
<1>1. b * x \in Int /\ b * (x + y) = b * x + b * y /\ x * b = b * x
  OBVIOUS
<1>2. b * x < b * y <=> x < y
  OBVIOUS
<1>3. b * x <= b * y <=> x <= y
  OBVIOUS
<1> QED BY <1>1, <1>2, <1>3

\* The bucket edges are the multiples of bucket from the window's start on.
LEMMA EdgesAre ==
  ASSUME NEW now \in Nat, NEW window \in 1 .. now, NEW bucket \in Nat \ {0}, NEW k \in Int
  PROVE  /\ Edge(now, window, bucket, k) = bucket * ((now - window) \div bucket + k)
         /\ Edge(now, window, bucket, k) \in Int /\ (now - window) \div bucket \in Nat
         /\ Edge(now, window, bucket, k + 1) = Edge(now, window, bucket, k) + bucket
<1> DEFINE s == (now - window) \div bucket
<1>1. now - window \in Nat
  OBVIOUS
<1>2. s \in Int /\ bucket * s <= now - window /\ now - window < bucket * s + bucket
      /\ (now - window) - ((now - window) % bucket) = bucket * s
  BY <1>1, Division
<1>3. s \in Nat
  <2>1. s >= 0
    <3>1. now - window < bucket * (s + 1)
      BY <1>2
    <3>2. bucket * 0 < bucket * (s + 1)
      BY <1>1, <1>2, <3>1
    <3> HIDE DEF s
    <3>3. 0 < s + 1
      BY <1>2, <3>2, Multiples
    <3> QED BY <1>2, <3>3
  <2> QED BY <1>2, <2>1
<1>4. ASSUME NEW j \in Int
      PROVE  /\ Edge(now, window, bucket, j) = bucket * (s + j)
             /\ bucket * (s + j) \in Int
             /\ bucket * (s + (j + 1)) = bucket * (s + j) + bucket
  <2>1. Edge(now, window, bucket, j) = bucket * s + j * bucket
    BY <1>2 DEF Edge
  <2> HIDE DEF s
  <2> QED BY <1>3, <2>1
<1>5. k + 1 \in Int
  OBVIOUS
<1> HIDE DEF s
<1> QED BY <1>3, <1>4, <1>5 DEF s

\* The number of buckets is that of the edges before now.
LEMMA BucketsAre ==
  ASSUME NEW now \in Nat, NEW window \in 1 .. now, NEW bucket \in Nat \ {0}
  PROVE  LET K == Buckets(now, window, bucket) IN
         /\ K \in Nat \ {0}
         /\ Edge(now, window, bucket, K - 1) < now
         /\ now <= Edge(now, window, bucket, K)
<1> DEFINE edge(k) == Edge(now, window, bucket, k)
           T == {k \in Nat : now <= edge(k)}
           s == (now - window) \div bucket
<1>1. \A k \in Int : edge(k) = bucket * (s + k) /\ edge(k) \in Int /\ s \in Nat /\ edge(k + 1) = edge(k) + bucket
  BY EdgesAre
<1>2. edge(0) <= now - window
  <2>1. now - window \in Int
    OBVIOUS
  <2>2. bucket * s <= now - window
    BY <2>1, Division
  <2>3. s + 0 = s
    BY <1>1
  <2> HIDE DEF s, edge
  <2> QED BY <1>1, <2>2, <2>3
<1> HIDE DEF s, edge
<1>3. ASSUME NEW j \in Int, NEW k \in Int PROVE edge(j) <= edge(k) <=> j <= k
  <2>1. s + j \in Int /\ s + k \in Int
    BY <1>1
  <2>2. bucket * (s + j) <= bucket * (s + k) <=> s + j <= s + k
    BY <2>1, Multiples
  <2> QED BY <1>1, <2>1, <2>2
<1>4. now \in T
  <2>1. edge(now) = bucket * (s + now) /\ s + now \in Nat
    BY <1>1
  <2>2. s + now <= bucket * (s + now)
    BY <2>1
  <2> QED BY <1>1, <2>1, <2>2
<1>5. PICK K \in T : \A k \in T : K <= k
  <2>1. T \in SUBSET Nat /\ T # {}
    BY <1>4
  <2> HIDE DEF T
  <2> QED BY <2>1, LeastNatural
<1>6. K \in Nat \ {0} /\ K <= now /\ now <= edge(K)
  <2>1. 0 \notin T
    BY <1>1, <1>2
  <2> QED BY <1>4, <1>5, <2>1
<1>7. edge(K - 1) < now
  <2>1. K - 1 \in Nat /\ ~(K <= K - 1)
    BY <1>6
  <2>2. K - 1 \notin T
    BY <1>5, <2>1
  <2> QED BY <1>1, <2>1, <2>2
<1>8. EdgesBeforeNow(now, window, bucket) = 0 .. K - 1
  <2>1. EdgesBeforeNow(now, window, bucket) = {k \in 0 .. now : edge(k) < now}
    BY DEF EdgesBeforeNow, edge
  <2>2. ASSUME NEW k \in 0 .. now PROVE edge(k) < now <=> k <= K - 1
    <3>1. K <= k <=> edge(K) <= edge(k)
      BY <1>3, <1>6
    <3>2. k <= K - 1 <=> edge(k) <= edge(K - 1)
      BY <1>3, <1>6
    <3>3. edge(k) \in Int /\ edge(K) \in Int /\ edge(K - 1) \in Int
      BY <1>1, <1>6
    <3> QED BY <1>6, <1>7, <3>1, <3>2, <3>3
  <2> QED BY <1>6, <2>1, <2>2
<1>9. Buckets(now, window, bucket) = K
  <2>1. 0 \in Int /\ K - 1 \in Int /\ (IF 0 > K - 1 THEN 0 ELSE (K - 1) - 0 + 1) = K
    BY <1>6
  <2>2. Cardinality(0 .. K - 1) = K
    BY <2>1, FS_Interval
  <2> QED BY <1>8, <2>2 DEF Buckets
<1> QED BY <1>6, <1>7, <1>9 DEF edge

\* An outcome is counted in the bucket it lies in, if it is seen at all.
LEMMA IndexRight ==
  ASSUME NEW now \in Nat, NEW window \in 1 .. now, NEW bucket \in Nat \ {0},
         NEW ts \in 0 .. now, NEW k \in 0 .. Buckets(now, window, bucket) - 1
  PROVE  Index(ts, now, window, bucket) = k <=>
           /\ now - window <= ts /\ (ts < now \/ now % bucket # 0)
           /\ Edge(now, window, bucket, k) <= ts
           /\ ts < Edge(now, window, bucket, k) + bucket
<1> DEFINE edge(i) == Edge(now, window, bucket, i)
           s == (now - window) \div bucket
           K == Buckets(now, window, bucket)
           idx == (ts - edge(0)) \div bucket
<1>1. /\ K \in Nat \ {0} /\ edge(K - 1) < now /\ now <= edge(K)
  BY BucketsAre
<1>2. \A i \in Int : edge(i) = bucket * (s + i) /\ edge(i) \in Int /\ s \in Nat /\ edge(i + 1) = edge(i) + bucket
  BY EdgesAre
<1>3. Index(ts, now, window, bucket)
        = IF ts >= now - window /\ 0 <= idx /\ idx < K THEN idx ELSE Skipped
  BY DEF Index
<1> HIDE DEF s, edge, K
<1>4. edge(0) \in Int /\ ts - edge(0) \in Int /\ k \in 0 .. K - 1 /\ k \in Int
  BY <1>1, <1>2 DEF K
<1>5. idx \in Int /\ bucket * idx <= ts - edge(0) /\ ts - edge(0) < bucket * idx + bucket
  BY <1>4, Division
<1> HIDE DEF idx
<1>6. \A i \in Int : edge(i) = edge(0) + bucket * i
  BY <1>2, Multiples
<1>7. edge(idx) <= ts /\ ts < edge(idx) + bucket
  BY <1>4, <1>5, <1>6
<1>8. idx = k <=> edge(k) <= ts /\ ts < edge(k) + bucket
  <2>1. ASSUME NEW i \in Int, NEW j \in Int, i < j PROVE edge(i) + bucket <= edge(j)
    <3>1. bucket * (i + 1) <= bucket * j /\ bucket * (i + 1) = bucket * i + bucket
      BY <2>1
    <3>2. edge(i) = edge(0) + bucket * i /\ edge(j) = edge(0) + bucket * j
      BY <1>6
    <3>3. bucket * i \in Int /\ bucket * j \in Int /\ bucket * i + bucket <= bucket * j
      BY <3>1
    <3> QED BY <1>4, <3>2, <3>3
  <2>2. ASSUME edge(k) <= ts, ts < edge(k) + bucket, idx # k PROVE FALSE
    <3>1. CASE idx < k
      BY <1>2, <1>4, <1>5, <1>7, <2>1, <2>2, <3>1
    <3>2. CASE k < idx
      BY <1>2, <1>4, <1>5, <1>7, <2>1, <2>2, <3>2
    <3> QED BY <1>4, <1>5, <2>2, <3>1, <3>2
  <2> QED BY <1>7, <2>2
<1>9. ASSUME idx = k, ts = now, now % bucket = 0 PROVE FALSE
  <2> DEFINE q == now \div bucket
  <2>1. q \in Int /\ now = bucket * q
    <3>1. q \in Int /\ now - (now % bucket) = bucket * q
      <4>1. now \in Int
        OBVIOUS
      <4> QED BY <4>1, Division
    <3> QED BY <1>9, <3>1
  <2> HIDE DEF q
  <2>2. bucket * (s + (K - 1)) < bucket * q /\ bucket * q < bucket * (s + (k + 1))
    <3>1. edge(k + 1) = bucket * (s + (k + 1)) /\ edge(k + 1) = edge(k) + bucket
      BY <1>2, <1>4
    <3>2. edge(K - 1) = bucket * (s + (K - 1))
      BY <1>1, <1>2
    <3>3. now < edge(k) + bucket
      BY <1>8, <1>9
    <3> QED BY <1>1, <2>1, <3>1, <3>2, <3>3
  <2>3. s + (K - 1) < q /\ q < s + (k + 1)
    <3>1. s + (K - 1) \in Int /\ s + (k + 1) \in Int
      BY <1>1, <1>2, <1>4
    <3> QED BY <2>1, <2>2, <3>1, Multiples
  <2> QED BY <1>1, <1>2, <1>4, <2>1, <2>3
<1>10. k # Skipped
  BY <1>4 DEF Skipped
<1>11. Index(ts, now, window, bucket) = k <=> ts >= now - window /\ idx = k
  BY <1>1, <1>3, <1>4, <1>5, <1>10
<1> QED BY <1>8, <1>9, <1>11 DEF edge

\* No outcome of the history is later than now.
LEMMA HistoryType ==
  ASSUME NEW now \in Nat, NEW outcomes \in Seq(Outcomes(now))
  PROVE  \A i \in DOMAIN History(outcomes) : History(outcomes)[i].ts \in 0 .. now
<1> DEFINE n == Len(outcomes)
           from == IF n > MaxOutcomes THEN n - MaxOutcomes + 1 ELSE 1
<1>1. n \in Nat /\ from \in 1 .. n + 1
  BY ThroughputAssumption
<1>2. History(outcomes) = SubSeq(outcomes, from, n)
  BY DEF History
<1> HIDE DEF from
<1>3. SubSeq(outcomes, from, n) \in Seq(Outcomes(now))
  BY <1>1
<1>4. \A o \in Outcomes(now) : o.ts \in 0 .. now
  BY DEF Outcomes
<1> DEFINE past == SubSeq(outcomes, from, n)
<1>5. past \in Seq(Outcomes(now))
  BY <1>3
<1> HIDE DEF past
<1>6. \A i \in DOMAIN past : past[i] \in Outcomes(now)
  <2>1. past \in [1 .. Len(past) -> Outcomes(now)]
    BY <1>5
  <2> QED BY <2>1
<1> QED BY <1>2, <1>4, <1>6 DEF past

\* Whatever the outcomes, the window and the buckets, the series covers the
\* window and counts each of its outcomes once.
LEMMA ThroughputRight ==
  ASSUME NEW now \in Nat, NEW window \in 1 .. now, NEW bucket \in Nat \ {0},
         NEW outcomes \in Seq(Outcomes(now))
  PROVE  LET series == throughput(outcomes, now, window, bucket) IN
         /\ Contiguous(series, now, window, bucket)
         /\ CountsEach(series, outcomes, now, window, bucket)
<1> DEFINE series == throughput(outcomes, now, window, bucket)
           edge(i) == Edge(now, window, bucket, i)
           K == Buckets(now, window, bucket)
           past == History(outcomes)
           In(o, k) == {i \in DOMAIN past : /\ past[i].outcome = o
                                            /\ Index(past[i].ts, now, window, bucket) = k}
<1>1. K \in Nat \ {0} /\ edge(K - 1) < now /\ now <= edge(K)
  BY BucketsAre
<1>2. \A i \in Int : edge(i) \in Int /\ edge(i + 1) = edge(i) + bucket
  BY EdgesAre
<1>3. series = [k \in 0 .. K - 1 |->
                  [t |-> edge(k), count |-> [o \in {"completed", "failed"} |-> Cardinality(In(o, k))]]]
  BY DEF throughput
<1> HIDE DEF series, K, In
<1>4. /\ DOMAIN series = 0 .. K - 1
      /\ \A k \in 0 .. K - 1 :
           /\ series[k].t = edge(k)
           /\ \A o \in {"completed", "failed"} : series[k].count[o] = Cardinality(In(o, k))
  BY <1>3
<1>5. Contiguous(series, now, window, bucket)
  <2>1. Cardinality(DOMAIN series) - 1 = K - 1
    <3>1. 0 \in Int /\ K - 1 \in Int /\ (IF 0 > K - 1 THEN 0 ELSE (K - 1) - 0 + 1) = K
      BY <1>1
    <3>2. Cardinality(0 .. K - 1) = K
      BY <3>1, FS_Interval
    <3> QED BY <1>4, <3>2
  <2>2. edge(0) <= now - window /\ now - window < edge(0) + bucket
    <3>1. now - window \in Int /\ 0 \in Int
      OBVIOUS
    <3>2. edge(0) = bucket * ((now - window) \div bucket + 0) /\ (now - window) \div bucket \in Nat
      BY <3>1, EdgesAre
    <3>3. edge(0) = bucket * ((now - window) \div bucket)
      BY <3>2
    <3> HIDE DEF edge
    <3> QED BY <3>1, <3>3, Division
  <2> HIDE DEF edge
  <2>3. 0 \in 0 .. K - 1 /\ K - 1 \in 0 .. K - 1 /\ K - 1 \in Int /\ (K - 1) + 1 = K /\ K - 1 >= 0
    BY <1>1
  <2>4. ASSUME NEW k \in 1 .. K - 1 PROVE series[k].t = series[k - 1].t + bucket
    <3>1. k \in 0 .. K - 1 /\ k - 1 \in 0 .. K - 1 /\ k - 1 \in Int /\ (k - 1) + 1 = k
      BY <1>1
    <3> QED BY <1>2, <1>4, <3>1
  <2>5. series[0].t = edge(0) /\ series[K - 1].t = edge(K - 1) /\ edge(K) = edge(K - 1) + bucket
    BY <1>2, <1>4, <2>3
  <2> QED BY <1>1, <2>1, <2>2, <2>3, <2>4, <2>5 DEF Contiguous
<1>6. CountsEach(series, outcomes, now, window, bucket)
  <2> DEFINE Seen(ts) == now - window <= ts /\ (ts < now \/ now % bucket # 0)
             Lies(o, k) == {i \in DOMAIN past : /\ past[i].outcome = o /\ Seen(past[i].ts)
                                                /\ series[k].t <= past[i].ts
                                                /\ past[i].ts < series[k].t + bucket}
  <2>1. ASSUME NEW k \in DOMAIN series, NEW o \in {"completed", "failed"}
        PROVE  In(o, k) = Lies(o, k)
    <3>1. k \in 0 .. Buckets(now, window, bucket) - 1 /\ series[k].t = edge(k)
      BY <1>4 DEF K
    <3>2. ASSUME NEW i \in DOMAIN past
          PROVE  Index(past[i].ts, now, window, bucket) = k <=>
                   Seen(past[i].ts) /\ series[k].t <= past[i].ts /\ past[i].ts < series[k].t + bucket
      <4>1. past[i].ts \in 0 .. now
        BY HistoryType
      <4> HIDE DEF past
      <4> QED BY <3>1, <4>1, IndexRight
    <3> HIDE DEF past, Seen
    <3> QED BY <3>2 DEF In
  <2>2. \A k \in DOMAIN series : \A o \in {"completed", "failed"} :
          series[k].count[o] = Cardinality(Lies(o, k))
    <3> HIDE DEF Lies
    <3> QED BY <1>4, <2>1
  <2> QED BY <2>2 DEF CountsEach
<1> QED BY <1>5, <1>6 DEF series
=============================================================================
