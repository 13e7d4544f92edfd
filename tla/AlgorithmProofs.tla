------------------------- MODULE AlgorithmProofs -------------------------
(***************************************************************************)
(* What the other algorithms compute, for every input: a workflow run in   *)
(* the process, the overrides of the configuration, the life of an agent   *)
(* and the timers of the metrics. Then the properties of MCAlgorithms,     *)
(* for every bound.                                                        *)
(***************************************************************************)
EXTENDS MCAlgorithms, WindowProofs

(***************************************************************************)
(* LocalWorkflow: the loop over the attempts at one step, then the loop    *)
(* over the steps.                                                         *)
(***************************************************************************)

\* Any workflow: any number of steps and retries, handlers that raise any
\* number of times.
Workflow(wf) ==
  /\ wf.n \in Nat
  /\ wf.retries \in [1 .. wf.n -> Nat] /\ wf.raises \in [1 .. wf.n -> Nat]
  /\ wf.callable \in [1 .. wf.n -> BOOLEAN]
  /\ wf.step = [s \in 1 .. wf.n |-> wf.step[s]]

\* What the loop over the attempts comes to, from an attempt on, of a handler
\* that raises so many times.
Tried(raises, retries, attempt) ==
  IF raises <= retries
  THEN [calls |-> IF attempt > raises THEN attempt ELSE raises + 1, ok |-> TRUE]
  ELSE [calls |-> retries + 1, ok |-> FALSE]

\* One round of the loop, if the rest of it comes to F.
Try(raises, retries, attempt, F) ==
  IF attempt > raises THEN [calls |-> attempt, ok |-> TRUE]
  ELSE IF attempt >= retries + 1 THEN [calls |-> attempt, ok |-> FALSE]
  ELSE F[attempt + 1]

\* The last try of the loop over the attempts.
LEMMA LastTry ==
  ASSUME NEW raises \in Nat, NEW retries \in Nat, NEW F
  PROVE  Try(raises, retries, retries + 1, F) = Tried(raises, retries, retries + 1)
<1>1. CASE retries + 1 > raises
  BY <1>1 DEF Try, Tried
<1>2. CASE ~(retries + 1 > raises)
  BY <1>2 DEF Try, Tried
<1> QED BY <1>1, <1>2

\* And one before it.
LEMMA EarlierTry ==
  ASSUME NEW raises \in Nat, NEW retries \in Nat, NEW F,
         NEW attempt \in 1 .. retries, F[attempt + 1] = Tried(raises, retries, attempt + 1)
  PROVE  Try(raises, retries, attempt, F) = Tried(raises, retries, attempt)
<1>1. CASE attempt > raises
  BY <1>1 DEF Try, Tried
<1>2. CASE ~(attempt > raises)
  <2>1. Try(raises, retries, attempt, F) = F[attempt + 1]
    BY <1>2 DEF Try
  <2>2. Tried(raises, retries, attempt + 1) = Tried(raises, retries, attempt)
    <3>1. attempt + 1 > raises => attempt + 1 = raises + 1
      BY <1>2
    <3> QED BY <1>2, <3>1 DEF Tried
  <2> QED BY <2>1, <2>2
<1> QED BY <1>1, <1>2

\* What the loop comes to from the first attempt on.
LEMMA TriesEnd ==
  ASSUME NEW raises \in Nat, NEW retries \in Nat, NEW F,
         F = [attempt \in 1 .. retries + 1 |-> Try(raises, retries, attempt, F)]
  PROVE  F[1] = Tried(raises, retries, 1)
<1> DEFINE Left(i) == retries + 1 - i
           T == {i \in 0 .. retries : F[Left(i)] = Tried(raises, retries, Left(i))}
<1>1. \A attempt \in 1 .. retries + 1 : F[attempt] = Try(raises, retries, attempt, F)
  OBVIOUS
<1>2. 0 \in T
  <2>1. Left(0) = retries + 1 /\ retries + 1 \in 1 .. retries + 1
    OBVIOUS
  <2> QED BY <1>1, <2>1, LastTry
<1>3. ASSUME NEW i \in 0 .. retries - 1, i \in T PROVE i + 1 \in T
  <2>1. Left(i + 1) \in 1 .. retries /\ Left(i + 1) + 1 = Left(i) /\ i + 1 \in 0 .. retries
    OBVIOUS
  <2>2. F[Left(i)] = Tried(raises, retries, Left(i))
    BY <1>3
  <2> HIDE DEF Left
  <2>3. Try(raises, retries, Left(i + 1), F) = Tried(raises, retries, Left(i + 1))
    BY <2>1, <2>2, EarlierTry
  <2> QED BY <1>1, <2>1, <2>3
<1>4. retries \in T
  <2> HIDE DEF T, Left
  <2>1. retries \in 0 .. retries /\ \A i \in 0 .. retries - 1 : i \in T => i + 1 \in T
    BY <1>3
  <2>2. 0 .. retries \subseteq T
    BY <1>2, <2>1, UpToInduction
  <2> QED BY <2>1, <2>2
<1> QED BY <1>4

\* The trys are well defined, though each is given by the next.
LEMMA TriesExist ==
  ASSUME NEW raises \in Nat, NEW retries \in Nat
  PROVE  \E F : F = [attempt \in 1 .. retries + 1 |-> Try(raises, retries, attempt, F)]
<1> DEFINE G == [attempt \in 1 .. retries + 1 |-> Tried(raises, retries, attempt)]
<1>1. ASSUME NEW attempt \in 1 .. retries + 1
      PROVE  Tried(raises, retries, attempt) = Try(raises, retries, attempt, G)
  <2>1. CASE attempt = retries + 1
    BY <2>1, LastTry
  <2>2. CASE attempt # retries + 1
    <3>1. attempt \in 1 .. retries /\ attempt + 1 \in 1 .. retries + 1
      BY <2>2
    <3>2. G[attempt + 1] = Tried(raises, retries, attempt + 1)
      BY <3>1
    <3> HIDE DEF G
    <3> QED BY <3>1, <3>2, EarlierTry
  <2> QED BY <2>1, <2>2
<1>2. G = [attempt \in 1 .. retries + 1 |-> Try(raises, retries, attempt, G)]
  BY <1>1
<1> QED BY <1>2

\* So a step is tried until it succeeds or has no retry left.
LEMMA AttemptsEnd ==
  ASSUME NEW wf, Workflow(wf), NEW s \in 1 .. wf.n
  PROVE  Attempts(wf, s) = Tried(wf.raises[s], wf.retries[s], 1)
<1> DEFINE Loop(F) == [attempt \in 1 .. wf.retries[s] + 1 |->
                         Try(wf.raises[s], wf.retries[s], attempt, F)]
           From == CHOOSE F : F = Loop(F)
<1>1. Attempts(wf, s) = From[1]
  BY DEF Attempts, LastAttempt, Try
<1>2. wf.retries[s] \in Nat /\ wf.raises[s] \in Nat
  BY DEF Workflow
<1>3. \E F : F = Loop(F)
  BY <1>2, TriesExist
<1>4. From = Loop(From)
  <2> HIDE DEF Loop
  <2> QED BY <1>3
<1> QED
  <2> HIDE DEF From
  <2> QED BY <1>1, <1>2, <1>4, TriesEnd

(***************************************************************************)
(* The loop over the steps.                                                *)
(***************************************************************************)
Called(wf, s) ==
  IF ~Reached(wf, s) \/ ~wf.callable[s] THEN 0
  ELSE IF Succeeds(wf, s) THEN wf.raises[s] + 1 ELSE wf.retries[s] + 1
Ended(wf, s) ==
  IF ~Reached(wf, s) THEN wf.step[s] ELSE IF Succeeds(wf, s) THEN "completed" ELSE "failed"

\* What is so after the steps up to m.
Progress(wf, m) ==
  [step |-> [s \in 1 .. wf.n |-> IF s <= m THEN Ended(wf, s) ELSE wf.step[s]],
   calls |-> [s \in 1 .. wf.n |-> IF s <= m THEN Called(wf, s) ELSE 0],
   goes |-> Reached(wf, m + 1)]

StepBegin(wf) == [step |-> wf.step, calls |-> [p \in 1 .. wf.n |-> 0], goes |-> TRUE]

\* Before the first step nothing has progressed.
LEMMA NoProgress ==
  ASSUME NEW wf, Workflow(wf)
  PROVE  StepBegin(wf) = Progress(wf, 0)
<1>1. [s \in 1 .. wf.n |-> IF s <= 0 THEN Ended(wf, s) ELSE wf.step[s]] = wf.step
  BY DEF Workflow
<1>2. [s \in 1 .. wf.n |-> IF s <= 0 THEN Called(wf, s) ELSE 0] = [p \in 1 .. wf.n |-> 0]
  BY DEF Workflow
<1>3. Reached(wf, 0 + 1) = TRUE
  BY DEF Reached
<1> QED BY <1>1, <1>2, <1>3 DEF StepBegin, Progress

\* One step more.
LEMMA StepProgress ==
  ASSUME NEW wf, Workflow(wf), NEW m \in 1 .. wf.n
  PROVE  ExecuteStep(wf, m, Progress(wf, m - 1)) = Progress(wf, m)
<1> DEFINE so == Progress(wf, m - 1)
           try == Attempts(wf, m)
<1>1. /\ wf.n \in Nat /\ wf.raises[m] \in Nat /\ wf.retries[m] \in Nat /\ wf.callable[m] \in BOOLEAN
      /\ so.goes = Reached(wf, m)
      /\ so.step = [s \in 1 .. wf.n |-> IF s <= m - 1 THEN Ended(wf, s) ELSE wf.step[s]]
      /\ so.calls = [s \in 1 .. wf.n |-> IF s <= m - 1 THEN Called(wf, s) ELSE 0]
  BY DEF Workflow, Progress
<1>2. Reached(wf, m + 1) <=> Reached(wf, m) /\ Succeeds(wf, m)
  <2>1. \A p \in Int : p \in 1 .. (m + 1) - 1 <=> (p \in 1 .. m - 1 \/ p = m)
    BY <1>1
  <2> QED BY <2>1 DEF Reached
<1>3. Progress(wf, m).goes = Reached(wf, m + 1)
  BY DEF Progress
<1> DEFINE stepNow == [s \in 1 .. wf.n |-> IF s <= m THEN Ended(wf, s) ELSE wf.step[s]]
           callsNow == [s \in 1 .. wf.n |-> IF s <= m THEN Called(wf, s) ELSE 0]
<1>4. /\ so = [step |-> so.step, calls |-> so.calls, goes |-> so.goes]
      /\ Progress(wf, m) = [step |-> stepNow, calls |-> callsNow, goes |-> Reached(wf, m + 1)]
  BY DEF Progress
<1>5. stepNow = [so.step EXCEPT ![m] = Ended(wf, m)]
  BY <1>1
<1>6. callsNow = [so.calls EXCEPT ![m] = Called(wf, m)]
  BY <1>1
<1>7. so.step[m] = wf.step[m] /\ so.calls[m] = 0
  BY <1>1
<1>8. CASE ~Reached(wf, m)
  <2>1. Ended(wf, m) = wf.step[m] /\ Called(wf, m) = 0
    BY <1>8 DEF Ended, Called
  <2>2. stepNow = so.step /\ callsNow = so.calls
    <3> HIDE DEF so, stepNow, callsNow
    <3> QED BY <1>1, <1>5, <1>6, <1>7, <2>1
  <2> HIDE DEF so, stepNow, callsNow
  <2>3. ExecuteStep(wf, m, so) = so
    BY <1>1, <1>8 DEF ExecuteStep
  <2>4. Reached(wf, m + 1) = so.goes
    BY <1>1, <1>2, <1>8 DEF Reached
  <2> QED BY <1>4, <2>2, <2>3, <2>4 DEF so
<1>9. CASE Reached(wf, m) /\ ~wf.callable[m]
  <2>1. Ended(wf, m) = "failed" /\ Called(wf, m) = 0 /\ ~Succeeds(wf, m)
    BY <1>9 DEF Ended, Called, Succeeds
  <2>2. callsNow = so.calls
    <3> HIDE DEF so, stepNow, callsNow
    <3> QED BY <1>1, <1>6, <1>7, <2>1
  <2> HIDE DEF so, stepNow, callsNow
  <2>3. ExecuteStep(wf, m, so)
          = [step |-> [so.step EXCEPT ![m] = "failed"], calls |-> so.calls, goes |-> FALSE]
    BY <1>1, <1>9 DEF ExecuteStep
  <2>4. Reached(wf, m + 1) = FALSE
    BY <1>2, <2>1 DEF Reached
  <2> QED BY <1>4, <1>5, <2>1, <2>2, <2>3, <2>4 DEF so
<1>10. CASE Reached(wf, m) /\ wf.callable[m]
  <2>1. try = Tried(wf.raises[m], wf.retries[m], 1)
    BY AttemptsEnd
  <2>2. /\ try.ok = Succeeds(wf, m) /\ try.calls = Called(wf, m)
        /\ Ended(wf, m) = IF try.ok THEN "completed" ELSE "failed"
    <3>1. CASE wf.raises[m] <= wf.retries[m]
      <4>1. try.ok = TRUE /\ try.calls = wf.raises[m] + 1
        BY <1>1, <2>1, <3>1 DEF Tried
      <4>2. Succeeds(wf, m)
        BY <1>10, <3>1 DEF Succeeds
      <4> QED BY <1>10, <4>1, <4>2 DEF Called, Ended
    <3>2. CASE ~(wf.raises[m] <= wf.retries[m])
      <4>1. try.ok = FALSE /\ try.calls = wf.retries[m] + 1
        BY <1>1, <2>1, <3>2 DEF Tried
      <4>2. Succeeds(wf, m) = FALSE
        BY <1>10, <3>2 DEF Succeeds
      <4> QED BY <1>10, <4>1, <4>2 DEF Called, Ended
    <3> QED BY <3>1, <3>2
  <2> HIDE DEF so, stepNow, callsNow, try
  <2>3. ExecuteStep(wf, m, so)
          = [step |-> [so.step EXCEPT ![m] = IF try.ok THEN "completed" ELSE "failed"],
             calls |-> [so.calls EXCEPT ![m] = try.calls], goes |-> try.ok]
    BY <1>1, <1>10 DEF ExecuteStep, try
  <2>4. Reached(wf, m + 1) = try.ok
    BY <1>2, <1>10, <2>2 DEF Reached, Succeeds
  <2> QED BY <1>4, <1>5, <1>6, <2>2, <2>3, <2>4 DEF so
<1> QED BY <1>1, <1>8, <1>9, <1>10

\* Whatever the workflow, handlers and retries: up to the first step that
\* cannot be completed everything is completed, and nothing after it is called.
LEMMA LocalRunRight ==
  ASSUME NEW wf, Workflow(wf)
  PROVE  StopsAtFirstFailure(wf)
<1> DEFINE Loop(F) == [s \in 0 .. wf.n |-> IF s = 0 THEN StepBegin(wf) ELSE ExecuteStep(wf, s, F[s - 1])]
           After == CHOOSE F : F = Loop(F)
           G == [m \in 0 .. wf.n |-> Progress(wf, m)]
<1>1. wf.n \in Nat
  BY DEF Workflow
<1>2. execute_workflow(wf) = [step |-> After[wf.n].step, calls |-> After[wf.n].calls,
                              status |-> IF After[wf.n].goes THEN "completed" ELSE "failed"]
  BY DEF execute_workflow, StepBegin
<1>3. G = Loop(G)
  <2>1. ASSUME NEW m \in 0 .. wf.n
        PROVE  Progress(wf, m) = IF m = 0 THEN StepBegin(wf) ELSE ExecuteStep(wf, m, G[m - 1])
    <3>1. CASE m = 0
      BY <3>1, NoProgress
    <3>2. CASE m # 0
      <4>1. m \in 1 .. wf.n /\ m - 1 \in 0 .. wf.n
        BY <1>1, <3>2
      <4>2. G[m - 1] = Progress(wf, m - 1)
        BY <4>1
      <4> HIDE DEF G
      <4> QED BY <3>2, <4>1, <4>2, StepProgress
    <3> QED BY <3>1, <3>2
  <2> QED BY <2>1
<1>4. After = Loop(After)
  <2> HIDE DEF G, Loop
  <2> QED BY <1>3
<1> HIDE DEF After
<1> DEFINE T == {m \in 0 .. wf.n : After[m] = Progress(wf, m)}
<1>5. \A m \in 0 .. wf.n : After[m] = IF m = 0 THEN StepBegin(wf) ELSE ExecuteStep(wf, m, After[m - 1])
  BY <1>4
<1>6. 0 \in T
  BY <1>1, <1>5, NoProgress
<1>7. ASSUME NEW m \in 0 .. wf.n - 1, m \in T PROVE m + 1 \in T
  <2>1. m + 1 \in 1 .. wf.n /\ (m + 1) - 1 = m /\ m + 1 \in 0 .. wf.n /\ m + 1 # 0
    BY <1>1
  <2>2. After[m + 1] = ExecuteStep(wf, m + 1, After[m]) /\ After[m] = Progress(wf, m)
    BY <1>5, <1>7, <2>1
  <2> QED BY <2>1, <2>2, StepProgress
<1>8. After[wf.n] = Progress(wf, wf.n)
  <2>1. wf.n \in T
    <3> HIDE DEF T
    <3> QED BY <1>1, <1>6, <1>7, UpToInduction
  <2> QED BY <2>1
<1>9. Reached(wf, wf.n + 1) <=> \A s \in 1 .. wf.n : Succeeds(wf, s)
  BY <1>1 DEF Reached
<1> QED BY <1>1, <1>2, <1>8, <1>9 DEF StopsAtFirstFailure, Progress, Ended, Called

(***************************************************************************)
(* ConfigTree: keys and their prefixes, then one variable after another.   *)
(***************************************************************************)

(***************************************************************************)
(* Prefixes.                                                               *)
(***************************************************************************)
LEMMA PrefixByElements ==
  ASSUME NEW P, NEW s \in Seq(P), NEW t \in Seq(P)
  PROVE  IsPrefix(s, t) <=> Len(s) <= Len(t) /\ \A i \in 1 .. Len(s) : s[i] = t[i]
<1>1. ASSUME Len(s) <= Len(t)
      PROVE  SubSeq(s, 1, Len(s)) = SubSeq(t, 1, Len(s)) <=> \A i \in 1 .. Len(s) : s[i] = t[i]
  <2>1. /\ SubSeq(s, 1, Len(s)) = [i \in 1 .. Len(s) |-> s[i]]
        /\ SubSeq(t, 1, Len(s)) = [i \in 1 .. Len(s) |-> t[i]]
    BY <1>1
  <2> QED BY <2>1
<1> QED BY <1>1 DEF IsPrefix

\* The order of the keys: a prefix of a prefix is one,
LEMMA PrefixTransitive ==
  ASSUME NEW P, NEW s \in Seq(P), NEW t \in Seq(P), NEW u \in Seq(P),
         IsPrefix(s, t), IsPrefix(t, u)
  PROVE  IsPrefix(s, u)
<1>1. /\ Len(s) <= Len(t) /\ \A i \in 1 .. Len(s) : s[i] = t[i]
      /\ Len(t) <= Len(u) /\ \A i \in 1 .. Len(t) : t[i] = u[i]
  BY PrefixByElements
<1>2. Len(s) <= Len(u) /\ \A i \in 1 .. Len(s) : s[i] = u[i]
  BY <1>1
<1> QED BY <1>2, PrefixByElements

\* a key is a prefix of itself,
LEMMA PrefixReflexive ==
  ASSUME NEW P, NEW s \in Seq(P)
  PROVE  IsPrefix(s, s)
BY PrefixByElements

\* a strict prefix is a shorter one,
LEMMA StrictPrefixIsShorter ==
  ASSUME NEW P, NEW s \in Seq(P), NEW t \in Seq(P)
  PROVE  IsStrictPrefix(s, t) <=> IsPrefix(s, t) /\ Len(s) < Len(t)
<1>1. IsPrefix(s, t) => Len(s) <= Len(t)
  BY PrefixByElements
<1>2. ASSUME IsPrefix(s, t), Len(s) = Len(t) PROVE s = t
  <2>1. \A i \in 1 .. Len(s) : s[i] = t[i]
    BY <1>2, PrefixByElements
  <2>2. s = [i \in 1 .. Len(s) |-> s[i]] /\ t = [i \in 1 .. Len(t) |-> t[i]]
    OBVIOUS
  <2> QED BY <1>2, <2>1, <2>2
<1> QED BY <1>1, <1>2 DEF IsStrictPrefix

\* and what is above a key are its strict prefixes,
LEMMA AboveIsPrefix ==
  ASSUME NEW P, NEW s \in Seq(P), NEW t \in Seq(P)
  PROVE  s \in Above(t) <=> IsStrictPrefix(s, t)
<1>1. ASSUME s \in Above(t) PROVE IsStrictPrefix(s, t)
  <2>1. PICK n \in 0 .. Len(t) - 1 : s = SubSeq(t, 1, n)
    BY <1>1 DEF Above
  <2>2. Len(s) = n /\ \A i \in 1 .. Len(s) : s[i] = t[i]
    BY <2>1
  <2>3. Len(s) < Len(t)
    BY <2>2
  <2> QED BY <2>2, <2>3, PrefixByElements, StrictPrefixIsShorter
<1>2. ASSUME IsStrictPrefix(s, t) PROVE s \in Above(t)
  <2>1. Len(s) < Len(t) /\ \A i \in 1 .. Len(s) : s[i] = t[i]
    BY <1>2, PrefixByElements, StrictPrefixIsShorter
  <2>2. s = [i \in 1 .. Len(s) |-> s[i]]
    OBVIOUS
  <2>3. SubSeq(t, 1, Len(s)) = [i \in 1 .. Len(s) |-> t[i]]
    BY <2>1
  <2>4. s = SubSeq(t, 1, Len(s)) /\ Len(s) \in 0 .. Len(t) - 1
    BY <2>1, <2>2, <2>3
  <2> QED BY <2>4 DEF Above
<1> QED BY <1>1, <1>2

\* keys themselves.
LEMMA AboveType ==
  ASSUME NEW P, NEW t \in Seq(P)
  PROVE  Above(t) \subseteq Seq(P)
<1>1. ASSUME NEW n \in 0 .. Len(t) - 1 PROVE SubSeq(t, 1, n) \in Seq(P)
  OBVIOUS
<1> QED BY <1>1 DEF Above

\* A set of numbers up to n has a greatest one.
LEMMA GreatestOf ==
  ASSUME NEW n \in Nat, NEW T \in SUBSET (1 .. n), T # {}
  PROVE  \E m \in T : \A k \in T : k <= m
<1> DEFINE U == {n - k : k \in T}
<1>1. U \in SUBSET Nat /\ U # {}
  <2>1. \A k \in T : n - k \in Nat
    OBVIOUS
  <2>2. U \subseteq Nat
    BY <2>1
  <2> QED BY <2>2
<1>2. PICK d \in U : \A e \in U : d <= e
  <2> HIDE DEF U
  <2> QED BY <1>1, LeastNatural
<1>3. PICK m \in T : d = n - m
  OBVIOUS
<1>4. ASSUME NEW k \in T PROVE k <= m
  <2>1. n - k \in U
    OBVIOUS
  <2> QED BY <1>2, <1>3, <2>1
<1> QED BY <1>4

(***************************************************************************)
(* One variable more.                                                      *)
(***************************************************************************)
Variables(P, V) == [path : Seq(P), value : V]
Configs(P, V) == UNION {[D -> V \cup {Dict}] : D \in SUBSET Seq(P)}

Stays(env, j, i) == \A k \in j + 1 .. i : ~IsPrefix(env[k].path, env[j].path)
NoConflict(env, i) == \A j \in 1 .. i : \A k \in 1 .. j - 1 : ~Below(env[k].path, env[j].path)

\* What the configuration is after the first i variables.
ReadsBack(config, env, i) ==
  /\ \A j \in 1 .. i : Stays(env, j, i) =>
       env[j].path \in DOMAIN config /\ config[env[j].path] = env[j].value
  /\ \A p \in DOMAIN config : config[p] # Dict => \E j \in 1 .. i : Stays(env, j, i) /\ env[j].path = p
OverridesRight(so, env, i) ==
  /\ so.raises \in BOOLEAN
  /\ so.raises <=> ~NoConflict(env, i)
  /\ ~so.raises => ReadsBack(so.config, env, i)

\* A configuration gives values, or dictionaries, to keys.
LEMMA ConfigMeans ==
  ASSUME NEW P, NEW V, NEW config \in Configs(P, V)
  PROVE  /\ DOMAIN config \subseteq Seq(P)
         /\ \A p \in DOMAIN config : config[p] \in V \cup {Dict}
BY DEF Configs

\* What becomes of a configuration when a path in it is set.
IsSet(after, config, path, value) ==
  /\ DOMAIN after = {d \in DOMAIN config : ~Below(path, d)} \cup Above(path) \cup {path}
  /\ \A p \in DOMAIN after :
       after[p] = IF p = path THEN value ELSE IF p \in DOMAIN config THEN config[p] ELSE Dict

\* What set leaves is a configuration, and this one.
LEMMA SetDoes ==
  ASSUME NEW P, NEW V, NEW config \in Configs(P, V), NEW path \in Seq(P), NEW value \in V
  PROVE  /\ set(config, path, value) \in Configs(P, V)
         /\ IsSet(set(config, path, value), config, path, value)
<1> DEFINE D == {d \in DOMAIN config : ~Below(path, d)} \cup Above(path) \cup {path}
           Given(p) == IF p = path THEN value ELSE IF p \in DOMAIN config THEN config[p] ELSE Dict
<1>1. set(config, path, value) = [p \in D |-> Given(p)]
  BY DEF set
<1>2. D \subseteq Seq(P)
  BY ConfigMeans, AboveType
<1>3. \A p \in D : Given(p) \in V \cup {Dict}
  BY ConfigMeans
<1>4. [p \in D |-> Given(p)] \in [D -> V \cup {Dict}]
  <2> HIDE DEF D, Given
  <2> QED BY <1>3
<1> HIDE DEF D, Given
<1>5. set(config, path, value) \in Configs(P, V)
  BY <1>1, <1>2, <1>4 DEF Configs
<1> QED BY <1>1, <1>5 DEF D, Given, IsSet

\* What blocks a variable is an earlier one above it.
LEMMA BlockedByEarlier ==
  ASSUME NEW P, NEW V, Dict \notin V, NEW env \in Seq(Variables(P, V)),
         NEW i \in 0 .. Len(env) - 1, NEW config \in Configs(P, V), ReadsBack(config, env, i)
  PROVE  Blocked(config, env[i + 1].path) <=> \E k \in 1 .. i : Below(env[k].path, env[i + 1].path)
<1> DEFINE q == env[i + 1].path
<1>1. /\ i \in Nat /\ q \in Seq(P)
      /\ \A j \in 1 .. i : env[j].path \in Seq(P) /\ env[j].value \in V
  <2>1. \A j \in 1 .. Len(env) : env[j] \in Variables(P, V)
    OBVIOUS
  <2>2. i + 1 \in 1 .. Len(env) /\ 1 .. i \subseteq 1 .. Len(env) /\ i \in Nat
    OBVIOUS
  <2> QED BY <2>1, <2>2 DEF Variables
<1>2. DOMAIN config \subseteq Seq(P)
  BY ConfigMeans
<1> HIDE DEF q
<1>3. ASSUME Blocked(config, q) PROVE \E k \in 1 .. i : Below(env[k].path, q)
  <2>1. PICK p \in Above(q) \cap DOMAIN config : config[p] # Dict
    BY <1>3 DEF Blocked
  <2>2. PICK k \in 1 .. i : env[k].path = p
    BY <2>1 DEF ReadsBack
  <2>3. IsStrictPrefix(p, q)
    BY <1>1, <1>2, <2>1, AboveIsPrefix
  <2> QED BY <2>2, <2>3 DEF Below
<1>4. ASSUME \E k \in 1 .. i : Below(env[k].path, q) PROVE Blocked(config, q)
  <2> DEFINE T == {k \in 1 .. i : Below(env[k].path, q)}
  <2>1. PICK k \in T : \A m \in T : m <= k
    <3>1. T \in SUBSET (1 .. i) /\ T # {}
      BY <1>4
    <3> HIDE DEF T
    <3> QED BY <1>1, <3>1, GreatestOf
  <2>2. k \in 1 .. i /\ IsStrictPrefix(env[k].path, q)
    BY DEF Below
  <2>3. ASSUME NEW m \in k + 1 .. i, IsPrefix(env[m].path, env[k].path) PROVE FALSE
    <3>1. m \in 1 .. i /\ ~(m <= k)
      BY <1>1, <2>2
    <3>2. /\ env[m].path \in Seq(P) /\ env[k].path \in Seq(P)
          /\ Len(env[m].path) \in Nat /\ Len(env[k].path) \in Nat /\ Len(q) \in Nat
      BY <1>1, <2>2, <3>1
    <3>3. IsPrefix(env[k].path, q) /\ Len(env[k].path) < Len(q)
      BY <1>1, <2>2, <3>2, StrictPrefixIsShorter
    <3>4. IsPrefix(env[m].path, q)
      BY <1>1, <2>3, <3>2, <3>3, PrefixTransitive
    <3>5. Len(env[m].path) <= Len(env[k].path)
      BY <2>3, <3>2, PrefixByElements
    <3>6. Below(env[m].path, q)
      BY <1>1, <3>2, <3>3, <3>4, <3>5, StrictPrefixIsShorter DEF Below
    <3> QED BY <2>1, <3>1, <3>6
  <2>4. Stays(env, k, i)
    BY <2>3 DEF Stays
  <2>5. env[k].path \in DOMAIN config /\ config[env[k].path] # Dict
    BY <1>1, <2>2, <2>4 DEF ReadsBack
  <2>6. env[k].path \in Above(q)
    BY <1>1, <2>2, AboveIsPrefix
  <2> QED BY <2>5, <2>6 DEF Blocked
<1> QED BY <1>3, <1>4 DEF q

\* A variable that can be set keeps what was read back but what it replaces.
LEMMA SetReadsBack ==
  ASSUME NEW P, NEW V, Dict \notin V, NEW env \in Seq(Variables(P, V)),
         NEW i \in 0 .. Len(env) - 1, NEW config \in Configs(P, V), ReadsBack(config, env, i),
         \A k \in 1 .. i : ~Below(env[k].path, env[i + 1].path)
  PROVE  ReadsBack(set(config, env[i + 1].path, env[i + 1].value), env, i + 1)
<1> DEFINE q == env[i + 1].path
           v == env[i + 1].value
           after == set(config, q, v)
<1>1. /\ i \in Nat /\ q \in Seq(P) /\ v \in V
      /\ \A j \in 1 .. i : env[j].path \in Seq(P) /\ env[j].value \in V
  <2>1. \A j \in 1 .. Len(env) : env[j] \in Variables(P, V)
    OBVIOUS
  <2>2. i + 1 \in 1 .. Len(env) /\ 1 .. i \subseteq 1 .. Len(env) /\ i \in Nat
    OBVIOUS
  <2> QED BY <2>1, <2>2 DEF Variables
<1>2. DOMAIN config \subseteq Seq(P)
  BY ConfigMeans
<1>3. /\ DOMAIN after = {d \in DOMAIN config : ~Below(q, d)} \cup Above(q) \cup {q}
      /\ \A p \in DOMAIN after :
           after[p] = IF p = q THEN v ELSE IF p \in DOMAIN config THEN config[p] ELSE Dict
  <2> HIDE DEF q, v
  <2>1. IsSet(after, config, q, v)
    BY <1>1, SetDoes
  <2> HIDE DEF after
  <2> QED BY <2>1 DEF IsSet
<1>4. \A j \in Int : j \in 1 .. i + 1 <=> (j \in 1 .. i \/ j = i + 1)
  BY <1>1
<1>5. \A j \in 1 .. i : Stays(env, j, i + 1) <=> Stays(env, j, i) /\ ~IsPrefix(q, env[j].path)
  <2>1. \A j \in 1 .. i : \A k \in Int : k \in j + 1 .. i + 1 <=> (k \in j + 1 .. i \/ k = i + 1)
    BY <1>1
  <2> QED BY <2>1, <1>1 DEF Stays
<1>6. Stays(env, i + 1, i + 1)
  BY <1>1 DEF Stays
<1>7. IsPrefix(q, q)
  BY <1>1, PrefixReflexive
<1> HIDE DEF q, v, after
<1>8. ASSUME NEW j \in 1 .. i + 1, Stays(env, j, i + 1)
      PROVE  env[j].path \in DOMAIN after /\ after[env[j].path] = env[j].value
  <2>1. CASE j = i + 1
    BY <1>3, <2>1 DEF q, v
  <2>2. CASE j \in 1 .. i
    <3>1. Stays(env, j, i) /\ ~IsPrefix(q, env[j].path)
      BY <1>5, <1>8, <2>2
    <3>2. env[j].path \in DOMAIN config /\ config[env[j].path] = env[j].value
      BY <2>2, <3>1 DEF ReadsBack
    <3>3. ~Below(q, env[j].path) /\ env[j].path # q
      BY <1>7, <3>1 DEF Below, IsStrictPrefix
    <3> QED BY <1>3, <3>2, <3>3
  <2> QED BY <1>4, <2>1, <2>2
<1>9. ASSUME NEW p \in DOMAIN after, after[p] # Dict
      PROVE  \E j \in 1 .. i + 1 : Stays(env, j, i + 1) /\ env[j].path = p
  <2>1. CASE p = q
    BY <1>1, <1>4, <1>6, <2>1 DEF q
  <2>2. CASE p # q
    <3>1. p \in DOMAIN config /\ config[p] # Dict
      BY <1>3, <1>9, <2>2
    <3>2. PICK j \in 1 .. i : Stays(env, j, i) /\ env[j].path = p
      BY <3>1 DEF ReadsBack
    <3>3. ~Below(q, p)
      <4>1. CASE p \in Above(q)
        <5>1. IsStrictPrefix(p, q)
          BY <1>1, <1>2, <3>1, <4>1, AboveIsPrefix
        <5>2. Below(env[j].path, q)
          BY <3>2, <5>1 DEF Below
        <5> QED BY <3>2, <5>2 DEF q
      <4>2. CASE p \notin Above(q)
        BY <1>3, <1>9, <2>2, <4>2
      <4> QED BY <4>1, <4>2
    <3>4. ~IsPrefix(q, env[j].path)
      BY <2>2, <3>2, <3>3 DEF Below, IsStrictPrefix
    <3> QED BY <1>4, <1>5, <3>2, <3>4
  <2> QED BY <2>1, <2>2
<1> QED BY <1>8, <1>9 DEF ReadsBack, after, q, v

ConfigStates(P, V) == [config : Configs(P, V), raises : BOOLEAN]

\* One variable leaves a configuration.
LEMMA OverrideType ==
  ASSUME NEW P, NEW V, NEW so \in ConfigStates(P, V), NEW variable \in Variables(P, V)
  PROVE  Override(so, variable) \in ConfigStates(P, V)
<1>1. so.config \in Configs(P, V) /\ variable.path \in Seq(P) /\ variable.value \in V
  BY DEF ConfigStates, Variables
<1>2. set(so.config, variable.path, variable.value) \in Configs(P, V)
  BY <1>1, SetDoes
<1> QED BY <1>1, <1>2 DEF Override, ConfigStates

\* And the configuration it leaves is right if it was.
LEMMA OverrideKeeps ==
  ASSUME NEW P, NEW V, Dict \notin V, NEW env \in Seq(Variables(P, V)),
         NEW i \in 0 .. Len(env) - 1, NEW so \in ConfigStates(P, V), OverridesRight(so, env, i)
  PROVE  OverridesRight(Override(so, env[i + 1]), env, i + 1)
<1> DEFINE q == env[i + 1].path
           end == Override(so, env[i + 1])
<1>1. i \in Nat /\ so.config \in Configs(P, V)
  BY DEF ConfigStates
<1>2. NoConflict(env, i + 1) <=> NoConflict(env, i) /\ \A k \in 1 .. i : ~Below(env[k].path, q)
  <2>1. \A j \in Int : j \in 1 .. i + 1 <=> (j \in 1 .. i \/ j = i + 1)
    BY <1>1
  <2>2. (i + 1) - 1 = i
    BY <1>1
  <2> QED BY <1>1, <2>1, <2>2 DEF NoConflict
<1>3. CASE so.raises
  <2>1. end.raises = TRUE
    BY <1>3 DEF Override
  <2>2. ~NoConflict(env, i + 1)
    BY <1>2, <1>3 DEF OverridesRight
  <2> QED BY <2>1, <2>2 DEF OverridesRight
<1>4. CASE ~so.raises /\ Blocked(so.config, q)
  <2>1. end.raises = TRUE
    BY <1>4 DEF Override
  <2>2. ReadsBack(so.config, env, i)
    BY <1>4 DEF OverridesRight
  <2>3. ~NoConflict(env, i + 1)
    BY <1>1, <1>2, <1>4, <2>2, BlockedByEarlier
  <2> QED BY <2>1, <2>3 DEF OverridesRight
<1>5. CASE ~so.raises /\ ~Blocked(so.config, q)
  <2>1. end.raises = FALSE /\ end.config = set(so.config, q, env[i + 1].value)
    BY <1>5 DEF Override
  <2>2. ReadsBack(so.config, env, i) /\ NoConflict(env, i)
    BY <1>5 DEF OverridesRight
  <2>3. \A k \in 1 .. i : ~Below(env[k].path, q)
    BY <1>1, <1>5, <2>2, BlockedByEarlier
  <2>4. ReadsBack(end.config, env, i + 1)
    BY <1>1, <2>1, <2>2, <2>3, SetReadsBack
  <2> QED BY <1>2, <2>1, <2>2, <2>3, <2>4 DEF OverridesRight
<1> QED BY <1>3, <1>4, <1>5

\* Whatever the variables and their order: one that cannot be set raises, and
\* all others read back unless a later one is at their key, above or below.
LEMMA EnvironmentRight ==
  ASSUME NEW P, NEW V, Dict \notin V, NEW env \in Seq(Variables(P, V))
  PROVE  OverridesReadBack(env)
<1> DEFINE n == Len(env)
           begin == [config |-> Empty, raises |-> FALSE]
           Loop(F) == [i \in 0 .. n |-> IF i = 0 THEN [config |-> Empty, raises |-> FALSE]
                                                ELSE Override(F[i - 1], env[i])]
           After == CHOOSE F : F = Loop(F)
           S == ConfigStates(P, V)
<1>1. Overrides(Empty, env) = After[n]
  BY DEF Overrides
<1>2. n \in Nat /\ DOMAIN env = 1 .. n /\ \A i \in 1 .. n : env[i] \in Variables(P, V)
  OBVIOUS
<1>3. begin \in S
  <2>1. <<>> \in Seq(P)
    OBVIOUS
  <2>2. Empty \in [{<<>>} -> V \cup {Dict}]
    BY DEF Empty
  <2>3. Empty \in Configs(P, V)
    BY <2>1, <2>2 DEF Configs
  <2> QED BY <2>3 DEF ConfigStates
<1> HIDE DEF begin
<1>4. \E F : F \in [0 .. n -> S] /\ F = Loop(F)
  <2> DEFINE step == [p \in S \X (1 .. n) |-> Override(p[1], env[p[2]])]
  <2>1. step \in StepFunctions(S, n)
    BY <1>2, OverrideType DEF StepFunctions
  <2>2. PICK F : Iterates(F, S, begin, n, step)
    <3>1. n \in Nat
      BY <1>2
    <3> HIDE DEF step, n, S
    <3> QED BY <1>3, <2>1, <3>1, Iteration
  <2>3. ASSUME NEW i \in 1 .. n PROVE F[i] = Override(F[i - 1], env[i])
    <3>1. i - 1 \in 0 .. n
      BY <1>2
    <3>2. <<F[i - 1], i>> \in S \X (1 .. n)
      BY <2>2, <3>1 DEF Iterates
    <3> QED BY <2>2, <3>2 DEF Iterates
  <2>4. ASSUME NEW i \in 0 .. n
        PROVE  F[i] = IF i = 0 THEN [config |-> Empty, raises |-> FALSE] ELSE Override(F[i - 1], env[i])
    <3>1. i # 0 => i \in 1 .. n
      BY <1>2
    <3> QED BY <2>2, <2>3, <3>1 DEF Iterates, begin
  <2> QED BY <2>2, <2>4 DEF Iterates
<1>5. After = Loop(After)
  <2> HIDE DEF Loop
  <2> QED BY <1>4
<1> HIDE DEF After
<1>6. /\ \A i \in 0 .. n : i = 0 => After[i] = begin
      /\ \A i \in 0 .. n : i # 0 => After[i] = Override(After[i - 1], env[i])
  BY <1>5 DEF begin
<1> DEFINE T == {i \in 0 .. n : After[i] \in S /\ OverridesRight(After[i], env, i)}
<1>7. 0 \in T
  <2>1. 0 \in 0 .. n /\ After[0] = begin
    BY <1>2, <1>6
  <2>2. OverridesRight(begin, env, 0)
    BY DEF OverridesRight, ReadsBack, NoConflict, begin, Empty
  <2> QED BY <1>3, <2>1, <2>2
<1>8. ASSUME NEW i \in 0 .. n - 1, i \in T PROVE i + 1 \in T
  <2>1. i + 1 \in 0 .. n /\ i + 1 # 0 /\ (i + 1) - 1 = i /\ i + 1 \in 1 .. n
    BY <1>2
  <2>2. After[i + 1] = Override(After[i], env[i + 1])
    BY <1>6, <2>1
  <2>3. After[i] \in S /\ OverridesRight(After[i], env, i)
    BY <1>8
  <2>4. After[i + 1] \in S
    BY <1>2, <2>1, <2>2, <2>3, OverrideType
  <2>5. OverridesRight(After[i + 1], env, i + 1)
    BY <2>2, <2>3, OverrideKeeps
  <2> QED BY <2>1, <2>4, <2>5
<1>9. n \in T
  <2> HIDE DEF T, n
  <2> QED BY <1>2, <1>7, <1>8, UpToInduction
<1> DEFINE end == After[n]
<1>10. OverridesRight(end, env, n)
  BY <1>9
<1> HIDE DEF n, end
<1>11. end.raises <=> \E j \in DOMAIN env : \E i \in 1 .. j - 1 : Below(env[i].path, env[j].path)
  BY <1>2, <1>10 DEF OverridesRight, NoConflict
<1>12. ASSUME ~end.raises
       PROVE  /\ \A i \in DOMAIN env : Stays(env, i, n) => get(end.config, env[i].path, "default") = env[i].value
              /\ \A p \in DOMAIN end.config : end.config[p] # Dict =>
                   \E i \in DOMAIN env : Stays(env, i, n) /\ env[i].path = p
  <2>1. ReadsBack(end.config, env, n)
    BY <1>10, <1>12 DEF OverridesRight
  <2> QED BY <1>2, <2>1 DEF ReadsBack, get
<1>13. Overrides(Empty, env) = end
  BY <1>1 DEF end
<1>14. n = Len(env)
  BY DEF n
<1> QED BY <1>11, <1>12, <1>13, <1>14 DEF OverridesReadBack, Stays

(***************************************************************************)
(* BaseAgent: an agent's life.                                             *)
(***************************************************************************)

(***************************************************************************)
(* The life of an agent after the first i events.                          *)
(***************************************************************************)
Agents == [at : {"new", "setup", "loop", "over"}, running : BOOLEAN, cleaned : Nat]

Begins(events, b) == FirstAfter(events, {"run"}, 0, b)
SettingUpEnds(events, b, r) == FirstAfter(events, {"ready", "raise", "cancel"}, b, r)
StoppedIn(events, b, i) == \E j \in b + 1 .. i : events[j] = "stop"

IsNew(a, events, i) ==
  a = Fresh /\ \A j \in 1 .. i : events[j] # "run"
SetsUp(a, events, i) ==
  \E b \in 1 .. i :
    /\ Begins(events, b)
    /\ \A j \in b + 1 .. i : events[j] \notin {"ready", "raise", "cancel"}
    /\ a = [at |-> "setup", running |-> ~StoppedIn(events, b, i), cleaned |-> 0]
IsLooping(a, events, i) ==
  \E b, r \in 1 .. i :
    /\ Begins(events, b) /\ SettingUpEnds(events, b, r) /\ events[r] = "ready"
    /\ \A k \in 1 .. i : ~Ends(events, b, r, k)
    /\ a = [at |-> "loop", running |-> ~StoppedIn(events, b, i), cleaned |-> 0]
IsCleanedUp(a, events, i) ==
  /\ a.at = "over" /\ a.cleaned = 1
  /\ \E b, r, k \in 1 .. i :
       /\ Begins(events, b) /\ SettingUpEnds(events, b, r) /\ events[r] = "ready"
       /\ Ends(events, b, r, k)
NeverSetUp(a, events, i) ==
  /\ a.at = "over" /\ a.cleaned = 0
  /\ \E b, r \in 1 .. i :
       /\ Begins(events, b) /\ SettingUpEnds(events, b, r) /\ events[r] # "ready"

Lived(a, events, i) ==
  \/ IsNew(a, events, i) \/ SetsUp(a, events, i) \/ IsLooping(a, events, i)
  \/ IsCleanedUp(a, events, i) \/ NeverSetUp(a, events, i)

\* The clauses of On, which exclude each other.
LEMMA OnDoes ==
  ASSUME NEW a, NEW event \in Events
  PROVE  /\ event = "stop" => On(a, event) = [at |-> a.at, running |-> FALSE, cleaned |-> a.cleaned]
         /\ event = "run" /\ a.at = "new" =>
              On(a, event) = [at |-> "setup", running |-> TRUE, cleaned |-> a.cleaned]
         /\ event = "ready" /\ a.at = "setup" => On(a, event) = Ready(a)
         /\ event \in {"raise", "cancel"} /\ a.at = "setup" => On(a, event) = GoesTo(a, "over")
         /\ event = "tick" /\ a.at = "loop" => On(a, event) = Loops(a)
         /\ event = "cancel" /\ a.at = "loop" => On(a, event) = CleansUp(a)
         /\ event # "stop" /\ ~(event = "run" /\ a.at = "new") /\ a.at \notin {"setup", "loop"}
              => On(a, event) = a
         /\ event \in {"run", "tick"} /\ a.at = "setup" => On(a, event) = a
         /\ event \in {"run", "ready", "raise"} /\ a.at = "loop" => On(a, event) = a
<1>1. CASE event = "stop"
  BY <1>1, Zenon DEF On
<1>2. CASE event = "run"
  BY <1>2, Zenon DEF On
<1>3. CASE event = "ready"
  BY <1>3, Zenon DEF On
<1>4. CASE event = "raise"
  BY <1>4, Zenon DEF On
<1>5. CASE event = "cancel"
  BY <1>5, Zenon DEF On
<1>6. CASE event = "tick"
  BY <1>6, Zenon DEF On
<1> QED BY <1>1, <1>2, <1>3, <1>4, <1>5, <1>6 DEF Events

\* An event leaves an agent.
LEMMA OnType ==
  ASSUME NEW a \in Agents, NEW event \in Events
  PROVE  On(a, event) \in Agents
<1>1. a.at \in {"new", "setup", "loop", "over"} /\ a.running \in BOOLEAN /\ a.cleaned \in Nat
  BY DEF Agents
<1>2. /\ [at |-> a.at, running |-> FALSE, cleaned |-> a.cleaned] \in Agents /\ GoesTo(a, "over") \in Agents
      /\ [at |-> "setup", running |-> TRUE, cleaned |-> a.cleaned] \in Agents
      /\ CleansUp(a) \in Agents /\ GoesTo(a, "loop") \in Agents
  BY <1>1 DEF Agents, CleansUp, GoesTo
<1>3. Loops(a) \in Agents /\ Ready(a) \in Agents
  BY <1>2 DEF Loops, Ready
<1>4. CASE event = "stop"
  BY <1>2, <1>4, OnDoes
<1>5. CASE event # "stop" /\ a.at = "setup"
  <2>1. event \in {"raise", "cancel"} \/ event = "ready" \/ event \in {"run", "tick"}
    BY <1>5 DEF Events
  <2> QED BY <1>2, <1>3, <1>5, <2>1, OnDoes
<1>6. CASE event # "stop" /\ a.at = "loop"
  <2>1. event = "tick" \/ event = "cancel" \/ event \in {"run", "ready", "raise"}
    BY <1>6 DEF Events
  <2> QED BY <1>2, <1>3, <1>6, <2>1, OnDoes
<1>7. CASE event # "stop" /\ a.at \notin {"setup", "loop"}
  <2>1. CASE event = "run" /\ a.at = "new"
    BY <1>2, <2>1, OnDoes
  <2>2. CASE ~(event = "run" /\ a.at = "new")
    BY <1>7, <2>2, OnDoes
  <2> QED BY <2>1, <2>2
<1> QED BY <1>4, <1>5, <1>6, <1>7

\* An agent that was not run yet: its first run begins its setup.
LEMMA NewLives ==
  ASSUME NEW events \in Seq(Events), NEW i \in 0 .. Len(events) - 1, NEW a \in Agents,
         IsNew(a, events, i)
  PROVE  Lived(On(a, events[i + 1]), events, i + 1)
<1>0. events[i + 1] \in Events /\ i + 1 \in 1 .. Len(events) /\ i \in Nat
  OBVIOUS
<1>1. CASE events[i + 1] = "run"
  <2>1. Begins(events, i + 1)
    BY <1>0, <1>1 DEF Begins, FirstAfter, Event, IsNew
  <2> DEFINE setup == [at |-> "setup", running |-> TRUE, cleaned |-> 0]
  <2>a. a.at = "new" /\ a.cleaned = 0
    BY DEF IsNew, Fresh
  <2>2. On(a, events[i + 1]) = setup
    BY <1>0, <1>1, <2>a, OnDoes
  <2>3. ~StoppedIn(events, i + 1, i + 1)
    BY <1>0 DEF StoppedIn
  <2>4. \A j \in (i + 1) + 1 .. i + 1 : FALSE
    BY <1>0
  <2>5. setup = [at |-> "setup", running |-> ~StoppedIn(events, i + 1, i + 1), cleaned |-> 0]
    BY <2>3
  <2>6. i + 1 \in 1 .. i + 1
    BY <1>0
  <2> HIDE DEF setup
  <2>7. SetsUp(On(a, events[i + 1]), events, i + 1)
    BY <2>1, <2>2, <2>4, <2>5, <2>6 DEF SetsUp
  <2> QED BY <2>7 DEF Lived
<1>2. CASE events[i + 1] # "run"
  <2>1. On(a, events[i + 1]) = a
    BY <1>0, <1>2, OnDoes DEF IsNew, Fresh
  <2>2. IsNew(a, events, i + 1)
    BY <1>0, <1>2 DEF IsNew
  <2> QED BY <2>1, <2>2 DEF Lived
<1> QED BY <1>1, <1>2

\* One that sets up, or was stopped or cancelled meanwhile.
LEMMA SetupLives ==
  ASSUME NEW events \in Seq(Events), NEW i \in 0 .. Len(events) - 1, NEW a \in Agents,
         SetsUp(a, events, i)
  PROVE  Lived(On(a, events[i + 1]), events, i + 1)
<1> DEFINE e == events[i + 1]
<1>0. e \in Events /\ i + 1 \in 1 .. Len(events) /\ i \in Nat
  OBVIOUS
<1>1. PICK b \in 1 .. i :
        /\ Begins(events, b)
        /\ \A j \in b + 1 .. i : events[j] \notin {"ready", "raise", "cancel"}
        /\ a = [at |-> "setup", running |-> ~StoppedIn(events, b, i), cleaned |-> 0]
  BY DEF SetsUp
<1>2. StoppedIn(events, b, i + 1) <=> StoppedIn(events, b, i) \/ e = "stop"
  <2>1. \A j \in Int : j \in b + 1 .. i + 1 <=> (j \in b + 1 .. i \/ j = i + 1)
    BY <1>0
  <2> QED BY <2>1, <1>0 DEF StoppedIn
<1>3. e \in {"ready", "raise", "cancel"} => SettingUpEnds(events, b, i + 1)
  BY <1>0, <1>1 DEF SettingUpEnds, FirstAfter, Event
<1>4. b \in 1 .. i + 1 /\ i + 1 \in 1 .. i + 1
  BY <1>0
<1>5. CASE e \in {"raise", "cancel"}
  <2>1. On(a, e).at = "over" /\ On(a, e).cleaned = 0
    BY <1>0, <1>1, <1>5, OnDoes DEF GoesTo
  <2>2. NeverSetUp(On(a, e), events, i + 1)
    BY <1>1, <1>3, <1>4, <1>5, <2>1 DEF NeverSetUp
  <2> QED BY <2>2 DEF Lived
<1>6. CASE e = "ready" /\ StoppedIn(events, b, i)
  <2>a. a.at = "setup" /\ a.running = FALSE /\ a.cleaned = 0
    BY <1>1, <1>6
  <2>b. On(a, e) = CleansUp(a)
    BY <1>0, <1>6, <2>a, OnDoes DEF Ready, Loops
  <2>1. On(a, e).at = "over" /\ On(a, e).cleaned = 1
    BY <2>a, <2>b DEF CleansUp
  <2>2. Ends(events, b, i + 1, i + 1)
    BY <1>0, <1>6 DEF Ends, Event, StoppedIn
  <2>3. IsCleanedUp(On(a, e), events, i + 1)
    BY <1>1, <1>3, <1>4, <1>6, <2>1, <2>2 DEF IsCleanedUp
  <2> QED BY <2>3 DEF Lived
<1>7. CASE e = "ready" /\ ~StoppedIn(events, b, i)
  <2>a. a.at = "setup" /\ a.running = TRUE /\ a.cleaned = 0
    BY <1>1, <1>7
  <2>b. On(a, e) = GoesTo(a, "loop")
    BY <1>0, <1>7, <2>a, OnDoes DEF Ready, Loops
  <2>1. On(a, e) = [at |-> "loop", running |-> TRUE, cleaned |-> 0]
    BY <2>a, <2>b DEF GoesTo
  <2>2. ASSUME NEW k \in 1 .. i + 1, Ends(events, b, i + 1, k) PROVE FALSE
    BY <1>0, <1>7, <2>2 DEF Ends, Event, StoppedIn
  <2>3. IsLooping(On(a, e), events, i + 1)
    BY <1>1, <1>2, <1>3, <1>4, <1>7, <2>1, <2>2 DEF IsLooping
  <2> QED BY <2>3 DEF Lived
<1>8. CASE e \in {"run", "stop", "tick"}
  <2>1. On(a, e) = [at |-> "setup", running |-> ~StoppedIn(events, b, i + 1), cleaned |-> 0]
    BY <1>0, <1>1, <1>2, <1>8, OnDoes
  <2>2. \A j \in b + 1 .. i + 1 : events[j] \notin {"ready", "raise", "cancel"}
    BY <1>0, <1>1, <1>8
  <2>3. SetsUp(On(a, e), events, i + 1)
    BY <1>1, <1>4, <2>1, <2>2 DEF SetsUp
  <2> QED BY <2>3 DEF Lived
<1> QED BY <1>0, <1>5, <1>6, <1>7, <1>8 DEF Events

\* One in its loop.
LEMMA LoopLives ==
  ASSUME NEW events \in Seq(Events), NEW i \in 0 .. Len(events) - 1, NEW a \in Agents,
         IsLooping(a, events, i)
  PROVE  Lived(On(a, events[i + 1]), events, i + 1)
<1> DEFINE e == events[i + 1]
<1>0. e \in Events /\ i + 1 \in 1 .. Len(events) /\ i \in Nat
  OBVIOUS
<1>1. PICK b, r \in 1 .. i :
        /\ Begins(events, b) /\ SettingUpEnds(events, b, r) /\ events[r] = "ready"
        /\ \A k \in 1 .. i : ~Ends(events, b, r, k)
        /\ a = [at |-> "loop", running |-> ~StoppedIn(events, b, i), cleaned |-> 0]
  BY DEF IsLooping
<1>2. StoppedIn(events, b, i + 1) <=> StoppedIn(events, b, i) \/ e = "stop"
  <2>1. \A j \in Int : j \in b + 1 .. i + 1 <=> (j \in b + 1 .. i \/ j = i + 1)
    BY <1>0
  <2> QED BY <2>1, <1>0 DEF StoppedIn
<1>3. Ends(events, b, r, i + 1) <=> e = "cancel" \/ (e = "tick" /\ StoppedIn(events, b, i))
  BY <1>0 DEF Ends, Event, StoppedIn
<1>4. b \in 1 .. i + 1 /\ r \in 1 .. i + 1 /\ i + 1 \in 1 .. i + 1
  BY <1>0
<1>5. a.at = "loop" /\ a.cleaned = 0 /\ a.running = ~StoppedIn(events, b, i)
  BY <1>1
<1>6. CASE Ends(events, b, r, i + 1)
  <2>1. On(a, e) = CleansUp(a)
    BY <1>0, <1>3, <1>5, <1>6, OnDoes DEF Loops
  <2>2. On(a, e).at = "over" /\ On(a, e).cleaned = 1
    BY <1>5, <2>1 DEF CleansUp
  <2>3. IsCleanedUp(On(a, e), events, i + 1)
    BY <1>1, <1>4, <1>6, <2>2 DEF IsCleanedUp
  <2> QED BY <2>3 DEF Lived
<1>7. CASE ~Ends(events, b, r, i + 1)
  <2>1. On(a, e) = [at |-> "loop", running |-> ~StoppedIn(events, b, i + 1), cleaned |-> 0]
    <3>1. CASE e = "stop"
      BY <1>0, <1>2, <1>5, <3>1, OnDoes
    <3>2. CASE e = "tick"
      BY <1>0, <1>2, <1>3, <1>5, <1>7, <3>2, OnDoes DEF Loops, GoesTo
    <3>3. CASE e \in {"run", "ready", "raise"}
      BY <1>0, <1>1, <1>2, <1>5, <3>3, OnDoes
    <3> QED BY <1>0, <1>3, <1>7, <3>1, <3>2, <3>3 DEF Events
  <2>2. \A k \in 1 .. i + 1 : ~Ends(events, b, r, k)
    <3>1. \A k \in Int : k \in 1 .. i + 1 <=> (k \in 1 .. i \/ k = i + 1)
      BY <1>0
    <3> QED BY <1>1, <1>7, <3>1
  <2>3. IsLooping(On(a, e), events, i + 1)
    BY <1>1, <1>4, <2>1, <2>2 DEF IsLooping
  <2> QED BY <2>3 DEF Lived
<1> QED BY <1>6, <1>7

\* And one whose life is over, which no event changes.
LEMMA OverStaysOver ==
  ASSUME NEW events \in Seq(Events), NEW i \in 0 .. Len(events) - 1, NEW a \in Agents,
         IsCleanedUp(a, events, i) \/ NeverSetUp(a, events, i)
  PROVE  Lived(On(a, events[i + 1]), events, i + 1)
<1>1. events[i + 1] \in Events /\ a.at = "over" /\ i \in Nat
  BY DEF IsCleanedUp, NeverSetUp
<1>2. On(a, events[i + 1]).at = "over" /\ On(a, events[i + 1]).cleaned = a.cleaned
  <2>1. CASE events[i + 1] = "stop"
    BY <1>1, <2>1, OnDoes
  <2>2. CASE events[i + 1] # "stop"
    BY <1>1, <2>2, OnDoes
  <2> QED BY <2>1, <2>2
<1>3. 1 .. i \subseteq 1 .. i + 1
  BY <1>1
<1>4. CASE IsCleanedUp(a, events, i)
  BY <1>2, <1>3, <1>4 DEF IsCleanedUp, Lived
<1>5. CASE NeverSetUp(a, events, i)
  BY <1>2, <1>3, <1>5 DEF NeverSetUp, Lived
<1> QED BY <1>4, <1>5

\* An agent's first run is its only one, and so is the end of its setup.
LEMMA OneRun ==
  ASSUME NEW events \in Seq(Events), NEW b \in DOMAIN events, NEW c \in DOMAIN events,
         Begins(events, b), Begins(events, c)
  PROVE  b = c
BY DEF Begins, FirstAfter, Event

\* And only one event ends its setup.
LEMMA OneAnswer ==
  ASSUME NEW events \in Seq(Events), NEW b \in DOMAIN events,
         NEW r \in DOMAIN events, NEW q \in DOMAIN events,
         SettingUpEnds(events, b, r), SettingUpEnds(events, b, q)
  PROVE  r = q
BY DEF SettingUpEnds, FirstAfter, Event

\* Whatever the events, an agent whose setup returned cleans up once, when
\* its loop ends, and any other not at all.
LEMMA AgentRight ==
  ASSUME NEW events \in Seq(Events)
  PROVE  CleanedUpOnce(events)
<1> DEFINE n == Len(events)
           Loop(F) == [i \in 0 .. n |-> IF i = 0 THEN Fresh ELSE On(F[i - 1], events[i])]
           After == CHOOSE F : F = Loop(F)
<1>1. run(events) = After[n]
  BY DEF run
<1>2. n \in Nat /\ DOMAIN events = 1 .. n /\ \A i \in 1 .. n : events[i] \in Events
  OBVIOUS
<1>3. Fresh \in Agents
  BY DEF Fresh, Agents
<1>4. \E F \in [0 .. n -> Agents] : F = Loop(F)
  <2> DEFINE step == [p \in Agents \X (1 .. n) |-> On(p[1], events[p[2]])]
  <2>1. step \in StepFunctions(Agents, n)
    BY <1>2, OnType DEF StepFunctions
  <2>2. PICK F : Iterates(F, Agents, Fresh, n, step)
    <3>1. n \in Nat
      BY <1>2
    <3> HIDE DEF step, n
    <3> QED BY <1>3, <2>1, <3>1, Iteration
  <2>3. ASSUME NEW i \in 1 .. n PROVE F[i] = On(F[i - 1], events[i])
    <3>1. i - 1 \in 0 .. n
      BY <1>2
    <3>2. <<F[i - 1], i>> \in Agents \X (1 .. n)
      BY <2>2, <3>1 DEF Iterates
    <3> QED BY <2>2, <3>2 DEF Iterates
  <2>4. ASSUME NEW i \in 0 .. n PROVE F[i] = IF i = 0 THEN Fresh ELSE On(F[i - 1], events[i])
    <3>1. i # 0 => i \in 1 .. n
      BY <1>2
    <3> QED BY <2>2, <2>3, <3>1 DEF Iterates
  <2> QED BY <2>2, <2>4 DEF Iterates
<1>5. After = Loop(After)
  <2> HIDE DEF Loop
  <2> QED BY <1>4
<1> HIDE DEF After
<1>6. \A i \in 0 .. n : After[i] = IF i = 0 THEN Fresh ELSE On(After[i - 1], events[i])
  BY <1>5
<1> DEFINE T == {i \in 0 .. n : After[i] \in Agents /\ Lived(After[i], events, i)}
<1>7. 0 \in T
  <2>1. After[0] = Fresh
    BY <1>2, <1>6
  <2>2. IsNew(Fresh, events, 0)
    BY DEF IsNew
  <2> QED BY <1>2, <1>3, <2>1, <2>2 DEF Lived
<1>8. ASSUME NEW i \in 0 .. n - 1, i \in T PROVE i + 1 \in T
  <2>1. i + 1 \in 0 .. n /\ i + 1 # 0 /\ (i + 1) - 1 = i /\ i + 1 \in 1 .. n
    BY <1>2
  <2>2. After[i + 1] = On(After[i], events[i + 1])
    BY <1>6, <2>1
  <2>3. After[i] \in Agents /\ Lived(After[i], events, i)
    BY <1>8
  <2>4. After[i + 1] \in Agents
    BY <1>2, <2>1, <2>2, <2>3, OnType
  <2>5. Lived(After[i + 1], events, i + 1)
    BY <2>2, <2>3, NewLives, SetupLives, LoopLives, OverStaysOver DEF Lived
  <2> QED BY <2>1, <2>4, <2>5
<1>9. n \in T
  <2> HIDE DEF T, n
  <2> QED BY <1>2, <1>7, <1>8, UpToInduction
<1> DEFINE a == After[n]
<1>10. a \in Agents /\ Lived(a, events, n)
  BY <1>9
<1> DEFINE Complete(b, r, k) ==
             /\ Begins(events, b) /\ SettingUpEnds(events, b, r) /\ events[r] = "ready"
             /\ Ends(events, b, r, k)
<1>11. CleanedUpOnce(events) <=>
         a.cleaned = IF \E b, r, k \in DOMAIN events : Complete(b, r, k) THEN 1 ELSE 0
  BY <1>1 DEF CleanedUpOnce, Begins, SettingUpEnds
<1> HIDE DEF n, a
<1>12. CASE IsNew(a, events, n)
  BY <1>2, <1>11, <1>12 DEF IsNew, Fresh, Begins, FirstAfter, Event
<1>13. CASE SetsUp(a, events, n)
  <2>1. PICK b \in 1 .. n :
          /\ Begins(events, b) /\ a.cleaned = 0
          /\ \A j \in b + 1 .. n : events[j] \notin {"ready", "raise", "cancel"}
    BY <1>13 DEF SetsUp
  <2>2. ASSUME NEW c \in DOMAIN events, NEW r \in DOMAIN events, NEW k \in DOMAIN events, Complete(c, r, k)
        PROVE  FALSE
    <3>1. c = b
      BY <1>2, <2>1, <2>2, OneRun
    <3> QED BY <1>2, <2>1, <2>2, <3>1 DEF SettingUpEnds, FirstAfter, Event
  <2> QED BY <1>11, <2>1, <2>2
<1>14. CASE IsLooping(a, events, n)
  <2>1. PICK b, r \in 1 .. n :
          /\ Begins(events, b) /\ SettingUpEnds(events, b, r) /\ a.cleaned = 0
          /\ \A k \in 1 .. n : ~Ends(events, b, r, k)
    BY <1>14 DEF IsLooping
  <2>2. ASSUME NEW c \in DOMAIN events, NEW q \in DOMAIN events, NEW k \in DOMAIN events, Complete(c, q, k)
        PROVE  FALSE
    <3>1. c = b
      BY <1>2, <2>1, <2>2, OneRun
    <3>2. q = r
      BY <1>2, <2>1, <2>2, <3>1, OneAnswer
    <3> QED BY <1>2, <2>1, <2>2, <3>1, <3>2
  <2> QED BY <1>11, <2>1, <2>2
<1>15. CASE IsCleanedUp(a, events, n)
  BY <1>2, <1>11, <1>15 DEF IsCleanedUp
<1>16. CASE NeverSetUp(a, events, n)
  <2>1. PICK b, r \in 1 .. n :
          /\ Begins(events, b) /\ SettingUpEnds(events, b, r) /\ events[r] # "ready" /\ a.cleaned = 0
    BY <1>16 DEF NeverSetUp
  <2>2. ASSUME NEW c \in DOMAIN events, NEW q \in DOMAIN events, NEW k \in DOMAIN events, Complete(c, q, k)
        PROVE  FALSE
    <3>1. c = b
      BY <1>2, <2>1, <2>2, OneRun
    <3>2. q = r
      BY <1>2, <2>1, <2>2, <3>1, OneAnswer
    <3> QED BY <2>1, <2>2, <3>2
  <2> QED BY <1>11, <2>1, <2>2
<1> QED BY <1>10, <1>12, <1>13, <1>14, <1>15, <1>16 DEF Lived

(***************************************************************************)
(* Metrics: the collector after each call.                                 *)
(***************************************************************************)

(***************************************************************************)
(* The collector after the first i calls.                                  *)
(***************************************************************************)
MetricCalls == [op : {"start", "stop", "observe"}, metric : MetricNames]
Collectors == [timers : [MetricNames -> Nat], histograms : [MetricNames -> Seq(Int)]]

\* The timer of m that call j started runs after the first i calls.
Runs(calls, m, j, i) ==
  /\ j \in 1 .. i /\ calls[j].op = "start" /\ calls[j].metric = m
  /\ \A k \in j + 1 .. i : calls[k].op # "observe" => calls[k].metric # m
\* What is true of a metric's timer t.
TimerRight(calls, m, t, i) ==
  IF t = Never THEN \A j \in 1 .. i : ~Runs(calls, m, j, i) ELSE Runs(calls, m, t, i)
TimersRight(c, calls, i) == \A m \in MetricNames : TimerRight(calls, m, c.timers[m], i)

\* What the next entry of a histogram is, by the calls alone.
NextEntry(calls, m, i, values) ==
  IF Observed(calls, m, i) THEN Append(values, Value(calls, i)) ELSE values
HistogramsRight(c, d, calls, i) ==
  \A m \in MetricNames : d.histograms[m] = NextEntry(calls, m, i, c.histograms[m])

\* The clauses of Call, which exclude each other.
LEMMA CallDoes ==
  ASSUME NEW c, NEW call, NEW now
  PROVE  /\ call.op = "observe" => Call(c, call, now) = observe(c, call.metric, 0)
         /\ call.op = "start" => Call(c, call, now) = start_timer(c, call.metric, now)
         /\ call.op = "stop" => Call(c, call, now) = stop_timer(c, call.metric, now)
<1>1. CASE call.op = "observe"
  BY <1>1, Zenon DEF Call
<1>2. CASE call.op = "start"
  BY <1>2, Zenon DEF Call
<1>3. CASE call.op = "stop"
  BY <1>3, Zenon DEF Call
<1> QED BY <1>1, <1>2, <1>3

\* What a timer set leaves alone.
LEMMA TimedDoes ==
  ASSUME NEW c \in Collectors, NEW m \in MetricNames, NEW now \in Nat
  PROVE  /\ Timed(c, m, now) \in Collectors
         /\ Timed(c, m, now).timers = [c.timers EXCEPT ![m] = now]
         /\ Timed(c, m, now).histograms = c.histograms
<1>1. c.timers \in [MetricNames -> Nat] /\ c.histograms \in [MetricNames -> Seq(Int)]
  BY DEF Collectors
<1> QED BY <1>1 DEF Timed, Collectors

\* The histograms after a value was added to one.
Added(h, m, value) == [h EXCEPT ![m] = Append(@, value)]

\* A value is added to one histogram only.
LEMMA AddedDoes ==
  ASSUME NEW h \in [MetricNames -> Seq(Int)], NEW m \in MetricNames, NEW value \in Int
  PROVE  /\ Added(h, m, value) \in [MetricNames -> Seq(Int)]
         /\ Added(h, m, value)[m] = Append(h[m], value)
         /\ \A n \in MetricNames : n # m => Added(h, m, value)[n] = h[n]
BY DEF Added

\* So does observe, and it leaves the timers.
LEMMA ObserveDoes ==
  ASSUME NEW c \in Collectors, NEW m \in MetricNames, NEW value \in Int
  PROVE  /\ observe(c, m, value) \in Collectors
         /\ observe(c, m, value).timers = c.timers
         /\ observe(c, m, value).histograms = Added(c.histograms, m, value)
<1>1. c.timers \in [MetricNames -> Nat] /\ c.histograms \in [MetricNames -> Seq(Int)]
  BY DEF Collectors
<1>2. observe(c, m, value) = [timers |-> c.timers, histograms |-> Added(c.histograms, m, value)]
  BY DEF observe, Added
<1>3. Added(c.histograms, m, value) \in [MetricNames -> Seq(Int)]
  BY <1>1, AddedDoes
<1> QED BY <1>1, <1>2, <1>3 DEF Collectors

\* A call leaves a collector.
LEMMA CallType ==
  ASSUME NEW c \in Collectors, NEW call \in MetricCalls, NEW now \in Nat
  PROVE  Call(c, call, now) \in Collectors
<1>1. call.op \in {"start", "stop", "observe"} /\ call.metric \in MetricNames
  BY DEF MetricCalls
<1>2. CASE call.op = "observe"
  <2>1. Call(c, call, now) = observe(c, call.metric, 0)
    BY <1>2, CallDoes
  <2>2. observe(c, call.metric, 0) \in Collectors
    BY <1>1, ObserveDoes
  <2> QED BY <2>1, <2>2
<1>3. CASE call.op = "start"
  <2>1. Call(c, call, now) = Timed(c, call.metric, now)
    BY <1>3, CallDoes DEF start_timer
  <2>2. Timed(c, call.metric, now) \in Collectors
    BY <1>1, TimedDoes
  <2> QED BY <2>1, <2>2
<1>4. CASE call.op = "stop"
  <2>1. c.timers[call.metric] \in Nat
    BY <1>1 DEF Collectors
  <2>2. Popped(c, call.metric) \in Collectors
    BY <1>1, TimedDoes DEF Popped, Never
  <2>3. now - c.timers[call.metric] \in Int
    BY <2>1
  <2>4. observe(Popped(c, call.metric), call.metric, now - c.timers[call.metric]) \in Collectors
    BY <1>1, <2>2, <2>3, ObserveDoes
  <2>5. Call(c, call, now) = stop_timer(c, call.metric, now)
    BY <1>4, CallDoes
  <2> QED BY <2>4, <2>5 DEF stop_timer
<1> QED BY <1>1, <1>2, <1>3, <1>4

\* The timers that run after one call more.
LEMMA RunsOn ==
  ASSUME NEW calls \in Seq(MetricCalls), NEW i \in 0 .. Len(calls) - 1, NEW m \in MetricNames
  PROVE  /\ \A j \in 1 .. i : Runs(calls, m, j, i + 1) <=>
              Runs(calls, m, j, i) /\ (calls[i + 1].op = "observe" \/ calls[i + 1].metric # m)
         /\ Runs(calls, m, i + 1, i + 1) <=> calls[i + 1].op = "start" /\ calls[i + 1].metric = m
<1>1. ASSUME NEW j \in 1 .. i
      PROVE  Runs(calls, m, j, i + 1) <=>
               Runs(calls, m, j, i) /\ (calls[i + 1].op = "observe" \/ calls[i + 1].metric # m)
  <2>1. \A k \in Int : k \in j + 1 .. i + 1 <=> (k \in j + 1 .. i \/ k = i + 1)
    OBVIOUS
  <2>2. j \in 1 .. i + 1
    OBVIOUS
  <2> QED BY <2>1, <2>2 DEF Runs
<1>2. Runs(calls, m, i + 1, i + 1) <=> calls[i + 1].op = "start" /\ calls[i + 1].metric = m
  <2>1. i + 1 \in 1 .. i + 1 /\ \A k \in (i + 1) + 1 .. i + 1 : FALSE
    OBVIOUS
  <2> QED BY <2>1 DEF Runs
<1> QED BY <1>1, <1>2

\* It stays so over a call that does not touch the timer.
LEMMA TimerStays ==
  ASSUME NEW calls \in Seq(MetricCalls), NEW i \in 0 .. Len(calls) - 1, NEW m \in MetricNames, NEW t,
         TimerRight(calls, m, t, i),
         calls[i + 1].op = "observe" \/ calls[i + 1].metric # m
  PROVE  TimerRight(calls, m, t, i + 1)
<1>1. CASE t = Never
  <2>1. \A j \in 1 .. i : ~Runs(calls, m, j, i + 1)
    BY <1>1, RunsOn DEF TimerRight
  <2>2. ~Runs(calls, m, i + 1, i + 1)
    BY RunsOn
  <2>3. \A j \in 1 .. i + 1 : j \in 1 .. i \/ j = i + 1
    OBVIOUS
  <2>4. \A j \in 1 .. i + 1 : ~Runs(calls, m, j, i + 1)
    BY <2>1, <2>2, <2>3
  <2> QED BY <1>1, <2>4 DEF TimerRight
<1>2. CASE t # Never
  <2>1. Runs(calls, m, t, i)
    BY <1>2 DEF TimerRight
  <2>2. t \in 1 .. i
    BY <2>1 DEF Runs
  <2> QED BY <1>2, <2>1, <2>2, RunsOn DEF TimerRight
<1> QED BY <1>1, <1>2

\* A stop pairs with the start whose timer runs.
LEMMA PairsWithRunning ==
  ASSUME NEW calls \in Seq(MetricCalls), NEW i \in 0 .. Len(calls) - 1, NEW j \in DOMAIN calls
  PROVE  Pairs(calls, j, i + 1) <=>
           calls[i + 1].op = "stop" /\ Runs(calls, calls[i + 1].metric, j, i)
<1>1. (i + 1) - 1 = i /\ DOMAIN calls = 1 .. Len(calls) /\ (j \in 1 .. i <=> j < i + 1)
  OBVIOUS
<1> QED BY <1>1 DEF Pairs, Runs

\* At most one timer of a metric runs.
LEMMA OneRuns ==
  ASSUME NEW calls \in Seq(MetricCalls), NEW i \in 0 .. Len(calls), NEW m,
         NEW j \in 1 .. i, NEW k \in 1 .. i, Runs(calls, m, j, i), Runs(calls, m, k, i)
  PROVE  j = k
<1>1. ~(j < k) /\ ~(k < j)
  BY DEF Runs
<1> QED BY <1>1

\* What the definition of Observed and Value comes to.
LEMMA ObservedMeans ==
  ASSUME NEW calls \in Seq(MetricCalls), NEW i \in 0 .. Len(calls) - 1, NEW m \in MetricNames
  PROVE  /\ calls[i + 1].metric # m => ~Observed(calls, m, i + 1)
         /\ calls[i + 1].op = "start" => ~Observed(calls, m, i + 1)
         /\ calls[i + 1].op = "observe" /\ calls[i + 1].metric = m =>
              Observed(calls, m, i + 1) /\ Value(calls, i + 1) = 0
         /\ calls[i + 1].op = "stop" /\ calls[i + 1].metric = m =>
              /\ Observed(calls, m, i + 1) <=> \E j \in 1 .. i : Runs(calls, m, j, i)
              /\ \A j \in 1 .. i : Runs(calls, m, j, i) => Value(calls, i + 1) = (i + 1) - j
<1>1. calls[i + 1].metric # m => ~Observed(calls, m, i + 1)
  BY DEF Observed
<1>2. ASSUME calls[i + 1].op = "start" PROVE ~Observed(calls, m, i + 1)
  <2>1. \A j \in DOMAIN calls : ~Pairs(calls, j, i + 1)
    BY <1>2, PairsWithRunning
  <2> QED BY <1>2, <2>1 DEF Observed
<1>3. ASSUME calls[i + 1].op = "observe", calls[i + 1].metric = m
      PROVE  Observed(calls, m, i + 1) /\ Value(calls, i + 1) = 0
  BY <1>3 DEF Observed, Value
<1>4. ASSUME calls[i + 1].op = "stop", calls[i + 1].metric = m
      PROVE  /\ Observed(calls, m, i + 1) <=> \E j \in 1 .. i : Runs(calls, m, j, i)
             /\ \A j \in 1 .. i : Runs(calls, m, j, i) => Value(calls, i + 1) = (i + 1) - j
  <2>1. \A j \in DOMAIN calls : Pairs(calls, j, i + 1) <=> Runs(calls, m, j, i)
    BY <1>4, PairsWithRunning
  <2>2. DOMAIN calls = 1 .. Len(calls) /\ 1 .. i \subseteq DOMAIN calls
    OBVIOUS
  <2>3. \A j : Runs(calls, m, j, i) => j \in 1 .. i
    BY DEF Runs
  <2>4. Observed(calls, m, i + 1) <=> \E j \in 1 .. i : Runs(calls, m, j, i)
    BY <1>4, <2>1, <2>2, <2>3 DEF Observed
  <2>5. ASSUME NEW j \in 1 .. i, Runs(calls, m, j, i) PROVE Value(calls, i + 1) = (i + 1) - j
    <3> DEFINE start == CHOOSE k \in DOMAIN calls : Pairs(calls, k, i + 1)
    <3>1. j \in DOMAIN calls /\ Pairs(calls, j, i + 1)
      BY <2>1, <2>2, <2>5
    <3>2. start \in DOMAIN calls /\ Pairs(calls, start, i + 1)
      BY <3>1
    <3>3. Value(calls, i + 1) = (i + 1) - start
      BY <1>4 DEF Value
    <3> HIDE DEF start
    <3>4. start = j
      BY <2>1, <2>3, <2>5, <3>2, OneRuns
    <3> QED BY <3>3, <3>4
  <2> QED BY <2>4, <2>5
<1> QED BY <1>1, <1>2, <1>3, <1>4

\* A call keeps the timers right and adds to a histogram what it should.
LEMMA CallKeeps ==
  ASSUME NEW calls \in Seq(MetricCalls), NEW i \in 0 .. Len(calls) - 1, NEW c \in Collectors,
         TimersRight(c, calls, i)
  PROVE  LET d == Call(c, calls[i + 1], i + 1) IN
         TimersRight(d, calls, i + 1) /\ HistogramsRight(c, d, calls, i + 1)
<1> DEFINE call == calls[i + 1]
           m == call.metric
           d == Call(c, call, i + 1)
<1>0. i \in Nat /\ i + 1 \in Nat /\ i + 1 \in 1 .. Len(calls) /\ i + 1 # Never
  BY DEF Never
<1>1. call \in MetricCalls /\ call.op \in {"start", "stop", "observe"} /\ m \in MetricNames
  <2>1. call \in MetricCalls
    BY <1>0
  <2> HIDE DEF call
  <2> QED BY <2>1 DEF MetricCalls
<1>2. /\ c.timers \in [MetricNames -> Nat] /\ c.histograms \in [MetricNames -> Seq(Int)]
      /\ \A n \in MetricNames : TimerRight(calls, n, c.timers[n], i)
  BY DEF Collectors, TimersRight
<1>4. \A j \in Int : j \in 1 .. i + 1 <=> (j \in 1 .. i \/ j = i + 1)
  BY <1>0
<1>5. CASE call.op = "observe"
  <2>1. d = observe(c, m, 0)
    BY <1>5, CallDoes
  <2>2. /\ d.timers = c.timers
        /\ d.histograms = Added(c.histograms, m, 0)
    BY <1>1, <2>1, ObserveDoes
  <2> HIDE DEF d
  <2>4. TimersRight(d, calls, i + 1)
    BY <1>2, <1>5, <2>2, TimerStays DEF TimersRight
  <2>3. /\ d.histograms[m] = Append(c.histograms[m], 0)
        /\ \A n \in MetricNames : n # m => d.histograms[n] = c.histograms[n]
    <3>1. /\ Added(c.histograms, m, 0)[m] = Append(c.histograms[m], 0)
          /\ \A n \in MetricNames : n # m => Added(c.histograms, m, 0)[n] = c.histograms[n]
      <4>1. 0 \in Int
        OBVIOUS
      <4> QED BY <1>1, <1>2, <4>1, AddedDoes, Zenon
    <3> QED BY <2>2, <3>1
  <2>5. ASSUME NEW n \in MetricNames PROVE d.histograms[n] = NextEntry(calls, n, i + 1, c.histograms[n])
    <3>1. CASE n = m
      <4>1. Observed(calls, n, i + 1) /\ Value(calls, i + 1) = 0
        BY <1>5, <3>1, ObservedMeans
      <4> QED BY <2>3, <3>1, <4>1 DEF NextEntry
    <3>2. CASE n # m
      <4>1. ~Observed(calls, n, i + 1)
        BY <3>2, ObservedMeans
      <4> QED BY <2>3, <3>2, <4>1 DEF NextEntry
    <3> QED BY <3>1, <3>2
  <2> QED BY <2>4, <2>5 DEF HistogramsRight, d
<1>6. CASE call.op = "start"
  <2>1. d = Timed(c, m, i + 1)
    BY <1>6, CallDoes DEF start_timer
  <2>2. d.timers = [c.timers EXCEPT ![m] = i + 1] /\ d.histograms = c.histograms
    BY <1>1, <2>1, TimedDoes
  <2> HIDE DEF d
  <2>3. ASSUME NEW n \in MetricNames PROVE TimerRight(calls, n, d.timers[n], i + 1)
    <3>1. CASE n = m
      <4>1. Runs(calls, m, i + 1, i + 1)
        BY <1>1, <1>6, RunsOn
      <4>2. d.timers[n] = i + 1
        BY <1>2, <2>2, <3>1
      <4> QED BY <1>0, <3>1, <4>1, <4>2 DEF TimerRight
    <3>2. CASE n # m
      <4>1. d.timers[n] = c.timers[n]
        BY <1>2, <2>2, <3>2
      <4> QED BY <1>2, <3>2, <4>1, TimerStays
    <3> QED BY <3>1, <3>2
  <2>4. \A n \in MetricNames : d.histograms[n] = NextEntry(calls, n, i + 1, c.histograms[n])
    BY <1>6, <2>2, ObservedMeans DEF NextEntry
  <2> QED BY <2>3, <2>4 DEF HistogramsRight, TimersRight, d
<1>7. CASE call.op = "stop"
  <2>1. d = stop_timer(c, m, i + 1)
    BY <1>7, CallDoes
  <2>2. ASSUME NEW n \in MetricNames, n # m
        PROVE  NextEntry(calls, n, i + 1, c.histograms[n]) = c.histograms[n]
    BY <2>2, ObservedMeans DEF NextEntry
  <2>3. TimerRight(calls, m, Never, i + 1)
    <3>1. \A j \in 1 .. i + 1 : ~Runs(calls, m, j, i + 1)
      BY <1>1, <1>4, <1>7, RunsOn
    <3> QED BY <3>1 DEF TimerRight
  <2>4. CASE c.timers[m] = Never
    <3>1. d = c
      BY <2>1, <2>4 DEF stop_timer
    <3>2. \A j \in 1 .. i : ~Runs(calls, m, j, i)
      BY <1>1, <1>2, <2>4 DEF TimerRight
    <3>3. NextEntry(calls, m, i + 1, c.histograms[m]) = c.histograms[m]
      BY <1>1, <1>7, <3>2, ObservedMeans DEF NextEntry
    <3> HIDE DEF d
    <3>4. \A n \in MetricNames : TimerRight(calls, n, c.timers[n], i + 1)
      BY <1>2, <2>3, <2>4, TimerStays
    <3> QED BY <2>2, <3>1, <3>3, <3>4 DEF HistogramsRight, TimersRight, d
  <2>5. CASE c.timers[m] # Never
    <3> DEFINE took == (i + 1) - c.timers[m]
    <3>1. d = observe(Timed(c, m, Never), m, took)
      <4>1. stop_timer(c, m, i + 1) = observe(Popped(c, m), m, took)
        BY <2>5, Zenon DEF stop_timer
      <4>2. Popped(c, m) = Timed(c, m, Never)
        BY DEF Popped
      <4> HIDE DEF d, took
      <4> QED BY <2>1, <4>1, <4>2
    <3>2. took \in Int /\ Never \in Nat
      BY <1>0, <1>1, <1>2 DEF Never
    <3>3. /\ Timed(c, m, Never) \in Collectors
          /\ Timed(c, m, Never).timers = [c.timers EXCEPT ![m] = Never]
          /\ Timed(c, m, Never).histograms = c.histograms
      BY <1>1, <3>2, TimedDoes
    <3> DEFINE popped == Timed(c, m, Never)
    <3>4. /\ d.timers = [c.timers EXCEPT ![m] = Never]
          /\ d.histograms = Added(c.histograms, m, took)
      <4>1. d = observe(popped, m, took) /\ popped \in Collectors
        BY <3>1, <3>3
      <4> HIDE DEF d, took, popped
      <4>2. /\ observe(popped, m, took).timers = popped.timers
            /\ observe(popped, m, took).histograms = Added(popped.histograms, m, took)
        BY <1>1, <3>2, <4>1, ObserveDoes
      <4> QED BY <3>3, <4>1, <4>2 DEF popped
    <3>5. Runs(calls, m, c.timers[m], i)
      BY <1>1, <1>2, <2>5 DEF TimerRight
    <3>6. c.timers[m] \in 1 .. i
      BY <3>5 DEF Runs
    <3>7. NextEntry(calls, m, i + 1, c.histograms[m]) = Append(c.histograms[m], took)
      BY <1>1, <1>7, <3>5, <3>6, ObservedMeans DEF NextEntry
    <3> HIDE DEF d, took, popped
    <3>8. ASSUME NEW n \in MetricNames PROVE TimerRight(calls, n, d.timers[n], i + 1)
      <4>1. CASE n = m
        BY <1>2, <2>3, <3>4, <4>1
      <4>2. CASE n # m
        <5>1. d.timers[n] = c.timers[n]
          BY <1>2, <3>4, <4>2
        <5> QED BY <1>2, <4>2, <5>1, TimerStays
      <4> QED BY <4>1, <4>2
    <3>9. \A n \in MetricNames : d.histograms[n] = NextEntry(calls, n, i + 1, c.histograms[n])
      <4>1. /\ d.histograms[m] = Append(c.histograms[m], took)
            /\ \A n \in MetricNames : n # m => d.histograms[n] = c.histograms[n]
        <5>1. /\ Added(c.histograms, m, took)[m] = Append(c.histograms[m], took)
              /\ \A n \in MetricNames : n # m => Added(c.histograms, m, took)[n] = c.histograms[n]
          BY <1>1, <1>2, <3>2, AddedDoes, Zenon
        <5> QED BY <3>4, <5>1
      <4> QED BY <2>2, <3>7, <4>1
    <3> QED BY <3>8, <3>9 DEF HistogramsRight, TimersRight, d
  <2> QED BY <2>4, <2>5
<1> QED BY <1>1, <1>5, <1>6, <1>7

\* Of the timers of one metric that overlap only the last is observed, and
\* once, in any sequence of calls.
LEMMA MetricsRight ==
  ASSUME NEW calls \in Seq(MetricCalls)
  PROVE  TimersPairUp(calls)
<1> DEFINE n == Len(calls)
           Loop(F) == [i \in 0 .. n |-> IF i = 0 THEN Collector ELSE Call(F[i - 1], calls[i], i)]
           After == CHOOSE F : F = Loop(F)
<1>1. Collected(calls) = After[n]
  BY DEF Collected
<1>2. n \in Nat /\ \A i \in 1 .. n : calls[i] \in MetricCalls
  OBVIOUS
<1>3. Collector \in Collectors
  BY DEF Collector, Collectors, Never
<1>4. \E F : F \in [0 .. n -> Collectors] /\ F = Loop(F)
  <2> DEFINE step == [p \in Collectors \X (1 .. n) |-> Call(p[1], calls[p[2]], p[2])]
  <2>1. step \in StepFunctions(Collectors, n)
    BY <1>2, CallType DEF StepFunctions
  <2>2. PICK F : Iterates(F, Collectors, Collector, n, step)
    <3>1. n \in Nat
      BY <1>2
    <3> HIDE DEF step, n
    <3> QED BY <1>3, <2>1, <3>1, Iteration
  <2>3. ASSUME NEW i \in 1 .. n PROVE F[i] = Call(F[i - 1], calls[i], i)
    <3>1. i - 1 \in 0 .. n
      BY <1>2
    <3>2. <<F[i - 1], i>> \in Collectors \X (1 .. n)
      BY <2>2, <3>1 DEF Iterates
    <3> QED BY <2>2, <3>2 DEF Iterates
  <2>4. ASSUME NEW i \in 0 .. n PROVE F[i] = IF i = 0 THEN Collector ELSE Call(F[i - 1], calls[i], i)
    <3>1. i # 0 => i \in 1 .. n
      BY <1>2
    <3> QED BY <2>2, <2>3, <3>1 DEF Iterates
  <2> QED BY <2>2, <2>4 DEF Iterates
<1>5. After = Loop(After)
  <2> HIDE DEF Loop
  <2> QED BY <1>4
<1> HIDE DEF After
<1>6. /\ \A i \in 0 .. n : i = 0 => After[i] = Collector
      /\ \A i \in 0 .. n : i # 0 => After[i] = Call(After[i - 1], calls[i], i)
  BY <1>5
<1>7. ASSUME NEW i \in 0 .. n - 1
      PROVE  After[i + 1] = Call(After[i], calls[i + 1], i + 1)
  <2>1. i + 1 \in 0 .. n /\ i + 1 # 0 /\ (i + 1) - 1 = i
    BY <1>2
  <2> QED BY <1>6, <2>1
<1> DEFINE T == {i \in 0 .. n : After[i] \in Collectors /\ TimersRight(After[i], calls, i)}
<1>8. 0 \in T
  <2>1. 0 \in 0 .. n /\ After[0] = Collector
    BY <1>2, <1>6
  <2>2. TimersRight(Collector, calls, 0)
    BY DEF TimersRight, TimerRight, Collector
  <2> QED BY <1>3, <2>1, <2>2
<1>9. ASSUME NEW i \in 0 .. n - 1, i \in T
      PROVE  i + 1 \in T /\ HistogramsRight(After[i], After[i + 1], calls, i + 1)
  <2>1. i + 1 \in 0 .. n /\ i + 1 \in 1 .. n /\ i + 1 \in Nat
    BY <1>2
  <2>2. After[i] \in Collectors /\ TimersRight(After[i], calls, i)
    BY <1>9
  <2>3. Call(After[i], calls[i + 1], i + 1) \in Collectors
    BY <1>2, <2>1, <2>2, CallType
  <2>4. /\ TimersRight(Call(After[i], calls[i + 1], i + 1), calls, i + 1)
        /\ HistogramsRight(After[i], Call(After[i], calls[i + 1], i + 1), calls, i + 1)
    BY <2>2, CallKeeps
  <2> QED BY <1>7, <2>1, <2>3, <2>4
<1>10. 0 .. n \subseteq T
  <2> HIDE DEF T, n
  <2> QED BY <1>2, <1>8, <1>9, UpToInduction
<1>11. ASSUME NEW m \in MetricNames
       PROVE  Collected(calls).histograms[m] =
                LET S[i \in 0 .. n] == IF i = 0 THEN <<>> ELSE NextEntry(calls, m, i, S[i - 1])
                IN  S[n]
  <2> DEFINE Series(F) == [i \in 0 .. n |-> IF i = 0 THEN <<>> ELSE NextEntry(calls, m, i, F[i - 1])]
             S == CHOOSE F : F = Series(F)
             G == [i \in 0 .. n |-> After[i].histograms[m]]
  <2>1. G = Series(G)
    <3>1. ASSUME NEW i \in 0 .. n
          PROVE  After[i].histograms[m] = IF i = 0 THEN <<>> ELSE NextEntry(calls, m, i, G[i - 1])
      <4>1. CASE i = 0
        <5>1. After[i] = Collector
          BY <1>6, <4>1
        <5> QED BY <4>1, <5>1 DEF Collector
      <4>2. CASE i # 0
        <5>1. i - 1 \in 0 .. n - 1 /\ i - 1 \in 0 .. n /\ (i - 1) + 1 = i
          BY <1>2, <4>2
        <5>2. HistogramsRight(After[i - 1], After[i], calls, i)
          BY <1>9, <1>10, <5>1
        <5>3. G[i - 1] = After[i - 1].histograms[m]
          BY <5>1
        <5> HIDE DEF G
        <5> QED BY <4>2, <5>2, <5>3 DEF HistogramsRight
      <4> QED BY <4>1, <4>2
    <3> QED BY <3>1
  <2>2. S = Series(S)
    <3> HIDE DEF G, Series
    <3> QED BY <2>1
  <2> HIDE DEF S
  <2>3. /\ \A i \in 0 .. n : S[i] = IF i = 0 THEN <<>> ELSE NextEntry(calls, m, i, S[i - 1])
        /\ \A i \in 0 .. n : G[i] = IF i = 0 THEN <<>> ELSE NextEntry(calls, m, i, G[i - 1])
    <3>1. \A F : F = Series(F) => \A i \in 0 .. n : F[i] = IF i = 0 THEN <<>> ELSE NextEntry(calls, m, i, F[i - 1])
      OBVIOUS
    <3> HIDE DEF Series, G
    <3> QED BY <2>1, <2>2, <3>1
  <2> DEFINE U == {i \in 0 .. n : S[i] = G[i]}
  <2> HIDE DEF G
  <2>4. 0 \in U
    BY <1>2, <2>3
  <2>5. ASSUME NEW i \in 0 .. n - 1, i \in U PROVE i + 1 \in U
    <3>1. i + 1 \in 0 .. n /\ i + 1 # 0 /\ (i + 1) - 1 = i
      BY <1>2
    <3> QED BY <2>3, <2>5, <3>1
  <2>6. n \in U
    <3>1. n \in 0 .. n
      BY <1>2
    <3> HIDE DEF U, n
    <3> QED BY <1>2, <2>4, <2>5, <3>1, UpToInduction
  <2>7. S[n] = After[n].histograms[m]
    BY <1>2, <2>6 DEF G
  <2> QED BY <1>1, <2>7 DEF S
<1> QED BY <1>11 DEF TimersPairUp, NextEntry

(***************************************************************************)
(* The properties of MCAlgorithms, whatever the bounds on the inputs.      *)
(***************************************************************************)
\* What is bounded in length is a sequence.
LEMMA UptoIsSeq ==
  ASSUME NEW E, NEW n \in Nat, NEW s \in Upto(E, n)
  PROVE  s \in Seq(E)
<1>1. PICK k \in 0 .. n : s \in [1 .. k -> E]
  BY DEF Upto
<1>2. k \in Nat
  OBVIOUS
<1> QED BY <1>1, <1>2

\* Times of which none is later than the next are in order.
LEMMA OrderedIsInOrder ==
  ASSUME NEW at \in Seq(Int), Ordered(at)
  PROVE  InOrder(at)
<1> SUFFICES ASSUME NEW i \in 1 .. Len(at), NEW j \in 1 .. Len(at), i <= j PROVE at[i] <= at[j]
  BY DEF InOrder
<1> DEFINE n == j - i
           T == {d \in 0 .. n : at[i] <= at[i + d]}
<1>1. n \in Nat /\ i + n = j /\ \A k \in 1 .. Len(at) : at[k] \in Int
  OBVIOUS
<1>2. 0 \in T
  BY <1>1
<1>3. ASSUME NEW d \in 0 .. n - 1, d \in T PROVE d + 1 \in T
  <2>1. i + d \in 1 .. Len(at) - 1 /\ i + d + 1 \in 1 .. Len(at) /\ i + d \in 1 .. Len(at) /\ d + 1 \in 0 .. n
    BY <1>1
  <2>2. at[i + d] <= at[i + d + 1]
    BY <2>1 DEF Ordered
  <2>3. at[i] <= at[i + d]
    BY <1>3
  <2>4. i + d + 1 = i + (d + 1)
    BY <1>1
  <2>5. at[i] <= at[i + (d + 1)]
    BY <1>1, <2>1, <2>2, <2>3, <2>4
  <2> QED BY <2>1, <2>5
<1>4. n \in T
  <2>1. n \in Nat /\ n \in 0 .. n
    BY <1>1
  <2>2. \A d \in 0 .. n - 1 : d \in T => d + 1 \in T
    BY <1>3
  <2> HIDE DEF T, n
  <2>3. 0 .. n \subseteq T
    BY <1>2, <2>1, <2>2, UpToInduction
  <2> QED BY <2>1, <2>3
<1> QED BY <1>1, <1>4

\* A field tells which algorithm a case is the input of.
LEMMA FieldTells ==
  ASSUME NEW c \in Cases
  PROVE  /\ "arrivals" \in DOMAIN c => c \in RateCases
         /\ "bucket" \in DOMAIN c => c \in ThroughputCases
         /\ "callable" \in DOMAIN c => c \in WorkflowCases
         /\ "env" \in DOMAIN c => c \in ConfigCases
         /\ "wait" \in DOMAIN c => c \in WaitCases
         /\ "events" \in DOMAIN c => c \in AgentCases
         /\ "calls" \in DOMAIN c => c \in MetricCases
<1>1. c \in RateCases => DOMAIN c = {"arrivals"}
  BY DEF RateCases
<1>2. c \in ThroughputCases => DOMAIN c = {"outcomes", "now", "window", "bucket"}
  BY DEF ThroughputCases
<1>3. c \in WorkflowCases => DOMAIN c = {"n", "retries", "raises", "callable", "step"}
  BY DEF WorkflowCases
<1>4. c \in ConfigCases => DOMAIN c = {"env"}
  BY DEF ConfigCases
<1>5. c \in WaitCases => DOMAIN c = {"wait", "before", "pause", "ends", "raised", "down"}
  BY DEF WaitCases
<1>6. c \in AgentCases => DOMAIN c = {"events"}
  BY DEF AgentCases
<1>7. c \in MetricCases => DOMAIN c = {"calls"}
  BY DEF MetricCases
<1> QED BY <1>1, <1>2, <1>3, <1>4, <1>5, <1>6, <1>7 DEF Cases

\* Each case's input is one of those the lemmas above are about.
LEMMA CaseRight ==
  ASSUME case \in Cases
  PROVE  /\ RateIsLimited /\ SeriesRight /\ LocalRunStops /\ EnvironmentReadsBack
         /\ WaitTellsWhatItSaw /\ AgentCleansUpOnce /\ TimersPair
<1>1. RateIsLimited
  <2> SUFFICES ASSUME case \in RateCases PROVE AdmitsByWindow(case.arrivals)
    BY FieldTells DEF RateIsLimited, Is
  <2>1. case.arrivals \in Upto(0 .. MaxTime, MaxLength) /\ Ordered(case.arrivals)
    BY DEF RateCases
  <2>2. case.arrivals \in Seq(0 .. MaxTime)
    BY <2>1, UptoIsSeq, BoundsAssumption
  <2>3. case.arrivals \in Seq(Int)
    <3> DEFINE s == case.arrivals
    <3>1. s \in Seq(0 .. MaxTime)
      BY <2>2
    <3> HIDE DEF s
    <3>2. s \in Seq(Int)
      BY <3>1, BoundsAssumption
    <3> QED BY <3>2 DEF s
  <2> QED BY <2>1, <2>3, OrderedIsInOrder, RateRight
<1>2. SeriesRight
  <2> SUFFICES ASSUME case \in ThroughputCases
               PROVE  LET series == throughput(case.outcomes, case.now, case.window, case.bucket) IN
                      /\ Contiguous(series, case.now, case.window, case.bucket)
                      /\ CountsEach(series, case.outcomes, case.now, case.window, case.bucket)
    BY FieldTells DEF SeriesRight, Is
  <2>1. /\ case.outcomes \in OutcomeLists
        /\ case.now \in 1 .. MaxTime /\ case.window \in 1 .. MaxTime /\ case.bucket \in BucketSizes
        /\ case.window <= case.now /\ \A i \in DOMAIN case.outcomes : case.outcomes[i].ts <= case.now
    BY DEF ThroughputCases
  <2>2. case.now \in Nat /\ case.window \in 1 .. case.now /\ case.bucket \in Nat \ {0}
    <3> DEFINE now == case.now
               window == case.window
               bucket == case.bucket
    <3>1. now \in 1 .. MaxTime /\ window \in 1 .. MaxTime /\ bucket \in BucketSizes /\ window <= now
      BY <2>1
    <3> HIDE DEF now, window, bucket
    <3>2. now \in Nat /\ window \in 1 .. now /\ bucket \in Nat \ {0}
      BY <3>1, BoundsAssumption
    <3> QED BY <3>2 DEF now, window, bucket
  <2> DEFINE Listed == [ts : 0 .. MaxTime, outcome : {"completed", "failed"}]
  <2>3. case.outcomes \in Seq(Listed)
    <3>1. MaxOutcomes + 1 \in Nat /\ case.outcomes \in Upto(Listed, MaxOutcomes + 1)
      BY <2>1, ThroughputAssumption DEF OutcomeLists
    <3> HIDE DEF Listed
    <3> QED BY <3>1, UptoIsSeq
  <2>4. case.outcomes \in Seq(Outcomes(case.now))
    <3>1. ASSUME NEW i \in 1 .. Len(case.outcomes) PROVE case.outcomes[i] \in Outcomes(case.now)
      <4>1. case.outcomes[i] \in Listed /\ i \in DOMAIN case.outcomes
        <5> DEFINE s == case.outcomes
        <5>1. s \in Seq(Listed) /\ i \in 1 .. Len(s)
          BY <2>3
        <5> HIDE DEF s, Listed
        <5>2. s[i] \in Listed /\ i \in DOMAIN s
          BY <5>1
        <5> QED BY <5>2 DEF s
      <4>2. case.outcomes[i] \in [ts : Nat, outcome : {"completed", "failed"}]
        BY <4>1, BoundsAssumption
      <4> HIDE DEF Listed
      <4> QED BY <2>1, <4>1, <4>2 DEF Outcomes
    <3>2. Len(case.outcomes) \in Nat /\ case.outcomes = [i \in 1 .. Len(case.outcomes) |-> case.outcomes[i]]
      BY <2>3
    <3>3. case.outcomes \in [1 .. Len(case.outcomes) -> Outcomes(case.now)]
      BY <3>1, <3>2
    <3> QED BY <3>2, <3>3
  <2> QED BY <2>2, <2>4, ThroughputRight
<1>3. LocalRunStops
  <2> SUFFICES ASSUME case \in WorkflowCases PROVE StopsAtFirstFailure(case)
    BY FieldTells DEF LocalRunStops, Is
  <2>1. PICK n \in 0 .. MaxSteps :
          case \in [n : {n}, retries : [1 .. n -> 0 .. MaxCalls - 1], raises : [1 .. n -> 0 .. MaxCalls],
                    callable : [1 .. n -> BOOLEAN], step : [1 .. n -> {"pending", "completed"}]]
    BY DEF WorkflowCases
  <2>2. /\ case.n = n /\ n \in Nat
        /\ case.retries \in [1 .. n -> 0 .. MaxCalls - 1] /\ case.raises \in [1 .. n -> 0 .. MaxCalls]
        /\ case.callable \in [1 .. n -> BOOLEAN] /\ case.step \in [1 .. n -> {"pending", "completed"}]
    BY <2>1, BoundsAssumption
  <2>3. case.retries \in [1 .. n -> Nat] /\ case.raises \in [1 .. n -> Nat]
    BY <2>2, BoundsAssumption
  <2>4. case.step = [s \in 1 .. n |-> case.step[s]]
    BY <2>2
  <2>5. Workflow(case)
    BY <2>2, <2>3, <2>4 DEF Workflow
  <2> QED BY <2>5, LocalRunRight
<1>4. EnvironmentReadsBack
  <2> SUFFICES ASSUME case \in ConfigCases PROVE OverridesReadBack(case.env)
    BY FieldTells DEF EnvironmentReadsBack, Is
  <2> DEFINE V == {"1", "2"}
             Listed == [path : Paths, value : V]
  <2>1. case.env \in Upto(Listed, 3)
    BY DEF ConfigCases
  <2>2. Listed \subseteq Variables(Parts, V)
    <3>1. Paths \subseteq Seq(Parts)
      BY UptoIsSeq DEF Paths
    <3> QED BY <3>1 DEF Variables
  <2>3. case.env \in Seq(Listed)
    <3> HIDE DEF Listed
    <3> QED BY <2>1, UptoIsSeq
  <2>4. case.env \in Seq(Variables(Parts, V))
    <3> HIDE DEF Listed, V
    <3> QED BY <2>2, <2>3
  <2>5. Dict \notin V
    BY DEF Dict
  <2> HIDE DEF V
  <2> QED BY <2>4, <2>5, EnvironmentRight
<1>5. WaitTellsWhatItSaw
  <2> SUFFICES ASSUME case \in WaitCases PROVE SaysWhatItSaw(case)
    BY FieldTells DEF WaitTellsWhatItSaw, Is
  <2>1. case \in Waits
    BY BoundsAssumption, RateAssumption DEF WaitCases, Waits
  <2> QED BY <2>1, WaitRight
<1>6. AgentCleansUpOnce
  <2> SUFFICES ASSUME case \in AgentCases PROVE CleanedUpOnce(case.events)
    BY FieldTells DEF AgentCleansUpOnce, Is
  <2>1. case.events \in Upto(Events, MaxLength)
    BY DEF AgentCases
  <2> QED BY <2>1, UptoIsSeq, BoundsAssumption, AgentRight
<1>7. TimersPair
  <2> SUFFICES ASSUME case \in MetricCases PROVE TimersPairUp(case.calls)
    BY FieldTells DEF TimersPair, Is
  <2>1. case.calls \in Upto(MetricCalls, MaxLength)
    BY DEF MetricCases, MetricCalls
  <2> QED BY <2>1, UptoIsSeq, BoundsAssumption, MetricsRight
<1> QED BY <1>1, <1>2, <1>3, <1>4, <1>5, <1>6, <1>7

\* The case is not changed, so what holds of every case holds always.
LEMMA CasesStay == Spec => [](case \in Cases)
<1>1. Init => case \in Cases
  BY DEF Init
<1>2. case \in Cases /\ [Next]_case => (case \in Cases)'
  BY DEF Next
<1> QED BY <1>1, <1>2, PTL DEF Spec

\* A client's requests are accepted exactly as a sliding window of accepted
\* ones allows (middleware.py:50-56), for every limit, window and arrivals.
THEOREM RateLimited == Spec => []RateIsLimited
<1>1. case \in Cases => RateIsLimited
  BY CaseRight
<1> QED BY <1>1, CasesStay, PTL

\* throughput (engine.py:188-215) covers the window with buckets that do not
\* leave a gap, and counts each outcome once, for every window and bucket.
THEOREM SeriesIsRight == Spec => []SeriesRight
<1>1. case \in Cases => SeriesRight
  BY CaseRight
<1> QED BY <1>1, CasesStay, PTL

\* execute_workflow (workflow.py:122-150) completes the steps up to the first
\* that cannot be, after all its retries, and calls no later one.
THEOREM LocalRunsStop == Spec => []LocalRunStops
<1>1. case \in Cases => LocalRunStops
  BY CaseRight
<1> QED BY <1>1, CasesStay, PTL

\* An environment variable reads back unless a later one replaced it, and the
\* orders that cannot be set raise (config.py:19-45).
THEOREM EnvironmentIsRead == Spec => []EnvironmentReadsBack
<1>1. case \in Cases => EnvironmentReadsBack
  BY CaseRight
<1> QED BY <1>1, CasesStay, PTL

\* ao submit --wait (main.py:161-176) tells what the first poll that fails or
\* finds an end saw, be it a refusal of the rate limit (that a wait should not
\* end so is another matter, see MCSubmitWait).
THEOREM WaitsTell == Spec => []WaitTellsWhatItSaw
<1>1. case \in Cases => WaitTellsWhatItSaw
  BY CaseRight
<1> QED BY <1>1, CasesStay, PTL

\* An agent cleans up once if its setup returned, after its loop, and never
\* otherwise (agent.py:31-45), whatever stops or cancels it.
THEOREM AgentsCleanUpOnce == Spec => []AgentCleansUpOnce
<1>1. case \in Cases => AgentCleansUpOnce
  BY CaseRight
<1> QED BY <1>1, CasesStay, PTL

\* A stopped timer is observed for the latest start under its name, and once
\* (metrics.py:30-40), in every interleaving of calls.
THEOREM TimersArePaired == Spec => []TimersPair
<1>1. case \in Cases => TimersPair
  BY CaseRight
<1> QED BY <1>1, CasesStay, PTL
=============================================================================
