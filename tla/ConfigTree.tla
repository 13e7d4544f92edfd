----------------------------- MODULE ConfigTree -----------------------------
(***************************************************************************)
(* Config of src/common/config.py.  A configuration maps paths (sequences  *)
(* of the parts of a dotted key) to what is there: Dict, or a value.  It   *)
(* is closed under prefixes and has a Dict at every proper prefix.         *)
(***************************************************************************)
EXTENDS Integers, Sequences, SequencesExt

Dict == "{}"
Empty == [p \in {<<>>} |-> Dict]

Above(path) == {SubSeq(path, 1, n) : n \in 0 .. Len(path) - 1}
Below(path, p) == IsStrictPrefix(path, p)

\* A value where a dict is needed: _set_nested raises TypeError.
Blocked(config, path) == \E p \in Above(path) \cap DOMAIN config : config[p] # Dict

\* _set_nested makes the dicts that are missing; what was below is gone.
set_keeping(config, path, value) ==
  [p \in DOMAIN config \cup Above(path) \cup {path} |->
     IF p = path THEN value ELSE IF p \in DOMAIN config THEN config[p] ELSE Dict]
set(config, path, value) ==
  [p \in {d \in DOMAIN config : ~Below(path, d)} \cup Above(path) \cup {path} |->
     IF p = path THEN value ELSE IF p \in DOMAIN config THEN config[p] ELSE Dict]

get(config, path, default) == IF path \in DOMAIN config THEN config[path] ELSE default

\* _load_env_overrides: the variables in the order of os.environ, each a
\* [path, value]; the first that is blocked ends it.
Override(so, variable) ==
  IF so.raises \/ Blocked(so.config, variable.path)
  THEN [config |-> so.config, raises |-> TRUE]
  ELSE [config |-> set(so.config, variable.path, variable.value), raises |-> FALSE]
Overrides(config, env) ==
  LET After[i \in 0 .. Len(env)] ==
        IF i = 0 THEN [config |-> config, raises |-> FALSE] ELSE Override(After[i - 1], env[i])
  IN  After[Len(env)]

\* A variable is blocked exactly when an earlier one is a prefix of it; else
\* each variable reads back as it was set, unless a later one is at its key
\* or above, or is below it, which needs a Dict there; nothing else is read.
OverridesReadBack(env) ==
  LET end == Overrides(Empty, env)
      Stays(i) == \A j \in i + 1 .. Len(env) : ~IsPrefix(env[j].path, env[i].path) IN
  /\ end.raises <=> \E j \in DOMAIN env : \E i \in 1 .. j - 1 : Below(env[i].path, env[j].path)
  /\ ~end.raises =>
       /\ \A i \in DOMAIN env : Stays(i) => get(end.config, env[i].path, "default") = env[i].value
       /\ \A p \in DOMAIN end.config : end.config[p] # Dict =>
            \E i \in DOMAIN env : Stays(i) /\ env[i].path = p
=============================================================================
