------------------------------ MODULE MCZlogEnv ------------------------------
(***************************************************************************)
(* Instances of the zlog environment for TLC.  The two configurations give *)
(* a category two rules, one rule and the wastebin rule; they differ in    *)
(* buffer size, time cache size and reload period.                         *)
(***************************************************************************)
EXTENDS ZlogEnvProperties, TLC

CONSTANTS app, web

MkRule(cs, w, ls) ==
  [cats |-> cs \cap Categories, waste |-> w, levels |-> ls]

ConfA == [rules  |-> <<MkRule({app, web}, FALSE, {2}), MkRule({app}, FALSE, {1})>>,
          buf    |-> 1, tcc |-> 1, period |-> 1]
ConfB == [rules  |-> <<MkRule({}, TRUE, {1}), MkRule({app}, FALSE, {2}),
                       MkRule({}, TRUE, {2})>>,
          buf    |-> 2, tcc |-> 2, period |-> 0]

MCConfs == {ConfA, ConfB}

\* Everything but the rule list of an update, whose failure zlog_reload
\* does not undo (see OldConfStillWorking).
AllButUpdate == FailurePoints \ {"update"}

ThreadSymmetry == Permutations(Threads)
=============================================================================
