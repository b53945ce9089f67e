------------------------------ MODULE ZlogRules ------------------------------
(***************************************************************************)
(* How a category of zlog picks the rules it logs through, and the level   *)
(* bitmap it derives from them (category.c, rule.c).                       *)
(*                                                                         *)
(* The contents of a configuration is a record                             *)
(*   rules  : a sequence of rules, in file order;                          *)
(*   buf    : buf_size_min and buf_size_max, as one value;                 *)
(*   tcc    : time_cache_count, the number of time formats of the file;    *)
(*   period : reload_conf_period.                                          *)
(* A rule is a record: the categories its category pattern matches, is it  *)
(* the wastebin rule "!", and the levels it lets through.  Rules are named *)
(* by their position, so a list of rules in file order is a set of         *)
(* positions.                                                              *)
(***************************************************************************)
EXTENDS Naturals

\* zlog_rule_match_category over the whole rule list.
Matching(cf, c) == {i \in DOMAIN cf.rules : c \in cf.rules[i].cats}

Wastebins(cf) == {i \in DOMAIN cf.rules : cf.rules[i].waste}

\* The loop of obtain_rules overwrites wastebin_rule, so the last one wins.
LastWastebin(cf) ==
  {i \in Wastebins(cf) : \A j \in Wastebins(cf) : j <= i}

\* zlog_category_obtain_rules: every matching rule, else the wastebin rule.
FitRules(cf, c) ==
  IF Matching(cf, c) # {} THEN Matching(cf, c) ELSE LastWastebin(cf)

\* Mutant: the bit after the level's own.
LevelsOfShifted(cf, rs) == {l + 1 : l \in UNION {cf.rules[i].levels : i \in rs}}

\* Mutant: = for |=, so that the last rule of the list wins.
LevelsOfLast(cf, rs) ==
  UNION {cf.rules[i].levels : i \in {j \in rs : \A k \in rs : k <= j}}

\* zlog_cateogry_overlap_bitmap over a list of rules.
LevelsOf(cf, rs) == UNION {cf.rules[i].levels : i \in rs}

\* zlog_rule_output: the rules of the list that let level l through.
Emitting(cf, rs, l) == {i \in rs : l \in cf.rules[i].levels}
=============================================================================
