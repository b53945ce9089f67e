----------------------------- MODULE ZlogService -----------------------------
(***************************************************************************)
(* What the environment of zlog promises to the threads that log: there is *)
(* one configuration in force, every category that exists is served by     *)
(* exactly the rules that configuration gives it, and all categories move  *)
(* to the next configuration together.                                     *)
(***************************************************************************)
EXTENDS ZlogRules

CONSTANTS Categories, Confs, Null

VARIABLES
  conf,     \* the configuration in force, or Null
  served    \* the rules each known category is served by

Init == conf = Null /\ served = [c \in {} |-> {}]

Serving(cf, known) == [c \in known |-> FitRules(cf, c)]

Start(cf, known) ==
  /\ conf = Null
  /\ conf' = cf
  /\ served' = Serving(cf, known)

Install(cf) ==
  /\ conf # Null
  /\ conf' = cf
  /\ served' = Serving(cf, DOMAIN served)

Know(c) ==
  /\ conf # Null
  /\ served' = Serving(conf, DOMAIN served \cup {c})
  /\ UNCHANGED conf

Stop ==
  /\ conf' = Null
  /\ served' = [c \in {} |-> {}]

Next ==
  \/ \E cf \in Confs : Start(cf, {}) \/ Install(cf)
  \/ \E cf \in Confs, c \in Categories : Start(cf, {c})
  \/ \E c \in Categories : Know(c)
  \/ Stop

Spec == Init /\ [][Next]_<<conf, served>>
=============================================================================
