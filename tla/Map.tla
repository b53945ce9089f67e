--------------------------------- MODULE Map ---------------------------------
(***************************************************************************)
(* What zlog expects of its hash table (category.c, record_table.c, mdc.c  *)
(* and level tests all rely on it): a map that owns the objects put into   *)
(* it, destroys each of them once, when it is replaced, removed or cleaned *)
(* away, and that an iteration visits completely.                          *)
(***************************************************************************)
EXTENDS Naturals, FiniteSets

CONSTANTS Keys, Objects

VARIABLES
  map,      \* the objects by their keys
  count,    \* how many there are
  deleted,  \* the objects the map has destroyed
  todo      \* the keys the iteration under way has still to visit

Init ==
  /\ map = [k \in {} |-> 0]
  /\ count = 0
  /\ deleted = {}
  /\ todo = {}

Holds(k) == k \in DOMAIN map

Becomes(new) ==
  /\ map' = new
  /\ count' = Cardinality(DOMAIN new)

\* An object under a new key, or in the place of the one that is there.
Put(k, o) ==
  /\ o \notin deleted /\ \A j \in DOMAIN map : map[j] # o
  /\ todo = {}
  /\ Becomes([j \in DOMAIN map \cup {k} |-> IF j = k THEN o ELSE map[j]])
  /\ deleted' = deleted \cup {map[j] : j \in DOMAIN map \cap {k}}
  /\ UNCHANGED todo

\* Some keys and their objects go: one by remove, all by clean.
Drop(gone) ==
  /\ gone \subseteq DOMAIN map
  /\ todo = {}
  /\ Becomes([j \in DOMAIN map \ gone |-> map[j]])
  /\ deleted' = deleted \cup {map[j] : j \in gone}
  /\ UNCHANGED todo

Begin ==
  /\ todo = {}
  /\ todo' = DOMAIN map
  /\ UNCHANGED <<map, count, deleted>>

Visit(k) ==
  /\ k \in todo
  /\ todo' = todo \ {k}
  /\ UNCHANGED <<map, count, deleted>>

Next ==
  \/ \E k \in Keys : \/ \E o \in Objects : Put(k, o)
                     \/ Holds(k) /\ Drop({k})
                     \/ Visit(k)
  \/ Drop(DOMAIN map)
  \/ Begin

Spec == Init /\ [][Next]_<<map, count, deleted, todo>>
=============================================================================
