------------------------------ MODULE HashTable ------------------------------
(***************************************************************************)
(* The hash table of zlog (zc_hashtable.c): slots with doubly linked       *)
(* chains of entries, doubled when there are more than 1.3 entries a slot. *)
(* The table owns what is put into it and destroys it with key_del and     *)
(* value_del.  Any allocation may fail.                                    *)
(*                                                                         *)
(* An entry is named by the put that allocated it, and so is the pair of   *)
(* key and value a put brings; an entry that is not in heap has been freed *)
(* and a pointer to it dangles.  Its callers keep others away from a table *)
(* while it changes, so an operation is one step; only an iteration takes  *)
(* several, between which zlog does not change the table.                  *)
(*                                                                         *)
(* A definition marked Mutant is not part of the specification: it is a    *)
(* definition with a bug that a property has to notice.                    *)
(***************************************************************************)
EXTENDS Integers, FiniteSetsExt

CONSTANTS
  Keys,
  Hash,      \* hash(key) of a key
  InitSize,  \* a_size of zc_hashtable_new
  MaxPuts,   \* bound: calls of zc_hashtable_put
  Null

HashTableAssumption ==
  /\ Hash \in [Keys -> Nat]
  /\ InitSize \in Nat \ {0}
  /\ MaxPuts \in Nat
  /\ Null \notin Keys \cup Nat

VARIABLES
  tab,      \* the heads of the chains
  heap,     \* the entries that are allocated
  nelem,
  cursor,   \* the entry an iteration has come to, or Null
  dels,     \* how often each object put has been destroyed
  puts      \* counted for the bound

tableVars == <<tab, heap, nelem, cursor, dels, puts>>

Objects == 1..MaxPuts

InitTable ==
  /\ tab = [i \in 0..InitSize - 1 |-> Null]
  /\ heap = [e \in {} |-> 0]
  /\ nelem = 0
  /\ cursor = Null
  /\ dels = [o \in Objects |-> 0]
  /\ puts = 0

TabSize == Cardinality(DOMAIN tab)
Slot(k, t) == Hash[k] % Cardinality(DOMAIN t)

\* A walk from e on along pointers, which stays at the first that leads nowhere.
\* Without a cycle it gets there in as many steps as there are pointers.
Walk(pointer, e) ==
  LET at[n \in 0..Cardinality(DOMAIN pointer)] ==
        IF n = 0 THEN e
        ELSE IF at[n - 1] \in DOMAIN pointer THEN pointer[at[n - 1]] ELSE at[n - 1]
  IN  at

\* The entry of a key, or Null: the first with that key in its chain.
Entry(k) ==
  LET chain == Walk([e \in DOMAIN heap |-> heap[e].next], tab[Slot(k, tab)])
      hits == {n \in DOMAIN chain : chain[n] \in DOMAIN heap /\ heap[chain[n]].key = k}
  IN  IF hits = {} THEN Null ELSE chain[Min(hits)]

Present(k) == Entry(k) \in DOMAIN heap

\* The first entry of the first chain that has one, from slot i on.
HeadFrom(i) ==
  LET full == {j \in DOMAIN tab : j >= i /\ tab[j] # Null}
  IN  IF full = {} THEN Null ELSE tab[Min(full)]

\* zc_hashtable_begin and zc_hashtable_next
First == HeadFrom(0)
NextOf(e) ==
  IF heap[e].next # Null THEN heap[e].next ELSE HeadFrom(Slot(heap[e].key, tab) + 1)

\* An iteration from e on, in the order of the slots and the chains.
Iteration(e) == Walk([f \in DOMAIN heap |-> NextOf(f)], e)
Ahead(e) == {f \in DOMAIN heap : \E n \in DOMAIN Iteration(e) : Iteration(e)[n] = f}

\* Mutant: the old head keeps its prev.
PushKeepsPrev(s, e) ==
  LET i == Slot(s.heap[e].key, s.tab)
  IN  [tab  |-> [s.tab EXCEPT ![i] = e],
       heap |-> [s.heap EXCEPT ![e].next = s.tab[i], ![e].prev = Null]]

\* Entry e becomes the head of its chain in the table s.
Push(s, e) ==
  LET i == Slot(s.heap[e].key, s.tab)
      old == s.tab[i]
      linked == [s.heap EXCEPT ![e].next = old, ![e].prev = Null]
  IN  [tab  |-> [s.tab EXCEPT ![i] = e],
       heap |-> IF old = Null THEN linked ELSE [linked EXCEPT ![old].prev = e]]

\* zc_hashtable_rehash: every entry is pushed into a table of twice the size.
Rehashed ==
  LET all == Iteration(First)
      done[n \in DOMAIN all] ==
        IF n = 0
          THEN [tab |-> [i \in 0..2 * TabSize - 1 |-> Null], heap |-> heap]
          ELSE Push(done[n - 1], all[n - 1])
  IN  done[Cardinality(DOMAIN heap)]

Crowded == 10 * nelem > 13 * TabSize

Destroys(objects) == dels' = [o \in Objects |-> IF o \in objects THEN dels[o] + 1 ELSE dels[o]]

\* zc_hashtable_put: the entry stays, its key and value are replaced.
Replace(k, o) ==
  /\ Present(k)
  /\ Destroys({heap[Entry(k)].object})
  /\ heap' = [heap EXCEPT ![Entry(k)].object = o]
  /\ UNCHANGED <<tab, nelem>>

\* A new entry, in a table that may have been rehashed for it.  When calloc
\* fails for the entry the rehash is not undone.
Insert(k, o) ==
  LET s == IF Crowded THEN Rehashed ELSE [tab |-> tab, heap |-> heap]
      new == [key |-> k, object |-> o, next |-> Null, prev |-> Null]
      pushed == Push([s EXCEPT !.heap = [e \in DOMAIN @ \cup {o} |->
                                           IF e = o THEN new ELSE @[e]]], o)
  IN  /\ ~Present(k)
      /\ \/ /\ tab' = pushed.tab /\ heap' = pushed.heap
            /\ nelem' = nelem + 1
         \/ /\ tab' = s.tab /\ heap' = s.heap
            /\ UNCHANGED nelem
      /\ UNCHANGED dels

\* calloc fails in zc_hashtable_rehash.
RehashFails(k) ==
  /\ ~Present(k) /\ Crowded
  /\ UNCHANGED <<tab, heap, nelem, dels>>

PutKey(k) ==
  /\ cursor = Null
  /\ puts < MaxPuts
  /\ puts' = puts + 1
  /\ Replace(k, puts') \/ Insert(k, puts') \/ RehashFails(k)
  /\ UNCHANGED cursor

\* The entries whose pointers p is in are linked past it.
Unlink(p, h) ==
  [e \in DOMAIN h \ {p} |->
     [h[e] EXCEPT !.prev = IF e = h[p].next THEN h[p].prev ELSE @,
                  !.next = IF e = h[p].prev THEN h[p].next ELSE @]]

\* zc_hashtable_remove
RemoveKey(k) ==
  LET p == Entry(k)
      i == Slot(k, tab)
  IN  /\ cursor = Null
      /\ Present(k)
      /\ Destroys({heap[p].object})
      /\ heap' = Unlink(p, heap)
      /\ tab' = IF heap[p].prev = Null THEN [tab EXCEPT ![i] = heap[p].next] ELSE tab
      /\ nelem' = nelem - 1
      /\ UNCHANGED <<cursor, puts>>

\* zc_hashtable_clean, and zc_hashtable_del before it frees the table.
Clean ==
  /\ cursor = Null
  /\ Destroys({heap[e].object : e \in Ahead(First)})
  /\ heap' = [e \in {} |-> 0]
  /\ tab' = [i \in DOMAIN tab |-> Null]
  /\ nelem' = 0
  /\ UNCHANGED <<cursor, puts>>

\* zc_hashtable_foreach
Begin ==
  /\ cursor = Null
  /\ cursor' = First
  /\ UNCHANGED <<tab, heap, nelem, dels, puts>>

Advance ==
  /\ cursor # Null
  /\ cursor' = NextOf(cursor)
  /\ UNCHANGED <<tab, heap, nelem, dels, puts>>

NextTable ==
  \/ \E k \in Keys : PutKey(k) \/ RemoveKey(k)
  \/ Clean
  \/ Begin
  \/ Advance

SpecTable == InitTable /\ [][NextTable]_tableVars

-----------------------------------------------------------------------------
(* Properties                                                              *)

\* The variables have their types.
TableTypeOK ==
  /\ DOMAIN tab = 0..TabSize - 1
  /\ \A i \in DOMAIN tab : tab[i] \in DOMAIN heap \cup {Null}
  /\ \A e \in DOMAIN heap :
       /\ heap[e].key \in Keys
       /\ heap[e].object \in Objects
       /\ {heap[e].next, heap[e].prev} \subseteq DOMAIN heap \cup {Null}
  /\ nelem \in 0..MaxPuts /\ puts \in 0..MaxPuts
  /\ cursor \in DOMAIN heap \cup {Null}

\* The table is a map: get finds under a key what was put there last, an
\* object is destroyed once when it leaves and never while it is in, the
\* number of entries is right, and an iteration visits every key once.
KeysAhead == {heap[e].key : e \in Ahead(cursor)}
Contents == [k \in {j \in Keys : Present(j)} |-> heap[Entry(k)].object]
Destroyed == {o \in Objects : dels[o] = 1}

M == INSTANCE Map WITH
  map <- Contents,
  count <- nelem,
  deleted <- Destroyed,
  todo <- KeysAhead

\* A step leaves the table alone, or is one of the map or one that the map does not see.
MapNext ==
  tableVars' = tableVars \/ [M!Next]_<<Contents, nelem, Destroyed, KeysAhead>>
ImplementsMap == M!Init /\ [][MapNext]_tableVars
=============================================================================
