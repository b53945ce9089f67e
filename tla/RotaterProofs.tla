---------------------------- MODULE RotaterProofs ----------------------------
(***************************************************************************)
(* Proofs about the rotation of a log file of zlog, for any threads,       *)
(* processes, archives and limit and any sequence of failures and crashes. *)
(* LockInv: one thread of all processes rotates at a time, and the locks   *)
(* are held exactly while one does.  TypeInv builds on it: the names a     *)
(* thread that rotates has read stay until it comes to them.  FileInv      *)
(* holds as long as every rotation found all archives: their numbers have  *)
(* at all times, also half way through a rotation and after one that       *)
(* failed, a shape from which the next one can go on without overwriting a *)
(* file.                                                                   *)
(***************************************************************************)
EXTENDS Rotater, SequenceLemmas, FiniteSetTheorems

LockTypes ==
  /\ mutex \in [Procs -> Threads \cup {Null}]
  /\ flock \in Procs \cup {Null}
  /\ pc \in [Threads -> Places]
  /\ kind \in {"roll", "seq"}

LockInv == LockTypes /\ LockExact

\* Initially nobody holds a lock.
LEMMA LockInit == Init => LockInv
BY RotaterAssumption
DEF Init, LockInv, LockTypes, LockExact, Rotating, Places

\* A step that keeps the locks and moves one thread, but neither into the
\* rotation nor out of it, preserves the invariant.
LEMMA SameSide ==
  ASSUME LockInv, NEW t \in Threads, NEW where \in Places, Goto(t, where),
         UNCHANGED lockVars, kind' \in {"roll", "seq"},
         t \in Rotating <=>
           where \in {"restat", "list", "roll", "seq", "unlock"}
  PROVE  LockInv'
<1>1. Rotating' = Rotating
  BY DEF Goto, LockInv, LockTypes, Rotating
<1>2. LockTypes'
  BY DEF Goto, LockInv, LockTypes, lockVars
<1> QED
  BY <1>1, <1>2 DEF LockInv, LockExact, lockVars

\* Every step preserves the invariant.
LEMMA LockStep == LockInv /\ [Next]_vars => LockInv'
<1> SUFFICES ASSUME LockInv, [Next]_vars PROVE LockInv'
  OBVIOUS
<1>0. LockTypes /\ LockExact
  BY DEF LockInv
<1>1. ASSUME NEW t \in Threads, Open(t) PROVE LockInv'
  <2>1. pc[t] = "idle" /\ (Goto(t, "write") \/ Goto(t, "done")) /\ UNCHANGED <<lockVars, kind>>
    BY <1>1, <1>0 DEF Open, Finish, Release, LockTypes
  <2> QED
    BY <2>1, <1>0, SameSide DEF Places, Rotating, LockTypes
<1>2. ASSUME NEW t \in Threads, Write(t) PROVE LockInv'
  <2>1. pc[t] = "write" /\ (Goto(t, "stat") \/ Goto(t, "done")) /\ UNCHANGED <<lockVars, kind>>
    BY <1>2, <1>0 DEF Write, Finish, Release, LockTypes
  <2> QED
    BY <2>1, <1>0, SameSide DEF Places, Rotating, LockTypes
<1>3. ASSUME NEW t \in Threads, Stat(t) PROVE LockInv'
  <2>1. pc[t] = "stat" /\ (Goto(t, "lock") \/ Goto(t, "done")) /\ UNCHANGED <<lockVars, kind>>
    BY <1>3, <1>0 DEF Stat, Finish, Release, LockTypes
  <2> QED
    BY <2>1, <1>0, SameSide DEF Places, Rotating, LockTypes
<1>4. ASSUME NEW t \in Threads, Return(t) PROVE LockInv'
  <2>1. pc[t] = "done" /\ (Goto(t, "idle")) /\ UNCHANGED <<lockVars, kind>>
    BY <1>4, <1>0 DEF Return, Finish, Release, LockTypes
  <2> QED
    BY <2>1, <1>0, SameSide DEF Places, Rotating, LockTypes
<1>6. ASSUME NEW t \in Threads, Restat(t) PROVE LockInv'
  <2>1. /\ pc[t] = "restat" /\ (Goto(t, "list") \/ Goto(t, "unlock"))
        /\ UNCHANGED <<lockVars, kind>>
    BY <1>6, <1>0 DEF Restat, Finish, Release, LockTypes
  <2> QED
    BY <2>1, <1>0, SameSide DEF Places, Rotating, LockTypes
<1>7. ASSUME NEW t \in Threads, List(t) PROVE LockInv'
  <2>1. /\ pc[t] = "list" /\ (Goto(t, "roll") \/ Goto(t, "seq") \/ Goto(t, "unlock"))
        /\ UNCHANGED <<lockVars, kind>>
    BY <1>7, <1>0 DEF List, Finish, Release, LockTypes
  <2> QED
    BY <2>1, <1>0, SameSide DEF Places, Rotating, LockTypes
<1>8. ASSUME NEW t \in Threads, MoveUp(t) PROVE LockInv'
  <2>1. pc[t] = "roll" /\ UNCHANGED <<lockVars, kind>>
    BY <1>8 DEF MoveUp
  <2>2. UNCHANGED pc \/ Goto(t, "unlock")
    BY <1>8 DEF MoveUp, Release
  <2>3. CASE UNCHANGED pc
    BY <2>1, <2>3, <1>0
    DEF LockInv, LockTypes, LockExact, Rotating, lockVars
  <2> QED
    BY <2>1, <2>2, <2>3, <1>0, SameSide DEF Places, Rotating, LockTypes
<1>9. ASSUME NEW t \in Threads, Expire(t) PROVE LockInv'
  <2>1. pc[t] = "seq" /\ UNCHANGED <<lockVars, kind>>
    BY <1>9 DEF Expire
  <2>2. UNCHANGED pc \/ Goto(t, "unlock")
    BY <1>9 DEF Expire, Release
  <2>3. CASE UNCHANGED pc
    BY <2>1, <2>3, <1>0
    DEF LockInv, LockTypes, LockExact, Rotating, lockVars
  <2> QED
    BY <2>1, <2>2, <2>3, <1>0, SameSide DEF Places, Rotating, LockTypes
<1>10. ASSUME NEW t \in Threads, MoveBase(t) PROVE LockInv'
  <2>1. pc[t] \in {"roll", "seq"} /\ UNCHANGED <<lockVars, kind>>
    BY <1>10 DEF MoveBase
  <2>2. UNCHANGED pc \/ Goto(t, "unlock")
    BY <1>10 DEF MoveBase, Release
  <2>3. CASE UNCHANGED pc
    BY <2>1, <2>3, <1>0
    DEF LockInv, LockTypes, LockExact, Rotating, lockVars
  <2> QED
    BY <2>1, <2>2, <2>3, <1>0, SameSide DEF Places, Rotating, LockTypes
<1>5. ASSUME NEW t \in Threads, TryLock(t) PROVE LockInv'
  <2>1. CASE mutex[ProcOf[t]] = Null /\ flock \in {Null, ProcOf[t]}
    <3>1. Rotating = {}
      BY <2>1, <1>0, RotaterAssumption DEF LockTypes, LockExact, Rotating
    <3>2. Goto(t, "restat") /\ flock' = ProcOf[t] /\ UNCHANGED kind
          /\ mutex' = [mutex EXCEPT ![ProcOf[t]] = t]
      BY <1>5, <2>1 DEF TryLock
    <3>3. Rotating' = {t}
      BY <3>1, <3>2, <1>0 DEF Goto, LockTypes, Rotating
    <3>4. \A p \in Procs : mutex[p] = Null
      BY <3>1, <1>0 DEF LockExact
    <3>5. LockTypes'
      BY <3>2, <1>0, RotaterAssumption DEF Goto, LockTypes, Places
    <3>6. LockExact'
      BY <3>2, <3>3, <3>4, <1>0, RotaterAssumption DEF LockExact, LockTypes
    <3> QED
      BY <3>5, <3>6 DEF LockInv
  <2>2. CASE ~(mutex[ProcOf[t]] = Null /\ flock \in {Null, ProcOf[t]})
    <3>1. pc[t] = "lock" /\ Goto(t, "done") /\ UNCHANGED <<lockVars, kind>>
      BY <1>5, <2>2 DEF TryLock, Finish, lockVars
    <3> QED
      BY <3>1, <1>0, SameSide DEF Places, Rotating, LockTypes
  <2> QED
    BY <2>1, <2>2
<1>11. ASSUME NEW t \in Threads, Unlock(t) PROVE LockInv'
  <2>1. Goto(t, "done") /\ flock' = Null /\ UNCHANGED kind /\ t \in Rotating
        /\ mutex' = [mutex EXCEPT ![ProcOf[t]] = Null]
    BY <1>11 DEF Unlock, Rotating
  <2>2. Rotating' = {}
    BY <2>1, <1>0 DEF Goto, LockTypes, LockExact, Rotating
  <2>3. \A p \in Procs : mutex'[p] = Null
    BY <2>1, <1>0, RotaterAssumption DEF LockTypes, LockExact
  <2>4. LockTypes'
    BY <2>1, <1>0, RotaterAssumption DEF Goto, LockTypes, Places
  <2> QED
    BY <2>1, <2>2, <2>3, <2>4 DEF LockInv, LockExact
<1>12. ASSUME NEW p \in Procs, Crash(p) PROVE LockInv'
  <2>1. Rotating' = {t \in Rotating : ProcOf[t] # p}
    BY <1>12, <1>0 DEF Crash, LockTypes, Rotating
  <2>2. LockTypes'
    BY <1>12, <1>0, RotaterAssumption DEF Crash, LockTypes, Places, fileVars
  <2>3. /\ mutex' = [mutex EXCEPT ![p] = Null]
        /\ flock' = IF flock = p THEN Null ELSE flock
    BY <1>12 DEF Crash
  <2>4. LockExact'
    BY <2>1, <2>3, <1>0, RotaterAssumption DEF LockExact, LockTypes, Rotating
  <2> QED
    BY <2>2, <2>4 DEF LockInv
<1>13. CASE Reconfigure
  BY <1>13, <1>0, RotaterAssumption
  DEF Reconfigure, LockInv, LockTypes, LockExact, Rotating, lockVars
<1>14. CASE UNCHANGED vars
  BY <1>14, <1>0
  DEF vars, lockVars, LockInv, LockTypes, LockExact, Rotating
<1> QED
  BY <1>1, <1>2, <1>3, <1>4, <1>5, <1>6, <1>7, <1>8, <1>9, <1>10, <1>11, <1>12,
     <1>13, <1>14 DEF Next, Output, Rotate

\* One thread of all processes rotates at a time, and lock_mutex and the record
\* lock are held exactly while one does (zlog_rotater_trylock and unlock),
\* whatever fails and whichever process dies.
THEOREM OneRotates == Spec => []LockExact
<1>1. LockInv => LockExact
  BY DEF LockInv
<1> QED
  BY LockInit, LockStep, <1>1, PTL DEF Spec

-----------------------------------------------------------------------------
(* Types.  That the archive a rotation has come to is there under its name  *)
(* needs no order of the numbers, and holds of a list that lacks archives.  *)

\* How many numbers of a list are before one.
Rank(ns, n) == Cardinality({m \in ns : m < n})

\* Where the threads are in the files.
AtFiles ==
  \A t \in Threads :
    /\ pc[t] = "write" => fd[t] # Null
    /\ pc[t] \in {"list", "roll", "seq"} => base # Null
    /\ pc[t] \in {"roll", "seq"} => pc[t] = kind

\* Thread t still has to come to number n of its list.
Ahead(t, n) ==
  IF pc[t] = "roll" THEN Rank(files[t], n) <= pos[t] ELSE Rank(files[t], n) >= pos[t]

\* The archives that a thread has yet to move or to remove are there.
Listed ==
  /\ IsFiniteSet(DOMAIN arch)
  /\ \A t \in Threads :
       pc[t] \in {"roll", "seq"} =>
         /\ IsFiniteSet(files[t])
         /\ pc[t] = "roll" => pos[t] < Cardinality(files[t])
         /\ pc[t] = "seq" => pos[t] \in Nat
         /\ \A n \in files[t] : Ahead(t, n) => n \in DOMAIN arch

TypeInv == TypeOK /\ AtFiles /\ Listed

\* A list has a number at each of its positions: by induction over them.
LEMMA AtExists ==
  ASSUME NEW ns, IsFiniteSet(ns), ns \subseteq Nat,
         NEW i \in Nat, i < Cardinality(ns)
  PROVE  At(ns, i) \in ns /\ Rank(ns, At(ns, i)) = i
<1> DEFINE Has(n) == n < Cardinality(ns) => \E x \in ns : Rank(ns, x) = n
           S == {n \in Nat : Has(n)}
<1>0. Cardinality(ns) \in Nat
  BY FS_CardinalityType
<1>n. \A m \in ns : m \in Nat
  OBVIOUS
<1>1. ASSUME NEW x \in ns
      PROVE  /\ IsFiniteSet({m \in ns : m < x}) /\ x \notin {m \in ns : m < x}
             /\ IsFiniteSet({m \in ns : m <= x})
             /\ Cardinality({m \in ns : m <= x}) = Rank(ns, x) + 1
             /\ Rank(ns, x) \in Nat
  <2>1. {m \in ns : m < x} \subseteq ns /\ {m \in ns : m <= x} \subseteq ns
    OBVIOUS
  <2>2. IsFiniteSet({m \in ns : m < x}) /\ IsFiniteSet({m \in ns : m <= x})
    BY <2>1, FS_Subset
  <2>3. x \in Nat /\ x \notin {m \in ns : m < x}
    OBVIOUS
  <2>4. {m \in ns : m <= x} = {m \in ns : m < x} \cup {x}
    <3>1. \A m \in ns : m <= x <=> (m < x \/ m = x)
      BY <1>n, <2>3
    <3> QED
      BY <1>1, <3>1, Zenon
  <2>5. Cardinality({m \in ns : m < x} \cup {x}) = Cardinality({m \in ns : m < x}) + 1
    BY <2>2, <2>3, FS_AddElement
  <2>6. Cardinality({m \in ns : m < x}) \in Nat
    BY <2>2, FS_CardinalityType
  <2> QED
    BY <2>2, <2>3, <2>4, <2>5, <2>6 DEF Rank
<1>2. 0 \in S
  <2>1. CASE ns = {}
    <3>1. Cardinality(ns) = 0
      BY <2>1, FS_EmptySet
    <3> QED
      BY <3>1
  <2>2. CASE ns # {}
    <3>1. PICK x \in ns : \A m \in ns : x <= m
      BY <2>2, Least
    <3>2. {m \in ns : m < x} = {}
      <4>1. \A m \in ns : ~(m < x)
        BY <1>n, <3>1
      <4> QED
        BY <4>1, Zenon
    <3>3. Rank(ns, x) = 0
      BY <3>2, FS_EmptySet DEF Rank
    <3> QED
      BY <3>3
  <2> QED
    BY <2>1, <2>2
<1>3. ASSUME NEW n \in Nat, n \in S PROVE n + 1 \in S
  <2> SUFFICES ASSUME n + 1 < Cardinality(ns)
               PROVE  \E y \in ns : Rank(ns, y) = n + 1
    OBVIOUS
  <2>1. PICK x \in ns : Rank(ns, x) = n
    BY <1>0, <1>3
  <2>2. PICK above : above = {m \in ns : x < m}
    OBVIOUS
  <2>3. above \subseteq Nat /\ above # {}
    <3>1. ASSUME above = {} PROVE FALSE
      <4>1. {m \in ns : m <= x} = ns
        <5>1. \A m \in ns : ~(x < m)
          BY <2>2, <3>1, Zenon
        <5>2. \A m \in ns : m <= x
          BY <1>n, <5>1
        <5> QED
          BY <5>2, Zenon
      <4>2. Cardinality(ns) = n + 1
        BY <1>1, <2>1, <4>1
      <4> QED
        BY <1>0, <4>2
    <3> QED
      BY <2>2, <3>1
  <2>4. PICK y \in above : \A m \in above : y <= m
    BY <2>3, Least
  <2>5. {m \in ns : m < y} = {m \in ns : m <= x}
    <3>1. \A m \in ns : x < m => y <= m
      BY <2>2, <2>4, Zenon
    <3>2. y \in ns /\ x < y
      BY <2>2
    <3>3. \A m \in ns : m < y <=> m <= x
      BY <1>n, <3>1, <3>2
    <3> QED
      BY <3>3, Zenon
  <2>6. y \in ns /\ Rank(ns, y) = n + 1
    BY <1>1, <2>1, <2>2, <2>5 DEF Rank
  <2> QED
    BY <2>6
<1> HIDE DEF S
<1>4. Nat \subseteq S
  BY <1>2, <1>3, Inductive
<1>5. \E x \in ns : Rank(ns, x) = i
  BY <1>4 DEF S
<1>6. At(ns, i) = CHOOSE x \in ns : Rank(ns, x) = i
  BY DEF At, Rank
<1> QED
  BY <1>5, <1>6

\* The thread that rotates is alone.
LEMMA RotatesAlone ==
  ASSUME LockInv, NEW t \in Threads, t \in Rotating
  PROVE  \A u \in Threads : u # t => pc[u] \notin {"list", "roll", "seq"}
BY DEF LockInv, LockExact, Rotating

\* Archives stay, and no thread starts to go through them or moves on.
LEMMA ListedStays ==
  ASSUME TypeInv, UNCHANGED arch,
         \A u \in Threads : pc'[u] \in {"roll", "seq"} =>
           pc'[u] = pc[u] /\ files'[u] = files[u] /\ pos'[u] = pos[u]
  PROVE  Listed'
<1>1. IsFiniteSet(DOMAIN arch')
  BY DEF TypeInv, Listed
<1>2. ASSUME NEW u \in Threads, pc'[u] \in {"roll", "seq"}
      PROVE  /\ pc'[u] = pc[u] /\ files'[u] = files[u] /\ pos'[u] = pos[u]
             /\ \A n \in files[u] : Ahead(u, n)' <=> Ahead(u, n)
  BY <1>2 DEF Ahead, Rank
<1> QED
  BY <1>1, <1>2 DEF TypeInv, Listed

\* A thread that rotates has all archives that it has yet to come to.
LEMMA ListTypes ==
  ASSUME LockInv, TypeInv, NEW t \in Threads, List(t)
  PROVE  Listed' /\ files'[t] \in SUBSET Nat /\ pos'[t] \in Nat \cup {-1}
<1>1. /\ files \in [Threads -> SUBSET Nat] /\ pos \in [Threads -> Nat \cup {-1}]
      /\ pc \in [Threads -> Places] /\ kind \in {"roll", "seq"}
      /\ DOMAIN arch \subseteq Nat /\ IsFiniteSet(DOMAIN arch)
  BY RotaterAssumption DEF TypeInv, TypeOK, Listed, LockInv, LockTypes
<1>2. \A u \in Threads : u # t => pc[u] \notin {"roll", "seq"}
  BY RotatesAlone DEF List, Rotating
<1>3. CASE UNCHANGED <<arch, files, pos>> /\ Goto(t, "unlock")
  <2>1. Listed'
    BY <1>1, <1>2, <1>3, ListedStays DEF Goto
  <2> QED
    BY <1>1, <1>3, <2>1
<1>4. ASSUME NEW found \in SUBSET DOMAIN arch,
             UNCHANGED arch,
             files' = [files EXCEPT ![t] = found],
             pos' = [pos EXCEPT ![t] = IF kind = "roll" THEN Cardinality(found) - 1 ELSE 0],
             Goto(t, kind)
      PROVE  Listed' /\ files'[t] \in SUBSET Nat /\ pos'[t] \in Nat \cup {-1}
  <2>1. IsFiniteSet(found) /\ Cardinality(found) \in Nat
    BY <1>1, FS_Subset, FS_CardinalityType
  <2>2. /\ files'[t] = found /\ pc'[t] = kind
        /\ pos'[t] = IF kind = "roll" THEN Cardinality(found) - 1 ELSE 0
        /\ \A u \in Threads : pc'[u] \in {"roll", "seq"} => u = t
    BY <1>1, <1>2, <1>4 DEF Goto
  <2>3. found \subseteq DOMAIN arch'
    BY <1>4
  <2>4. /\ kind = "roll" => pos'[t] < Cardinality(found)
        /\ kind = "seq" => pos'[t] \in Nat
        /\ pos'[t] \in Nat \cup {-1}
    BY <1>1, <2>1, <2>2
  <2>5. Listed'
    BY <1>1, <1>4, <2>1, <2>2, <2>3, <2>4 DEF Listed
  <2> QED
    BY <1>1, <2>2, <2>4, <2>5
<1> QED
  BY <1>3, <1>4 DEF List, Release, fileVars

\* MoveUp takes an archive that is there, and leaves those before it.
LEMMA RollTypes ==
  ASSUME LockInv, TypeInv, NEW t \in Threads, MoveUp(t)
  PROVE  /\ Listed' /\ pos'[t] \in Nat \cup {-1}
         /\ DOMAIN arch' \subseteq Nat /\ Stored' \subseteq Created
         /\ removed' \subseteq Created
<1>p. PICK p : p = pos[t]
  OBVIOUS
<1>n. PICK n : n = At(files[t], p)
  OBVIOUS
<1>1. /\ files \in [Threads -> SUBSET Nat] /\ pos \in [Threads -> Nat \cup {-1}]
      /\ pc \in [Threads -> Places] /\ IsFiniteSet(DOMAIN arch)
      /\ DOMAIN arch \subseteq Nat /\ Stored \subseteq Created /\ removed \subseteq Created
  BY DEF TypeInv, TypeOK, Listed
<1>2. \A u \in Threads : u # t => pc[u] \notin {"roll", "seq"}
  BY RotatesAlone DEF MoveUp, Rotating
<1>3. pc[t] = "roll" /\ p \in Nat /\ UNCHANGED files
  BY <1>p, <1>1 DEF MoveUp
<1>4. /\ IsFiniteSet(files[t]) /\ files[t] \subseteq Nat /\ p < Cardinality(files[t])
      /\ \A x \in files[t] : Rank(files[t], x) <= p => x \in DOMAIN arch
  BY <1>p, <1>1, <1>3 DEF TypeInv, Listed, Ahead
<1>5. n \in files[t] /\ Rank(files[t], n) = p
  BY <1>n, <1>3, <1>4, AtExists
<1>6. n \in DOMAIN arch /\ arch[n] \in Stored
  BY <1>3, <1>4, <1>5 DEF Stored
<1>7. CASE UNCHANGED <<arch, removed, pos>> /\ Release(t, -1)
  <2>1. Listed'
    BY <1>1, <1>2, <1>3, <1>7, ListedStays DEF Release, Goto
  <2> QED
    BY <1>1, <1>7, <2>1 DEF Stored
<1>8. CASE /\ pos' = [pos EXCEPT ![t] = @ - 1] /\ UNCHANGED pc
           /\ Unlink(n) \/ (arch' = With(Without(n), p + 1, arch[n]) /\ UNCHANGED removed)
  <2>1. pos'[t] = p - 1 /\ pos'[t] \in Nat \cup {-1}
    BY <1>p, <1>1, <1>3, <1>8
  <2>2. /\ DOMAIN arch' \in {DOMAIN arch \ {n}, (DOMAIN arch \ {n}) \cup {p + 1}}
        /\ Stored' \subseteq Stored /\ removed' \subseteq removed \cup {arch[n]}
    <3>1. CASE Unlink(n)
      BY <3>1 DEF Unlink, Without, Stored
    <3>2. CASE arch' = With(Without(n), p + 1, arch[n]) /\ UNCHANGED removed
      <4>1. /\ DOMAIN arch' = (DOMAIN arch \ {n}) \cup {p + 1}
            /\ \A k \in DOMAIN arch' :
                 arch'[k] = arch[n] \/ (k \in DOMAIN arch /\ arch'[k] = arch[k])
        BY <3>2 DEF With, Without
      <4> QED
        BY <1>6, <3>2, <4>1 DEF Stored
    <3> QED
      BY <1>8, <3>1, <3>2
  <2>3. p + 1 \in Nat /\ p - 1 < p /\ p - 1 < Cardinality(files[t])
    BY <1>3, <1>4, FS_CardinalityType
  <2>4. DOMAIN arch' \subseteq Nat /\ IsFiniteSet(DOMAIN arch')
    <3>1. IsFiniteSet(DOMAIN arch \ {n})
      BY <1>1, FS_RemoveElement
    <3>2. IsFiniteSet((DOMAIN arch \ {n}) \cup {p + 1})
      BY <3>1, FS_AddElement
    <3> QED
      BY <1>1, <2>2, <2>3, <3>1, <3>2
  <2>5. ASSUME NEW x \in files[t], Rank(files[t], x) <= p - 1 PROVE x \in DOMAIN arch'
    <3>1. Rank(files[t], x) \in Nat
      <4>1. {m \in files[t] : m < x} \subseteq files[t]
        OBVIOUS
      <4> QED
        BY <1>4, <4>1, FS_Subset, FS_CardinalityType DEF Rank
    <3>2. Rank(files[t], x) <= p /\ x # n
      BY <1>3, <1>5, <2>5, <3>1
    <3> QED
      BY <1>4, <2>2, <3>2
  <2>6. \A u \in Threads : pc'[u] \in {"roll", "seq"} => u = t
    BY <1>2, <1>8
  <2>7. \A x \in files'[t] : Ahead(t, x)' => x \in DOMAIN arch'
    BY <1>3, <1>8, <2>1, <2>5 DEF Ahead, Rank
  <2>8. Listed'
    BY <1>3, <1>4, <1>8, <2>1, <2>3, <2>4, <2>6, <2>7 DEF Listed
  <2> QED
    BY <1>1, <1>6, <2>1, <2>2, <2>4, <2>8
<1> QED
  BY <1>p, <1>n, <1>7, <1>8 DEF MoveUp

\* Expire takes an archive that is there, and leaves those after it.
LEMMA SeqTypes ==
  ASSUME LockInv, TypeInv, NEW t \in Threads, Expire(t)
  PROVE  /\ Listed' /\ pos'[t] \in Nat \cup {-1}
         /\ DOMAIN arch' \subseteq Nat /\ Stored' \subseteq Created
         /\ removed' \subseteq Created
<1>p. PICK p : p = pos[t]
  OBVIOUS
<1>n. PICK n : n = At(files[t], p)
  OBVIOUS
<1>1. /\ files \in [Threads -> SUBSET Nat] /\ pos \in [Threads -> Nat \cup {-1}]
      /\ pc \in [Threads -> Places] /\ IsFiniteSet(DOMAIN arch)
      /\ DOMAIN arch \subseteq Nat /\ Stored \subseteq Created /\ removed \subseteq Created
  BY DEF TypeInv, TypeOK, Listed
<1>2. \A u \in Threads : u # t => pc[u] \notin {"roll", "seq"}
  BY RotatesAlone DEF Expire, Rotating
<1>3. pc[t] = "seq" /\ p < Cardinality(files[t]) /\ UNCHANGED files
  BY <1>p DEF Expire
<1>4. /\ IsFiniteSet(files[t]) /\ files[t] \subseteq Nat /\ p \in Nat
      /\ \A x \in files[t] : Rank(files[t], x) >= p => x \in DOMAIN arch
  BY <1>p, <1>1, <1>3 DEF TypeInv, Listed, Ahead
<1>5. n \in files[t] /\ Rank(files[t], n) = p
  BY <1>n, <1>3, <1>4, AtExists
<1>6. n \in DOMAIN arch /\ arch[n] \in Stored
  BY <1>4, <1>5 DEF Stored
<1>7. CASE UNCHANGED <<arch, removed, pos>> /\ Release(t, -1)
  <2>1. Listed'
    BY <1>1, <1>2, <1>3, <1>7, ListedStays DEF Release, Goto
  <2> QED
    BY <1>1, <1>7, <2>1 DEF Stored
<1>8. CASE /\ pos' = [pos EXCEPT ![t] = @ + 1] /\ UNCHANGED pc
           /\ Unlink(n) \/ UNCHANGED <<arch, removed>>
  <2>1. pos'[t] = p + 1 /\ pos'[t] \in Nat
    BY <1>p, <1>1, <1>4, <1>8
  <2>2. /\ DOMAIN arch' \in {DOMAIN arch \ {n}, DOMAIN arch}
        /\ Stored' \subseteq Stored /\ removed' \subseteq removed \cup {arch[n]}
    BY <1>6, <1>8 DEF Unlink, Without, Stored
  <2>3. DOMAIN arch' \subseteq Nat /\ IsFiniteSet(DOMAIN arch')
    BY <1>1, <2>2, FS_RemoveElement
  <2>4. ASSUME NEW x \in files[t], Rank(files[t], x) >= p + 1 PROVE x \in DOMAIN arch'
    <3>1. Rank(files[t], x) \in Nat
      <4>1. {m \in files[t] : m < x} \subseteq files[t]
        OBVIOUS
      <4> QED
        BY <1>4, <4>1, FS_Subset, FS_CardinalityType DEF Rank
    <3>2. Rank(files[t], x) >= p /\ x # n
      BY <1>4, <1>5, <2>4, <3>1
    <3> QED
      BY <1>4, <2>2, <3>2
  <2>5. \A u \in Threads : pc'[u] \in {"roll", "seq"} => u = t
    BY <1>2, <1>8
  <2>6. \A x \in files'[t] : Ahead(t, x)' => x \in DOMAIN arch'
    BY <1>3, <1>8, <2>1, <2>4 DEF Ahead, Rank
  <2>7. Listed'
    BY <1>3, <1>4, <1>8, <2>1, <2>3, <2>5, <2>6 DEF Listed
  <2> QED
    BY <1>1, <1>6, <2>1, <2>2, <2>3, <2>7
<1> QED
  BY <1>p, <1>n, <1>7, <1>8 DEF Expire

\* MoveBase gives the log file a number.
LEMMA BaseTypes ==
  ASSUME LockInv, TypeInv, NEW t \in Threads, MoveBase(t)
  PROVE  /\ Listed' /\ DOMAIN arch' \subseteq Nat /\ Stored' \subseteq Created
         /\ base' \in Created \cup {Null}
<1>1. /\ pc \in [Threads -> Places] /\ IsFiniteSet(DOMAIN arch)
      /\ DOMAIN arch \subseteq Nat /\ Stored \subseteq Created
      /\ base \in Created \cup {Null} /\ files[t] \subseteq Nat
  BY DEF TypeInv, TypeOK, Listed
<1>2. /\ \A u \in Threads : u # t => pc[u] \notin {"roll", "seq"}
      /\ pc[t] \in {"roll", "seq"} /\ UNCHANGED <<files, pos>> /\ base # Null
      /\ Release(t, 0) \/ Release(t, -1)
  BY RotatesAlone DEF MoveBase, Rotating, TypeInv, AtFiles
<1>3. \A u \in Threads : pc'[u] \notin {"roll", "seq"}
  BY <1>1, <1>2 DEF Release, Goto
<1>4. CASE UNCHANGED <<arch, base>>
  <2>1. Listed'
    BY <1>3, <1>4, ListedStays
  <2> QED
    BY <1>1, <1>4, <2>1 DEF Stored
<1>5. NextNumber(files[t]) \in Nat
  <2>1. CASE files[t] = {}
    BY <2>1 DEF NextNumber
  <2>2. CASE files[t] # {}
    <3>1. IsFiniteSet(files[t])
      BY <1>2 DEF TypeInv, Listed
    <3>2. Cardinality(files[t]) \in Nat /\ Cardinality(files[t]) # 0
      BY <2>2, <3>1, FS_CardinalityType, FS_EmptySet
    <3>3. Cardinality(files[t]) - 1 \in Nat
          /\ Cardinality(files[t]) - 1 < Cardinality(files[t])
      BY <3>2
    <3>4. At(files[t], Cardinality(files[t]) - 1) \in Nat
      BY <1>1, <3>1, <3>3, AtExists
    <3> QED
      BY <2>2, <3>3, <3>4 DEF NextNumber
  <2> QED
    BY <2>1, <2>2
<1>6. CASE base' = Null /\ \E n \in Nat : arch' = With(arch, n, base)
  <2>1. PICK n \in Nat : arch' = With(arch, n, base)
    BY <1>6
  <2>2. DOMAIN arch' = DOMAIN arch \cup {n} /\ Stored' \subseteq Stored \cup {base}
    BY <2>1 DEF With, Stored
  <2>3. IsFiniteSet(DOMAIN arch')
    BY <1>1, <2>2, FS_AddElement
  <2>4. Listed'
    BY <1>3, <2>3 DEF Listed
  <2> QED
    BY <1>1, <1>2, <1>6, <2>2, <2>4
<1> QED
  BY <1>4, <1>5, <1>6 DEF MoveBase

LEMMA TypeInit == Init => TypeInv
<1> SUFFICES ASSUME Init PROVE TypeInv
  OBVIOUS
<1>1. DOMAIN arch = {} /\ Stored = {} /\ Created = {} /\ base = Null
  BY DEF Init, Stored, Created
<1>2. TypeOK
  <2>0. partial \in BOOLEAN
    BY Zenon DEF Init
  <2>1. size \in Seq(Nat) /\ kind \in Kinds /\ removed = {}
    BY DEF Init
  <2>2. mutex \in [Procs -> Threads \cup {Null}] /\ flock \in Procs \cup {Null}
    BY DEF Init
  <2>3. pc \in [Threads -> Places] /\ len \in [Threads -> Lens \cup {0}]
    BY DEF Init, Places
  <2>4. fd \in [Threads -> Created \cup {Null}] /\ files \in [Threads -> SUBSET Nat]
    BY DEF Init
  <2>5. pos \in [Threads -> Nat \cup {-1}] /\ ret \in [Threads -> {0, -1}]
    BY DEF Init
  <2> QED
    BY <1>1, <2>0, <2>1, <2>2, <2>3, <2>4, <2>5 DEF TypeOK
<1>3. AtFiles
  BY DEF Init, AtFiles
<1>4. Listed
  BY <1>1, FS_EmptySet DEF Init, Listed
<1> QED
  BY <1>2, <1>3, <1>4 DEF TypeInv

\* Every step keeps the types.
LEMMA TypeStep ==
  ASSUME LockInv, TypeInv, [Next]_vars PROVE TypeInv'
<1>0. TypeOK /\ AtFiles /\ Listed
  BY DEF TypeInv
<1> USE DEF Places
<1>1. ASSUME NEW t \in Threads, Open(t) PROVE TypeInv'
  <2>1. /\ UNCHANGED <<arch, removed, kind, mutex, flock, files, pos, partial>>
        /\ len' \in [Threads -> Lens \cup {0}]
        /\ ret' \in [Threads -> {0, -1}]
        /\ pc' \in [Threads -> Places]
        /\ \A u \in Threads : u # t => pc'[u] = pc[u]
        /\ pc'[t] \in {"write", "done"}
    <3>1. /\ UNCHANGED <<arch, removed, kind, lockVars, files, pos, partial>>
          /\ \E l \in Lens : len' = [len EXCEPT ![t] = l]
          /\ ret' = ret \/ ret' = [ret EXCEPT ![t] = -1]
          /\ pc' = [pc EXCEPT ![t] = "write"] \/ pc' = [pc EXCEPT ![t] = "done"]
      BY <1>1 DEF Open, Finish, Goto
    <3>2. len' \in [Threads -> Lens \cup {0}]
      BY <1>0, <3>1 DEF TypeOK
    <3>3. ret' \in [Threads -> {0, -1}]
      BY <1>0, <3>1 DEF TypeOK
    <3> QED
      BY <1>0, <3>1, <3>2, <3>3 DEF TypeOK, lockVars
  <2>2. Listed'
    BY <2>1, ListedStays
  <2>3. CASE base = Null /\ size' = Append(size, 0) /\ base' = Len(size')
             /\ fd' = [fd EXCEPT ![t] = base']
    <3>1. size \in Seq(Nat)
      BY <1>0 DEF TypeOK
    <3>2. /\ Created \subseteq Created' /\ base' \in Created' /\ base' \in Nat
          /\ size' \in Seq(Nat) /\ Stored' = Stored
      BY <2>1, <2>3, <3>1 DEF Created, Stored
    <3>3. base' # Null
      BY <3>2, RotaterAssumption
    <3>4. TypeOK'
      BY <1>0, <2>1, <2>3, <3>2 DEF TypeOK
    <3>5. AtFiles'
      BY <1>0, <2>1, <2>3, <3>3 DEF AtFiles, TypeOK
    <3> QED
      BY <2>2, <3>4, <3>5 DEF TypeInv
  <2>4. CASE /\ UNCHANGED <<base, size>>
             /\ \/ fd' = [fd EXCEPT ![t] = base] /\ base # Null
                \/ UNCHANGED fd /\ pc'[t] = "done"
    <3>1. Created' = Created /\ Stored' = Stored
      BY <2>1, <2>4 DEF Created, Stored
    <3>2. TypeOK'
      BY <1>0, <2>1, <2>4, <3>1 DEF TypeOK
    <3>3. AtFiles'
      BY <1>0, <2>1, <2>4 DEF AtFiles, TypeOK
    <3> QED
      BY <2>2, <3>2, <3>3 DEF TypeInv
  <2> QED
    BY <1>0, <1>1, <2>3, <2>4 DEF Open, Finish, Goto, TypeOK
<1>2. ASSUME NEW t \in Threads, Write(t) PROVE TypeInv'
  <2>1. /\ UNCHANGED <<base, arch, removed, kind, mutex, flock, len, files, pos, partial>>
        /\ fd' = [fd EXCEPT ![t] = Null]
        /\ ret' \in [Threads -> {0, -1}]
        /\ pc' \in [Threads -> Places]
        /\ \A u \in Threads : u # t => pc'[u] = pc[u]
        /\ pc'[t] \in {"stat", "done"}
    BY <1>0, <1>2 DEF Write, Finish, Goto, TypeOK, lockVars, histVars
  <2>2. size' \in Seq(Nat) /\ Created' = Created
    <3>1. CASE UNCHANGED size
      BY <1>0, <3>1 DEF TypeOK, Created
    <3>2. CASE size' = [size EXCEPT ![fd[t]] = @ + len[t]]
      <4>1. fd[t] \in Created
        BY <1>0, <1>2 DEF Write, AtFiles, TypeOK
      <4>2. size[fd[t]] \in Nat
        BY <1>0, <4>1 DEF TypeOK, Created
      <4>3. len[t] \in Nat
        <5>1. len[t] \in Lens \cup {0}
          BY <1>0 DEF TypeOK
        <5>2. Lens \cup {0} \subseteq Nat
          BY RotaterAssumption
        <5> QED
          BY <5>1, <5>2
      <4> QED
        BY <1>0, <3>2, <4>1, <4>2, <4>3 DEF TypeOK, Created
    <3> QED
      BY <1>2, <3>1, <3>2 DEF Write
  <2>3. Stored' = Stored
    BY <2>1 DEF Stored
  <2>4. TypeOK'
    BY <1>0, <2>1, <2>2, <2>3 DEF TypeOK
  <2>5. AtFiles'
    BY <1>0, <2>1 DEF AtFiles, TypeOK
  <2>6. Listed'
    BY <2>1, ListedStays
  <2> QED
    BY <2>4, <2>5, <2>6 DEF TypeInv
<1>3. ASSUME NEW t \in Threads,
             Stat(t) \/ TryLock(t) \/ Restat(t) \/ Unlock(t) \/ Return(t)
      PROVE  TypeInv'
  <2>1. /\ UNCHANGED <<fileVars, kind, fd, partial>>
        /\ \A u \in Threads : u # t =>
             pc'[u] = pc[u] /\ files'[u] = files[u] /\ pos'[u] = pos[u]
        /\ pc'[t] \in {"idle", "lock", "restat", "list", "unlock", "done"}
        /\ pc'[t] = "list" => base # Null
    BY <1>0, <1>3
    DEF Stat, TryLock, Restat, Unlock, Return, Finish, Release, Goto, TypeOK, threadVars,
        histVars
  <2>2. /\ mutex' \in [Procs -> Threads \cup {Null}] /\ flock' \in Procs \cup {Null}
        /\ pc' \in [Threads -> Places] /\ len' \in [Threads -> Lens \cup {0}]
        /\ files' \in [Threads -> SUBSET Nat] /\ pos' \in [Threads -> Nat \cup {-1}]
        /\ ret' \in [Threads -> {0, -1}]
    <3>1. /\ lockVars' = lockVars
             \/ /\ mutex' = [mutex EXCEPT ![ProcOf[t]] = t] /\ flock' = ProcOf[t]
             \/ /\ mutex' = [mutex EXCEPT ![ProcOf[t]] = Null] /\ flock' = Null
          /\ len' = len \/ len' = [len EXCEPT ![t] = 0]
          /\ files' = files \/ files' = [files EXCEPT ![t] = {}]
          /\ pos' = pos \/ pos' = [pos EXCEPT ![t] = 0]
          /\ ret' = ret \/ \E r \in {0, -1} : ret' = [ret EXCEPT ![t] = r]
          /\ \E where \in Places : pc' = [pc EXCEPT ![t] = where]
      BY <1>3
      DEF Stat, TryLock, Restat, Unlock, Return, Finish, Release, Goto, threadVars
    <3>2. ProcOf[t] \in Procs
      BY RotaterAssumption
    <3>3. mutex' \in [Procs -> Threads \cup {Null}] /\ flock' \in Procs \cup {Null}
      <4>1. mutex \in [Procs -> Threads \cup {Null}] /\ flock \in Procs \cup {Null}
        BY <1>0 DEF TypeOK
      <4> QED
        BY <3>1, <3>2, <4>1 DEF lockVars
    <3>4. ret' \in [Threads -> {0, -1}]
      BY <1>0, <3>1 DEF TypeOK
    <3>5. len' \in [Threads -> Lens \cup {0}] /\ pos' \in [Threads -> Nat \cup {-1}]
      BY <1>0, <3>1 DEF TypeOK
    <3>6. files' \in [Threads -> SUBSET Nat] /\ pc' \in [Threads -> Places]
      <4>1. files \in [Threads -> SUBSET Nat] /\ pc \in [Threads -> Places]
        BY <1>0 DEF TypeOK
      <4> QED
        BY <3>1, <4>1
    <3> QED
      BY <3>3, <3>4, <3>5, <3>6
  <2>3. TypeOK'
    BY <1>0, <2>1, <2>2 DEF TypeOK, fileVars, Stored, Created
  <2>4. AtFiles'
    BY <1>0, <2>1 DEF AtFiles, fileVars
  <2>5. Listed'
    BY <2>1, ListedStays DEF fileVars
  <2> QED
    BY <2>3, <2>4, <2>5 DEF TypeInv
<1>4. ASSUME NEW t \in Threads, List(t) PROVE TypeInv'
  <2>1. Listed' /\ files'[t] \in SUBSET Nat /\ pos'[t] \in Nat \cup {-1}
    BY <1>4, ListTypes
  <2>2. /\ UNCHANGED <<base, arch, size, removed, kind, mutex, flock, len, fd>>
        /\ pc[t] = "list" /\ pc' \in {[pc EXCEPT ![t] = kind], [pc EXCEPT ![t] = "unlock"]}
        /\ files' = files \/ \E ns : files' = [files EXCEPT ![t] = ns]
        /\ pos' = pos \/ \E p : pos' = [pos EXCEPT ![t] = p]
        /\ ret' = ret \/ ret' = [ret EXCEPT ![t] = -1]
        /\ partial' = partial \/ partial' \in BOOLEAN
    BY <1>4 DEF List, Goto, Release, fileVars, lockVars
  <2>3. kind \in {"roll", "seq"}
    BY <1>0, RotaterAssumption DEF TypeOK
  <2>4. TypeOK'
    <3>1. files' \in [Threads -> SUBSET Nat] /\ pos' \in [Threads -> Nat \cup {-1}]
      BY <1>0, <2>1, <2>2 DEF TypeOK
    <3>2. pc' \in [Threads -> Places] /\ ret' \in [Threads -> {0, -1}] /\ partial' \in BOOLEAN
      BY <1>0, <2>2, <2>3 DEF TypeOK
    <3> QED
      BY <1>0, <2>2, <3>1, <3>2 DEF TypeOK, Stored, Created
  <2>5. AtFiles'
    BY <1>0, <2>2, <2>3 DEF AtFiles, TypeOK
  <2> QED
    BY <2>1, <2>4, <2>5 DEF TypeInv
<1>5. ASSUME NEW t \in Threads, MoveUp(t) \/ Expire(t) PROVE TypeInv'
  <2>1. /\ Listed' /\ pos'[t] \in Nat \cup {-1}
        /\ DOMAIN arch' \subseteq Nat /\ Stored' \subseteq Created
        /\ removed' \subseteq Created
    BY <1>5, RollTypes, SeqTypes
  <2>2. /\ UNCHANGED <<base, size, kind, mutex, flock, len, fd, files, partial>>
        /\ pos' = pos \/ \E p : pos' = [pos EXCEPT ![t] = p]
        /\ ret' \in [Threads -> {0, -1}]
        /\ pc' = pc \/ pc' = [pc EXCEPT ![t] = "unlock"]
    BY <1>0, <1>5 DEF MoveUp, Expire, Release, Goto, TypeOK, lockVars, histVars
  <2>3. TypeOK'
    BY <1>0, <2>1, <2>2 DEF TypeOK, Created
  <2>4. AtFiles'
    BY <1>0, <2>2 DEF AtFiles, TypeOK
  <2> QED
    BY <2>1, <2>3, <2>4 DEF TypeInv
<1>6. ASSUME NEW t \in Threads, MoveBase(t) PROVE TypeInv'
  <2>1. /\ Listed' /\ DOMAIN arch' \subseteq Nat /\ Stored' \subseteq Created
        /\ base' \in Created \cup {Null}
    BY <1>6, BaseTypes
  <2>2. /\ UNCHANGED <<size, removed, kind, mutex, flock, len, fd, files, pos, partial>>
        /\ ret' \in [Threads -> {0, -1}]
        /\ pc' = [pc EXCEPT ![t] = "unlock"]
    BY <1>0, <1>6 DEF MoveBase, Release, Goto, TypeOK, lockVars, histVars
  <2>3. TypeOK'
    BY <1>0, <2>1, <2>2 DEF TypeOK, Created
  <2>4. \A u \in Threads : u # t => pc[u] \notin {"list", "roll", "seq"}
    BY <1>6, RotatesAlone DEF MoveBase, Rotating
  <2>5. AtFiles'
    BY <1>0, <2>2, <2>4 DEF AtFiles, TypeOK
  <2> QED
    BY <2>1, <2>3, <2>5 DEF TypeInv
<1>7. ASSUME NEW p \in Procs, Crash(p) PROVE TypeInv'
  <2>1. /\ UNCHANGED <<fileVars, kind>>
        /\ \A u \in Threads : pc'[u] # "idle" =>
             pc'[u] = pc[u] /\ files'[u] = files[u] /\ pos'[u] = pos[u] /\ fd'[u] = fd[u]
    BY <1>7 DEF Crash
  <2>2. TypeOK'
    BY <1>0, <1>7, RotaterAssumption DEF Crash, TypeOK, fileVars, Stored, Created
  <2>3. AtFiles'
    BY <1>0, <2>1 DEF AtFiles, fileVars
  <2>4. Listed'
    BY <2>1, ListedStays DEF fileVars
  <2> QED
    BY <2>2, <2>3, <2>4 DEF TypeInv
<1>8. CASE Reconfigure
  <2>1. /\ UNCHANGED <<base, arch, size, removed, partial>>
        /\ kind' \in Kinds /\ \A t \in Threads : pc'[t] = "idle"
    BY <1>8 DEF Reconfigure, fileVars, histVars
  <2>2. TypeOK'
    BY <1>0, <1>8, <2>1 DEF Reconfigure, TypeOK, lockVars, threadVars, Stored, Created
  <2>3. AtFiles'
    BY <2>1 DEF AtFiles
  <2>4. Listed'
    BY <2>1, ListedStays
  <2> QED
    BY <2>2, <2>3, <2>4 DEF TypeInv
<1>9. CASE UNCHANGED vars
  <2>1. UNCHANGED <<fileVars, kind, lockVars, pc, threadVars, partial>>
    BY <1>9 DEF vars, histVars
  <2>2. TypeOK' /\ AtFiles'
    BY <1>0, <2>1 DEF TypeOK, AtFiles, fileVars, lockVars, threadVars, Stored, Created
  <2>3. Listed'
    BY <2>1, ListedStays DEF threadVars, fileVars
  <2> QED
    BY <2>2, <2>3 DEF TypeInv
<1> QED
  BY <1>1, <1>2, <1>3, <1>4, <1>5, <1>6, <1>7, <1>8, <1>9 DEF Next, Output, Rotate

LEMMA TypesInvariant == Spec => [](LockInv /\ TypeInv)
<1>1. Init => LockInv /\ TypeInv
  BY LockInit, TypeInit
<1>2. LockInv /\ TypeInv /\ [Next]_vars => (LockInv /\ TypeInv)'
  BY LockStep, TypeStep
<1> QED
  BY <1>1, <1>2, PTL DEF Spec

\* The variables have their types, the positions of a rotation and the files
\* among them: a name that a rotation has read from the directory is still there
\* when it comes to it, also in a list that lacks archives and when the way of
\* numbering changes.
THEOREM TypeCorrect == Spec => []TypeOK
<1>1. TypeInv => TypeOK
  BY DEF TypeInv
<1> QED
  BY <1>1, TypesInvariant, PTL

-----------------------------------------------------------------------------
(* The numbers of the archives.  Rolled archives have the numbers from 0    *)
(* without one at most, a hole that moves down as a rotation moves archives *)
(* up; a sequence has no hole.                                              *)

Holed(k, g) == (0..k) \ {g}

Lesser(a, b) == IF a < b THEN a ELSE b

\* Thread t has come to position pos[t] of the numbers it found, which were
\* 0..m without h: all above is moved or gone.
Rolling(t, k, g) ==
  \E m, h \in Nat :
    /\ h <= m
    /\ files[t] = Holed(m, h)
    /\ pos[t] \in -1..m - 1
    /\ g = Lesser(h, pos[t] + 1)
    /\ k \in pos[t] + 1..m
    /\ MaxCount > 0 => IF pos[t] >= MaxCount - 1 THEN k = pos[t] + 1 ELSE k <= MaxCount - 1

RollShape ==
  \E k, g \in Nat :
    /\ g <= k
    /\ DOMAIN arch = Holed(k, g)
    /\ MaxCount > 0 => k <= MaxCount
    /\ \A t \in Threads : pc[t] = "roll" => Rolling(t, k, g)

\* How many of a sequence of n archives are more than the limit.
Excess(n) == IF MaxCount > 0 /\ n > MaxCount THEN n - MaxCount ELSE 0

\* Thread t found first..hi and has removed what was more than the limit.
Expiring(t, lo, hi) ==
  \E first \in Nat :
    /\ first <= hi + 1
    /\ files[t] = first..hi
    /\ pos[t] \in 0..hi + 1 - first
    /\ lo = first + Lesser(pos[t], Excess(hi + 1 - first))

SeqShape ==
  \E lo \in Nat, hi \in Nat \cup {-1} :
    /\ lo <= hi + 1
    /\ DOMAIN arch = lo..hi
    /\ MaxCount > 0 => hi + 1 - lo <= MaxCount + 1
    /\ \A t \in Threads : pc[t] = "seq" => Expiring(t, lo, hi)

Shape == IF kind = "roll" THEN RollShape ELSE SeqShape

\* NoFileLost and NumbersTellAge, of files that no rotation has missed.
AllThere ==
  Created = removed \cup Stored \cup (IF base = Null THEN {} ELSE {base})

AgeOrder ==
  /\ \A i, j \in DOMAIN arch :
       i < j => IF kind = "roll" THEN arch[i] > arch[j] ELSE arch[i] < arch[j]
  /\ base # Null => \A f \in Stored : f < base

OldestGone == \A f \in removed, g \in Created \ removed : f < g

FileInv == TypeOK /\ AtFiles /\ Shape /\ AllThere /\ AgeOrder /\ OldestGone

LEMMA HoledCount ==
  ASSUME NEW k \in Nat, NEW g \in 0..k
  PROVE  Cardinality(Holed(k, g)) = k
<1>1. IsFiniteSet(0..k) /\ Cardinality(0..k) = k + 1
  BY FS_Interval
<1>2. Cardinality((0..k) \ {g}) = Cardinality(0..k) - 1
  BY <1>1, FS_RemoveElement
<1> QED
  BY <1>1, <1>2 DEF Holed

LEMMA HoledBelow ==
  ASSUME NEW k \in Nat, NEW g \in 0..k, NEW n \in Holed(k, g)
  PROVE  Cardinality({m \in Holed(k, g) : m < n}) = IF n < g THEN n ELSE n - 1
<1>1. n \in 0..k /\ n # g /\ n - 1 \in Int
  BY DEF Holed
<1>2. IsFiniteSet(0..n - 1) /\ Cardinality(0..n - 1) = n
  <2>1. 0 \in Int /\ n - 1 \in Int /\ n \in Nat
    BY <1>1
  <2>2. /\ IsFiniteSet(0..n - 1)
        /\ Cardinality(0..n - 1) = IF 0 > n - 1 THEN 0 ELSE n - 1 - 0 + 1
    BY <2>1, FS_Interval, Zenon
  <2> QED
    BY <2>1, <2>2
<1>3. CASE n < g
  <2>1. {m \in Holed(k, g) : m < n} = 0..n - 1
    BY <1>1, <1>3 DEF Holed
  <2> QED
    BY <1>2, <1>3, <2>1
<1>4. CASE n > g
  <2>1. {m \in Holed(k, g) : m < n} = (0..n - 1) \ {g} /\ g \in 0..n - 1
    BY <1>1, <1>4 DEF Holed
  <2>2. Cardinality((0..n - 1) \ {g}) = Cardinality(0..n - 1) - 1
    BY <1>2, <2>1, FS_RemoveElement
  <2> QED
    <3>1. Cardinality({m \in Holed(k, g) : m < n}) = Cardinality(0..n - 1) - 1
      BY <2>1, <2>2, Zenon
    <3>2. ~(n < g)
      BY <1>1, <1>4
    <3>3. Cardinality({m \in Holed(k, g) : m < n}) = n - 1
      BY <1>2, <3>1, Zenon
    <3> QED
      BY <3>2, <3>3, Zenon
<1> QED
  BY <1>1, <1>3, <1>4

\* The number at a position.
LEMMA HoledAt ==
  ASSUME NEW k \in Nat, NEW g \in 0..k, NEW i \in 0..k - 1
  PROVE  /\ At(Holed(k, g), i) = IF i < g THEN i ELSE i + 1
         /\ At(Holed(k, g), i) \in Holed(k, g)
<1> DEFINE n == IF i < g THEN i ELSE i + 1
           Below(x) == Cardinality({m \in Holed(k, g) : m < x})
<1>1. n \in Holed(k, g)
  BY DEF Holed
<1>2. \A x \in Holed(k, g) : Below(x) = IF x < g THEN x ELSE x - 1
  BY HoledBelow
<1>3. Below(n) = i
  BY <1>1, <1>2
<1>4. ASSUME NEW x \in Holed(k, g), Below(x) = i
      PROVE  x = n
  <2>1. x \in 0..k /\ x # g
    BY DEF Holed
  <2>2. i = IF x < g THEN x ELSE x - 1
    BY <1>2, <1>4
  <2> QED
    BY <2>1, <2>2
<1>5. At(Holed(k, g), i) = CHOOSE x \in Holed(k, g) : Below(x) = i
  BY DEF At
<1> HIDE DEF n, Below
<1>6. At(Holed(k, g), i) = n
  BY <1>1, <1>3, <1>4, <1>5
<1> QED
  BY <1>1, <1>6 DEF n

LEMMA RunCount ==
  ASSUME NEW lo \in Nat, NEW hi \in Nat \cup {-1}, lo <= hi + 1
  PROVE  Cardinality(lo..hi) = hi + 1 - lo
BY FS_Interval

LEMMA RunAt ==
  ASSUME NEW lo \in Nat, NEW hi \in Nat \cup {-1}, NEW i \in 0..hi - lo
  PROVE  At(lo..hi, i) = lo + i
<1> DEFINE Below(x) == Cardinality({m \in lo..hi : m < x})
<1>1. \A x \in lo..hi : Below(x) = x - lo
  <2> TAKE x \in lo..hi
  <2>1. {m \in lo..hi : m < x} = lo..x - 1
    OBVIOUS
  <2>2. lo \in Int /\ x - 1 \in Int /\ x >= lo
    OBVIOUS
  <2>3. Cardinality(lo..x - 1) = IF lo > x - 1 THEN 0 ELSE x - 1 - lo + 1
    BY <2>2, FS_Interval, Zenon
  <2>4. Cardinality(lo..x - 1) = x - lo
    BY <2>2, <2>3
  <2> QED
    BY <2>1, <2>4, Zenon
<1>2. lo + i \in lo..hi
  OBVIOUS
<1>3. Below(lo + i) = i
  BY <1>1, <1>2
<1>4. \A x \in lo..hi : Below(x) = i => x = lo + i
  BY <1>1
<1>5. At(lo..hi, i) = CHOOSE x \in lo..hi : Below(x) = i
  BY DEF At
<1> HIDE DEF Below
<1> QED
  BY <1>2, <1>3, <1>4, <1>5

\* The number for the log file is the one after the run.
LEMMA RunNext ==
  ASSUME NEW lo \in Nat, NEW hi \in Nat \cup {-1}, lo <= hi + 1
  PROVE  NextNumber(lo..hi) = IF lo = hi + 1 THEN 0 ELSE hi + 1
<1>1. CASE lo = hi + 1
  BY <1>1 DEF NextNumber
<1>2. CASE lo <= hi
  <2>1. lo..hi # {}
    BY <1>2
  <2>3. Cardinality(lo..hi) = hi + 1 - lo
    BY RunCount
  <2>2. At(lo..hi, Cardinality(lo..hi) - 1) = hi
    BY <1>2, <2>3, RunAt
  <2> QED
    BY <1>2, <2>1, <2>2, <2>3 DEF NextNumber
<1> QED
  BY <1>1, <1>2

-----------------------------------------------------------------------------
(* What a step does to the files.                                          *)

\* The files and their names stay as they are.
LEMMA SameFiles ==
  ASSUME FileInv, UNCHANGED <<base, arch, removed>>, Created' = Created,
         kind' = kind \/ DOMAIN arch = {}
  PROVE  AllThere' /\ AgeOrder' /\ OldestGone'
BY DEF FileInv, AllThere, AgeOrder, OldestGone, Stored

\* fopen makes a file, the newest.
LEMMA NewFile ==
  ASSUME FileInv, base = Null, size' = Append(size, 0), base' = Len(size'),
         UNCHANGED <<arch, removed, kind>>
  PROVE  /\ Created' = Created \cup {base'} /\ base' \in Nat /\ base' \notin Created
         /\ size' \in Seq(Nat)
         /\ AllThere' /\ AgeOrder' /\ OldestGone'
<1>1. size \in Seq(Nat) /\ Stored \subseteq Created /\ removed \subseteq Created
  BY DEF FileInv, TypeOK
<1>2. /\ Created = 1..Len(size) /\ Created' = 1..Len(size) + 1
      /\ base' = Len(size) + 1 /\ Len(size) \in Nat /\ size' \in Seq(Nat)
  BY <1>1 DEF Created
<1>3. Stored' = Stored /\ base' # Null
  BY <1>2, RotaterAssumption DEF Stored
<1>4. Created = removed \cup Stored
  BY DEF FileInv, AllThere
<1>5. AllThere'
  BY <1>2, <1>3, <1>4 DEF AllThere
<1>6. AgeOrder'
  BY <1>1, <1>2, <1>3 DEF FileInv, AgeOrder
<1>7. OldestGone'
  BY <1>1, <1>2 DEF FileInv, OldestGone
<1> QED
  BY <1>2, <1>5, <1>6, <1>7

\* A rename to the number after, which is free, or to the number it has.
LEMMA Renumbered ==
  ASSUME FileInv, NEW n \in DOMAIN arch, NEW q \in Nat, kind = "roll",
         n = q \/ (q = n + 1 /\ q \notin DOMAIN arch),
         arch' = With(Without(n), q, arch[n]),
         UNCHANGED <<base, size, removed, kind>>
  PROVE  /\ DOMAIN arch' = (DOMAIN arch \ {n}) \cup {q}
         /\ Stored' = Stored
         /\ AllThere' /\ AgeOrder' /\ OldestGone'
<1> DEFINE from == [i \in DOMAIN arch' |-> IF i = q THEN n ELSE i]
<1>1. DOMAIN arch' = (DOMAIN arch \ {n}) \cup {q}
  BY DEF With, Without
<1>2. \A i \in DOMAIN arch' : from[i] \in DOMAIN arch /\ arch'[i] = arch[from[i]]
  BY <1>1 DEF With, Without
<1>3. \A i \in DOMAIN arch : \E j \in DOMAIN arch' : from[j] = i
  BY <1>1
<1>4. \A i, j \in DOMAIN arch' : i < j => from[i] < from[j]
  <2>1. DOMAIN arch \subseteq Nat
    BY DEF FileInv, TypeOK
  <2> SUFFICES ASSUME NEW i \in DOMAIN arch', NEW j \in DOMAIN arch', i < j
               PROVE  from[i] < from[j]
    OBVIOUS
  <2>2. i \in Nat /\ j \in Nat /\ n \in Nat
    BY <1>1, <2>1
  <2>3. CASE n = q
    <3>1. from[i] = i /\ from[j] = j
      BY <2>3
    <3> QED
      BY <3>1
  <2>4. CASE q = n + 1 /\ i = q
    <3>1. from[i] = n /\ from[j] = j
      BY <2>2, <2>4
    <3> QED
      BY <2>2, <2>4, <3>1
  <2>5. CASE q = n + 1 /\ j = q
    <3>1. from[i] = i /\ from[j] = n /\ i # n
      BY <1>1, <2>2, <2>5
    <3> QED
      BY <2>2, <2>5, <3>1
  <2>6. CASE q = n + 1 /\ i # q /\ j # q
    <3>1. from[i] = i /\ from[j] = j
      BY <2>6
    <3> QED
      BY <3>1
  <2> QED
    BY <2>3, <2>4, <2>5, <2>6
<1> HIDE DEF from
<1>5. Stored' = Stored
  BY <1>2, <1>3 DEF Stored
<1>6. AllThere' /\ OldestGone'
  BY <1>5 DEF FileInv, AllThere, OldestGone, Created
<1>7. AgeOrder'
  BY <1>2, <1>4, <1>5 DEF FileInv, AgeOrder
<1> QED
  BY <1>1, <1>5, <1>6, <1>7

\* The oldest archive is removed.
LEMMA Unlinked ==
  ASSUME FileInv, NEW n \in DOMAIN arch, Unlink(n), base # Null,
         \A i \in DOMAIN arch : i # n => arch[n] < arch[i],
         UNCHANGED <<base, size, kind>>
  PROVE  /\ DOMAIN arch' = DOMAIN arch \ {n}
         /\ Stored' \subseteq Stored /\ removed' \subseteq Created
         /\ AllThere' /\ AgeOrder' /\ OldestGone'
<1>1. /\ DOMAIN arch' = DOMAIN arch \ {n}
      /\ \A i \in DOMAIN arch' : arch'[i] = arch[i]
      /\ removed' = removed \cup {arch[n]}
  BY DEF Unlink, Without
<1>2. arch[n] \in Stored /\ Stored \subseteq Created /\ removed \subseteq Created
  BY DEF FileInv, TypeOK, Stored
<1>3. Stored \subseteq Stored' \cup {arch[n]} /\ Stored' \subseteq Stored
  BY <1>1 DEF Stored
<1>4. Created' = Created
  BY DEF Created
<1>5. AllThere'
  BY <1>1, <1>2, <1>3, <1>4 DEF FileInv, AllThere
<1>6. AgeOrder'
  BY <1>1, <1>3 DEF FileInv, AgeOrder
<1>7. ASSUME NEW g \in Created \ removed'
      PROVE  \A f \in removed' : f < g
  <2>1. g \in Stored \/ g = base
    BY <1>1, <1>7 DEF FileInv, AllThere
  <2>2. arch[n] < g
    <3>1. CASE g = base
      BY <1>2, <3>1 DEF FileInv, AgeOrder
    <3>2. CASE g \in Stored
      BY <1>1, <1>7, <3>2 DEF Stored
    <3> QED
      BY <2>1, <3>1, <3>2
  <2> QED
    BY <1>1, <1>7, <2>2 DEF FileInv, OldestGone
<1> QED
  BY <1>1, <1>2, <1>3, <1>4, <1>5, <1>6, <1>7 DEF OldestGone

\* The log file becomes the newest archive.
LEMMA Archived ==
  ASSUME FileInv, NEW n \in Nat, n \notin DOMAIN arch, base # Null,
         arch' = With(arch, n, base), base' = Null,
         \A i \in DOMAIN arch : IF kind = "roll" THEN n < i ELSE i < n,
         UNCHANGED <<size, removed, kind>>
  PROVE  /\ DOMAIN arch' = DOMAIN arch \cup {n}
         /\ Stored' = Stored \cup {base}
         /\ AllThere' /\ AgeOrder' /\ OldestGone'
<1>1. /\ DOMAIN arch' = DOMAIN arch \cup {n} /\ arch'[n] = base
      /\ \A i \in DOMAIN arch : arch'[i] = arch[i]
  BY DEF With
<1>2. Stored' = Stored \cup {base}
  BY <1>1 DEF Stored
<1>3. AllThere' /\ OldestGone'
  BY <1>2 DEF FileInv, AllThere, OldestGone, Created
<1>4. ASSUME NEW i \in DOMAIN arch', NEW j \in DOMAIN arch', i < j
      PROVE  IF kind = "roll" THEN arch'[i] > arch'[j] ELSE arch'[i] < arch'[j]
  <2>0. \A m \in DOMAIN arch : arch[m] < base /\ m \in Nat
    BY DEF FileInv, AgeOrder, Stored, TypeOK
  <2>1. base \in Nat /\ \A m \in DOMAIN arch : arch[m] \in Nat
    <3>1. Created \subseteq Nat
      BY DEF FileInv, TypeOK, Created
    <3> QED
      BY <3>1 DEF FileInv, TypeOK, Stored
  <2>2. CASE i = n
    <3>1. j \in DOMAIN arch
      BY <1>1, <1>4, <2>2
    <3> QED
      BY <1>1, <1>4, <2>0, <2>1, <2>2, <3>1
  <2>3. CASE j = n
    <3>1. i \in DOMAIN arch
      BY <1>1, <1>4, <2>3
    <3> QED
      BY <1>1, <1>4, <2>0, <2>1, <2>3, <3>1
  <2>4. CASE i # n /\ j # n
    BY <1>1, <1>4, <2>4 DEF FileInv, AgeOrder
  <2> QED
    BY <2>2, <2>3, <2>4
<1> QED
  BY <1>1, <1>2, <1>3, <1>4 DEF AgeOrder

-----------------------------------------------------------------------------
(* What a step does to the numbers.                                        *)

\* Archives stay, and no thread starts to go through them or moves on.
LEMMA ShapeStays ==
  ASSUME FileInv, UNCHANGED <<arch, kind>>,
         \A u \in Threads : pc'[u] \in {"roll", "seq"} =>
           pc'[u] = pc[u] /\ files'[u] = files[u] /\ pos'[u] = pos[u]
  PROVE  Shape'
<1>1. CASE kind = "roll"
  <2>1. PICK k \in Nat, g \in Nat :
          /\ g <= k
          /\ DOMAIN arch = Holed(k, g)
          /\ MaxCount > 0 => k <= MaxCount
          /\ \A u \in Threads : pc[u] = "roll" => Rolling(u, k, g)
    BY <1>1 DEF FileInv, Shape, RollShape
  <2>2. \A u \in Threads : pc'[u] = "roll" => Rolling(u, k, g)'
    BY <2>1 DEF Rolling
  <2>3. RollShape'
    BY <2>1, <2>2 DEF RollShape
  <2> QED
    BY <1>1, <2>3 DEF Shape
<1>2. CASE kind # "roll"
  <2>1. PICK lo \in Nat, hi \in Nat \cup {-1} :
          /\ lo <= hi + 1
          /\ DOMAIN arch = lo..hi
          /\ MaxCount > 0 => hi + 1 - lo <= MaxCount + 1
          /\ \A u \in Threads : pc[u] = "seq" => Expiring(u, lo, hi)
    BY <1>2 DEF FileInv, Shape, SeqShape
  <2>2. \A u \in Threads : pc'[u] = "seq" => Expiring(u, lo, hi)'
    BY <2>1 DEF Expiring
  <2>3. SeqShape'
    BY <2>1, <2>2 DEF SeqShape
  <2> QED
    BY <1>2, <2>3 DEF Shape
<1> QED
  BY <1>1, <1>2

\* List fails, or finds all numbers and starts at the last of a roll, the first
\* of a sequence.
LEMMA ListShape ==
  ASSUME LockInv, FileInv, NEW t \in Threads, List(t), ~partial'
  PROVE  Shape'
<1>1. /\ files \in [Threads -> SUBSET Nat] /\ pos \in [Threads -> Nat \cup {-1}]
      /\ pc \in [Threads -> Places] /\ kind \in {"roll", "seq"}
      /\ MaxCount \in Nat
  BY RotaterAssumption DEF FileInv, TypeOK, LockInv, LockTypes
<1>2. \A u \in Threads : u # t => pc[u] \notin {"roll", "seq"}
  BY RotatesAlone DEF List, Rotating
<1> DEFINE Found == /\ files'[t] = DOMAIN arch /\ pc'[t] = kind
                    /\ pos'[t] = IF kind = "roll" THEN Cardinality(DOMAIN arch) - 1 ELSE 0
<1>3. /\ UNCHANGED <<arch, kind>>
      /\ \A u \in Threads : u # t => pc'[u] = pc[u]
      /\ pc'[t] = "unlock" \/ Found
  BY <1>1 DEF List, Goto, Release, fileVars
<1>6. CASE pc'[t] = "unlock"
  BY <1>2, <1>3, <1>6, ShapeStays
<1>4. CASE kind = "roll" /\ Found
  <2>1. PICK k \in Nat, g \in Nat :
          /\ g <= k
          /\ DOMAIN arch = Holed(k, g)
          /\ MaxCount > 0 => k <= MaxCount
    BY <1>4 DEF FileInv, Shape, RollShape
  <2>2. pos'[t] = k - 1
    BY <1>3, <1>4, <2>1, HoledCount
  <2>3. g = Lesser(g, k - 1 + 1)
    BY <2>1 DEF Lesser
  <2>4. MaxCount > 0 =>
          IF k - 1 >= MaxCount - 1 THEN k = k - 1 + 1 ELSE k <= MaxCount - 1
    BY <1>1, <2>1
  <2>5. k - 1 \in -1..k - 1 /\ k \in k - 1 + 1..k
    OBVIOUS
  <2>6. Rolling(t, k, g)'
    BY <1>3, <1>4, <2>1, <2>2, <2>3, <2>4, <2>5 DEF Rolling
  <2>7. RollShape'
    BY <1>2, <1>3, <1>4, <2>1, <2>6 DEF RollShape
  <2> QED
    BY <1>3, <1>4, <2>7 DEF Shape
<1>5. CASE kind = "seq" /\ Found
  <2>1. PICK lo \in Nat, hi \in Nat \cup {-1} :
          /\ lo <= hi + 1
          /\ DOMAIN arch = lo..hi
          /\ MaxCount > 0 => hi + 1 - lo <= MaxCount + 1
    BY <1>5 DEF FileInv, Shape, SeqShape
  <2>2. pos'[t] = 0 /\ 0 \in 0..hi + 1 - lo
    BY <1>3, <1>5, <2>1
  <2>3. lo = lo + Lesser(0, Excess(hi + 1 - lo))
    BY <1>1 DEF Lesser, Excess
  <2>4. Expiring(t, lo, hi)'
    BY <1>3, <1>5, <2>1, <2>2, <2>3 DEF Expiring
  <2>5. SeqShape'
    BY <1>2, <1>3, <1>5, <2>1, <2>4 DEF SeqShape
  <2> QED
    BY <1>3, <1>5, <2>5 DEF Shape
<1> QED
  BY <1>1, <1>3, <1>4, <1>5, <1>6

\* The archive at a position of a roll: either all below is still in place and
\* the number after is free, or the hole is below and it stays where it is.
LEMMA AtPosition ==
  ASSUME NEW m \in Nat, NEW h \in 0..m, NEW p \in 0..m - 1,
         NEW k \in p + 1..m, NEW n, n = At(Holed(m, h), p),
         NEW g, g = Lesser(h, p + 1)
  PROVE  /\ n \in Holed(k, g) /\ n \in Nat
         /\ n = p + 1 \/ (p + 1 = n + 1 /\ p + 1 \notin Holed(k, g))
         /\ (Holed(k, g) \ {n}) \cup {p + 1} = Holed(k, Lesser(h, p))
         /\ k = p + 1 => /\ Holed(k, g) \ {n} = Holed(p, Lesser(h, p))
                         /\ \A i \in Holed(k, g) : i <= n
<1>1. n = IF p < h THEN p ELSE p + 1
  BY HoledAt
<1>2. CASE p < h
  <2>1. n = p /\ Lesser(h, p + 1) = p + 1 /\ Lesser(h, p) = p
    BY <1>1, <1>2 DEF Lesser
  <2>2. p \in Holed(k, p + 1) /\ p + 1 \notin Holed(k, p + 1)
    BY DEF Holed
  <2>3. (Holed(k, p + 1) \ {p}) \cup {p + 1} = Holed(k, p)
    BY DEF Holed
  <2>4. k = p + 1 => /\ Holed(k, p + 1) \ {p} = Holed(p, p)
                     /\ \A i \in Holed(k, p + 1) : i <= p
    BY DEF Holed
  <2> QED
    BY <2>1, <2>2, <2>3, <2>4
<1>3. CASE ~(p < h)
  <2>1. n = p + 1 /\ Lesser(h, p + 1) = h /\ Lesser(h, p) = h /\ h <= p
    BY <1>1, <1>3 DEF Lesser
  <2>2. p + 1 \in Holed(k, h)
    BY <2>1 DEF Holed
  <2>3. (Holed(k, h) \ {p + 1}) \cup {p + 1} = Holed(k, h)
    BY <2>2
  <2>4. k = p + 1 => /\ Holed(k, h) \ {p + 1} = Holed(p, h)
                     /\ \A i \in Holed(k, h) : i <= p + 1
    BY <2>1 DEF Holed
  <2> QED
    BY <2>1, <2>2, <2>3, <2>4
<1> QED
  BY <1>2, <1>3

\* MoveUp renames or removes one archive.
LEMMA RollKeeps ==
  ASSUME LockInv, FileInv, NEW t \in Threads, MoveUp(t)
  PROVE  /\ Shape' /\ pos'[t] \in Nat \cup {-1}
         /\ DOMAIN arch' \subseteq Nat /\ Stored' \subseteq Created
         /\ removed' \subseteq Created
         /\ AllThere' /\ AgeOrder' /\ OldestGone'
<1>p. PICK p : p = pos[t]
  OBVIOUS
<1>n. PICK n : n = At(files[t], p)
  OBVIOUS
<1>1. /\ files \in [Threads -> SUBSET Nat] /\ pos \in [Threads -> Nat \cup {-1}]
      /\ pc \in [Threads -> Places] /\ kind \in {"roll", "seq"}
      /\ MaxCount \in Nat /\ DOMAIN arch \subseteq Nat /\ Stored \subseteq Created
      /\ removed \subseteq Created
  BY RotaterAssumption DEF FileInv, TypeOK, LockInv, LockTypes
<1>2. \A u \in Threads : u # t => pc[u] \notin {"roll", "seq"}
  BY RotatesAlone DEF MoveUp, Rotating
<1>3. pc[t] = "roll" /\ p \in Nat /\ kind = "roll" /\ base # Null
      /\ UNCHANGED <<base, size, kind, files>>
  BY <1>p, <1>1 DEF MoveUp, FileInv, AtFiles
<1>4. PICK k \in Nat, g \in Nat :
        /\ g <= k
        /\ DOMAIN arch = Holed(k, g)
        /\ MaxCount > 0 => k <= MaxCount
        /\ Rolling(t, k, g)
  BY <1>3 DEF FileInv, Shape, RollShape
<1>5. PICK m \in Nat, h \in Nat :
        /\ h <= m
        /\ files[t] = Holed(m, h)
        /\ p \in -1..m - 1
        /\ g = Lesser(h, p + 1)
        /\ k \in p + 1..m
        /\ MaxCount > 0 => IF p >= MaxCount - 1 THEN k = p + 1 ELSE k <= MaxCount - 1
  BY <1>p, <1>4 DEF Rolling
<1>6. /\ n \in Holed(k, g) /\ n \in Nat
      /\ n = p + 1 \/ (p + 1 = n + 1 /\ p + 1 \notin Holed(k, g))
      /\ (Holed(k, g) \ {n}) \cup {p + 1} = Holed(k, Lesser(h, p))
      /\ k = p + 1 => /\ Holed(k, g) \ {n} = Holed(p, Lesser(h, p))
                      /\ \A i \in Holed(k, g) : i <= n
  <2>1. h \in 0..m /\ p \in 0..m - 1 /\ n = At(Holed(m, h), p)
    BY <1>n, <1>3, <1>5
  <2> QED
    <3>1. g = Lesser(h, p + 1) /\ k \in p + 1..m /\ m \in Nat
      BY <1>5
    <3>2. n \in Holed(k, g)
      BY <2>1, <3>1, AtPosition
    <3>3. n \in Nat
      BY <2>1, <3>1, AtPosition
    <3>4. n = p + 1 \/ (p + 1 = n + 1 /\ p + 1 \notin Holed(k, g))
      BY <2>1, <3>1, AtPosition
    <3>5. (Holed(k, g) \ {n}) \cup {p + 1} = Holed(k, Lesser(h, p))
      BY <2>1, <3>1, AtPosition
    <3>6. k = p + 1 => /\ Holed(k, g) \ {n} = Holed(p, Lesser(h, p))
                      /\ \A i \in Holed(k, g) : i <= n
      BY <2>1, <3>1, AtPosition
    <3> QED
      BY <3>2, <3>3, <3>4, <3>5, <3>6
<1>7. CASE UNCHANGED <<arch, removed, pos>> /\ Release(t, -1)
  <2>1. Shape'
    BY <1>1, <1>2, <1>3, <1>7, ShapeStays DEF Release, Goto
  <2>2. AllThere' /\ AgeOrder' /\ OldestGone'
    BY <1>3, <1>7, SameFiles DEF Created
  <2> QED
    BY <1>1, <1>7, <2>1, <2>2 DEF Stored
<1>8. CASE /\ pos' = [pos EXCEPT ![t] = @ - 1] /\ UNCHANGED pc
           /\ IF MaxCount > 0 /\ p >= MaxCount - 1
              THEN Unlink(n)
              ELSE arch' = With(Without(n), p + 1, arch[n]) /\ UNCHANGED removed
  <2>1. pos'[t] = p - 1 /\ pos'[t] \in Nat \cup {-1}
    BY <1>p, <1>1, <1>3, <1>8
  <2>2. ASSUME NEW l \in Nat, l \in p..m, DOMAIN arch' = Holed(l, Lesser(h, p)),
               MaxCount > 0 =>
                 /\ l <= MaxCount
                 /\ IF p - 1 >= MaxCount - 1 THEN l = p ELSE l <= MaxCount - 1
        PROVE  Shape'
    <3>1. Lesser(h, p) \in 0..l /\ Lesser(h, p) = Lesser(h, p - 1 + 1)
      BY <1>3, <1>5, <2>2 DEF Lesser
    <3>2. p - 1 \in -1..m - 1 /\ l \in p - 1 + 1..m
      BY <1>3, <1>5, <2>2
    <3>3. MaxCount > 0 => IF p - 1 >= MaxCount - 1 THEN l = p - 1 + 1 ELSE l <= MaxCount - 1
      BY <1>3, <2>2
    <3>4. /\ h <= m
          /\ files'[t] = Holed(m, h)
          /\ pos'[t] \in -1..m - 1
          /\ Lesser(h, p) = Lesser(h, pos'[t] + 1)
          /\ l \in pos'[t] + 1..m
          /\ MaxCount > 0 => IF pos'[t] >= MaxCount - 1
                             THEN l = pos'[t] + 1 ELSE l <= MaxCount - 1
      BY <1>3, <1>5, <2>1, <3>1, <3>2, <3>3
    <3>5. Rolling(t, l, Lesser(h, p))'
      BY <3>4 DEF Rolling
    <3>6. /\ Lesser(h, p) \in Nat /\ Lesser(h, p) <= l
          /\ DOMAIN arch' = Holed(l, Lesser(h, p))
          /\ MaxCount > 0 => l <= MaxCount
      BY <2>2, <3>1
    <3>7. \A u \in Threads : pc'[u] = "roll" => u = t
      BY <1>2, <1>8
    <3>8. RollShape'
      BY <3>5, <3>6, <3>7 DEF RollShape
    <3> QED
      BY <1>3, <3>8 DEF Shape
  <2>3. CASE MaxCount > 0 /\ p >= MaxCount - 1
    <3>1. Unlink(n) /\ k = p + 1
      BY <1>5, <1>8, <2>3
    <3>2. \A i \in DOMAIN arch : i # n => i < n
      BY <1>1, <1>4, <1>6, <3>1
    <3>3. \A i \in DOMAIN arch : i # n => arch[n] < arch[i]
      <4>1. \A i \in DOMAIN arch : i # n => arch[i] > arch[n]
        BY <1>3, <1>4, <1>6, <3>2 DEF FileInv, AgeOrder
      <4>2. \A i \in DOMAIN arch : arch[i] \in Nat
        <5>1. Created \subseteq Nat
          BY DEF FileInv, TypeOK, Created
        <5> QED
          BY <1>1, <5>1 DEF Stored
      <4> QED
        BY <1>4, <1>6, <4>1, <4>2
    <3>4. /\ DOMAIN arch' = DOMAIN arch \ {n}
          /\ Stored' \subseteq Stored /\ removed' \subseteq Created
          /\ AllThere' /\ AgeOrder' /\ OldestGone'
      BY <1>3, <1>4, <1>6, <3>1, <3>3, Unlinked
    <3>5. DOMAIN arch' = Holed(p, Lesser(h, p))
      BY <1>4, <1>6, <3>1, <3>4
    <3>6. p \in p..m /\ p <= MaxCount
          /\ IF p - 1 >= MaxCount - 1 THEN p = p ELSE p <= MaxCount - 1
      BY <1>1, <1>3, <1>4, <1>5, <2>3, <3>1
    <3>7. Shape'
      BY <1>3, <2>2, <3>5, <3>6
    <3> QED
      BY <1>1, <2>1, <3>4, <3>7
  <2>4. CASE ~(MaxCount > 0 /\ p >= MaxCount - 1)
    <3>1. arch' = With(Without(n), p + 1, arch[n]) /\ UNCHANGED removed
      BY <1>8, <2>4
    <3>2. p + 1 \in Nat
      BY <1>3
    <3>3. /\ DOMAIN arch' = (DOMAIN arch \ {n}) \cup {p + 1}
          /\ Stored' = Stored
          /\ AllThere' /\ AgeOrder' /\ OldestGone'
      BY <1>3, <1>4, <1>6, <3>1, <3>2, Renumbered
    <3>4. DOMAIN arch' = Holed(k, Lesser(h, p))
      BY <1>4, <1>6, <3>3
    <3>5. /\ k \in p..m
          /\ MaxCount > 0 =>
               /\ k <= MaxCount
               /\ IF p - 1 >= MaxCount - 1 THEN k = p ELSE k <= MaxCount - 1
      BY <1>1, <1>3, <1>4, <1>5, <2>4
    <3>6. Shape'
      BY <2>2, <3>4, <3>5
    <3> QED
      BY <1>1, <2>1, <3>1, <3>2, <3>3, <3>6
  <2> QED
    BY <2>3, <2>4
<1> QED
  BY <1>p, <1>n, <1>7, <1>8 DEF MoveUp

\* Expire removes the first of the sequence or goes on.
LEMMA SeqKeeps ==
  ASSUME LockInv, FileInv, NEW t \in Threads, Expire(t)
  PROVE  /\ Shape' /\ pos'[t] \in Nat \cup {-1}
         /\ DOMAIN arch' \subseteq Nat /\ Stored' \subseteq Created
         /\ removed' \subseteq Created
         /\ AllThere' /\ AgeOrder' /\ OldestGone'
<1>p. PICK p : p = pos[t]
  OBVIOUS
<1>c. PICK c : c = Cardinality(files[t])
  OBVIOUS
<1>1. /\ files \in [Threads -> SUBSET Nat] /\ pos \in [Threads -> Nat \cup {-1}]
      /\ pc \in [Threads -> Places] /\ kind \in {"roll", "seq"}
      /\ MaxCount \in Nat /\ DOMAIN arch \subseteq Nat /\ Stored \subseteq Created
      /\ removed \subseteq Created
  BY RotaterAssumption DEF FileInv, TypeOK, LockInv, LockTypes
<1>2. \A u \in Threads : u # t => pc[u] \notin {"roll", "seq"}
  BY RotatesAlone DEF Expire, Rotating
<1>3. pc[t] = "seq" /\ kind = "seq" /\ base # Null
      /\ UNCHANGED <<base, size, kind, files>>
  BY <1>1 DEF Expire, FileInv, AtFiles
<1>4. PICK lo \in Nat, hi \in Nat \cup {-1} :
        /\ lo <= hi + 1
        /\ DOMAIN arch = lo..hi
        /\ MaxCount > 0 => hi + 1 - lo <= MaxCount + 1
        /\ Expiring(t, lo, hi)
  BY <1>3 DEF FileInv, Shape, SeqShape
<1>5. PICK first \in Nat :
        /\ first <= hi + 1
        /\ files[t] = first..hi
        /\ p \in 0..hi + 1 - first
        /\ lo = first + Lesser(p, Excess(hi + 1 - first))
  BY <1>p, <1>4 DEF Expiring
<1>6. p < c /\ c = hi + 1 - first
  <2>1. p < c
    BY <1>p, <1>c DEF Expire
  <2>2. c = hi + 1 - first
    BY <1>c, <1>4, <1>5, RunCount
  <2> QED
    BY <2>1, <2>2
<1>7. CASE UNCHANGED <<arch, removed, pos>> /\ Release(t, -1)
  <2>1. Shape'
    BY <1>1, <1>2, <1>3, <1>7, ShapeStays DEF Release, Goto
  <2>2. AllThere' /\ AgeOrder' /\ OldestGone'
    BY <1>3, <1>7, SameFiles DEF Created
  <2> QED
    BY <1>1, <1>7, <2>1, <2>2 DEF Stored
<1>8. CASE /\ pos' = [pos EXCEPT ![t] = @ + 1] /\ UNCHANGED pc
           /\ IF MaxCount > 0 /\ p < c - MaxCount
              THEN Unlink(At(files[t], p))
              ELSE UNCHANGED <<arch, removed>>
  <2>1. pos'[t] = p + 1 /\ pos'[t] \in Nat \cup {-1}
    BY <1>p, <1>1, <1>5, <1>8
  <2>2. ASSUME NEW l \in Nat, l \in {lo, lo + 1}, l <= hi + 1, DOMAIN arch' = l..hi,
               l = first + Lesser(p + 1, Excess(hi + 1 - first))
        PROVE  Shape'
    <3>1. /\ files'[t] = first..hi /\ pos'[t] \in 0..hi + 1 - first
          /\ l = first + Lesser(pos'[t], Excess(hi + 1 - first))
      BY <1>3, <1>5, <1>6, <2>1, <2>2
    <3>2. Expiring(t, l, hi)'
      BY <1>5, <3>1 DEF Expiring
    <3>3. MaxCount > 0 => hi + 1 - l <= MaxCount + 1
      BY <1>1, <1>4, <2>2
    <3>4. \A u \in Threads : pc'[u] = "seq" => u = t
      BY <1>2, <1>8
    <3>5. SeqShape'
      BY <2>2, <3>2, <3>3, <3>4 DEF SeqShape
    <3> QED
      BY <1>3, <3>5 DEF Shape
  <2>3. CASE MaxCount > 0 /\ p < c - MaxCount
    <3>1. /\ lo = first + p /\ lo <= hi
          /\ lo + 1 = first + Lesser(p + 1, Excess(hi + 1 - first))
      BY <1>1, <1>5, <1>6, <2>3 DEF Lesser, Excess
    <3>2. At(files[t], p) = lo
      <4>1. p \in 0..hi - first
        BY <1>5, <1>6
      <4> QED
        BY <1>5, <3>1, <4>1, RunAt
    <3>3. Unlink(lo) /\ lo \in DOMAIN arch
      BY <1>4, <1>8, <2>3, <3>1, <3>2
    <3>4. \A i \in DOMAIN arch : i # lo => arch[lo] < arch[i]
      BY <1>3, <1>4, <3>3 DEF FileInv, AgeOrder
    <3>5. /\ DOMAIN arch' = DOMAIN arch \ {lo}
          /\ Stored' \subseteq Stored /\ removed' \subseteq Created
          /\ AllThere' /\ AgeOrder' /\ OldestGone'
      BY <1>3, <3>3, <3>4, Unlinked
    <3>6. DOMAIN arch' = lo + 1..hi
      BY <1>4, <3>5
    <3>7. Shape'
      BY <2>2, <3>1, <3>6
    <3> QED
      BY <1>1, <2>1, <3>5, <3>7
  <2>4. CASE ~(MaxCount > 0 /\ p < c - MaxCount)
    <3>1. lo = first + Lesser(p + 1, Excess(hi + 1 - first))
      BY <1>1, <1>5, <1>6, <2>4 DEF Lesser, Excess
    <3>2. UNCHANGED <<arch, removed>>
      BY <1>8, <2>4
    <3>3. Shape'
      BY <1>4, <2>2, <3>1, <3>2
    <3>4. AllThere' /\ AgeOrder' /\ OldestGone'
      BY <1>3, <3>2, SameFiles DEF Created
    <3> QED
      BY <1>1, <2>1, <3>2, <3>3, <3>4 DEF Stored
  <2> QED
    BY <2>3, <2>4
<1> QED
  BY <1>p, <1>c, <1>7, <1>8 DEF Expire

\* MoveBase gives the log file a number that is free, the newest.
LEMMA BaseKeeps ==
  ASSUME LockInv, FileInv, NEW t \in Threads, MoveBase(t)
  PROVE  /\ Shape'
         /\ DOMAIN arch' \subseteq Nat /\ Stored' \subseteq Created
         /\ base' \in Created \cup {Null}
         /\ AllThere' /\ AgeOrder' /\ OldestGone'
<1>p. PICK p : p = pos[t]
  OBVIOUS
<1>1. /\ files \in [Threads -> SUBSET Nat] /\ pos \in [Threads -> Nat \cup {-1}]
      /\ pc \in [Threads -> Places] /\ kind \in {"roll", "seq"}
      /\ MaxCount \in Nat /\ DOMAIN arch \subseteq Nat /\ Stored \subseteq Created
      /\ base \in Created \cup {Null}
  BY RotaterAssumption DEF FileInv, TypeOK, LockInv, LockTypes
<1>2. \A u \in Threads : u # t => pc[u] \notin {"roll", "seq"}
  BY RotatesAlone DEF MoveBase, Rotating
<1>3. pc[t] = kind /\ base # Null /\ UNCHANGED <<size, removed, kind, files, pos>>
  BY <1>1 DEF MoveBase, FileInv, AtFiles
<1>4. Release(t, 0) \/ Release(t, -1)
  BY DEF MoveBase
<1>5. \A u \in Threads : pc'[u] \notin {"roll", "seq"}
  BY <1>1, <1>2, <1>4 DEF Release, Goto
<1>6. CASE UNCHANGED <<arch, base>>
  <2>1. Shape'
    BY <1>3, <1>5, <1>6, ShapeStays
  <2>2. AllThere' /\ AgeOrder' /\ OldestGone'
    BY <1>3, <1>6, SameFiles DEF Created
  <2> QED
    BY <1>1, <1>6, <2>1, <2>2 DEF Stored
<1>7. ASSUME NEW n \in Nat, n \notin DOMAIN arch, arch' = With(arch, n, base), base' = Null,
             \A i \in DOMAIN arch : IF kind = "roll" THEN n < i ELSE i < n
      PROVE  /\ DOMAIN arch' = DOMAIN arch \cup {n}
             /\ DOMAIN arch' \subseteq Nat /\ Stored' \subseteq Created
             /\ base' \in Created \cup {Null}
             /\ AllThere' /\ AgeOrder' /\ OldestGone'
  <2>1. /\ DOMAIN arch' = DOMAIN arch \cup {n}
        /\ Stored' = Stored \cup {base}
        /\ AllThere' /\ AgeOrder' /\ OldestGone'
    BY <1>3, <1>7, Archived
  <2> QED
    BY <1>1, <1>3, <1>7, <2>1
<1>8. CASE /\ kind = "roll" /\ p < 0
           /\ arch' = With(arch, 0, base) /\ base' = Null
  <2>1. PICK k \in Nat, g \in Nat :
          /\ g <= k
          /\ DOMAIN arch = Holed(k, g)
          /\ MaxCount > 0 => k <= MaxCount
          /\ Rolling(t, k, g)
    BY <1>3, <1>8 DEF FileInv, Shape, RollShape
  <2>2. PICK m \in Nat, h \in Nat :
          /\ p \in -1..m - 1
          /\ g = Lesser(h, p + 1)
          /\ MaxCount > 0 => IF p >= MaxCount - 1 THEN k = p + 1 ELSE k <= MaxCount - 1
    BY <1>p, <2>1 DEF Rolling
  <2>3. p = -1 /\ g = 0 /\ (MaxCount > 0 => k <= MaxCount - 1)
    BY <1>1, <1>8, <2>2 DEF Lesser
  <2>4. DOMAIN arch = 1..k
    BY <2>1, <2>3 DEF Holed
  <2>5. /\ DOMAIN arch' = DOMAIN arch \cup {0}
        /\ DOMAIN arch' \subseteq Nat /\ Stored' \subseteq Created
        /\ base' \in Created \cup {Null}
        /\ AllThere' /\ AgeOrder' /\ OldestGone'
    <3>1. 0 \in Nat /\ 0 \notin DOMAIN arch /\ \A i \in DOMAIN arch : 0 < i
      BY <2>4
    <3> QED
      BY <1>7, <1>8, <3>1
  <2>6. DOMAIN arch' = Holed(k + 1, k + 1)
    BY <2>4, <2>5 DEF Holed
  <2>7. RollShape'
    <3>1. k + 1 \in Nat /\ k + 1 <= k + 1 /\ (MaxCount > 0 => k + 1 <= MaxCount)
      BY <1>1, <2>3
    <3> QED
      BY <1>5, <2>6, <3>1 DEF RollShape
  <2> QED
    BY <1>3, <1>8, <2>5, <2>7 DEF Shape
<1>9. CASE /\ kind = "seq" /\ p >= Cardinality(files[t])
           /\ arch' = With(arch, NextNumber(files[t]), base) /\ base' = Null
  <2>1. PICK lo \in Nat, hi \in Nat \cup {-1} :
          /\ lo <= hi + 1
          /\ DOMAIN arch = lo..hi
          /\ Expiring(t, lo, hi)
    BY <1>3, <1>9 DEF FileInv, Shape, SeqShape
  <2>2. PICK first \in Nat :
          /\ first <= hi + 1
          /\ files[t] = first..hi
          /\ p \in 0..hi + 1 - first
          /\ lo = first + Lesser(p, Excess(hi + 1 - first))
    BY <1>p, <2>1 DEF Expiring
  <2>3. p = hi + 1 - first
    <3>1. Cardinality(files[t]) = hi + 1 - first
      BY <2>1, <2>2, RunCount
    <3> QED
      BY <1>9, <2>2, <3>1
  <2>4. MaxCount > 0 => hi + 1 - lo <= MaxCount
    BY <1>1, <2>2, <2>3 DEF Lesser, Excess
  <2>5. NextNumber(files[t]) = IF first = hi + 1 THEN 0 ELSE hi + 1
    BY <2>1, <2>2, RunNext
  <2>6. CASE first = hi + 1
    <3>1. lo = hi + 1
      BY <1>1, <2>2, <2>3, <2>6 DEF Lesser, Excess
    <3>2. DOMAIN arch = {} /\ NextNumber(files[t]) = 0
      BY <2>1, <2>5, <2>6, <3>1
    <3>3. /\ DOMAIN arch' = DOMAIN arch \cup {0}
          /\ DOMAIN arch' \subseteq Nat /\ Stored' \subseteq Created
          /\ base' \in Created \cup {Null}
          /\ AllThere' /\ AgeOrder' /\ OldestGone'
      <4>1. 0 \in Nat /\ 0 \notin DOMAIN arch /\ arch' = With(arch, 0, base)
        BY <1>9, <3>2
      <4> QED
        BY <1>7, <1>9, <3>2, <4>1
    <3>4. DOMAIN arch' = 0..0 /\ 0 <= 0 + 1 /\ (MaxCount > 0 => 0 + 1 - 0 <= MaxCount + 1)
      BY <1>1, <3>2, <3>3
    <3>5. SeqShape'
      BY <1>5, <3>4 DEF SeqShape
    <3> QED
      BY <1>3, <1>9, <3>3, <3>5 DEF Shape
  <2>7. CASE first # hi + 1
    <3>1. NextNumber(files[t]) = hi + 1 /\ hi + 1 \in Nat
      BY <2>1, <2>5, <2>7
    <3>2. hi + 1 \notin DOMAIN arch /\ \A i \in DOMAIN arch : i < hi + 1
      BY <2>1
    <3>3. /\ DOMAIN arch' = DOMAIN arch \cup {hi + 1}
          /\ DOMAIN arch' \subseteq Nat /\ Stored' \subseteq Created
          /\ base' \in Created \cup {Null}
          /\ AllThere' /\ AgeOrder' /\ OldestGone'
      BY <1>7, <1>9, <3>1, <3>2
    <3>4. DOMAIN arch' = lo..hi + 1
      BY <2>1, <3>3
    <3>5. lo <= hi + 1 + 1 /\ (MaxCount > 0 => hi + 1 + 1 - lo <= MaxCount + 1)
      BY <1>1, <2>1, <2>4
    <3>6. SeqShape'
      BY <1>5, <3>1, <3>4, <3>5 DEF SeqShape
    <3> QED
      BY <1>3, <1>9, <3>3, <3>6 DEF Shape
  <2> QED
    BY <2>6, <2>7
<1> QED
  BY <1>p, <1>3, <1>6, <1>8, <1>9 DEF MoveBase

-----------------------------------------------------------------------------

LEMMA FileInit == Init => FileInv
<1> SUFFICES ASSUME Init PROVE FileInv
  OBVIOUS
<1>1. DOMAIN arch = {} /\ Stored = {} /\ Created = {} /\ base = Null
  BY DEF Init, Stored, Created
<1>2. TypeOK /\ AtFiles
  BY TypeInit DEF TypeInv
<1>3. AllThere /\ AgeOrder /\ OldestGone
  BY <1>1 DEF Init, AllThere, AgeOrder, OldestGone
<1>4. RollShape
  <2>1. DOMAIN arch = Holed(0, 0)
    BY <1>1 DEF Holed
  <2> QED
    BY <2>1, RotaterAssumption DEF Init, RollShape
<1>5. SeqShape
  <2>1. DOMAIN arch = 0..-1
    BY <1>1
  <2>2. MaxCount > 0 => -1 + 1 - 0 <= MaxCount + 1
    BY RotaterAssumption
  <2>3. 0 <= -1 + 1 /\ \A t \in Threads : pc[t] # "seq"
    BY DEF Init
  <2> QED
    BY <2>1, <2>2, <2>3 DEF SeqShape
<1> QED
  BY <1>2, <1>3, <1>4, <1>5 DEF FileInv, Shape

\* A step that leaves the files alone.
LEMMA QuietKeeps ==
  ASSUME FileInv, UNCHANGED <<fileVars, kind>>, TypeOK', AtFiles',
         \A u \in Threads : pc'[u] \in {"roll", "seq"} =>
           pc'[u] = pc[u] /\ files'[u] = files[u] /\ pos'[u] = pos[u]
  PROVE  FileInv'
<1>1. Shape'
  BY ShapeStays DEF fileVars
<1>2. AllThere' /\ AgeOrder' /\ OldestGone'
  BY SameFiles DEF fileVars, Created
<1> QED
  BY <1>1, <1>2 DEF FileInv

\* A list that lacks an archive is not forgotten.
LEMMA PartialStays == [Next]_vars /\ partial => partial'
BY DEF Next, vars, Output, Rotate, Open, Write, Stat, Return, TryLock, Restat, List, MoveUp,
       Expire, MoveBase, Unlock, Crash, Reconfigure, histVars

\* Every step preserves the invariant, as long as no list lacks an archive.
LEMMA FileStep ==
  ASSUME ~Switch, ~partial', LockInv, TypeInv, FileInv, [Next]_vars PROVE FileInv'
<1>0. TypeOK /\ AtFiles /\ Shape
  BY DEF FileInv
<1>t. TypeOK' /\ AtFiles'
  BY TypeStep DEF TypeInv
<1>1. ASSUME NEW t \in Threads, Open(t) PROVE FileInv'
  <2>1. /\ UNCHANGED <<arch, removed, kind, files, pos>>
        /\ \A u \in Threads : pc'[u] \in {"roll", "seq"} => pc'[u] = pc[u]
        /\ \/ base = Null /\ size' = Append(size, 0) /\ base' = Len(size')
           \/ UNCHANGED <<base, size>>
    BY <1>0, <1>1 DEF Open, Finish, Goto, TypeOK
  <2>2. Shape'
    BY <2>1, ShapeStays
  <2>3. AllThere' /\ AgeOrder' /\ OldestGone'
    <3>1. CASE base = Null /\ size' = Append(size, 0) /\ base' = Len(size')
      BY <2>1, <3>1, NewFile
    <3>2. CASE UNCHANGED <<base, size>>
      BY <2>1, <3>2, SameFiles DEF Created
    <3> QED
      BY <2>1, <3>1, <3>2
  <2> QED
    BY <1>t, <2>2, <2>3 DEF FileInv
<1>2. ASSUME NEW t \in Threads, Write(t) PROVE FileInv'
  <2>1. /\ UNCHANGED <<base, arch, removed, kind, files, pos>>
        /\ \A u \in Threads : pc'[u] \in {"roll", "seq"} => pc'[u] = pc[u]
    BY <1>0, <1>2 DEF Write, Finish, Goto, TypeOK
  <2>2. Created' = Created
    BY <1>0, <1>2 DEF Write, TypeOK, Created
  <2>3. Shape'
    BY <2>1, ShapeStays
  <2>4. AllThere' /\ AgeOrder' /\ OldestGone'
    BY <2>1, <2>2, SameFiles
  <2> QED
    BY <1>t, <2>3, <2>4 DEF FileInv
<1>3. ASSUME NEW t \in Threads,
             Stat(t) \/ TryLock(t) \/ Restat(t) \/ Unlock(t) \/ Return(t)
      PROVE  FileInv'
  <2>1. /\ UNCHANGED <<fileVars, kind>>
        /\ \A u \in Threads : pc'[u] \in {"roll", "seq"} =>
             pc'[u] = pc[u] /\ files'[u] = files[u] /\ pos'[u] = pos[u]
    BY <1>0, <1>3
    DEF Stat, TryLock, Restat, Unlock, Return, Finish, Release, Goto, TypeOK, threadVars
  <2> QED
    BY <1>t, <2>1, QuietKeeps
<1>4. ASSUME NEW t \in Threads, List(t) PROVE FileInv'
  <2>1. Shape'
    BY <1>4, ListShape
  <2>2. UNCHANGED <<base, arch, size, removed, kind>>
    BY <1>4 DEF List, fileVars
  <2>3. AllThere' /\ AgeOrder' /\ OldestGone'
    BY <2>2, SameFiles DEF Created
  <2> QED
    BY <1>t, <2>1, <2>3 DEF FileInv
<1>5. ASSUME NEW t \in Threads, MoveUp(t) \/ Expire(t) PROVE FileInv'
  BY <1>t, <1>5, RollKeeps, SeqKeeps DEF FileInv
<1>6. ASSUME NEW t \in Threads, MoveBase(t) PROVE FileInv'
  BY <1>t, <1>6, BaseKeeps DEF FileInv
<1>7. ASSUME NEW p \in Procs, Crash(p) PROVE FileInv'
  <2>1. /\ UNCHANGED <<fileVars, kind>>
        /\ \A u \in Threads : pc'[u] # "idle" =>
             pc'[u] = pc[u] /\ files'[u] = files[u] /\ pos'[u] = pos[u]
    BY <1>7 DEF Crash
  <2> QED
    BY <1>t, <2>1, QuietKeeps
<1>8. CASE Reconfigure
  <2>1. /\ DOMAIN arch = {} /\ UNCHANGED <<base, arch, size, removed>>
        /\ \A t \in Threads : pc'[t] = "idle"
    BY <1>8 DEF Reconfigure, fileVars
  <2>2. AllThere' /\ AgeOrder' /\ OldestGone'
    BY <2>1, SameFiles DEF Created
  <2>3. RollShape'
    <3>1. DOMAIN arch' = Holed(0, 0)
      BY <2>1 DEF Holed
    <3> QED
      BY <2>1, <3>1, RotaterAssumption DEF RollShape
  <2>4. SeqShape'
    <3>1. DOMAIN arch' = 0..-1
      BY <2>1
    <3>2. MaxCount > 0 => -1 + 1 - 0 <= MaxCount + 1
      BY RotaterAssumption
    <3>3. 0 <= -1 + 1 /\ \A t \in Threads : pc'[t] # "seq"
      BY <2>1
    <3> QED
      BY <3>1, <3>2, <3>3 DEF SeqShape
  <2> QED
    BY <1>t, <2>2, <2>3, <2>4 DEF FileInv, Shape
<1>9. CASE UNCHANGED vars
  <2>1. UNCHANGED <<fileVars, kind, pc, threadVars>>
    BY <1>9 DEF vars
  <2> QED
    BY <1>t, <2>1, QuietKeeps DEF threadVars
<1> QED
  BY <1>1, <1>2, <1>3, <1>4, <1>5, <1>6, <1>7, <1>8, <1>9 DEF Next, Output, Rotate

\* The limit follows from the shape.
LEMMA KeepsLimit == ASSUME FileInv PROVE NewestKept
<1>1. CASE kind = "roll"
  <2>1. PICK k \in Nat, g \in Nat :
          g <= k /\ DOMAIN arch = Holed(k, g) /\ (MaxCount > 0 => k <= MaxCount)
    BY <1>1 DEF FileInv, Shape, RollShape
  <2>2. Cardinality(DOMAIN arch) = k
    BY <2>1, HoledCount
  <2> QED
    BY <1>1, <2>1, <2>2 DEF NewestKept, FileInv, OldestGone
<1>2. CASE kind # "roll"
  <2>1. PICK lo \in Nat, hi \in Nat \cup {-1} :
          /\ lo <= hi + 1 /\ DOMAIN arch = lo..hi
          /\ MaxCount > 0 => hi + 1 - lo <= MaxCount + 1
    BY <1>2 DEF FileInv, Shape, SeqShape
  <2>2. Cardinality(DOMAIN arch) = hi + 1 - lo
    BY <2>1, RunCount
  <2> QED
    BY <1>2, <2>1, <2>2 DEF NewestKept, FileInv, OldestGone
<1> QED
  BY <1>1, <1>2

\* The invariant holds until a rotation goes by a list that lacks an archive.
WholeLists == ~partial => FileInv

LEMMA FilesInvariant ==
  ASSUME ~Switch PROVE Spec => []WholeLists
<1>1. Init => LockInv /\ TypeInv /\ WholeLists
  BY LockInit, TypeInit, FileInit DEF WholeLists
<1>2. LockInv /\ TypeInv /\ WholeLists /\ [Next]_vars
        => (LockInv /\ TypeInv /\ WholeLists)'
  <2> SUFFICES ASSUME LockInv, TypeInv, WholeLists, [Next]_vars
               PROVE  LockInv' /\ TypeInv' /\ (~partial' => FileInv')
    BY DEF WholeLists
  <2>1. LockInv' /\ TypeInv'
    BY LockStep, TypeStep
  <2>2. ASSUME ~partial' PROVE FileInv'
    <3>1. ~partial
      BY <2>2, PartialStays
    <3> QED
      BY <2>2, <3>1, FileStep DEF WholeLists
  <2> QED
    BY <2>1, <2>2
<1> QED
  BY <1>1, <1>2, PTL DEF Spec

\* As long as no rotation missed an archive, no file disappears but by the
\* unlink of zlog_rotater_roll_files or zlog_rotater_seq_files: no rename
\* replaces an archive, whichever system call of an earlier rotation failed and
\* wherever a process died.
THEOREM NothingLost ==
  ASSUME ~Switch PROVE Spec => []NoFileLost
<1>1. WholeLists => NoFileLost
  BY DEF WholeLists, FileInv, NoFileLost, AllThere
<1> QED
  BY <1>1, FilesInvariant, PTL

\* The numbers tell the age at every moment, for any limit, as long as no
\* rotation missed an archive.
THEOREM AgeInNumbers ==
  ASSUME ~Switch PROVE Spec => []NumbersTellAge
<1>1. WholeLists => NumbersTellAge
  BY DEF WholeLists, FileInv, NumbersTellAge, AgeOrder
<1> QED
  BY <1>1, FilesInvariant, PTL

\* What the limit removes is older than all that stays, and it removes enough
\* (zlog_rotater_roll_files, zlog_rotater_seq_files), as long as no rotation
\* missed an archive.
THEOREM NewestStay ==
  ASSUME ~Switch PROVE Spec => []NewestKept
<1>1. WholeLists => NewestKept
  BY KeepsLimit DEF WholeLists, NewestKept
<1> QED
  BY <1>1, FilesInvariant, PTL
=============================================================================
