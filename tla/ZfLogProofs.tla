----------------------------- MODULE ZfLogProofs -----------------------------
(***************************************************************************)
(* Proofs about zf_log.                                                    *)
(*                                                                         *)
(* The time cache, for every finite set of threads and every set of        *)
(* seconds.  The inductive invariant IInv says, besides what the           *)
(* properties say, what a thread has established at each place: a reader   *)
(* of the cache finds the time of the cached second there, a writer has    *)
(* written what it computed.                                               *)
(*                                                                         *)
(* The lines, for every size of the buffer, of the parts of a line and of  *)
(* the memory that is dumped.                                              *)
(***************************************************************************)
EXTENDS TimeCache, Message, FiniteSetTheorems, SequenceLemmas

-----------------------------------------------------------------------------
(* The time cache                                                          *)

\* What a thread knows at each place.
Knows(t) ==
  /\ pc[t] # "idle" => now[t] \in Seconds
  /\ pc[t] \in {"compare", "copy"} => tm = tv
  /\ pc[t] = "copy" => tv = now[t]
  /\ pc[t] \in {"release", "set", "writeTv", "writeTm", "publish", "done"}
       => res[t] = now[t]
  /\ pc[t] \in {"writeTm", "publish"} => tv = now[t]
  /\ pc[t] = "publish" => tm = now[t]

\* The inductive invariant.
IInv ==
  /\ TypeOK
  /\ NoRace
  /\ CacheConsistent
  /\ ModeExact
  /\ \A t \in Threads : Knows(t)

\* A thread that joins the announced readers, or leaves them, changes their
\* number by one.
LEMMA Counting ==
  ASSUME NEW t \in Threads
  PROVE  /\ IsFiniteSet(Announced) /\ Cardinality(Announced) \in Nat
         /\ t \notin Announced =>
              Cardinality(Announced \cup {t}) = Cardinality(Announced) + 1
         /\ t \in Announced =>
              /\ Cardinality(Announced \ {t}) = Cardinality(Announced) - 1
              /\ Cardinality(Announced) - 1 \in Nat
         /\ Cardinality(Announced) = 0 => Announced = {}
<1>1. IsFiniteSet(Announced)
  BY TimeCacheAssumption, FS_Subset DEF Announced
<1>2. t \in Announced =>
        /\ Cardinality(Announced \ {t}) = Cardinality(Announced) - 1
        /\ Cardinality(Announced \ {t}) \in Nat
  BY <1>1, FS_RemoveElement, FS_CardinalityType
<1> QED
  BY <1>1, <1>2, FS_CardinalityType, FS_AddElement, FS_EmptySet

\* Moves that leave a thread on the same side of every set of places keep the
\* sets.
LEMMA Moves ==
  ASSUME TypeOK, NEW t \in Threads, NEW where \in Places, Goto(t, where)
  PROVE  /\ pc' \in [Threads -> Places]
         /\ Announced' = IF where \in {"compare", "copy", "release", "mark",
                                       "withdraw"}
                         THEN Announced \cup {t} ELSE Announced \ {t}
         /\ Reading' = IF where \in {"compare", "copy"}
                       THEN Reading \cup {t} ELSE Reading \ {t}
         /\ Writing' = IF where \in {"writeTv", "writeTm", "publish"}
                       THEN Writing \cup {t} ELSE Writing \ {t}
BY DEF TypeOK, Goto, Announced, Reading, Writing

\* The initial state satisfies the invariant.
LEMMA InitInv == Init => IInv
<1> SUFFICES ASSUME Init PROVE IInv
  OBVIOUS
<1>1. TypeOK
  BY DEF Init, TypeOK, Places
<1>2. Announced = {} /\ Reading = {} /\ Writing = {}
  BY DEF Init, Announced, Reading, Writing
<1>3. NoRace /\ CacheConsistent /\ ModeExact
  BY <1>2, FS_EmptySet DEF Init, NoRace, CacheConsistent, ModeExact, Readable
<1>4. \A t \in Threads : Knows(t)
  BY DEF Init, Knows
<1> QED
  BY <1>1, <1>3, <1>4 DEF IInv

\* Every step preserves the invariant.
LEMMA StepInv == IInv /\ [Next]_vars => IInv'
<1> SUFFICES ASSUME IInv, [Next]_vars PROVE IInv'
  OBVIOUS
<1>i. TypeOK /\ NoRace /\ CacheConsistent /\ ModeExact
  BY DEF IInv
<1>k. \A t \in Threads : Knows(t)
  BY DEF IInv
<1> USE TimeCacheAssumption DEF modeVars, cacheVars
<1>1. ASSUME NEW t \in Threads, ReadClock(t) PROVE IInv'
  <2>1. Goto(t, "load") /\ pc[t] = "idle"
    BY <1>1 DEF ReadClock
  <2>2. Announced' = Announced /\ Reading' = Reading /\ Writing' = Writing
    BY <2>1, <1>i, Moves DEF Places, Announced, Reading, Writing
  <2>3. TypeOK'
    BY <1>1, <1>i, <2>1, Moves DEF ReadClock, TypeOK, Places
  <2>4. NoRace' /\ CacheConsistent' /\ ModeExact'
    BY <1>1, <1>i, <2>2
    DEF ReadClock, NoRace, CacheConsistent, ModeExact, Readable
  <2>5. \A u \in Threads : Knows(u)'
    BY <1>1, <1>i, <1>k DEF ReadClock, Goto, TypeOK, Knows
  <2> QED
    BY <2>3, <2>4, <2>5 DEF IInv
<1>2. ASSUME NEW t \in Threads, LoadMode(t) PROVE IInv'
  <2>1. pc[t] = "load" /\ (Goto(t, "announce") \/ Goto(t, "miss"))
    BY <1>2 DEF LoadMode
  <2>2. TypeOK'
    BY <1>2, <1>i, <2>1, Moves DEF LoadMode, TypeOK, Places
  <2>3. ModeExact'
    BY <1>2, <1>i, <2>1, Moves
    DEF LoadMode, ModeExact, NoRace, Readable, Places, Announced, Reading,
        Writing
  <2>4. NoRace'
    BY <1>2, <1>i, <2>1, Moves
    DEF LoadMode, ModeExact, NoRace, Readable, Places, Announced, Reading,
        Writing
  <2>5. CacheConsistent'
    BY <1>2, <1>i, <1>k, <2>1
    DEF LoadMode, CacheConsistent, ModeExact, NoRace, Readable, Knows, Writing
  <2>6. \A u \in Threads : Knows(u)'
    BY <1>2, <1>i, <1>k, <2>1
    DEF LoadMode, Goto, TypeOK, CacheConsistent, ModeExact, NoRace, Readable,
        Knows, Reading, Writing
  <2> QED
    BY <2>2, <2>3, <2>4, <2>5, <2>6 DEF IInv
<1>3. ASSUME NEW t \in Threads, Announce(t) PROVE IInv'
  <2>1. pc[t] = "announce" /\ (Goto(t, "compare") \/ Goto(t, "withdraw"))
    BY <1>3 DEF Announce
  <2>2. TypeOK'
    BY <1>3, <1>i, <2>1, Moves, Counting
    DEF Announce, TypeOK, ModeExact, Places, Announced
  <2>3. ModeExact'
    BY <1>3, <1>i, <2>1, Moves, Counting
    DEF Announce, ModeExact, NoRace, Readable, Places, Announced, Reading,
        Writing
  <2>4. NoRace'
    BY <1>3, <1>i, <2>1, Moves, Counting
    DEF Announce, ModeExact, NoRace, Readable, Places, Announced, Reading,
        Writing
  <2>5. CacheConsistent'
    BY <1>3, <1>i, <1>k, <2>1
    DEF Announce, CacheConsistent, ModeExact, NoRace, Readable, Knows, Writing
  <2>6. \A u \in Threads : Knows(u)'
    BY <1>3, <1>i, <1>k, <2>1
    DEF Announce, Goto, TypeOK, CacheConsistent, ModeExact, NoRace, Readable,
        Knows, Reading, Writing
  <2> QED
    BY <2>2, <2>3, <2>4, <2>5, <2>6 DEF IInv
<1>4. ASSUME NEW t \in Threads, Compare(t) PROVE IInv'
  <2>1. pc[t] = "compare" /\ (Goto(t, "copy") \/ Goto(t, "mark"))
    BY <1>4 DEF Compare
  <2>2. TypeOK'
    BY <1>4, <1>i, <2>1, Moves DEF Compare, TypeOK, Places
  <2>3. ModeExact'
    BY <1>4, <1>i, <2>1, Moves
    DEF Compare, ModeExact, NoRace, Readable, Places, Announced, Reading,
        Writing
  <2>4. NoRace'
    BY <1>4, <1>i, <2>1, Moves
    DEF Compare, ModeExact, NoRace, Readable, Places, Announced, Reading,
        Writing
  <2>5. CacheConsistent'
    BY <1>4, <1>i, <1>k, <2>1
    DEF Compare, CacheConsistent, ModeExact, NoRace, Readable, Knows, Writing
  <2>6. \A u \in Threads : Knows(u)'
    BY <1>4, <1>i, <1>k, <2>1
    DEF Compare, Goto, TypeOK, CacheConsistent, ModeExact, NoRace, Readable,
        Knows, Reading, Writing
  <2> QED
    BY <2>2, <2>3, <2>4, <2>5, <2>6 DEF IInv
<1>5. ASSUME NEW t \in Threads, Copy(t) PROVE IInv'
  <2>1. pc[t] = "copy" /\ (Goto(t, "release"))
    BY <1>5 DEF Copy
  <2>2. TypeOK'
    BY <1>5, <1>i, <2>1, Moves DEF Copy, TypeOK, Places
  <2>3. ModeExact'
    BY <1>5, <1>i, <2>1, Moves
    DEF Copy, ModeExact, NoRace, Readable, Places, Announced, Reading, Writing
  <2>4. NoRace'
    BY <1>5, <1>i, <2>1, Moves
    DEF Copy, ModeExact, NoRace, Readable, Places, Announced, Reading, Writing
  <2>5. CacheConsistent'
    BY <1>5, <1>i, <1>k, <2>1
    DEF Copy, CacheConsistent, ModeExact, NoRace, Readable, Knows, Writing
  <2>6. \A u \in Threads : Knows(u)'
    BY <1>5, <1>i, <1>k, <2>1
    DEF Copy, Goto, TypeOK, CacheConsistent, ModeExact, NoRace, Readable,
        Knows, Reading, Writing
  <2> QED
    BY <2>2, <2>3, <2>4, <2>5, <2>6 DEF IInv
<1>6. ASSUME NEW t \in Threads, Release(t) PROVE IInv'
  <2>1. pc[t] = "release" /\ (Goto(t, "done"))
    BY <1>6 DEF Release
  <2>2. TypeOK'
    BY <1>6, <1>i, <2>1, Moves, Counting
    DEF Release, TypeOK, ModeExact, Places, Announced
  <2>3. ModeExact'
    BY <1>6, <1>i, <2>1, Moves, Counting
    DEF Release, ModeExact, NoRace, Readable, Places, Announced, Reading,
        Writing
  <2>4. NoRace'
    BY <1>6, <1>i, <2>1, Moves, Counting
    DEF Release, ModeExact, NoRace, Readable, Places, Announced, Reading,
        Writing
  <2>5. CacheConsistent'
    BY <1>6, <1>i, <1>k, <2>1
    DEF Release, CacheConsistent, ModeExact, NoRace, Readable, Knows, Writing
  <2>6. \A u \in Threads : Knows(u)'
    BY <1>6, <1>i, <1>k, <2>1
    DEF Release, Goto, TypeOK, CacheConsistent, ModeExact, NoRace, Readable,
        Knows, Reading, Writing
  <2> QED
    BY <2>2, <2>3, <2>4, <2>5, <2>6 DEF IInv
<1>7. ASSUME NEW t \in Threads, MarkStale(t) PROVE IInv'
  <2>1. pc[t] = "mark" /\ (Goto(t, "withdraw"))
    BY <1>7 DEF MarkStale
  <2>2. TypeOK'
    BY <1>7, <1>i, <2>1, Moves DEF MarkStale, TypeOK, Places
  <2>3. ModeExact'
    BY <1>7, <1>i, <2>1, Moves
    DEF MarkStale, ModeExact, NoRace, Readable, Places, Announced, Reading,
        Writing
  <2>4. NoRace'
    BY <1>7, <1>i, <2>1, Moves
    DEF MarkStale, ModeExact, NoRace, Readable, Places, Announced, Reading,
        Writing
  <2>5. CacheConsistent'
    BY <1>7, <1>i, <1>k, <2>1
    DEF MarkStale, CacheConsistent, ModeExact, NoRace, Readable, Knows, Writing
  <2>6. \A u \in Threads : Knows(u)'
    BY <1>7, <1>i, <1>k, <2>1
    DEF MarkStale, Goto, TypeOK, CacheConsistent, ModeExact, NoRace,
        Readable, Knows, Reading, Writing
  <2> QED
    BY <2>2, <2>3, <2>4, <2>5, <2>6 DEF IInv
<1>8. ASSUME NEW t \in Threads, Withdraw(t) PROVE IInv'
  <2>1. pc[t] = "withdraw" /\ (Goto(t, "miss"))
    BY <1>8 DEF Withdraw
  <2>2. TypeOK'
    BY <1>8, <1>i, <2>1, Moves, Counting
    DEF Withdraw, TypeOK, ModeExact, Places, Announced
  <2>3. ModeExact'
    BY <1>8, <1>i, <2>1, Moves, Counting
    DEF Withdraw, ModeExact, NoRace, Readable, Places, Announced, Reading,
        Writing
  <2>4. NoRace'
    BY <1>8, <1>i, <2>1, Moves, Counting
    DEF Withdraw, ModeExact, NoRace, Readable, Places, Announced, Reading,
        Writing
  <2>5. CacheConsistent'
    BY <1>8, <1>i, <1>k, <2>1
    DEF Withdraw, CacheConsistent, ModeExact, NoRace, Readable, Knows, Writing
  <2>6. \A u \in Threads : Knows(u)'
    BY <1>8, <1>i, <1>k, <2>1
    DEF Withdraw, Goto, TypeOK, CacheConsistent, ModeExact, NoRace, Readable,
        Knows, Reading, Writing
  <2> QED
    BY <2>2, <2>3, <2>4, <2>5, <2>6 DEF IInv
<1>9. ASSUME NEW t \in Threads, Localtime(t) PROVE IInv'
  <2>1. pc[t] = "miss" /\ (Goto(t, "set"))
    BY <1>9 DEF Localtime
  <2>2. TypeOK'
    BY <1>9, <1>i, <2>1, Moves DEF Localtime, TypeOK, Places
  <2>3. ModeExact'
    BY <1>9, <1>i, <2>1, Moves
    DEF Localtime, ModeExact, NoRace, Readable, Places, Announced, Reading,
        Writing
  <2>4. NoRace'
    BY <1>9, <1>i, <2>1, Moves
    DEF Localtime, ModeExact, NoRace, Readable, Places, Announced, Reading,
        Writing
  <2>5. CacheConsistent'
    BY <1>9, <1>i, <1>k, <2>1
    DEF Localtime, CacheConsistent, ModeExact, NoRace, Readable, Knows, Writing
  <2>6. \A u \in Threads : Knows(u)'
    BY <1>9, <1>i, <1>k, <2>1
    DEF Localtime, Goto, TypeOK, CacheConsistent, ModeExact, NoRace,
        Readable, Knows, Reading, Writing
  <2> QED
    BY <2>2, <2>3, <2>4, <2>5, <2>6 DEF IInv
<1>10. ASSUME NEW t \in Threads, Swap(t) PROVE IInv'
  <2>1. pc[t] = "set" /\ (Goto(t, "writeTv") \/ Goto(t, "done"))
    BY <1>10 DEF Swap
  <2>2. TypeOK'
    BY <1>10, <1>i, <2>1, Moves DEF Swap, TypeOK, Places
  <2>a. ASSUME stale /\ ~fluid /\ count = 0 PROVE ModeExact' /\ NoRace'
    <3>1. Goto(t, "writeTv") /\ fluid' /\ UNCHANGED <<stale, count, tv, tm>>
      BY <1>10, <2>a DEF Swap
    <3>2. Announced = {} /\ Reading = {} /\ Writing = {}
      BY <1>i, <2>a, Counting DEF ModeExact, Announced, Reading
    <3>3. Announced' = {} /\ Reading' = {} /\ Writing' = {t}
      BY <1>i, <3>1, <3>2, Moves DEF Places
    <3> QED
      BY <1>i, <3>1, <3>2, <3>3 DEF ModeExact, NoRace
  <2>b. ASSUME ~(stale /\ ~fluid /\ count = 0) PROVE ModeExact' /\ NoRace'
    <3>1. Goto(t, "done") /\ UNCHANGED <<stale, fluid, count, tv, tm>>
      BY <1>10, <2>b DEF Swap
    <3>2. Announced' = Announced /\ Reading' = Reading /\ Writing' = Writing
      BY <1>i, <2>1, <3>1, Moves DEF Places, Announced, Reading, Writing
    <3> QED
      BY <1>i, <3>1, <3>2 DEF ModeExact, NoRace
  <2>3. ModeExact' /\ NoRace'
    BY <2>a, <2>b
  <2>5. CacheConsistent'
    BY <1>10, <1>i, <1>k, <2>1
    DEF Swap, CacheConsistent, ModeExact, NoRace, Readable, Knows, Writing
  <2>6. \A u \in Threads : Knows(u)'
    BY <1>10, <1>i, <1>k, <2>1
    DEF Swap, Goto, TypeOK, CacheConsistent, ModeExact, NoRace, Readable,
        Knows, Reading, Writing
  <2> QED
    BY <2>2, <2>3, <2>5, <2>6 DEF IInv
<1>11. ASSUME NEW t \in Threads, WriteTv(t) PROVE IInv'
  <2>1. pc[t] = "writeTv" /\ (Goto(t, "writeTm"))
    BY <1>11 DEF WriteTv
  <2>2. TypeOK'
    BY <1>11, <1>i, <1>k, <2>1, Moves DEF WriteTv, TypeOK, Knows, Places
  <2>3. ModeExact'
    BY <1>11, <1>i, <2>1, Moves
    DEF WriteTv, ModeExact, NoRace, Readable, Places, Announced, Reading,
        Writing
  <2>4. NoRace'
    BY <1>11, <1>i, <2>1, Moves
    DEF WriteTv, ModeExact, NoRace, Readable, Places, Announced, Reading,
        Writing
  <2>5. CacheConsistent'
    BY <1>11, <1>i, <1>k, <2>1
    DEF WriteTv, CacheConsistent, ModeExact, NoRace, Readable, Knows, Writing
  <2>6. \A u \in Threads : Knows(u)'
    BY <1>11, <1>i, <1>k, <2>1
    DEF WriteTv, Goto, TypeOK, CacheConsistent, ModeExact, NoRace, Readable,
        Knows, Reading, Writing
  <2> QED
    BY <2>2, <2>3, <2>4, <2>5, <2>6 DEF IInv
<1>12. ASSUME NEW t \in Threads, WriteTm(t) PROVE IInv'
  <2>1. pc[t] = "writeTm" /\ (Goto(t, "publish"))
    BY <1>12 DEF WriteTm
  <2>2. TypeOK'
    BY <1>12, <1>i, <2>1, Moves DEF WriteTm, TypeOK, Places
  <2>3. ModeExact'
    BY <1>12, <1>i, <2>1, Moves
    DEF WriteTm, ModeExact, NoRace, Readable, Places, Announced, Reading,
        Writing
  <2>4. NoRace'
    BY <1>12, <1>i, <2>1, Moves
    DEF WriteTm, ModeExact, NoRace, Readable, Places, Announced, Reading,
        Writing
  <2>5. CacheConsistent'
    BY <1>12, <1>i, <1>k, <2>1
    DEF WriteTm, CacheConsistent, ModeExact, NoRace, Readable, Knows, Writing
  <2>6. \A u \in Threads : Knows(u)'
    BY <1>12, <1>i, <1>k, <2>1
    DEF WriteTm, Goto, TypeOK, CacheConsistent, ModeExact, NoRace, Readable,
        Knows, Reading, Writing
  <2> QED
    BY <2>2, <2>3, <2>4, <2>5, <2>6 DEF IInv
<1>13. ASSUME NEW t \in Threads, Publish(t) PROVE IInv'
  <2>1. pc[t] = "publish" /\ (Goto(t, "done"))
    BY <1>13 DEF Publish
  <2>2. TypeOK'
    BY <1>13, <1>i, <2>1, Moves DEF Publish, TypeOK, Places
  <2>3. /\ Writing = {t} /\ Writing' = {}
        /\ Announced' = Announced /\ Reading' = Reading
    BY <1>i, <2>1, Moves DEF NoRace, Places, Announced, Reading, Writing
  <2>4. ModeExact' /\ NoRace'
    BY <1>13, <1>i, <2>3 DEF Publish, ModeExact, NoRace
  <2>5. CacheConsistent'
    BY <1>13, <1>i, <1>k, <2>1
    DEF Publish, CacheConsistent, ModeExact, NoRace, Readable, Knows, Writing
  <2>6. \A u \in Threads : Knows(u)'
    BY <1>13, <1>i, <1>k, <2>1
    DEF Publish, Goto, TypeOK, CacheConsistent, ModeExact, NoRace, Readable,
        Knows, Reading, Writing
  <2> QED
    BY <2>2, <2>3, <2>4, <2>5, <2>6 DEF IInv
<1>14. ASSUME NEW t \in Threads, Return(t) PROVE IInv'
  <2>1. pc[t] = "done" /\ (Goto(t, "idle"))
    BY <1>14 DEF Return
  <2>2. TypeOK'
    BY <1>14, <1>i, <2>1, Moves DEF Return, TypeOK, Places
  <2>3. ModeExact'
    BY <1>14, <1>i, <2>1, Moves
    DEF Return, ModeExact, NoRace, Readable, Places, Announced, Reading,
        Writing
  <2>4. NoRace'
    BY <1>14, <1>i, <2>1, Moves
    DEF Return, ModeExact, NoRace, Readable, Places, Announced, Reading,
        Writing
  <2>5. CacheConsistent'
    BY <1>14, <1>i, <1>k, <2>1
    DEF Return, CacheConsistent, ModeExact, NoRace, Readable, Knows, Writing
  <2>6. \A u \in Threads : Knows(u)'
    BY <1>14, <1>i, <1>k, <2>1
    DEF Return, Goto, TypeOK, CacheConsistent, ModeExact, NoRace, Readable,
        Knows, Reading, Writing
  <2> QED
    BY <2>2, <2>3, <2>4, <2>5, <2>6 DEF IInv
<1>15. CASE UNCHANGED vars
  BY <1>15, <1>i, <1>k
  DEF vars, IInv, TypeOK, NoRace, CacheConsistent, ModeExact, Knows, Readable,
      Announced, Reading, Writing
<1> QED
  BY <1>1, <1>2, <1>3, <1>4, <1>5, <1>6, <1>7, <1>8, <1>9, <1>10, <1>11, <1>12,
     <1>13, <1>14, <1>15 DEF Next, Get, Set

\* The invariant holds in every reachable state.
LEMMA Invariance == Spec => []IInv
BY InitInv, StepInv, PTL DEF Spec

\* Every variable keeps its kind; the count of the mode word does not go below
\* zero.
THEOREM TypeCorrect == Spec => []TypeOK
<1>1. IInv => TypeOK
  BY DEF IInv
<1> QED
  BY Invariance, <1>1, PTL

\* The plain accesses of tcache_get and tcache_set to the cached time do not
\* race, for any number of threads.
THEOREM CacheRaceFree == Spec => []NoRace
<1>1. IInv => NoRace
  BY DEF IInv
<1> QED
  BY Invariance, <1>1, PTL

\* A cache whose mode word lets it be read holds the time of its own second.
THEOREM CacheRight == Spec => []CacheConsistent
<1>1. IInv => CacheConsistent
  BY DEF IInv
<1> QED
  BY Invariance, <1>1, PTL

\* The mode word counts the announced readers and is fluid while somebody
\* writes: no path through tcache_get leaks an announcement.
THEOREM ModeWordExact == Spec => []ModeExact
<1>1. IInv => ModeExact
  BY DEF IInv
<1> QED
  BY Invariance, <1>1, PTL

\* The time cache is a source of local time: a thread is given the time of the
\* second it read from the clock (time_callback).
THEOREM GivesOwnSecond == Spec => ImplementsTimeSource
<1>1. Init => Source!Init
  BY DEF Init, Source!Init
<1>2. IInv /\ [Next]_vars => [Source!Next]_Source!vars
  <2> SUFFICES ASSUME IInv, [Next]_vars PROVE [Source!Next]_Source!vars
    OBVIOUS
  <2>i. TypeOK /\ \A t \in Threads : Knows(t)
    BY DEF IInv
  <2>1. ASSUME NEW t \in Threads, ReadClock(t) PROVE Source!Ask(t)
    BY <2>1, <2>i, TimeCacheAssumption DEF ReadClock, Goto, TypeOK, Source!Ask
  <2>2. ASSUME NEW t \in Threads, Get(t) \/ Set(t), pc'[t] # "done"
        PROVE  UNCHANGED Source!vars
    BY <2>2, <2>i
    DEF Get, Set, LoadMode, Announce, Compare, Copy, Release, MarkStale,
        Withdraw, Localtime, Swap, WriteTv, WriteTm, Publish, Goto, TypeOK,
        Source!vars
  <2>3. ASSUME NEW t \in Threads, Get(t) \/ Set(t), pc'[t] = "done"
        PROVE  Source!Give(t)
    BY <2>3, <2>i, TimeCacheAssumption
    DEF Get, Set, LoadMode, Announce, Compare, Copy, Release, MarkStale,
        Withdraw, Localtime, Swap, WriteTv, WriteTm, Publish, Goto, TypeOK,
        Knows, Source!Give
  <2>4. ASSUME NEW t \in Threads, Return(t) PROVE Source!Leave(t)
    BY <2>4, <2>i, TimeCacheAssumption
    DEF Return, Goto, TypeOK, Knows, Source!Leave
  <2>5. CASE UNCHANGED vars
    BY <2>5 DEF vars, Source!vars
  <2> QED
    BY <2>1, <2>2, <2>3, <2>4, <2>5 DEF Next, Source!Next
<1> QED
  BY <1>1, <1>2, Invariance, PTL DEF Spec, ImplementsTimeSource, Source!Spec

-----------------------------------------------------------------------------
(* Lines: the buffer                                                       *)

\* Texts are sequences of characters.
Kinds == {"ctx", "prefix", "tag", "function", "filename", "fileline", "msg",
          "dot", "at", "colon", "delimiter", "zero"}
Chars == Kinds \X Nat
Texts == Seq(Chars)

\* A message whose position and whose buffer are inside.
Inside(m) ==
  /\ DOMAIN m = {"buf", "p", "tag_b", "tag_e", "msg_b"}
  /\ m.p \in 0..BufEnd
  /\ DOMAIN m.buf \subseteq 0..BUF_SZ - 1

\* The smaller of two numbers.
LEMMA MinOfTwo ==
  ASSUME NEW a \in Int, NEW b \in Int
  PROVE  Min({a, b}) = IF a =< b THEN a ELSE b
BY DEF Min

\* The end of the line leaves room for one character more.
LEMMA EndInside ==
  ASSUME MessageAssumption
  PROVE  BufEnd \in Nat /\ BufEnd + 1 =< BUF_SZ - 1 /\ BUF_SZ \in Nat /\ EOL_SZ \in Nat
BY DEF MessageAssumption, BufEnd

\* What a part of a line is made of.
LEMMA CharType == ASSUME NEW name \in Kinds, NEW i \in Nat PROVE <<name, i>> \in Chars
BY DEF Chars

LEMMA PartIsText ==
  ASSUME NEW name \in Kinds, NEW size \in Nat
  PROVE  Part(name, size) \in Texts /\ Len(Part(name, size)) = size
<1> DEFINE char(i) == <<name, i>>
<1>1. ASSUME NEW i \in 1..size
      PROVE  char(i) \in Chars
  <2>1. i \in Nat
    OBVIOUS
  <2> QED
    BY <2>1, CharType
<1>2. Part(name, size) = [i \in 1..size |-> char(i)]
  BY DEF Part
<1> HIDE DEF char
<1> QED
  BY <1>1, <1>2 DEF Texts

LEMMA CSTRIsText ==
  ASSUME NEW name \in Kinds
  PROVE  CSTR(name) \in Texts
<1> DEFINE char == <<name, 0>>
<1>1. char \in Chars
  BY CharType
<1>2. CSTR(name) = <<char>>
  BY DEF CSTR
<1> HIDE DEF char
<1> QED
  BY <1>1, <1>2 DEF Texts

LEMMA ZeroIsChar == ZeroByte \in Chars
BY CharType DEF ZeroByte, Kinds

\* Poke changes what the buffer holds, not where it is.
LEMMA PokeDomain ==
  ASSUME NEW buf, NEW from, NEW s
  PROVE  DOMAIN Poke(buf, from, s) = DOMAIN buf \cup (from..from + Len(s) - 1)
BY DEF Poke

\* What is poked before the end of the buffer stays in it.
LEMMA PokeInside ==
  ASSUME MessageAssumption, NEW buf, DOMAIN buf \subseteq 0..BUF_SZ - 1,
         NEW from \in Nat, NEW s, Len(s) \in Nat, from + Len(s) =< BUF_SZ
  PROVE  DOMAIN Poke(buf, from, s) \subseteq 0..BUF_SZ - 1
<1> DEFINE n == Len(s)
<1>1. n \in Nat /\ from + n =< BUF_SZ /\ BUF_SZ \in Nat
  BY EndInside
<1> HIDE DEF n
<1>2. from..from + n - 1 \subseteq 0..BUF_SZ - 1
  BY <1>1
<1>3. DOMAIN Poke(buf, from, s) = DOMAIN buf \cup (from..from + n - 1)
  BY PokeDomain DEF n
<1> QED
  BY <1>2, <1>3

\* A text cut where the line ends.
LEMMA CutLen ==
  ASSUME NEW s \in Texts, NEW room \in Nat
  PROVE  Len(SubSeq(s, 1, Min({Len(s), room}))) \in 0..room
<1>1. Len(s) \in Nat
  BY DEF Texts
<1>2. Min({Len(s), room}) \in 0..Len(s) /\ Min({Len(s), room}) =< room
  BY <1>1, MinOfTwo
<1>3. Len(SubSeq(s, 1, Min({Len(s), room}))) = Min({Len(s), room})
  BY <1>1, <1>2, SubSeqProperties DEF Texts
<1> QED
  BY <1>2, <1>3

\* Every way to put a part stays inside.
LEMMA PutInside ==
  ASSUME MessageAssumption, NEW m, Inside(m), NEW s \in Texts
  PROVE  Inside(Put(m, s))
<1> DEFINE cut == SubSeq(s, 1, Min({Len(s), BufEnd - m.p}))
<1>1. BufEnd \in Nat /\ m.p \in Nat /\ BufEnd - m.p \in Nat /\ BufEnd =< BUF_SZ
     /\ BUF_SZ \in Nat
  BY EndInside DEF Inside
<1>2. Len(cut) \in 0..BufEnd - m.p
  BY <1>1, CutLen
<1>3. Put(m, s) = [m EXCEPT !.buf = Poke(m.buf, m.p, cut), !.p = m.p + Len(cut)]
  BY DEF Put
<1> HIDE DEF cut
<1>4. m.p + Len(cut) \in 0..BufEnd /\ m.p + Len(cut) =< BUF_SZ /\ Len(cut) \in Nat
  BY <1>1, <1>2
<1>5. DOMAIN Poke(m.buf, m.p, cut) \subseteq 0..BUF_SZ - 1
  BY <1>1, <1>4, PokeInside DEF Inside
<1> QED
  BY <1>3, <1>4, <1>5 DEF Inside

LEMMA PutStringInside ==
  ASSUME MessageAssumption, NEW m, Inside(m), NEW s \in Texts
  PROVE  Inside(PutString(m, s))
<1>1. s \o <<ZeroByte>> \in Texts
  BY ZeroIsChar DEF Texts
<1>2. Inside(Put(m, s)) /\ Inside(Put(m, s \o <<ZeroByte>>))
  BY <1>1, PutInside
<1> QED
  BY <1>2 DEF PutString, Inside

\* The byte that vsnprintf is told of besides is the last that is written.
LEMMA PutPrintfInside ==
  ASSUME MessageAssumption, NEW m, Inside(m), NEW n \in Nat, NEW s \in Texts, Len(s) = n
  PROVE  Inside(PutPrintf(m, n, s))
<1> DEFINE some == SubSeq(s, 1, Min({n, nprintf_size(m) - 1}))
           p == IF n < BufEnd - m.p THEN m.p + n ELSE BufEnd
<1>1. /\ BufEnd \in Nat /\ m.p \in Nat /\ BufEnd - m.p \in Nat /\ m.p =< BufEnd
      /\ BUF_SZ \in Nat /\ BufEnd + 1 =< BUF_SZ - 1
  BY EndInside DEF Inside
<1>2. nprintf_size(m) - 1 = BufEnd - m.p
  BY <1>1 DEF nprintf_size
<1>3. Len(some) \in 0..BufEnd - m.p
  BY <1>1, <1>2, CutLen
<1>4. some \in Texts
  BY <1>1, <1>2, MinOfTwo, SubSeqProperties DEF Texts
<1>5. PutPrintf(m, n, s) = [m EXCEPT !.buf = Poke(m.buf, m.p, Append(some, ZeroByte)), !.p = p]
  BY DEF PutPrintf
<1> HIDE DEF some
<1>6. Len(Append(some, ZeroByte)) = Len(some) + 1
  BY <1>4, ZeroIsChar DEF Texts
<1>7. m.p + Len(Append(some, ZeroByte)) =< BUF_SZ /\ Len(Append(some, ZeroByte)) \in Nat
  BY <1>1, <1>3, <1>6
<1>8. DOMAIN Poke(m.buf, m.p, Append(some, ZeroByte)) \subseteq 0..BUF_SZ - 1
  BY <1>1, <1>7, PokeInside DEF Inside
<1>9. p \in 0..BufEnd
  BY <1>1
<1> HIDE DEF p
<1> QED
  BY <1>5, <1>8, <1>9 DEF Inside

-----------------------------------------------------------------------------
(* The parts of a line                                                     *)

\* The context and the tag.
LEMMA CtxInside ==
  ASSUME MessageAssumption, NEW m, Inside(m)
  PROVE  Inside(put_ctx(m))
BY PartIsText, PutInside DEF put_ctx, MessageAssumption, Kinds

LEMMA TagInside ==
  ASSUME MessageAssumption, NEW m, Inside(m), NEW prefix \in Nat, NEW tag \in Nat
  PROVE  Inside(put_tag(m, prefix, tag))
<1> DEFINE m1 == IF prefix = 0 THEN m ELSE PutString(m, Part("prefix", prefix))
           m2 == IF tag # 0 /\ m1.p # m.p THEN Put(m1, CSTR("dot")) ELSE m1
           m3 == IF tag = 0 THEN m2 ELSE PutString(m2, Part("tag", tag))
           m4 == IF m3.p # m.p THEN Put(m3, CSTR("delimiter")) ELSE m3
<1>1. Inside(m1)
  BY PartIsText, PutStringInside DEF Kinds
<1> HIDE DEF m1
<1>2. Inside(m2)
  BY <1>1, CSTRIsText, PutInside DEF Kinds
<1> HIDE DEF m2
<1>3. Inside(m3)
  BY <1>2, PartIsText, PutStringInside DEF Kinds
<1> HIDE DEF m3
<1>4. Inside(m4)
  BY <1>3, CSTRIsText, PutInside DEF Kinds
<1> HIDE DEF m4
<1>5. put_tag(m, prefix, tag) = [m4 EXCEPT !.tag_b = m.p, !.tag_e = m3.p]
  BY DEF put_tag, m1, m2, m3, m4
<1> QED
  BY <1>4, <1>5 DEF Inside

\* The source of the message.
LEMMA SrcInside ==
  ASSUME MessageAssumption, NEW m, Inside(m), NEW size \in Nat
  PROVE  Inside(put_src(m, size))
<1> DEFINE m1 == Put(PutString(m, Part("function", size)), CSTR("at"))
           m2 == Put(PutString(m1, Part("filename", size)), CSTR("colon"))
<1>1. Inside(m1)
  BY PartIsText, CSTRIsText, PutStringInside, PutInside DEF Kinds
<1> HIDE DEF m1
<1>2. Inside(m2)
  BY <1>1, PartIsText, CSTRIsText, PutStringInside, PutInside DEF Kinds
<1> HIDE DEF m2
<1>3. Inside(Put(Put(m2, Part("fileline", size)), CSTR("delimiter")))
  BY <1>2, PartIsText, CSTRIsText, PutInside DEF Kinds
<1> QED
  BY <1>3 DEF put_src, m1, m2

\* The message, which also marks where it begins.
LEMMA MsgInside ==
  ASSUME MessageAssumption, NEW m, Inside(m), NEW n \in Nat \cup {-1}
  PROVE  Inside(put_msg(m, n)) /\ put_msg(m, n).msg_b \in 0..BufEnd
<1> DEFINE new == PutPrintf(m, n, Part("msg", n))
<1>1. Inside(new)
  <2>1. CASE n \in Nat
    BY <2>1, PartIsText, PutPrintfInside DEF Kinds
  <2>2. CASE n = -1
    BY <2>2 DEF PutPrintf
  <2> QED
    BY <2>1, <2>2
<1> HIDE DEF new
<1>2. put_msg(m, n) = [new EXCEPT !.msg_b = m.p]
  BY DEF put_msg, new
<1> QED
  BY <1>1, <1>2 DEF Inside

\* An empty message.
LEMMA FreshInside ==
  ASSUME MessageAssumption
  PROVE  Inside(Fresh)
BY EndInside DEF Inside, Fresh

\* The end of line, which the callback writes.
LEMMA TakenInside ==
  ASSUME MessageAssumption, NEW m, Inside(m)
  PROVE  Inside([m EXCEPT !.buf = Taken(m)])
<1>1. m.p \in Nat /\ m.p + 1 =< BUF_SZ /\ Len(<<Eol>>) = 1
  BY EndInside DEF Inside
<1>2. DOMAIN Taken(m) \subseteq 0..BUF_SZ - 1
  BY <1>1, PokeInside DEF Taken, Inside
<1> QED
  BY <1>2 DEF Inside

-----------------------------------------------------------------------------
(* The invariant                                                           *)

\* While memory is dumped its columns are inside, and some is left.
DumpInv ==
  /\ call.mem \in Nat /\ mem \in Nat /\ mem < call.mem
  /\ msg.msg_b \in 0..BufEnd
  /\ AsciiE(msg) =< BufEnd

\* The message stays inside its buffer, and so do the columns of a dump.
MessageInv ==
  /\ format \in [mem_width : Nat \ {0}, prefix : Nat]
  /\ Inside(msg)
  /\ ~NoCall => DumpInv

\* Writing a line keeps it, a row of a dump does, and so every step.
LEMMA WriteKeeps ==
  ASSUME MessageAssumption, MessageInv, NEW c \in Calls, WriteMessage(c)
  PROVE  MessageInv'
<1> DEFINE put == Mask(c)
           m1 == IF "ctx" \in put THEN put_ctx(Fresh) ELSE Fresh
           m2 == IF "tag" \in put THEN put_tag(m1, format.prefix, c.tag) ELSE m1
           m3 == IF "src" \in put /\ c.src # -1 THEN put_src(m2, c.src) ELSE m2
           m4 == IF "msg" \in put THEN put_msg(m3, c.n) ELSE m3
<1>1. /\ format.prefix \in Nat /\ c.tag \in Nat /\ c.src \in Nat \cup {-1}
      /\ c.n \in Nat \cup {-1} /\ c.mem \in Nat
  BY DEF MessageInv, Calls, MessageAssumption
<1>2. Inside(m1)
  BY FreshInside, CtxInside
<1> HIDE DEF m1
<1>3. Inside(m2)
  BY <1>1, <1>2, TagInside
<1> HIDE DEF m2
<1>4. Inside(m3)
  BY <1>1, <1>3, SrcInside
<1> HIDE DEF m3
<1>5. Inside(m4) /\ ("msg" \in put => m4.msg_b \in 0..BufEnd)
  BY <1>1, <1>4, MsgInside
<1> HIDE DEF m4
<1>6. /\ msg' = [m4 EXCEPT !.buf = Taken(m4)]
      /\ mem' = IF Dumped(c, m4) THEN 0 ELSE -1
      /\ call' = c /\ UNCHANGED format
  BY DEF WriteMessage, m1, m2, m3, m4
<1>7. Inside(msg')
  BY <1>5, <1>6, TakenInside
<1>8. ASSUME mem' # -1
      PROVE  DumpInv'
  <2>1. Dumped(c, m4) /\ mem' = 0
    BY <1>6, <1>8
  <2>2. msg'.msg_b = m4.msg_b
    BY <1>5, <1>6 DEF Inside
  <2>3. AsciiE(msg)' = AsciiE(m4)
    BY <1>6, <2>2 DEF AsciiE, AsciiB
  <2> QED
    BY <1>1, <1>5, <1>6, <2>1, <2>2, <2>3 DEF DumpInv, Dumped
<1> QED
  BY <1>6, <1>7, <1>8 DEF MessageInv, NoCall, Inside

LEMMA DumpKeeps ==
  ASSUME MessageAssumption, MessageInv, output_mem
  PROVE  MessageInv'
<1> DEFINE w == format.mem_width
           b == msg.msg_b
           n == Min({w, call.mem - mem})
           hex == [k \in 1..AsciiB(msg) - b |->
                     IF k <= 2 * n THEN Hex(mem + (k - 1) \div 2) ELSE Blank]
           ascii == [k \in 1..n |-> Ascii(mem + k - 1)]
           m == [msg EXCEPT !.buf = Dump(mem, n, msg.buf), !.p = AsciiB(msg) + n]
<1>1. DumpInv /\ w \in Nat \ {0} /\ BufEnd \in Nat /\ BufEnd + 1 =< BUF_SZ - 1
     /\ BUF_SZ \in Nat
  BY EndInside DEF output_mem, MessageInv
<1>2. b \in Nat /\ AsciiB(msg) = b + 2 * w + 2 /\ AsciiB(msg) + w =< BufEnd
  BY <1>1 DEF DumpInv, AsciiB, AsciiE
<1>3. n \in Nat /\ n =< w /\ n =< call.mem - mem
  BY <1>1, MinOfTwo DEF DumpInv
<1> HIDE DEF n, w
<1>4. Len(hex) = 2 * w + 2
  BY <1>1, <1>2
<1>5. Len(ascii) = n
  BY <1>3
<1>6. Dump(mem, n, msg.buf) = Poke(Poke(msg.buf, b, hex), AsciiB(msg), ascii)
  BY DEF Dump
<1> HIDE DEF hex, ascii, b
<1>7. DOMAIN Poke(msg.buf, b, hex) \subseteq 0..BUF_SZ - 1
  <2>1. b + Len(hex) =< BUF_SZ /\ Len(hex) \in Nat
    BY <1>1, <1>2, <1>4
  <2> QED
    BY <1>2, <2>1, PokeInside DEF MessageInv, Inside
<1>8. DOMAIN Dump(mem, n, msg.buf) \subseteq 0..BUF_SZ - 1
  <2>1. AsciiB(msg) \in Nat /\ AsciiB(msg) + Len(ascii) =< BUF_SZ /\ Len(ascii) \in Nat
    BY <1>1, <1>2, <1>3, <1>5
  <2> QED
    BY <1>6, <1>7, <2>1, PokeInside
<1>9. AsciiB(msg) + n \in 0..BufEnd
  BY <1>1, <1>2, <1>3
<1>10. Inside(m) /\ m.msg_b = msg.msg_b
  BY <1>8, <1>9 DEF MessageInv, Inside
<1> HIDE DEF m
<1>11. /\ msg' = [m EXCEPT !.buf = Taken(m)] /\ UNCHANGED <<format, call>>
       /\ mem' = IF mem + n = call.mem THEN -1 ELSE mem + n
  BY DEF output_mem, m, n, w
<1>12. Inside(msg') /\ msg'.msg_b = msg.msg_b
  BY <1>10, <1>11, TakenInside DEF Inside
<1>13. ASSUME mem' # -1
       PROVE  DumpInv'
  <2>1. mem' = mem + n /\ mem + n # call.mem
    BY <1>11, <1>13
  <2>2. AsciiE(msg)' = AsciiE(msg)
    BY <1>11, <1>12 DEF AsciiE, AsciiB
  <2> QED
    BY <1>1, <1>3, <1>11, <1>12, <2>1, <2>2 DEF DumpInv
<1> QED
  BY <1>11, <1>12, <1>13 DEF MessageInv, NoCall, Inside

LEMMA MessageStep ==
  ASSUME MessageAssumption, MessageInv, [NextMessage]_messageVars
  PROVE  MessageInv'
<1>1. CASE UNCHANGED messageVars
  BY <1>1 DEF messageVars, MessageInv, Inside, NoCall, DumpInv, AsciiE, AsciiB
<1>2. CASE SetFormat
  <2>1. format' \in [mem_width : Nat \ {0}, prefix : Nat]
    BY <1>2 DEF SetFormat, MessageInv, MessageAssumption
  <2>2. NoCall /\ UNCHANGED <<msg, mem>>
    BY <1>2 DEF SetFormat, MaySet
  <2> QED
    BY <2>1, <2>2 DEF MessageInv, Inside, NoCall
<1>3. CASE zf_log_set_output_v \/ zf_log_set_output_level
  BY <1>3 DEF zf_log_set_output_v, zf_log_set_output_level, MessageInv, Inside, NoCall,
              DumpInv, AsciiE, AsciiB
<1>4. ASSUME NEW c \in Calls, WriteMessage(c)
      PROVE  MessageInv'
  BY <1>4, WriteKeeps
<1>5. CASE output_mem
  BY <1>5, DumpKeeps
<1> QED
  BY <1>1, <1>2, <1>3, <1>4, <1>5 DEF NextMessage

\* Nothing is written outside the buffer of a line: not by a part that is cut, by
\* vsnprintf, which nprintf_size tells of a byte more, by the end of line, nor by
\* a line of a dump (put_stringn, put_nprintf, output_mem).
THEOREM LineInBuffer ==
  ASSUME MessageAssumption
  PROVE  SpecMessage => []InBuffer
<1>1. InitMessage => MessageInv
  BY FreshInside DEF InitMessage, MessageInv, MessageAssumption, NoCall
<1>2. MessageInv /\ [NextMessage]_messageVars => MessageInv'
  BY MessageStep
<1>3. MessageInv => InBuffer
  BY DEF MessageInv, Inside, InBuffer
<1> QED
  BY <1>1, <1>2, <1>3, PTL DEF SpecMessage

-----------------------------------------------------------------------------
(* Lines: what is in the buffer                                            *)

\* The buffer holds a text, as far as there is room for it.
Content(m, t) ==
  /\ Inside(m) /\ t \in Texts
  /\ m.p = Min({Len(t), BufEnd})
  /\ \A i \in 0..m.p - 1 : i \in DOMAIN m.buf /\ m.buf[i] = t[i + 1]

\* A text joined to another.
LEMMA TextLen == ASSUME NEW t \in Texts PROVE Len(t) \in Nat
BY DEF Texts

LEMMA JoinedText ==
  ASSUME NEW s \in Texts, NEW t \in Texts
  PROVE  /\ t \o s \in Texts /\ Len(t \o s) = Len(t) + Len(s)
         /\ \A i \in 1..Len(t) : (t \o s)[i] = t[i]
         /\ \A i \in Len(t) + 1..Len(t) + Len(s) : (t \o s)[i] = s[i - Len(t)]
BY DEF Texts

\* A full buffer stays as it is.
LEMMA FullContent ==
  ASSUME MessageAssumption, NEW m, NEW t, Content(m, t), m.p = BufEnd, NEW s \in Texts
  PROVE  Content(m, t \o s)
<1>1. t \in Texts /\ Inside(m) /\ BufEnd \in Nat
  BY EndInside DEF Content
<1>2. Len(t) \in Nat /\ Len(s) \in Nat /\ BufEnd <= Len(t)
  <2>1. Len(t) \in Nat /\ Len(s) \in Nat
    BY <1>1, TextLen
  <2>2. BufEnd = IF Len(t) =< BufEnd THEN Len(t) ELSE BufEnd
    BY <1>1, <2>1, MinOfTwo DEF Content
  <2> QED
    BY <1>1, <2>1, <2>2
<1>3. BufEnd = Min({Len(t \o s), BufEnd})
  <2>1. Len(t \o s) = Len(t) + Len(s)
    BY <1>1, JoinedText
  <2> QED
    BY <1>1, <1>2, <2>1, MinOfTwo
<1>4. ASSUME NEW i \in 0..m.p - 1
      PROVE  i \in DOMAIN m.buf /\ m.buf[i] = (t \o s)[i + 1]
  <2>1. i + 1 \in 1..Len(t)
    BY <1>1, <1>2
  <2> QED
    BY <1>1, <2>1, JoinedText DEF Content
<1> QED
  BY <1>1, <1>3, <1>4, JoinedText DEF Content

\* A text and what is cut of the next one, at the end of the line.
LEMMA AddUp ==
  ASSUME NEW a \in Nat, NEW b \in Nat, NEW end \in Nat, NEW p \in Nat, NEW n \in Nat,
         p = (IF a =< end THEN a ELSE end),
         n = (IF b =< end - p THEN b ELSE end - p)
  PROVE  p + n = (IF a + b =< end THEN a + b ELSE end)
OBVIOUS

LEMMA CutFacts ==
  ASSUME NEW s \in Texts, NEW room \in Nat,
         NEW cut, cut = SubSeq(s, 1, Min({Len(s), room}))
  PROVE  /\ Len(cut) \in Nat /\ Len(cut) = (IF Len(s) =< room THEN Len(s) ELSE room)
         /\ cut \in Texts
         /\ \A i \in 1..Len(cut) : cut[i] = s[i]
<1> DEFINE n == IF Len(s) =< room THEN Len(s) ELSE room
<1>1. Len(s) \in Nat
  BY TextLen
<1>2. Min({Len(s), room}) = n
  BY <1>1, MinOfTwo
<1>3. n \in 0..Len(s)
  BY <1>1
<1> HIDE DEF n
<1>4. /\ Len(SubSeq(s, 1, n)) = n /\ SubSeq(s, 1, n) \in Texts
      /\ \A i \in 1..n : SubSeq(s, 1, n)[i] = s[i]
  BY <1>1, <1>3, SubSeqProperties DEF Texts
<1>5. cut = SubSeq(s, 1, n)
  BY <1>2
<1>6. Len(cut) = n /\ cut \in Texts /\ \A i \in 1..n : cut[i] = s[i]
  BY <1>4, <1>5
<1>7. n \in Nat /\ n = IF Len(s) =< room THEN Len(s) ELSE room
  BY <1>1 DEF n
<1> QED
  BY <1>6, <1>7

\* A part that is put is joined to the text, and cut where the line ends.
LEMMA PutContent ==
  ASSUME MessageAssumption, NEW m, NEW t, Content(m, t), NEW s \in Texts
  PROVE  Content(Put(m, s), t \o s)
<1>1. t \in Texts /\ Inside(m) /\ BufEnd \in Nat /\ m.p \in Nat /\ m.p <= BufEnd
      /\ Len(t) \in Nat /\ Len(s) \in Nat
  BY EndInside, TextLen DEF Content, Inside
<1>2. CASE m.p = BufEnd
  <2> DEFINE cut == SubSeq(s, 1, Min({Len(s), BufEnd - m.p}))
  <2>1. Len(cut) = 0 /\ m.p + Len(cut) = m.p
    <3>1. BufEnd - m.p = 0 /\ BufEnd - m.p \in Nat
      BY <1>1, <1>2
    <3>2. cut = SubSeq(s, 1, Min({Len(s), BufEnd - m.p}))
      OBVIOUS
    <3> HIDE DEF cut
    <3>3. Len(cut) = IF Len(s) =< BufEnd - m.p THEN Len(s) ELSE BufEnd - m.p
      BY <3>1, <3>2, CutFacts
    <3> QED
      BY <1>1, <3>1, <3>3
  <2>2. Put(m, s) = [m EXCEPT !.buf = Poke(m.buf, m.p, cut), !.p = m.p + Len(cut)]
    BY DEF Put
  <2> HIDE DEF cut
  <2>3. Put(m, s).p = m.p /\ Put(m, s).buf = Poke(m.buf, m.p, cut)
    BY <2>1, <2>2, <1>1 DEF Inside
  <2>4. \A i \in DOMAIN m.buf : i \in DOMAIN Put(m, s).buf /\ Put(m, s).buf[i] = m.buf[i]
    <3>1. m.p..m.p + Len(cut) - 1 = {}
      BY <1>1, <2>1
    <3> QED
      BY <2>3, <3>1 DEF Poke
  <2>5. Content(Put(m, s), t)
    BY <1>1, <2>3, <2>4, PutInside DEF Content
  <2> QED
    BY <1>2, <2>3, <2>5, FullContent
<1>3. CASE m.p # BufEnd
  <2>0. PICK room \in Nat : room = BufEnd - m.p
    BY <1>1
  <2>00. PICK cut : cut = SubSeq(s, 1, Min({Len(s), room}))
    OBVIOUS
  <2>1. /\ Len(cut) \in Nat /\ Len(cut) = (IF Len(s) =< room THEN Len(s) ELSE room)
        /\ cut \in Texts
        /\ \A i \in 1..Len(cut) : cut[i] = s[i]
    BY <2>00, CutFacts, Zenon
  <2>2. Put(m, s) = [m EXCEPT !.buf = Poke(m.buf, m.p, cut), !.p = m.p + Len(cut)]
    BY <2>0, <2>00 DEF Put
  <2>3. Put(m, s).p = m.p + Len(cut) /\ Put(m, s).buf = Poke(m.buf, m.p, cut)
    BY <2>2, <1>1 DEF Inside
  <2>4. m.p = Len(t)
    <3>0. Len(t) \in Int /\ BufEnd \in Int /\ m.p = Min({Len(t), BufEnd})
      BY <1>1 DEF Content
    <3>1. Min({Len(t), BufEnd}) = IF Len(t) =< BufEnd THEN Len(t) ELSE BufEnd
      BY ONLY <3>0, MinOfTwo
    <3> QED
      BY <1>3, <3>0, <3>1
  <2>5. Put(m, s).p = Min({Len(t \o s), BufEnd})
    <3>1. Len(t \o s) = Len(t) + Len(s)
      BY <1>1, JoinedText
    <3>2. Len(t) + Len(s) \in Int /\ BufEnd \in Int
      BY <1>1
    <3> QED
      BY <1>1, <2>0, <2>1, <2>3, <2>4, <3>1, <3>2, MinOfTwo
  <2>6. ASSUME NEW i \in 0..m.p + Len(cut) - 1
        PROVE  i \in DOMAIN Put(m, s).buf /\ Put(m, s).buf[i] = (t \o s)[i + 1]
    <3>1. CASE i < m.p
      <4>1. i \in 0..m.p - 1 /\ i + 1 \in 1..Len(t)
        BY <1>1, <2>0, <2>1, <2>4, <3>1
      <4>0. ~(i \in m.p..m.p + Len(cut) - 1)
        BY <1>1, <2>1, <3>1
      <4>2. i \in DOMAIN m.buf /\ m.buf[i] = t[i + 1]
        BY <4>1 DEF Content
      <4>3. (t \o s)[i + 1] = t[i + 1]
        BY <1>1, <4>1, JoinedText
      <4> QED
        BY <2>3, <4>0, <4>1, <4>2, <4>3 DEF Poke
    <3>2. CASE ~(i < m.p)
      <4>1. /\ i \in m.p..m.p + Len(cut) - 1 /\ i - m.p + 1 \in 1..Len(cut)
            /\ i + 1 \in Len(t) + 1..Len(t) + Len(s) /\ i + 1 - Len(t) = i - m.p + 1
        BY <1>1, <2>0, <2>1, <2>4, <3>2
      <4>2. cut[i - m.p + 1] = s[i - m.p + 1]
        BY <2>1, <4>1
      <4>3. (t \o s)[i + 1] = s[i - m.p + 1]
        BY <1>1, <4>1, JoinedText, SMTT(30)
      <4>4. i \in DOMAIN Put(m, s).buf /\ Put(m, s).buf[i] = cut[i - m.p + 1]
        BY <2>3, <4>1 DEF Poke
      <4> QED
        BY <4>2, <4>3, <4>4
    <3> QED
      BY <3>1, <3>2
  <2>7. Inside(Put(m, s)) /\ t \o s \in Texts
    BY <1>1, JoinedText, PutInside
  <2>8. \A i \in 0..m.p + Len(cut) - 1 :
          i \in DOMAIN Put(m, s).buf /\ Put(m, s).buf[i] = (t \o s)[i + 1]
    BY <2>6, Zenon
  <2>9. \A i \in 0..Put(m, s).p - 1 :
          i \in DOMAIN Put(m, s).buf /\ Put(m, s).buf[i] = (t \o s)[i + 1]
    <3> SUFFICES ASSUME NEW i \in 0..Put(m, s).p - 1
                 PROVE  i \in DOMAIN Put(m, s).buf /\ Put(m, s).buf[i] = (t \o s)[i + 1]
      BY Zenon
    <3>1. i \in 0..m.p + Len(cut) - 1
      BY <1>1, <2>1, <2>3
    <3> QED
      BY <2>8, <3>1, Zenon
  <2> QED
    BY <2>5, <2>7, <2>9, Zenon DEF Content
<1> QED
  BY <1>2, <1>3

LEMMA PutStringContent ==
  ASSUME MessageAssumption, NEW m, NEW t, Content(m, t), NEW s \in Texts
  PROVE  Content(PutString(m, s), t \o s)
<1> DEFINE z == s \o <<ZeroByte>>
           w == Put(m, s)
           v == Put(m, z)
<1>1. <<ZeroByte>> \in Texts /\ Len(<<ZeroByte>>) = 1
  BY ZeroIsChar DEF Texts
<1>2. z \in Texts /\ t \in Texts /\ Inside(m)
  BY <1>1, JoinedText DEF Content
<1>3. Content(w, t \o s) /\ Content(v, t \o z)
  BY <1>2, PutContent
<1>4. PutString(m, s) = [w EXCEPT !.buf = v.buf]
  BY DEF PutString
<1>5. t \o z = (t \o s) \o <<ZeroByte>> /\ t \o s \in Texts
  BY <1>1, <1>2, JoinAssociative, JoinedText DEF Texts
<1> HIDE DEF w, v, z
<1>6. BufEnd \in Nat /\ Len(t \o s) \in Nat /\ Len(t \o z) = Len(t \o s) + 1
  BY <1>1, <1>5, EndInside, JoinedText, TextLen
<1>7. w.p <= v.p /\ w.p <= Len(t \o s) /\ w.p \in Nat /\ v.p \in Nat
  <2>1. w.p = IF Len(t \o s) =< BufEnd THEN Len(t \o s) ELSE BufEnd
    BY <1>3, <1>6, MinOfTwo DEF Content
  <2>2. v.p = IF Len(t \o z) =< BufEnd THEN Len(t \o z) ELSE BufEnd
    BY <1>3, <1>6, MinOfTwo DEF Content
  <2> QED
    BY <1>6, <2>1, <2>2
<1>8. ASSUME NEW i \in 0..w.p - 1
      PROVE  i \in DOMAIN v.buf /\ v.buf[i] = (t \o s)[i + 1]
  <2>1. i \in 0..v.p - 1 /\ i + 1 \in 1..Len(t \o s)
    BY <1>6, <1>7
  <2>2. i \in DOMAIN v.buf /\ v.buf[i] = (t \o z)[i + 1]
    BY <1>3, <2>1 DEF Content
  <2> QED
    BY <1>1, <1>5, <2>1, <2>2, JoinedText
<1>9. Inside(PutString(m, s)) /\ PutString(m, s).p = w.p /\ PutString(m, s).buf = v.buf
  BY <1>2, <1>3, <1>4, PutStringInside DEF Content, Inside
<1> QED
  BY <1>3, <1>5, <1>8, <1>9 DEF Content

\* What vsnprintf cuts is what does not fit.
LEMMA PutPrintfContent ==
  ASSUME MessageAssumption, NEW m, NEW t, Content(m, t), NEW n \in Nat, NEW s \in Texts,
         Len(s) = n
  PROVE  Content(PutPrintf(m, n, s), t \o s)
<1> DEFINE new == PutPrintf(m, n, s)
<1>1. t \in Texts /\ Inside(m) /\ BufEnd \in Nat /\ m.p \in Nat /\ m.p <= BufEnd
      /\ Len(t) \in Nat /\ BufEnd - m.p \in Nat /\ nprintf_size(m) - 1 = BufEnd - m.p
  BY EndInside, TextLen DEF Content, Inside, nprintf_size
<1>0. PICK room \in Nat : room = BufEnd - m.p
  BY <1>1
<1>00. PICK some : some = SubSeq(s, 1, Min({Len(s), room}))
  OBVIOUS
<1>3. new = [m EXCEPT !.buf = Poke(m.buf, m.p, Append(some, ZeroByte)),
                      !.p = IF n < BufEnd - m.p THEN m.p + n ELSE BufEnd]
  <2>1. some = SubSeq(s, 1, Min({n, nprintf_size(m) - 1})) /\ ~(n < 0)
    <3>1. nprintf_size(m) - 1 = room /\ ~(n < 0)
      BY <1>0, <1>1
    <3> QED
      BY <1>00, <3>1, Zenon
  <2> QED
    BY <2>1 DEF PutPrintf
<1>2. /\ Len(some) \in Nat /\ Len(some) = (IF Len(s) =< room THEN Len(s) ELSE room)
      /\ some \in Texts
      /\ \A i \in 1..Len(some) : some[i] = s[i]
  BY <1>00, CutFacts, ZenonT(30)
<1>4. /\ Len(Append(some, ZeroByte)) = Len(some) + 1
      /\ \A i \in 1..Len(some) : Append(some, ZeroByte)[i] = some[i]
  BY <1>2, ZeroIsChar DEF Texts
<1>5. Inside(new)
  BY <1>1, PutPrintfInside
<1>6. new.p = m.p + Len(some) /\ new.buf = Poke(m.buf, m.p, Append(some, ZeroByte))
  <2>1. /\ new.p = IF n < BufEnd - m.p THEN m.p + n ELSE BufEnd
        /\ new.buf = Poke(m.buf, m.p, Append(some, ZeroByte))
    BY <1>1, <1>3 DEF Inside
  <2> HIDE DEF new
  <2>2. Len(some) = IF n =< BufEnd - m.p THEN n ELSE BufEnd - m.p
    BY <1>0, <1>2
  <2> QED
    BY <1>1, <2>1, <2>2
<1> HIDE DEF new
<1>7. m.p = IF Len(t) =< BufEnd THEN Len(t) ELSE BufEnd
  BY <1>1, MinOfTwo DEF Content
<1>8. new.p = Min({Len(t \o s), BufEnd})
  <2>1. Len(t \o s) = Len(t) + Len(s)
    BY <1>1, JoinedText
  <2>2. Len(t) + n \in Int /\ BufEnd \in Int /\ Len(t \o s) = Len(t) + n
    BY <1>1, <2>1
  <2>3. Min({Len(t \o s), BufEnd})
          = IF Len(t \o s) =< BufEnd THEN Len(t \o s) ELSE BufEnd
    BY <2>2, MinOfTwo
  <2>4. Len(some) = IF n =< BufEnd - m.p THEN n ELSE BufEnd - m.p
    BY <1>0, <1>2
  <2>5. m.p \in Int /\ Len(some) \in Int /\ Len(t) \in Nat /\ n \in Nat /\ BufEnd \in Nat
    BY <1>1, <1>2
  <2>6. m.p + Len(some) = IF Len(t) + n =< BufEnd THEN Len(t) + n ELSE BufEnd
    <3>1. PICK a \in Nat : a = Len(t)
      BY <2>5
    <3>2. PICK p \in Nat : p = m.p
      BY <1>1
    <3>3. PICK l \in Nat : l = Len(some)
      BY <1>2
    <3>4. PICK end \in Nat : end = BufEnd
      BY <2>5
    <3>5. p = (IF a =< end THEN a ELSE end) /\ l = (IF n =< end - p THEN n ELSE end - p)
      BY <1>7, <2>4, <3>1, <3>2, <3>3, <3>4
    <3>6. p + l = (IF a + n =< end THEN a + n ELSE end)
      BY <3>5, AddUp
    <3> QED
      BY <3>1, <3>2, <3>3, <3>4, <3>6
  <2> QED
    BY <1>6, <2>2, <2>3, <2>6
<1>9. ASSUME NEW i \in 0..new.p - 1
      PROVE  i \in DOMAIN new.buf /\ new.buf[i] = (t \o s)[i + 1]
  <2>1. CASE i < m.p
    <3>1. i \in 0..m.p - 1 /\ i + 1 \in 1..Len(t)
      BY <1>1, <1>2, <1>4, <1>7, <2>1
    <3>2. i \in DOMAIN m.buf /\ m.buf[i] = t[i + 1]
      BY <3>1 DEF Content
    <3>3. (t \o s)[i + 1] = t[i + 1]
      BY <1>1, <3>1, JoinedText
    <3>4. ~(i \in m.p..m.p + Len(Append(some, ZeroByte)) - 1)
      BY <1>1, <1>2, <1>4, <2>1
    <3> QED
      BY <1>6, <3>2, <3>3, <3>4 DEF Poke
  <2>2. CASE ~(i < m.p)
    <3>0. Len(some) # 0 /\ m.p = Len(t)
      <4>1. i \in Int /\ i <= m.p + Len(some) - 1 /\ ~(i < m.p)
        BY <1>1, <1>2, <1>6, <2>2
      <4>2. Len(some) # 0
        BY <1>1, <1>2, <4>1
      <4>3. room # 0
        BY <1>2, <4>2
      <4> QED
        BY <1>0, <1>1, <1>7, <4>2, <4>3
    <3>1. /\ i \in m.p..m.p + Len(Append(some, ZeroByte)) - 1
          /\ i - m.p + 1 \in 1..Len(some)
          /\ i + 1 \in Len(t) + 1..Len(t) + Len(s) /\ i + 1 - Len(t) = i - m.p + 1
      BY <1>1, <1>2, <1>4, <1>6, <2>2, <3>0
    <3>2. Append(some, ZeroByte)[i - m.p + 1] = s[i - m.p + 1]
      BY <1>2, <1>4, <3>1
    <3>3. (t \o s)[i + 1] = s[i - m.p + 1]
      <4>1. \A j \in Len(t) + 1..Len(t) + Len(s) : (t \o s)[j] = s[j - Len(t)]
        BY <1>1, JoinedText
      <4> QED
        BY <3>1, <4>1
    <3>5. i \in DOMAIN new.buf /\ new.buf[i] = Append(some, ZeroByte)[i - m.p + 1]
      BY <1>6, <3>1 DEF Poke
    <3> QED
      BY <3>2, <3>3, <3>5
  <2> QED
    BY <2>1, <2>2
<1>10. t \o s \in Texts
  BY <1>1, JoinedText
<1> QED
  BY <1>5, <1>8, <1>9, <1>10, Zenon DEF Content, new

\* An empty part changes nothing, and parts may be joined in any order.
LEMMA NothingMore == \A t \in Texts : t \o <<>> = t /\ <<>> \o t = t /\ <<>> \in Texts
BY ConcatEmptySeq DEF Texts

LEMMA Assoc ==
  ASSUME NEW r \in Texts, NEW s \in Texts, NEW t \in Texts
  PROVE  r \o (s \o t) = (r \o s) \o t
BY JoinAssociative DEF Texts

LEMMA TextsJoin ==
  \A r, s, t \in Texts : r \o s \in Texts /\ r \o (s \o t) = (r \o s) \o t
<1> TAKE r, s, t \in Texts
<1>1. r \o s \in Texts
  BY JoinedText
<1>2. r \o (s \o t) = (r \o s) \o t
  BY ONLY r \in Texts, s \in Texts, t \in Texts, Assoc, ZenonT(30)
<1> QED
  BY <1>1, <1>2

\* A part that is put, or left out, by a condition that fails only when there is no
\* room for it.
LEMMA MaybePut ==
  ASSUME MessageAssumption, NEW m, NEW t, Content(m, t), NEW s \in Texts,
         NEW put \in BOOLEAN, NEW due \in BOOLEAN, put => due,
         due /\ ~put => m.p = BufEnd
  PROVE  Content(IF put THEN Put(m, s) ELSE m, t \o (IF due THEN s ELSE <<>>))
<1>1. CASE put
  BY <1>1, PutContent
<1>2. CASE ~put /\ due
  BY <1>2, FullContent
<1>3. CASE ~put /\ ~due
  BY <1>3, NothingMore DEF Content
<1> QED
  BY <1>1, <1>2, <1>3

\* p stays only when nothing is put or there is no room.
LEMMA Grown ==
  ASSUME MessageAssumption, NEW m, NEW t, Content(m, t), NEW s \in Texts,
         NEW n, Content(n, t \o s)
  PROVE  /\ n.p = m.p => s = <<>> \/ m.p = BufEnd
         /\ n.p = m.p => s = <<>> \/ n.p = BufEnd
         /\ s = <<>> => n.p = m.p
         /\ m.p <= n.p
<1>1. PICK a \in Nat : a = Len(t)
  BY TextLen DEF Content
<1>2. PICK b \in Nat : b = Len(s)
  BY TextLen
<1>3. PICK end \in Nat : end = BufEnd
  BY EndInside
<1>4. Len(t \o s) = a + b
  BY <1>1, <1>2, JoinedText DEF Content
<1>5. m.p = IF a =< end THEN a ELSE end
  BY <1>1, <1>3, MinOfTwo DEF Content
<1>6. n.p = IF a + b =< end THEN a + b ELSE end
  BY <1>1, <1>2, <1>3, <1>4, MinOfTwo DEF Content
<1>7. s = <<>> <=> b = 0
  BY <1>2, EmptySeq DEF Texts
<1> QED
  BY <1>3, <1>5, <1>6, <1>7

-----------------------------------------------------------------------------
(* Lines: the parts                                                        *)

\* The parts of a line in the order _zf_log_write_imp asks for them: the prefix and the
\* tag with a dot between them, and a delimiter after them when there is something.
TagParts == {"prefix", "dot", "tag"}

TaggedOf(prefix, tag) ==
  Part("prefix", prefix) \o (IF prefix # 0 /\ tag # 0 THEN CSTR("dot") ELSE <<>>)
    \o Part("tag", tag)

DelimiterOf(s) == IF s # <<>> THEN CSTR("delimiter") ELSE <<>>

\* A part that is put leaves the marks of the tag alone.
LEMMA PutKeeps ==
  ASSUME MessageAssumption, NEW m, Inside(m), NEW s \in Texts
  PROVE  /\ Put(m, s).tag_b = m.tag_b /\ Put(m, s).tag_e = m.tag_e
         /\ PutString(m, s).tag_b = m.tag_b /\ PutString(m, s).tag_e = m.tag_e
<1>1. DOMAIN m = {"buf", "p", "tag_b", "tag_e", "msg_b"}
  BY DEF Inside
<1>2. ASSUME NEW r \in Texts
      PROVE  /\ DOMAIN Put(m, r) = DOMAIN m
             /\ Put(m, r).tag_b = m.tag_b /\ Put(m, r).tag_e = m.tag_e
  BY <1>1 DEF Put
<1>3. \A b : LET n == [Put(m, s) EXCEPT !.buf = b] IN
        n.tag_b = Put(m, s).tag_b /\ n.tag_e = Put(m, s).tag_e
  BY <1>1, <1>2
<1> QED
  BY <1>2, <1>3 DEF PutString

\* Two parts are put as one.
LEMMA PartJoined ==
  ASSUME NEW n, NEW r \in Texts, NEW s \in Texts, NEW t \in Texts,
         Content(n, (t \o r) \o s)
  PROVE  Content(n, t \o (r \o s)) /\ r \o s \in Texts
BY TextsJoin

\* The tag is put after the text t: its prefix, the tag and a delimiter, the first
\* two of them between the marks.
TagPut(m, t, prefix, tag) ==
  /\ TaggedOf(prefix, tag) \in Texts
  /\ Content(put_tag(m, prefix, tag),
             t \o (TaggedOf(prefix, tag) \o DelimiterOf(TaggedOf(prefix, tag))))
  /\ put_tag(m, prefix, tag).tag_b = m.p
  /\ put_tag(m, prefix, tag).tag_e = Min({Len(t \o TaggedOf(prefix, tag)), BufEnd})

LEMMA TagContent ==
  ASSUME MessageAssumption, NEW m, NEW t, Content(m, t), NEW prefix \in Nat, NEW tag \in Nat
  PROVE  TagPut(m, t, prefix, tag)
<1> DEFINE m1 == IF prefix = 0 THEN m ELSE PutString(m, Part("prefix", prefix))
           m2 == IF tag # 0 /\ m1.p # m.p THEN Put(m1, CSTR("dot")) ELSE m1
           m3 == IF tag = 0 THEN m2 ELSE PutString(m2, Part("tag", tag))
           m4 == IF m3.p # m.p THEN Put(m3, CSTR("delimiter")) ELSE m3
           s1 == Part("prefix", prefix)
           s2 == IF prefix # 0 /\ tag # 0 THEN CSTR("dot") ELSE <<>>
           s3 == Part("tag", tag)
           tagged == TaggedOf(prefix, tag)
<1>1. /\ put_tag(m, prefix, tag) = [m4 EXCEPT !.tag_b = m.p, !.tag_e = m3.p]
      /\ tagged = (s1 \o s2) \o s3
  BY DEF put_tag, TaggedOf
<1>2. /\ s1 \in Texts /\ s3 \in Texts /\ CSTR("dot") \in Texts /\ CSTR("delimiter") \in Texts
      /\ Len(s1) = prefix /\ Len(s3) = tag /\ t \in Texts /\ <<>> \in Texts
  BY PartIsText, CSTRIsText, NothingMore DEF Kinds, Content
<1>3. s2 \in Texts
  BY <1>2
<1>4. (prefix = 0 => s1 = <<>>) /\ (tag = 0 => s3 = <<>>)
  BY DEF Part
<1>5. Content(m1, t \o s1)
  <2>1. CASE prefix = 0
    BY <1>2, <1>4, <2>1, NothingMore
  <2>2. CASE prefix # 0
    BY <1>2, <2>2, PutStringContent
  <2> QED
    BY <2>1, <2>2
<1>6. m1.p = m.p => prefix = 0 \/ m1.p = BufEnd
  <2>1. m1.p = m.p => s1 = <<>> \/ m1.p = BufEnd
    <3> HIDE DEF m1, s1
    <3> QED
      BY <1>2, <1>5, Grown
  <2>2. s1 = <<>> => prefix = 0
    <3> HIDE DEF s1
    <3> QED
      BY <1>2, EmptySeq
  <2> QED
    BY <2>1, <2>2
<1>7. Content(m2, (t \o s1) \o s2)
  <2> DEFINE put == tag # 0 /\ m1.p # m.p
             due == prefix # 0 /\ tag # 0
  <2>1. put => due
    BY DEF m1
  <2>2. due /\ ~put => m1.p = BufEnd
    BY <1>6
  <2>3. put \in BOOLEAN /\ due \in BOOLEAN
    OBVIOUS
  <2>4. /\ m2 = (IF put THEN Put(m1, CSTR("dot")) ELSE m1)
        /\ s2 = (IF due THEN CSTR("dot") ELSE <<>>)
    OBVIOUS
  <2> HIDE DEF put, due, m1, m2, s1, s2
  <2>5. Content(IF put THEN Put(m1, CSTR("dot")) ELSE m1,
                (t \o s1) \o (IF due THEN CSTR("dot") ELSE <<>>))
    BY <1>2, <1>5, <2>1, <2>2, <2>3, MaybePut
  <2> QED
    BY <2>4, <2>5
<1>8. Content(m3, ((t \o s1) \o s2) \o s3)
  <2>0. (t \o s1) \o s2 \in Texts
    BY <1>7 DEF Content
  <2>1. CASE tag = 0
    BY <1>4, <1>7, <2>0, <2>1, NothingMore
  <2>2. CASE tag # 0
    <3> HIDE DEF m2, s1, s2
    <3> QED
      BY <1>2, <1>7, <2>2, PutStringContent
  <2> QED
    BY <2>1, <2>2
<1> HIDE DEF m1, m2, m3, s1, s2, s3, tagged
<1>9. tagged \in Texts /\ t \o tagged = ((t \o s1) \o s2) \o s3
  <2>0. s1 \in Texts /\ s2 \in Texts /\ s3 \in Texts /\ t \in Texts
    BY <1>2, <1>3
  <2>1. s1 \o s2 \in Texts
    BY <2>0, JoinedText
  <2>2. PICK x \in Texts : x = s1 \o s2
    BY <2>1
  <2>3. t \o (s1 \o s2) = (t \o s1) \o s2
    BY ONLY <2>0, Assoc, ZenonT(30)
  <2>4. t \o (x \o s3) = (t \o x) \o s3
    BY ONLY <2>0, x \in Texts, Assoc, ZenonT(30)
  <2>5. x \o s3 \in Texts
    BY <2>0, JoinedText
  <2> QED
    BY <1>1, <2>2, <2>3, <2>4, <2>5
<1>10. Content(m3, t \o tagged)
  BY <1>8, <1>9
<1>11. m3.p = m.p => tagged = <<>> \/ m3.p = BufEnd
  BY <1>9, <1>10, Grown
<1>12. m3.p # m.p => tagged # <<>>
  BY <1>9, <1>10, Grown
<1>13. Content(m4, (t \o tagged) \o DelimiterOf(tagged))
  <2> DEFINE put == m3.p # m.p
             due == tagged # <<>>
  <2>1. (put => due) /\ (due /\ ~put => m3.p = BufEnd)
    BY <1>11, <1>12
  <2>2. put \in BOOLEAN /\ due \in BOOLEAN
    OBVIOUS
  <2>3. /\ m4 = (IF put THEN Put(m3, CSTR("delimiter")) ELSE m3)
        /\ DelimiterOf(tagged) = (IF due THEN CSTR("delimiter") ELSE <<>>)
    BY DEF DelimiterOf
  <2> HIDE DEF put, due, m4
  <2>4. Content(IF put THEN Put(m3, CSTR("delimiter")) ELSE m3,
                (t \o tagged) \o (IF due THEN CSTR("delimiter") ELSE <<>>))
    BY <1>2, <1>10, <2>1, <2>2, MaybePut
  <2> QED
    BY <2>3, <2>4
<1> HIDE DEF m4
<1>14. DelimiterOf(tagged) \in Texts
  BY <1>2 DEF DelimiterOf
<1>15. Content(m4, t \o (tagged \o DelimiterOf(tagged)))
  BY <1>2, <1>9, <1>13, <1>14, PartJoined
<1>16. /\ put_tag(m, prefix, tag).p = m4.p /\ put_tag(m, prefix, tag).buf = m4.buf
       /\ put_tag(m, prefix, tag).tag_b = m.p /\ put_tag(m, prefix, tag).tag_e = m3.p
  BY <1>1, <1>13 DEF Content, Inside
<1>17. Inside(put_tag(m, prefix, tag))
  BY TagInside DEF Content
<1>18. Content(put_tag(m, prefix, tag), t \o (tagged \o DelimiterOf(tagged)))
  BY <1>15, <1>16, <1>17, Zenon DEF Content
<1>19. m3.p = Min({Len(t \o tagged), BufEnd})
  BY <1>10 DEF Content
<1> QED
  BY <1>9, <1>16, <1>18, <1>19 DEF tagged, TagPut

\* The function, the file and the line.
SourceOf(size) ==
  Part("function", size) \o CSTR("at") \o Part("filename", size)
    \o CSTR("colon") \o Part("fileline", size) \o CSTR("delimiter")

LEMMA SrcContent ==
  ASSUME MessageAssumption, NEW m, NEW t, Content(m, t), NEW size \in Nat
  PROVE  /\ SourceOf(size) \in Texts
         /\ Content(put_src(m, size), t \o SourceOf(size))
         /\ put_src(m, size).tag_b = m.tag_b /\ put_src(m, size).tag_e = m.tag_e
<1> DEFINE s1 == Part("function", size)
           s2 == CSTR("at")
           s3 == Part("filename", size)
           s4 == CSTR("colon")
           s5 == Part("fileline", size)
           s6 == CSTR("delimiter")
           m1 == PutString(m, s1)
           m2 == Put(m1, s2)
           m3 == PutString(m2, s3)
           m4 == Put(m3, s4)
           m5 == Put(m4, s5)
           m6 == Put(m5, s6)
<1>1. /\ s1 \in Texts /\ s2 \in Texts /\ s3 \in Texts
      /\ s4 \in Texts /\ s5 \in Texts /\ s6 \in Texts
      /\ t \in Texts
  BY PartIsText, CSTRIsText DEF Kinds, Content
<1>2. put_src(m, size) = m6
  BY DEF put_src
<1>3. SourceOf(size) = ((((s1 \o s2) \o s3) \o s4) \o s5) \o s6
  BY DEF SourceOf
<1> HIDE DEF s1, s2, s3, s4, s5, s6
<1>4. Content(m1, t \o s1)
  BY <1>1, PutStringContent
<1>5. Content(m2, t \o (s1 \o s2)) /\ s1 \o s2 \in Texts
  <2>1. Content(m2, (t \o s1) \o s2)
    BY <1>1, <1>4, PutContent
  <2> QED
    BY <1>1, <2>1, PartJoined
<1>6. Content(m3, t \o ((s1 \o s2) \o s3)) /\ (s1 \o s2) \o s3 \in Texts
  <2>1. Content(m3, (t \o (s1 \o s2)) \o s3)
    BY <1>1, <1>5, PutStringContent
  <2> QED
    BY <1>1, <1>5, <2>1, PartJoined
<1>7. Content(m4, t \o (((s1 \o s2) \o s3) \o s4)) /\ ((s1 \o s2) \o s3) \o s4 \in Texts
  <2>1. Content(m4, (t \o ((s1 \o s2) \o s3)) \o s4)
    BY <1>1, <1>6, PutContent
  <2> QED
    BY <1>1, <1>6, <2>1, PartJoined
<1>8. /\ Content(m5, t \o ((((s1 \o s2) \o s3) \o s4) \o s5))
      /\ (((s1 \o s2) \o s3) \o s4) \o s5 \in Texts
  <2>1. Content(m5, (t \o (((s1 \o s2) \o s3) \o s4)) \o s5)
    BY <1>1, <1>7, PutContent
  <2> QED
    BY <1>1, <1>7, <2>1, PartJoined
<1>9. /\ Content(m6, t \o (((((s1 \o s2) \o s3) \o s4) \o s5) \o s6))
      /\ ((((s1 \o s2) \o s3) \o s4) \o s5) \o s6 \in Texts
  <2>1. Content(m6, (t \o ((((s1 \o s2) \o s3) \o s4) \o s5)) \o s6)
    BY <1>1, <1>8, PutContent
  <2> QED
    BY <1>1, <1>8, <2>1, PartJoined
<1>10. m6.tag_b = m.tag_b /\ m6.tag_e = m.tag_e
  <2>1. m2.tag_b = m.tag_b /\ m2.tag_e = m.tag_e
    BY <1>1, <1>4, PutKeeps DEF Content
  <2>2. m4.tag_b = m2.tag_b /\ m4.tag_e = m2.tag_e
    BY <1>1, <1>5, <1>6, PutKeeps DEF Content
  <2>3. m6.tag_b = m4.tag_b /\ m6.tag_e = m4.tag_e
    BY <1>1, <1>7, <1>8, PutKeeps DEF Content
  <2> QED
    BY <2>1, <2>2, <2>3
<1> QED
  BY <1>2, <1>3, <1>9, <1>10

\* The message itself, and the message nothing is put into yet.
LEMMA MsgContent ==
  ASSUME MessageAssumption, NEW m, NEW t, Content(m, t), NEW n \in Nat \cup {-1}
  PROVE  /\ Content(put_msg(m, n), t \o (IF n # -1 THEN Part("msg", n) ELSE <<>>))
         /\ put_msg(m, n).tag_b = m.tag_b /\ put_msg(m, n).tag_e = m.tag_e
         /\ put_msg(m, n).msg_b \in 0..put_msg(m, n).p
<1> DEFINE new == PutPrintf(m, n, Part("msg", n))
           s == IF n # -1 THEN Part("msg", n) ELSE <<>>
<1>0. t \in Texts /\ Inside(m) /\ s \in Texts /\ m.p \in Nat
  BY PartIsText, NothingMore DEF Content, Kinds, Inside
<1>1. Content(new, t \o s)
  <2>1. CASE n \in Nat
    <3>1. Part("msg", n) \in Texts /\ Len(Part("msg", n)) = n /\ n # -1
      BY <2>1, PartIsText DEF Kinds
    <3> QED
      BY <2>1, <3>1, PutPrintfContent
  <2>2. CASE n = -1
    BY <1>0, <2>2, NothingMore DEF PutPrintf
  <2> QED
    BY <2>1, <2>2
<1>2. new.tag_b = m.tag_b /\ new.tag_e = m.tag_e
  BY <1>0 DEF PutPrintf, Inside
<1> HIDE DEF new, s
<1>3. put_msg(m, n) = [new EXCEPT !.msg_b = m.p]
  BY DEF put_msg, new
<1>4. /\ put_msg(m, n).tag_b = new.tag_b /\ put_msg(m, n).tag_e = new.tag_e
      /\ put_msg(m, n).msg_b = m.p /\ put_msg(m, n).p = new.p /\ put_msg(m, n).buf = new.buf
  BY <1>1, <1>3 DEF Content, Inside
<1>5. Inside(put_msg(m, n))
  BY <1>0, MsgInside
<1>6. Content(put_msg(m, n), t \o s)
  BY <1>1, <1>4, <1>5, Zenon DEF Content
<1>7. m.p <= new.p /\ new.p \in Nat
  <2>1. new.p \in Nat
    BY <1>1 DEF Content, Inside
  <2> QED
    BY <1>0, <1>1, <2>1, Grown
<1> QED
  BY <1>0, <1>2, <1>4, <1>6, <1>7 DEF s

LEMMA FreshContent ==
  ASSUME MessageAssumption PROVE Content(Fresh, <<>>)
<1>1. Len(<<>>) = 0 /\ BufEnd \in Nat /\ Fresh.p = 0 /\ <<>> \in Texts
  BY EndInside, NothingMore DEF Fresh, Texts
<1>2. Min({0, BufEnd}) = 0
  BY <1>1, MinOfTwo
<1> QED
  BY <1>1, <1>2, FreshInside DEF Content

-----------------------------------------------------------------------------
(* Lines: the columns of a dump                                            *)

\* The characters of the kind, each as a text, so that the column is all of them joined.
Picked(s, kind) == [k \in DOMAIN s |-> IF s[k][1] = kind THEN <<s[k]>> ELSE <<>>]

LEMMA PickedType ==
  ASSUME NEW S, NEW s \in Seq(S), NEW kind
  PROVE  /\ Picked(s, kind) \in Seq(Seq(S)) /\ Len(Picked(s, kind)) = Len(s)
         /\ \A k \in 1..Len(s) :
              Picked(s, kind)[k] = IF s[k][1] = kind THEN <<s[k]>> ELSE <<>>
<1>1. DOMAIN s = 1..Len(s) /\ Len(s) \in Nat /\ \A k \in 1..Len(s) : s[k] \in S
  OBVIOUS
<1>2. ASSUME NEW k \in 1..Len(s)
      PROVE  (IF s[k][1] = kind THEN <<s[k]>> ELSE <<>>) \in Seq(S)
  BY <1>1
<1>3. Picked(s, kind) \in [1..Len(s) -> Seq(S)]
  BY <1>1, <1>2 DEF Picked
<1> QED
  BY <1>1, <1>3 DEF Picked

\* The column of two texts is their columns, joined.
LEMMA ColumnConcat ==
  ASSUME NEW S, NEW s \in Seq(S), NEW t \in Seq(S), NEW kind
  PROVE  Column(s \o t, kind) = Column(s, kind) \o Column(t, kind)
<1>0. PICK n \in Nat : n = Len(s)
  OBVIOUS
<1>00. PICK l \in Nat : l = Len(t)
  OBVIOUS
<1>1. PICK both : both = s \o t
  OBVIOUS
<1>2. /\ both \in Seq(S) /\ Len(both) = n + l
      /\ \A k \in 1..n : both[k] = s[k]
      /\ \A k \in n + 1..n + l : both[k] = t[k - n]
  BY <1>0, <1>00, <1>1, ConcatFacts
<1>3. PICK a : a = Picked(s, kind)
  OBVIOUS
<1>4. PICK b : b = Picked(t, kind)
  OBVIOUS
<1>5. PICK c : c = Picked(both, kind)
  OBVIOUS
<1>6. /\ a \in Seq(Seq(S)) /\ Len(a) = n
      /\ \A k \in 1..n : a[k] = IF s[k][1] = kind THEN <<s[k]>> ELSE <<>>
  BY <1>0, <1>3, PickedType
<1>7. /\ b \in Seq(Seq(S)) /\ Len(b) = l
      /\ \A k \in 1..l : b[k] = IF t[k][1] = kind THEN <<t[k]>> ELSE <<>>
  BY <1>00, <1>4, PickedType
<1>8. /\ c \in Seq(Seq(S)) /\ Len(c) = n + l
      /\ \A k \in 1..n + l : c[k] = IF both[k][1] = kind THEN <<both[k]>> ELSE <<>>
  <2>1. /\ Picked(both, kind) \in Seq(Seq(S)) /\ Len(Picked(both, kind)) = Len(both)
        /\ \A k \in 1..Len(both) :
             Picked(both, kind)[k] = IF both[k][1] = kind THEN <<both[k]>> ELSE <<>>
    BY <1>2, PickedType, SMTT(30)
  <2> QED
    BY <1>2, <1>5, <2>1
<1>9. /\ a \o b \in Seq(Seq(S)) /\ Len(a \o b) = n + l
      /\ \A k \in 1..n : (a \o b)[k] = a[k]
      /\ \A k \in n + 1..n + l : (a \o b)[k] = b[k - n]
  <2>0. PICK T : T = Seq(S)
    OBVIOUS
  <2>1. a \in Seq(T) /\ b \in Seq(T) /\ Len(a) = n /\ Len(b) = l
    BY <1>6, <1>7, <2>0
  <2>2. a \o b \in Seq(T)
    BY ONLY <2>1
  <2>5. Len(a \o b) = n + l
    <3>1. Len(a \o b) = Len(a) + Len(b)
      <4>1. a \in Seq(T) /\ b \in Seq(T)
        BY <2>1
      <4> QED
        BY ONLY <4>1
    <3> QED
      BY <2>1, <3>1, Zenon
  <2>3. \A k \in 1..n : (a \o b)[k] = a[k]
    BY ONLY <2>1, n \in Nat, l \in Nat
  <2>4. \A k \in n + 1..n + l : (a \o b)[k] = b[k - n]
    BY ONLY <2>1, n \in Nat, l \in Nat
  <2> QED
    BY <2>0, <2>2, <2>3, <2>4, <2>5
<1>10. ASSUME NEW k \in 1..n + l PROVE c[k] = (a \o b)[k]
  <2>1. CASE k \in 1..n
    <3>1. both[k] = s[k] /\ (a \o b)[k] = a[k]
      BY <1>2, <1>9, <2>1
    <3>2. c[k] = IF both[k][1] = kind THEN <<both[k]>> ELSE <<>>
      BY <1>8
    <3>3. a[k] = IF s[k][1] = kind THEN <<s[k]>> ELSE <<>>
      BY <1>6, <2>1
    <3> QED
      BY <3>1, <3>2, <3>3
  <2>2. CASE k \in n + 1..n + l
    <3>1. k - n \in 1..l
      BY <2>2
    <3>2. both[k] = t[k - n] /\ (a \o b)[k] = b[k - n]
      BY <1>2, <1>9, <2>2
    <3>3. c[k] = IF both[k][1] = kind THEN <<both[k]>> ELSE <<>>
      BY <1>8
    <3>4. b[k - n] = IF t[k - n][1] = kind THEN <<t[k - n]>> ELSE <<>>
      BY <1>7, <3>1
    <3> QED
      BY <3>2, <3>3, <3>4
  <2>3. k \in 1..n \/ k \in n + 1..n + l
    OBVIOUS
  <2> QED
    BY <2>1, <2>2, <2>3
<1>11. c = a \o b
  <2>1. n + l \in Nat
    OBVIOUS
  <2> QED
    BY <1>8, <1>9, <1>10, <2>1, SameSequence
<1>12. FlattenSeq(a \o b) = FlattenSeq(a) \o FlattenSeq(b)
  BY <1>6, <1>7, FlattenConcat
<1> QED
  BY <1>1, <1>3, <1>4, <1>5, <1>11, <1>12 DEF Column, Picked

LEMMA ColumnNone == \A kind : Column(<<>>, kind) = <<>>
<1> TAKE kind
<1>1. [k \in DOMAIN <<>> |-> IF <<>>[k][1] = kind THEN <<<<>>[k]>> ELSE <<>>] = <<>>
  OBVIOUS
<1> QED
  BY <1>1, FlattenNone DEF Column

\* The characters of the kind are those after the first a, up to the b-th.
Block(s, kind, a, b) ==
  /\ a <= b /\ b <= Len(s)
  /\ \A k \in 1..Len(s) : s[k][1] = kind <=> a < k /\ k <= b

\* Where the characters of the kind are together, they are the column.
LEMMA ColumnBlock ==
  ASSUME NEW S, NEW s \in Seq(S), NEW kind, NEW a \in Nat, NEW b \in Nat,
         Block(s, kind, a, b)
  PROVE  Column(s, kind) = SubSeq(s, a + 1, b)
<1> DEFINE texts == Picked(s, kind)
           N == Len(s)
           upto(n) == IF n <= b THEN n ELSE b
           f == [n \in 0..N |-> IF n <= a THEN <<>> ELSE SubSeq(s, a + 1, upto(n))]
<1>0. /\ a <= b /\ b <= Len(s)
      /\ \A k \in 1..Len(s) : s[k][1] = kind <=> a < k /\ k <= b
  BY DEF Block
<1>1. N \in Nat /\ \A k \in 1..N : s[k] \in S
  OBVIOUS
<1>2. texts \in Seq(Seq(S)) /\ Len(texts) = N
      /\ \A k \in 1..N : texts[k] = IF s[k][1] = kind THEN <<s[k]>> ELSE <<>>
  BY PickedType
<1>3. Column(s, kind) = FlattenSeq(texts)
  BY DEF Column, Picked
<1>12. \A n \in 1..N : texts[n] = IF a < n /\ n <= b THEN <<s[n]>> ELSE <<>>
  <2> TAKE n \in 1..N
  <2>1. s[n][1] = kind <=> a < n /\ n <= b
    BY <1>0 DEF N
  <2>2. texts[n] = IF s[n][1] = kind THEN <<s[n]>> ELSE <<>>
    BY <1>2, Zenon
  <2> HIDE DEF texts, N
  <2> QED
    BY <2>1, <2>2
<1> HIDE DEF texts, N
<1>4. \A n \in 0..N : a < n => upto(n) \in a..N
  BY <1>0, <1>1 DEF N
<1>5. \A n \in a..N : SubSeq(s, a + 1, n) \in Seq(S)
  BY <1>0, <1>1 DEF N
<1>6. f \in [0..N -> Seq(S)]
  <2>1. ASSUME NEW n \in 0..N PROVE f[n] \in Seq(S)
    <3>1. CASE n <= a
      BY <3>1
    <3>2. CASE ~(n <= a)
      <4>1. a < n
        BY <1>1, <3>2
      <4> HIDE DEF upto
      <4>2. SubSeq(s, a + 1, upto(n)) \in Seq(S)
        BY <1>4, <1>5, <4>1
      <4> QED
        BY <3>2, <4>2
    <3> QED
      BY <3>1, <3>2
  <2> QED
    BY <2>1
<1>7. f[0] = <<>>
  BY <1>1
<1>8. SubSeq(s, a + 1, a) = <<>>
  OBVIOUS
<1>9. ASSUME NEW n \in 1..N PROVE f[n] = f[n - 1] \o texts[n]
  <2>0. n \in 0..N /\ n - 1 \in 0..N /\ n \in Int /\ a <= b
    BY <1>0, <1>1
  <2>00. f[n - 1] \in Seq(S) /\ f[n - 1] \o <<>> = f[n - 1]
    <3>1. f[n - 1] \in Seq(S)
      BY <1>6, <2>0
    <3> HIDE DEF f
    <3> QED
      BY <3>1
  <2>1. CASE n <= a
    <3>0. ~(a < n /\ n <= b)
      BY <2>0, <2>1
    <3>1. texts[n] = <<>>
      BY <1>12, <3>0
    <3>2. f[n] = <<>> /\ f[n - 1] = <<>>
      BY <2>0, <2>1
    <3> QED
      BY <2>00, <3>1, <3>2
  <2>2. CASE a < n /\ n <= b
    <3>1. texts[n] = <<s[n]>>
      BY <1>12, <2>2
    <3>2. f[n] = SubSeq(s, a + 1, n)
      BY <2>0, <2>2
    <3>3. f[n - 1] = SubSeq(s, a + 1, n - 1)
      <4>1. CASE n - 1 = a
        BY <1>8, <2>0, <4>1
      <4>2. CASE n - 1 # a
        BY <2>0, <2>2, <4>2
      <4> QED
        BY <4>1, <4>2
    <3>4. SubSeq(s, a + 1, n) = SubSeq(s, a + 1, n - 1) \o <<s[n]>>
      <4>1. n \in 1..Len(s) /\ a + 1 <= n /\ a + 1 \in 1..n
        BY <1>0, <2>2 DEF N
      <4> QED
        BY <4>1, OneMoreOf
    <3> HIDE DEF f
    <3> QED
      BY <3>1, <3>2, <3>3, <3>4
  <2>3. CASE b < n
    <3>0. ~(a < n /\ n <= b)
      BY <2>0, <2>3
    <3>1. texts[n] = <<>>
      BY <1>12, <3>0
    <3>2. f[n] = f[n - 1]
      <4>1. f[n] = SubSeq(s, a + 1, b)
        BY <2>0, <2>3
      <4>2. CASE n - 1 <= a
        BY <1>8, <2>0, <2>3, <4>1, <4>2
      <4>3. CASE ~(n - 1 <= a)
        <5>1. upto(n - 1) = b
          BY <2>0, <2>3
        <5> HIDE DEF upto
        <5> QED
          BY <2>0, <4>1, <4>3, <5>1
      <4> QED
        BY <4>2, <4>3
    <3> HIDE DEF f
    <3> QED
      BY <2>00, <3>1, <3>2
  <2>4. n <= a \/ (a < n /\ n <= b) \/ b < n
    BY <2>0
  <2> HIDE DEF f
  <2> QED
    BY <2>1, <2>2, <2>3, <2>4
<1>10. f[N] = SubSeq(s, a + 1, b)
  <2>0. N \in 0..N /\ b <= N /\ a <= b
    BY <1>0, <1>1 DEF N
  <2>1. CASE N <= a
    <3>1. a = b /\ f[N] = <<>>
      BY <1>0, <1>1, <2>0, <2>1
    <3> HIDE DEF f
    <3> QED
      BY <1>8, <3>1
  <2>2. CASE ~(N <= a)
    <3>1. upto(N) = b
      BY <1>1, <2>0
    <3> HIDE DEF upto
    <3> QED
      BY <2>0, <2>2, <3>1
  <2> QED
    BY <2>1, <2>2
<1>11. Joins(texts, S, f)
  <2> HIDE DEF f
  <2> QED
    BY <1>2, <1>6, <1>7, <1>9 DEF Joins
<1> HIDE DEF f
<1> QED
  BY <1>2, <1>3, <1>10, <1>11, FlattenIsLast

-----------------------------------------------------------------------------
(* Lines: what the callback is given of a message                          *)

\* A line has the end of line besides, and the characters of a dump.
AllKinds == Kinds \cup {"eol", "unset", "hex", "blank", "ascii"}
AllChars == AllKinds \X Nat

LEMMA TextsAreLines == Texts \subseteq Seq(AllChars) /\ Eol \in AllChars
<1>1. Chars \subseteq AllChars
  BY DEF Chars, AllChars, AllKinds
<1>2. Texts \subseteq Seq(AllChars)
  BY <1>1 DEF Texts
<1>3. "eol" \in AllKinds
  BY DEF AllKinds
<1> QED
  BY <1>2, <1>3 DEF Eol, AllChars

\* What the callback is given is the buffer up to the end of line.
LEMMA TakenOf ==
  ASSUME NEW m, NEW p \in Nat, m.p = p
  PROVE  /\ DOMAIN Taken(m) = DOMAIN m.buf \cup {p}
         /\ Taken(m)[p] = Eol
         /\ \A i \in DOMAIN m.buf : i # p => Taken(m)[i] = m.buf[i]
<1>1. Len(<<Eol>>) = 1 /\ <<Eol>>[1] = Eol
  OBVIOUS
<1>2. p..p + Len(<<Eol>>) - 1 = {p} /\ p - p + 1 = 1
  BY <1>1
<1>3. Taken(m) = [i \in DOMAIN m.buf \cup {p} |->
                    IF i \in {p} THEN <<Eol>>[i - p + 1] ELSE m.buf[i]]
  BY <1>2, Zenon DEF Taken, Poke
<1> QED
  BY <1>1, <1>2, <1>3

\* A line of the first p characters of a text and its end, and a buffer that holds it.
IsLine(line, s, p) ==
  /\ line \in Seq(AllChars) /\ Len(line) = p + 1
  /\ (\A i \in 1..p : line[i] = s[i]) /\ line[p + 1] = Eol

\* What the callback is given holds the first p characters of a text.
TakenHas(m, s, p) == \A i \in 0..p - 1 : i \in DOMAIN Taken(m) /\ Taken(m)[i] = s[i + 1]

\* A buffer that holds a text up to its position is given as that text and its end.
LEMMA LineOfText ==
  ASSUME NEW m, NEW p \in Nat, m.p = p, NEW s \in Seq(AllChars), Len(s) = p,
         \A i \in 0..p - 1 : i \in DOMAIN m.buf /\ m.buf[i] = s[i + 1]
  PROVE  /\ LineOf(m) = s \o <<Eol>>
         /\ IsLine(LineOf(m), s, p) /\ TakenHas(m, s, p)
<1>1. PICK line : line = s \o <<Eol>>
  OBVIOUS
<1>2. /\ line \in Seq(AllChars) /\ Len(line) = p + 1
      /\ (\A i \in 1..p : line[i] = s[i]) /\ line[p + 1] = Eol
  <2>1. Eol \in AllChars
    BY TextsAreLines
  <2> QED
    BY <1>1, <2>1, ConcatOne
<1>0. /\ DOMAIN Taken(m) = DOMAIN m.buf \cup {p}
      /\ Taken(m)[p] = Eol
      /\ \A i \in DOMAIN m.buf : i # p => Taken(m)[i] = m.buf[i]
  BY TakenOf, Zenon
<1>3. \A i \in 0..p - 1 : i \in DOMAIN Taken(m) /\ Taken(m)[i] = s[i + 1]
  <2> TAKE i \in 0..p - 1
  <2>1. i # p
    OBVIOUS
  <2>2. i \in DOMAIN m.buf /\ m.buf[i] = s[i + 1]
    OBVIOUS
  <2> QED
    BY <1>0, <2>1, <2>2, Zenon
<1>4. p \in DOMAIN Taken(m) /\ Taken(m)[p] = Eol
  BY <1>0
<1>5. ASSUME NEW i \in 1..p + 1
      PROVE  (IF i - 1 \in DOMAIN Taken(m) THEN Taken(m)[i - 1] ELSE Unset) = line[i]
  <2>1. CASE i <= p
    <3>1. i \in 1..p /\ i - 1 \in 0..p - 1 /\ (i - 1) + 1 = i
      BY <2>1
    <3>2. i - 1 \in DOMAIN Taken(m) /\ Taken(m)[i - 1] = s[(i - 1) + 1]
      BY <1>3, <3>1
    <3>3. line[i] = s[i]
      BY <1>2, <3>1
    <3> QED
      BY <3>1, <3>2, <3>3
  <2>2. CASE i = p + 1
    <3>1. i - 1 = p
      BY <2>2
    <3> QED
      BY <1>2, <1>4, <2>2, <3>1
  <2>3. i <= p \/ i = p + 1
    OBVIOUS
  <2> QED
    BY <2>1, <2>2, <2>3
<1>6. LineOf(m) = [i \in 1..p + 1 |->
                     IF i - 1 \in DOMAIN Taken(m) THEN Taken(m)[i - 1] ELSE Unset]
  BY DEF LineOf
<1>7. LineOf(m) = [i \in 1..p + 1 |-> line[i]]
  BY <1>5, <1>6
<1>8. line = [i \in 1..p + 1 |-> line[i]]
  BY <1>2
<1>9. LineOf(m) = line
  BY <1>7, <1>8
<1>10. IsLine(line, s, p)
  BY <1>2 DEF IsLine
<1>11. TakenHas(m, s, p)
  BY <1>3 DEF TakenHas
<1> QED
  BY <1>1, <1>9, <1>10, <1>11

\* The line of a message is its text, cut where the line ends.
LEMMA LineOfContent ==
  ASSUME MessageAssumption, NEW m, NEW t, Content(m, t), NEW p, p = m.p
  PROVE  /\ p \in Nat /\ p = Min({Len(t), BufEnd}) /\ p <= Len(t)
         /\ LineOf(m) = SubSeq(t, 1, Min({Len(t), BufEnd})) \o <<Eol>>
         /\ IsLine(LineOf(m), t, p) /\ TakenHas(m, t, p)
<1>1. PICK n \in Nat : n = Len(t)
  BY TextLen DEF Content
<1>2. p \in Nat /\ p = Min({n, BufEnd}) /\ BufEnd \in Nat /\ p <= n
  <2>1. p \in Nat /\ p = Min({n, BufEnd}) /\ BufEnd \in Nat
    BY <1>1, EndInside DEF Content, Inside
  <2> QED
    BY <2>1, MinOfTwo
<1>3. t \in Seq(AllChars) /\ \A i \in 0..p - 1 : i \in DOMAIN m.buf /\ m.buf[i] = t[i + 1]
  BY TextsAreLines DEF Content
<1>4. PICK s : s = SubSeq(t, 1, p)
  OBVIOUS
<1>5. s \in Seq(AllChars) /\ Len(s) = p /\ \A i \in 1..p : s[i] = t[i]
  <2>1. p \in 0..n
    BY <1>2
  <2> QED
    BY <1>1, <1>3, <1>4, <2>1, SubSeqProperties
<1>6. \A i \in 0..p - 1 : i \in DOMAIN m.buf /\ m.buf[i] = s[i + 1]
  <2> TAKE i \in 0..p - 1
  <2>1. i + 1 \in 1..p
    BY <1>2
  <2> QED
    BY <1>3, <1>5, <2>1
<1>7. m.p = p
  OBVIOUS
<1>8. /\ LineOf(m) = s \o <<Eol>>
      /\ IsLine(LineOf(m), s, p) /\ TakenHas(m, s, p)
  <2>1. p \in Nat /\ s \in Seq(AllChars) /\ Len(s) = p
    BY <1>2, <1>5
  <2> QED
    BY <1>6, <1>7, <2>1, LineOfText, Zenon
<1>9. IsLine(LineOf(m), t, p)
  BY <1>5, <1>8 DEF IsLine
<1>10. TakenHas(m, t, p)
  <2> SUFFICES ASSUME NEW i \in 0..p - 1
               PROVE  i \in DOMAIN Taken(m) /\ Taken(m)[i] = t[i + 1]
    BY DEF TakenHas
  <2>1. i + 1 \in 1..p
    BY <1>2
  <2> QED
    BY <1>5, <1>8, <2>1 DEF TakenHas
<1>11. p = Min({Len(t), BufEnd}) /\ p <= Len(t)
  BY <1>1, <1>2
<1>12. LineOf(m) = SubSeq(t, 1, Min({Len(t), BufEnd})) \o <<Eol>>
  BY <1>4, <1>8, <1>11
<1> QED
  BY <1>2, <1>9, <1>10, <1>11, <1>12

-----------------------------------------------------------------------------
(* Lines: where the tag is                                                 *)

\* A text of characters of these kinds only.
Of(s, kinds) == s \in Texts /\ \A k \in 1..Len(s) : s[k][1] \in kinds

\* Texts of such characters, joined, and the parts of a line among them.
LEMMA OfJoin ==
  ASSUME NEW kinds, NEW r, Of(r, kinds), NEW s, Of(s, kinds)
  PROVE  Of(r \o s, kinds)
<1>1. PICK n \in Nat : n = Len(r)
  BY TextLen DEF Of
<1>2. PICK l \in Nat : l = Len(s)
  BY TextLen DEF Of
<1>3. /\ r \o s \in Texts /\ Len(r \o s) = n + l
      /\ \A k \in 1..n : (r \o s)[k] = r[k]
      /\ \A k \in n + 1..n + l : (r \o s)[k] = s[k - n]
  BY <1>1, <1>2, ConcatFacts DEF Of, Texts
<1>4. ASSUME NEW k \in 1..n + l PROVE (r \o s)[k][1] \in kinds
  <2>1. CASE k <= n
    <3>1. k \in 1..n
      BY <2>1
    <3> QED
      BY <1>1, <1>3, <3>1 DEF Of
  <2>2. CASE ~(k <= n)
    <3>1. k \in n + 1..n + l /\ k - n \in 1..l
      BY <2>2
    <3> QED
      BY <1>2, <1>3, <3>1 DEF Of
  <2> QED
    BY <2>1, <2>2
<1> QED
  BY <1>3, <1>4 DEF Of

LEMMA OfPart ==
  ASSUME NEW kinds, NEW name \in Kinds, name \in kinds, NEW size \in Nat
  PROVE  Of(Part(name, size), kinds) /\ Of(CSTR(name), kinds)
<1>1. Of(Part(name, size), kinds)
  BY PartIsText DEF Of, Part
<1>2. Of(CSTR(name), kinds)
  BY CSTRIsText DEF Of, CSTR
<1> QED
  BY <1>1, <1>2

LEMMA OfNothing == \A kinds : Of(<<>>, kinds)
<1>1. <<>> \in Texts /\ 1..Len(<<>>) = {}
  <2>1. <<>> \in Texts
    BY DEF Texts
  <2> QED
    BY <2>1
<1> QED
  BY <1>1 DEF Of

\* Where the characters of the tag are in a text.
TagFrom(t, from, to) ==
  \A k \in 1..Len(t) : t[k][1] \in TagParts <=> from < k /\ k <= to

\* The tag is where the text before it ends.
LEMMA TagPlaces ==
  ASSUME NEW a, Of(a, Kinds \ TagParts), NEW g, Of(g, TagParts),
         NEW r, Of(r, Kinds \ TagParts), NEW t, t = (a \o g) \o r
  PROVE  /\ Len(a) \in Nat /\ Len(g) \in Nat /\ Len(a \o g) = Len(a) + Len(g)
         /\ t \in Texts /\ Len(a \o g) <= Len(t) /\ TagFrom(t, Len(a), Len(a \o g))
<1>10. PICK n \in Nat : n = Len(a)
  BY TextLen DEF Of
<1>11. PICK l \in Nat : l = Len(g)
  BY TextLen DEF Of
<1>12. PICK e \in Nat : e = n + l
  OBVIOUS
<1>1. PICK x \in Nat : x = Len(r)
  BY TextLen DEF Of
<1>2. PICK ag : ag = a \o g
  OBVIOUS
<1>3. /\ ag \in Texts /\ Len(ag) = n + l
      /\ \A k \in 1..n : ag[k] = a[k]
      /\ \A k \in n + 1..n + l : ag[k] = g[k - n]
  BY <1>2, <1>10, <1>11, ConcatFacts DEF Of, Texts
<1>4. n + l \in Nat
  OBVIOUS
<1>5. /\ ag \o r \in Texts /\ Len(ag \o r) = (n + l) + x
      /\ \A k \in 1..n + l : (ag \o r)[k] = ag[k]
      /\ \A k \in (n + l) + 1..(n + l) + x : (ag \o r)[k] = r[k - (n + l)]
  <2>1. ag \in Seq(Chars) /\ r \in Seq(Chars) /\ Len(ag) = n + l /\ Len(r) = x
    BY <1>1, <1>3 DEF Of, Texts
  <2>2. /\ ag \o r \in Seq(Chars) /\ Len(ag \o r) = (n + l) + x
        /\ \A k \in 1..n + l : (ag \o r)[k] = ag[k]
        /\ \A k \in (n + l) + 1..(n + l) + x : (ag \o r)[k] = r[k - (n + l)]
    <3>1. PICK y \in Nat : y = n + l
      BY <1>4
    <3>0. Len(ag) = y
      BY <2>1, <3>1
    <3>2. /\ ag \o r \in Seq(Chars) /\ Len(ag \o r) = y + x
          /\ \A k \in 1..y : (ag \o r)[k] = ag[k]
          /\ \A k \in y + 1..y + x : (ag \o r)[k] = r[k - y]
      <4>1. ag \in Seq(Chars) /\ r \in Seq(Chars) /\ Len(ag) = y /\ Len(r) = x
        BY <2>1, <3>0
      <4>2. ag \o r \in Seq(Chars)
        BY ONLY <4>1
      <4>3. Len(ag \o r) = Len(ag) + Len(r)
        <5>1. ag \in Seq(Chars) /\ r \in Seq(Chars)
          BY <4>1
        <5> QED
          BY ONLY <5>1
      <4>4. \A k \in 1..y : (ag \o r)[k] = ag[k]
        BY ONLY <4>1, x \in Nat, y \in Nat
      <4>5. \A k \in y + 1..y + x : (ag \o r)[k] = r[k - y]
        BY ONLY <4>1, x \in Nat, y \in Nat
      <4> QED
        BY <4>1, <4>2, <4>3, <4>4, <4>5
    <3> QED
      BY <3>1, <3>2
  <2> QED
    BY <2>2 DEF Texts
<1>6. t = ag \o r
  BY <1>2
<1>7. ASSUME NEW k \in 1..(n + l) + x
      PROVE  t[k][1] \in TagParts <=> n < k /\ k <= n + l
  <2>1. CASE k <= n
    <3>1. k \in 1..n /\ k \in 1..n + l
      BY <2>1
    <3>2. t[k] = a[k]
      BY <1>3, <1>5, <1>6, <3>1
    <3>3. a[k][1] \in Kinds \ TagParts
      BY <1>10, <3>1 DEF Of
    <3> QED
      BY <2>1, <3>2, <3>3
  <2>2. CASE n < k /\ k <= n + l
    <3>1. k \in 1..n + l /\ k \in n + 1..n + l /\ k - n \in 1..l
      BY <2>2
    <3>2. t[k] = g[k - n]
      BY <1>3, <1>5, <1>6, <3>1
    <3>3. g[k - n][1] \in TagParts
      BY <1>11, <3>1 DEF Of
    <3> QED
      BY <2>2, <3>2, <3>3
  <2>3. CASE n + l < k
    <3>1. k \in (n + l) + 1..(n + l) + x /\ k - (n + l) \in 1..x
      BY <2>3
    <3>2. t[k] = r[k - (n + l)]
      BY <1>5, <1>6, <3>1
    <3>3. r[k - (n + l)][1] \in Kinds \ TagParts
      BY <1>1, <3>1 DEF Of
    <3>4. ~(k <= n + l)
      BY <2>3
    <3> QED
      BY <3>2, <3>3, <3>4
  <2>4. k <= n \/ (n < k /\ k <= n + l) \/ n + l < k
    OBVIOUS
  <2> QED
    BY <2>1, <2>2, <2>3, <2>4
<1>8. n + l <= (n + l) + x
  OBVIOUS
<1>9. TagFrom(t, n, e)
  BY <1>5, <1>6, <1>7, <1>12 DEF TagFrom
<1>13. Len(a \o g) = e /\ e <= Len(t) /\ t \in Texts
  BY <1>2, <1>3, <1>5, <1>6, <1>8, <1>12
<1> QED
  BY <1>9, <1>10, <1>11, <1>12, <1>13

\* What is cut of the line leaves the tag between its marks.
LEMMA TagCut ==
  ASSUME NEW n \in Nat, NEW l \in Nat, NEW end \in Nat, NEW len \in Nat, n + l <= len,
         NEW p \in Nat, p = (IF len =< end THEN len ELSE end),
         NEW b, b = (IF n =< end THEN n ELSE end),
         NEW e, e = (IF n + l =< end THEN n + l ELSE end)
  PROVE  /\ b + 1..e \subseteq 1..p + 1
         /\ \A k \in 1..p + 1 : k \in b + 1..e <=> k <= p /\ n < k /\ k <= n + l
OBVIOUS

\* The marks of a message are where the prefix and the tag are in its text.
TagMarked(m, t) ==
  m.tag_b = -1 \/
  \E a, g, r : /\ Of(a, Kinds \ TagParts) /\ Of(g, TagParts) /\ Of(r, Kinds \ TagParts)
               /\ t = (a \o g) \o r
               /\ m.tag_b = Min({Len(a), BufEnd})
               /\ m.tag_e = Min({Len(a \o g), BufEnd})

\* Which parts of a line belong to the tag, and which do not.
LEMMA TaggedIsTag ==
  ASSUME NEW prefix \in Nat, NEW tag \in Nat
  PROVE  /\ Of(TaggedOf(prefix, tag), TagParts)
         /\ Of(DelimiterOf(TaggedOf(prefix, tag)), Kinds \ TagParts)
<1> DEFINE s1 == Part("prefix", prefix)
           s2 == IF prefix # 0 /\ tag # 0 THEN CSTR("dot") ELSE <<>>
           s3 == Part("tag", tag)
<1>1. Of(s1, TagParts) /\ Of(s2, TagParts) /\ Of(s3, TagParts)
  BY OfPart, OfNothing DEF TagParts, Kinds
<1>2. TaggedOf(prefix, tag) = (s1 \o s2) \o s3
  BY DEF TaggedOf
<1> HIDE DEF s1, s2, s3
<1>3. Of(TaggedOf(prefix, tag), TagParts)
  BY <1>1, <1>2, OfJoin
<1>4. Of(DelimiterOf(TaggedOf(prefix, tag)), Kinds \ TagParts)
  BY OfPart, OfNothing DEF TagParts, Kinds, DelimiterOf
<1> QED
  BY <1>3, <1>4

LEMMA SourceIsNoTag ==
  ASSUME NEW size \in Nat
  PROVE  Of(SourceOf(size), Kinds \ TagParts)
<1> DEFINE s1 == Part("function", size)
           s2 == CSTR("at")
           s3 == Part("filename", size)
           s4 == CSTR("colon")
           s5 == Part("fileline", size)
           s6 == CSTR("delimiter")
           kinds == Kinds \ TagParts
<1>1. /\ Of(s1, kinds) /\ Of(s2, kinds) /\ Of(s3, kinds)
      /\ Of(s4, kinds) /\ Of(s5, kinds) /\ Of(s6, kinds)
  BY OfPart DEF TagParts, Kinds
<1>2. SourceOf(size) = ((((s1 \o s2) \o s3) \o s4) \o s5) \o s6
  BY DEF SourceOf
<1> HIDE DEF s1, s2, s3, s4, s5, s6, kinds
<1>3. Of((s1 \o s2) \o s3, kinds)
  BY <1>1, OfJoin
<1>4. Of((((s1 \o s2) \o s3) \o s4) \o s5, kinds)
  BY <1>1, <1>3, OfJoin
<1>5. Of(SourceOf(size), kinds)
  BY <1>1, <1>2, <1>4, OfJoin
<1> QED
  BY <1>5 DEF kinds

\* What a call writes is what it asks for, cut, with its tag between the marks.
LEMMA Written ==
  ASSUME MessageAssumption, MessageInv, NEW c \in Calls, WriteMessage(c)
  PROVE  \E m : /\ msg' = [m EXCEPT !.buf = Taken(m)] /\ lines' = <<LineOf(m)>>
                /\ mem' = IF Dumped(c, m) THEN 0 ELSE -1
                /\ Content(m, text') /\ TagMarked(m, text')
                /\ "msg" \in Mask(c) => m.msg_b \in 0..m.p
<1> DEFINE put == Mask(c)
           m1 == IF "ctx" \in put THEN put_ctx(Fresh) ELSE Fresh
           m2 == IF "tag" \in put THEN put_tag(m1, format.prefix, c.tag) ELSE m1
           m3 == IF "src" \in put /\ c.src # -1 THEN put_src(m2, c.src) ELSE m2
           m4 == IF "msg" \in put THEN put_msg(m3, c.n) ELSE m3
           a == IF "ctx" \in put THEN Part("ctx", CtxSize) ELSE <<>>
           g == IF "tag" \in put THEN TaggedOf(format.prefix, c.tag) ELSE <<>>
           d == IF "tag" \in put THEN DelimiterOf(TaggedOf(format.prefix, c.tag)) ELSE <<>>
           s == IF "src" \in put /\ c.src # -1 THEN SourceOf(c.src) ELSE <<>>
           n == IF "msg" \in put /\ c.n # -1 THEN Part("msg", c.n) ELSE <<>>
<1>1. /\ format.prefix \in Nat /\ c.tag \in Nat /\ c.src \in Nat \cup {-1}
      /\ c.n \in Nat \cup {-1} /\ CtxSize \in Nat
  BY DEF MessageInv, Calls, MessageAssumption
<1>2. /\ msg' = [m4 EXCEPT !.buf = Taken(m4)] /\ lines' = <<LineOf(m4)>>
      /\ mem' = IF Dumped(c, m4) THEN 0 ELSE -1
      /\ text' = TextOf(c)
  BY DEF WriteMessage
<1>3. TextOf(c) = ((a \o (g \o d)) \o s) \o n
  <2>1. Tagged(c) = TaggedOf(format.prefix, c.tag)
    BY DEF Tagged, TaggedOf
  <2>2. PICK tagged : tagged = Tagged(c)
    OBVIOUS
  <2>3. g \o d = IF "tag" \in put
                   THEN tagged \o (IF tagged # <<>> THEN CSTR("delimiter") ELSE <<>>)
                   ELSE <<>>
    <3>1. CASE "tag" \in put
      BY <2>1, <2>2, <3>1 DEF DelimiterOf
    <3>2. CASE ~("tag" \in put)
      <4>1. <<>> \o <<>> = <<>>
        BY NothingMore
      <4> QED
        BY <3>2, <4>1
    <3> QED
      BY <3>1, <3>2
  <2>4. TextOf(c) =
          (((IF "ctx" \in Mask(c) THEN Part("ctx", CtxSize) ELSE <<>>)
             \o (IF "tag" \in Mask(c)
                   THEN tagged \o (IF tagged # <<>> THEN CSTR("delimiter") ELSE <<>>)
                   ELSE <<>>))
            \o (IF "src" \in Mask(c) /\ c.src # -1 THEN SourceOf(c.src) ELSE <<>>))
           \o (IF "msg" \in Mask(c) /\ c.n # -1 THEN Part("msg", c.n) ELSE <<>>)
    BY <2>2, Zenon DEF TextOf, SourceOf
  <2> HIDE DEF g, d
  <2> QED
    BY <2>3, <2>4
<1>4. /\ Of(a, Kinds \ TagParts) /\ Of(g, TagParts) /\ Of(d, Kinds \ TagParts)
      /\ Of(s, Kinds \ TagParts) /\ Of(n, Kinds \ TagParts)
  <2>1. Of(a, Kinds \ TagParts)
    BY <1>1, OfPart, OfNothing DEF Kinds, TagParts
  <2>2. Of(g, TagParts) /\ Of(d, Kinds \ TagParts)
    BY <1>1, TaggedIsTag, OfNothing
  <2>3. Of(s, Kinds \ TagParts)
    BY <1>1, SourceIsNoTag, OfNothing
  <2>4. Of(n, Kinds \ TagParts)
    BY <1>1, OfPart, OfNothing DEF Kinds, TagParts
  <2> QED
    BY <2>1, <2>2, <2>3, <2>4
<1>5. a \in Texts /\ g \in Texts /\ d \in Texts /\ s \in Texts /\ n \in Texts
  BY <1>4, Zenon DEF Of
<1>6. Content(m1, a) /\ m1.tag_b = -1
  <2>1. CASE "ctx" \in put
    <3>1. Part("ctx", CtxSize) \in Texts
      BY <1>1, PartIsText DEF Kinds
    <3>2. Content(put_ctx(Fresh), <<>> \o Part("ctx", CtxSize))
      BY <3>1, FreshContent, PutContent DEF put_ctx
    <3>3. put_ctx(Fresh).tag_b = Fresh.tag_b
      BY <3>1, FreshInside, PutKeeps DEF put_ctx
    <3>4. Fresh.tag_b = -1
      BY DEF Fresh
    <3> QED
      BY <2>1, <3>1, <3>2, <3>3, <3>4, NothingMore
  <2>2. CASE ~("ctx" \in put)
    BY <2>2, FreshContent DEF Fresh
  <2> QED
    BY <2>1, <2>2
<1> HIDE DEF m1
<1>7. /\ Content(m2, a \o (g \o d))
      /\ m2.tag_b = -1 \/ (m2.tag_b = m1.p /\ m2.tag_e = Min({Len(a \o g), BufEnd}))
  <2>1. CASE "tag" \in put
    <3>1. /\ TaggedOf(format.prefix, c.tag) \in Texts
          /\ Content(put_tag(m1, format.prefix, c.tag),
                     a \o (TaggedOf(format.prefix, c.tag)
                             \o DelimiterOf(TaggedOf(format.prefix, c.tag))))
          /\ put_tag(m1, format.prefix, c.tag).tag_b = m1.p
          /\ put_tag(m1, format.prefix, c.tag).tag_e
               = Min({Len(a \o TaggedOf(format.prefix, c.tag)), BufEnd})
      <4>1. PICK prefix \in Nat : prefix = format.prefix
        BY <1>1
      <4>2. PICK tag \in Nat : tag = c.tag
        BY <1>1
      <4>3. PICK at : at = a
        OBVIOUS
      <4>4. /\ TaggedOf(prefix, tag) \in Texts
            /\ Content(put_tag(m1, prefix, tag),
                       at \o (TaggedOf(prefix, tag) \o DelimiterOf(TaggedOf(prefix, tag))))
            /\ put_tag(m1, prefix, tag).tag_b = m1.p
            /\ put_tag(m1, prefix, tag).tag_e = Min({Len(at \o TaggedOf(prefix, tag)), BufEnd})
        <5>1. MessageAssumption /\ Content(m1, at) /\ prefix \in Nat /\ tag \in Nat
          BY <1>6, <4>3
        <5>2. TagPut(m1, at, prefix, tag)
          BY ONLY <5>1, TagContent
        <5> QED
          BY ONLY <5>2 DEF TagPut
      <4> QED
        BY <4>1, <4>2, <4>3, <4>4
    <3> QED
      BY <2>1, <3>1
  <2>2. CASE ~("tag" \in put)
    <3>1. g = <<>> /\ d = <<>> /\ m2 = m1
      BY <2>2
    <3>2. a \o (<<>> \o <<>>) = a
      BY <1>5, NothingMore
    <3> QED
      BY <1>6, <3>1, <3>2
  <2> QED
    BY <2>1, <2>2
<1> HIDE DEF m2, a, g, d
<1>8. PICK t \in Texts : t = a \o (g \o d)
  BY <1>7 DEF Content
<1>9. Content(m3, t \o s) /\ m3.tag_b = m2.tag_b /\ m3.tag_e = m2.tag_e
  <2>1. CASE "src" \in put /\ c.src # -1
    <3>1. c.src \in Nat
      BY <1>1, <2>1
    <3> QED
      BY <1>7, <1>8, <2>1, <3>1, SrcContent
  <2>2. CASE ~("src" \in put /\ c.src # -1)
    BY <1>7, <1>8, <2>2, NothingMore
  <2> QED
    BY <2>1, <2>2
<1> HIDE DEF m3, s
<1>10. PICK ts \in Texts : ts = t \o s
  BY <1>9 DEF Content
<1>11. /\ Content(m4, ts \o n) /\ m4.tag_b = m3.tag_b /\ m4.tag_e = m3.tag_e
       /\ "msg" \in put => m4.msg_b \in 0..m4.p
  <2>1. CASE "msg" \in put
    <3>1. /\ Content(put_msg(m3, c.n), ts \o (IF c.n # -1 THEN Part("msg", c.n) ELSE <<>>))
          /\ put_msg(m3, c.n).tag_b = m3.tag_b /\ put_msg(m3, c.n).tag_e = m3.tag_e
          /\ put_msg(m3, c.n).msg_b \in 0..put_msg(m3, c.n).p
      BY <1>1, <1>9, <1>10, MsgContent
    <3> QED
      BY <2>1, <3>1
  <2>2. CASE ~("msg" \in put)
    BY <1>9, <1>10, <2>2, NothingMore
  <2> QED
    BY <2>1, <2>2
<1> HIDE DEF m4, n
<1>12. text' = ts \o n
  BY <1>2, <1>3, <1>8, <1>10
<1>13. m1.p = Min({Len(a), BufEnd})
  BY <1>6 DEF Content
<1>14. TagMarked(m4, text')
  <2>1. CASE m2.tag_b = -1
    BY <1>9, <1>11, <2>1 DEF TagMarked
  <2>2. CASE m2.tag_b # -1
    <3> DEFINE r == (d \o s) \o n
    <3>1. Of(r, Kinds \ TagParts)
      BY <1>4, OfJoin
    <3>2. text' = (a \o g) \o r
      <4>1. ((a \o (g \o d)) \o s) \o n = (a \o g) \o ((d \o s) \o n)
        <5>1. a \o g \in Texts
          BY <1>5, JoinedText
        <5>6. a \o (g \o d) = (a \o g) \o d
          <6>1. a \in Texts /\ g \in Texts /\ d \in Texts
            BY <1>5
          <6> QED
            BY ONLY <6>1, Assoc, ZenonT(30)
        <5>2. PICK x \in Texts : x = a \o g
          BY <5>1
        <5>3. d \o s \in Texts
          BY <1>5, JoinedText
        <5>7. x \o (d \o s) = (x \o d) \o s
          BY ONLY <1>5, x \in Texts, Assoc, ZenonT(30)
        <5>4. PICK y \in Texts : y = d \o s
          BY <5>3
        <5>5. x \o (y \o n) = (x \o y) \o n
          <6>1. x \in Texts /\ y \in Texts /\ n \in Texts
            BY <1>5
          <6> QED
            BY ONLY <6>1, Assoc, Zenon
        <5> QED
          BY <5>2, <5>4, <5>5, <5>6, <5>7
      <4> QED
        BY <1>2, <1>3, <4>1
    <3>3. m4.tag_b = Min({Len(a), BufEnd}) /\ m4.tag_e = Min({Len(a \o g), BufEnd})
      BY <1>7, <1>9, <1>11, <1>13, <2>2
    <3> HIDE DEF r
    <3> QED
      BY <1>4, <3>1, <3>2, <3>3 DEF TagMarked
  <2> QED
    BY <2>1, <2>2
<1> QED
  BY <1>2, <1>11, <1>12, <1>14

-----------------------------------------------------------------------------
(* Lines: the rows of a dump                                               *)

\* The characters of a row.
RowChars == {"hex", "blank", "ascii", "eol"} \X Nat

\* The character of a row of n bytes of a dump of w a row, from the byte first on.
RowChar(w, n, first, k) ==
  IF k <= 2 * n THEN Hex(first + (k - 1) \div 2)
  ELSE IF k <= 2 * w + 2 THEN Blank
  ELSE IF k <= 2 * w + 2 + n THEN Ascii(first + k - (2 * w + 2) - 1)
  ELSE Eol

\* A row.
RowOf(w, n, first) == [k \in 1..2 * w + 2 + n + 1 |-> RowChar(w, n, first, k)]

\* What a character of a row is.
LEMMA RowCharType ==
  ASSUME NEW w \in Nat, NEW n \in Nat, n <= w, NEW first \in Nat,
         NEW k \in 1..2 * w + 2 + n + 1
  PROVE  /\ RowChar(w, n, first, k) \in RowChars
         /\ k <= 2 * n => RowChar(w, n, first, k) = Hex(first + (k - 1) \div 2)
         /\ 2 * w + 2 < k /\ k <= 2 * w + 2 + n =>
              RowChar(w, n, first, k) = Ascii(first + k - (2 * w + 2) - 1)
         /\ RowChar(w, n, first, k)[1] = "hex" <=> 0 < k /\ k <= 2 * n
         /\ RowChar(w, n, first, k)[1] = "ascii" <=> 2 * w + 2 < k /\ k <= 2 * w + 2 + n
<1>1. CASE k <= 2 * n
  <2>1. first + (k - 1) \div 2 \in Nat
    OBVIOUS
  <2>2. RowChar(w, n, first, k) = <<"hex", first + (k - 1) \div 2>>
    BY <1>1 DEF RowChar, Hex
  <2>3. ~(2 * w + 2 < k)
    BY <1>1
  <2> QED
    BY <1>1, <2>1, <2>2, <2>3 DEF RowChars, Hex
<1>2. CASE ~(k <= 2 * n) /\ k <= 2 * w + 2
  <2>1. RowChar(w, n, first, k) = <<"blank", 0>>
    BY <1>2 DEF RowChar, Blank
  <2> QED
    BY <1>2, <2>1 DEF RowChars
<1>3. CASE ~(k <= 2 * w + 2) /\ k <= 2 * w + 2 + n
  <2>1. first + k - (2 * w + 2) - 1 \in Nat /\ ~(k <= 2 * n)
    BY <1>3
  <2>2. RowChar(w, n, first, k) = <<"ascii", first + k - (2 * w + 2) - 1>>
    BY <1>3, <2>1 DEF RowChar, Ascii
  <2> QED
    BY <1>3, <2>1, <2>2 DEF RowChars, Ascii
<1>4. CASE ~(k <= 2 * w + 2 + n)
  <2>1. ~(k <= 2 * w + 2) /\ ~(k <= 2 * n)
    BY <1>4
  <2>2. RowChar(w, n, first, k) = <<"eol", 0>>
    BY <1>4, <2>1 DEF RowChar, Eol
  <2> QED
    BY <1>4, <2>1, <2>2 DEF RowChars
<1> QED
  BY <1>1, <1>2, <1>3, <1>4

\* The columns of a text are n bytes from the byte first on, or the first n bytes.
RowShows(s, first, n) ==
  /\ Column(s, "hex") = [k \in 1..2 * n |-> Hex(first + (k - 1) \div 2)]
  /\ Column(s, "ascii") = [k \in 1..n |-> Ascii(first + k - 1)]

ShowsBytes(s, n) ==
  /\ Column(s, "hex") = [k \in 1..2 * n |-> Hex((k - 1) \div 2)]
  /\ Column(s, "ascii") = [k \in 1..n |-> Ascii(k - 1)]

\* A row shows its bytes in both columns.
LEMMA RowColumns ==
  ASSUME NEW w \in Nat, NEW n \in Nat, n <= w, NEW first \in Nat,
         NEW row, row = RowOf(w, n, first)
  PROVE  /\ row \in Seq(RowChars) /\ Len(row) = 2 * w + 2 + n + 1
         /\ RowShows(row, first, n)
<1>1. PICK len \in Nat : len = 2 * w + 2 + n + 1
  OBVIOUS
<1>2. row = [k \in 1..len |-> RowChar(w, n, first, k)]
  BY <1>1 DEF RowOf
<1>3. \A k \in 1..len : RowChar(w, n, first, k) \in RowChars
  BY <1>1, RowCharType
<1>4. row \in Seq(RowChars) /\ Len(row) = len
      /\ \A k \in 1..len : row[k] = RowChar(w, n, first, k)
  BY <1>2, <1>3
<1>10. ASSUME NEW k \in 1..len
       PROVE  /\ k <= 2 * n => row[k] = Hex(first + (k - 1) \div 2)
              /\ row[k][1] = "hex" <=> 0 < k /\ k <= 2 * n
              /\ row[k][1] = "ascii" <=> 2 * w + 2 < k /\ k <= 2 * w + 2 + n
  <2>1. row[k] = RowChar(w, n, first, k) /\ k \in 1..2 * w + 2 + n + 1
    BY <1>1, <1>4
  <2>2. /\ k <= 2 * n => RowChar(w, n, first, k) = Hex(first + (k - 1) \div 2)
        /\ RowChar(w, n, first, k)[1] = "hex" <=> 0 < k /\ k <= 2 * n
        /\ RowChar(w, n, first, k)[1] = "ascii" <=> 2 * w + 2 < k /\ k <= 2 * w + 2 + n
    BY <2>1, RowCharType
  <2> QED
    BY <2>1, <2>2
<1>5. Column(row, "hex") = SubSeq(row, 0 + 1, 2 * n)
  <2>1. \A k \in 1..Len(row) : row[k][1] = "hex" <=> 0 < k /\ k <= 2 * n
    BY <1>4, <1>10
  <2>2. PICK z \in Nat : z = 0
    OBVIOUS
  <2>3. PICK b \in Nat : b = 2 * n
    OBVIOUS
  <2>4. z <= b /\ b <= Len(row)
    BY <1>1, <1>4, <2>2, <2>3
  <2>5. Block(row, "hex", z, b)
    BY <2>1, <2>2, <2>3, <2>4 DEF Block
  <2>6. row \in Seq(RowChars) /\ z \in Nat /\ b \in Nat
    BY <1>4
  <2>7. Column(row, "hex") = SubSeq(row, z + 1, b)
    BY ONLY <2>5, <2>6, ColumnBlock
  <2> QED
    BY <2>2, <2>3, <2>7
<1>6. SubSeq(row, 0 + 1, 2 * n) = [k \in 1..2 * n |-> Hex(first + (k - 1) \div 2)]
  <2>1. PICK x : x = SubSeq(row, 0 + 1, 2 * n)
    OBVIOUS
  <2>2. x \in Seq(RowChars) /\ Len(x) = 2 * n /\ \A k \in 1..2 * n : x[k] = row[k]
    BY <1>1, <1>4, <2>1, SubSeqProperties
  <2>3. \A k \in 1..2 * n : row[k] = Hex(first + (k - 1) \div 2)
    BY <1>1, <1>10
  <2>4. x = [k \in 1..2 * n |-> x[k]]
    BY <2>2
  <2> QED
    BY <2>1, <2>2, <2>3, <2>4
<1>7. PICK a \in Nat : a = 2 * w + 2
  OBVIOUS
<1>8. Column(row, "ascii") = SubSeq(row, a + 1, a + n)
  <2>1. \A k \in 1..Len(row) : row[k][1] = "ascii" <=> a < k /\ k <= a + n
    BY <1>4, <1>7, <1>10
  <2>2. PICK b \in Nat : b = a + n
    OBVIOUS
  <2>3. a <= b /\ b <= Len(row)
    BY <1>1, <1>4, <1>7, <2>2
  <2>4. Block(row, "ascii", a, b)
    BY <2>1, <2>2, <2>3 DEF Block
  <2>5. row \in Seq(RowChars) /\ a \in Nat /\ b \in Nat
    BY <1>4
  <2>6. Column(row, "ascii") = SubSeq(row, a + 1, b)
    BY ONLY <2>4, <2>5, ColumnBlock
  <2> QED
    BY <2>2, <2>6
<1>9. SubSeq(row, a + 1, a + n) = [k \in 1..n |-> Ascii(first + k - 1)]
  <2>1. PICK x : x = SubSeq(row, a + 1, a + n)
    OBVIOUS
  <2>2. x \in Seq(RowChars) /\ Len(x) = n /\ \A k \in 1..n : x[k] = row[a + k]
    BY <1>1, <1>4, <1>7, <2>1, SubSeqProperties
  <2>3. \A k \in 1..n : row[a + k] = Ascii(first + k - 1)
    <3> TAKE k \in 1..n
    <3>1. a + k \in 1..len /\ 2 * w + 2 < a + k /\ a + k <= 2 * w + 2 + n
      BY <1>1, <1>7
    <3>2. RowChar(w, n, first, a + k) = Ascii(first + (a + k) - (2 * w + 2) - 1)
      BY <1>1, <3>1, RowCharType
    <3>3. first + (a + k) - (2 * w + 2) - 1 = first + k - 1
      BY <1>7
    <3> QED
      BY <1>4, <3>1, <3>2, <3>3
  <2>4. x = [k \in 1..n |-> x[k]]
    BY <2>2
  <2> QED
    BY <2>1, <2>2, <2>3, <2>4
<1> QED
  BY <1>1, <1>4, <1>5, <1>6, <1>8, <1>9 DEF RowShows

\* The bytes up to first, and n more.
LEMMA MoreShown ==
  ASSUME NEW first \in Nat, NEW n \in Nat
  PROVE  /\ [k \in 1..2 * first |-> Hex((k - 1) \div 2)]
              \o [k \in 1..2 * n |-> Hex(first + (k - 1) \div 2)]
              = [k \in 1..2 * (first + n) |-> Hex((k - 1) \div 2)]
         /\ [k \in 1..first |-> Ascii(k - 1)] \o [k \in 1..n |-> Ascii(first + k - 1)]
              = [k \in 1..first + n |-> Ascii(k - 1)]
<1>1. ASSUME NEW k \in 1..2 * (first + n), ~(k <= 2 * first)
      PROVE  (k - 1) \div 2 = first + ((k - 2 * first) - 1) \div 2
  BY <1>1
<1>2. [k \in 1..2 * first |-> Hex((k - 1) \div 2)]
        \o [k \in 1..2 * n |-> Hex(first + (k - 1) \div 2)]
        = [k \in 1..2 * (first + n) |-> Hex((k - 1) \div 2)]
  <2>1. PICK a \in Nat : a = 2 * first
    OBVIOUS
  <2>2. PICK b \in Nat : b = 2 * n
    OBVIOUS
  <2>3. PICK s : s = [k \in 1..a |-> Hex((k - 1) \div 2)]
    OBVIOUS
  <2>4. PICK t : t = [k \in 1..b |-> Hex(first + (k - 1) \div 2)]
    OBVIOUS
  <2>5. PICK all : all = [k \in 1..a + b |-> Hex((k - 1) \div 2)]
    OBVIOUS
  <2>6. PICK S : \A i \in Int : Hex(i) \in S
    <3>1. \A i \in Int : Hex(i) \in {Hex(j) : j \in Int}
      OBVIOUS
    <3> QED
      BY <3>1
  <2>7. /\ s \in Seq(S) /\ Len(s) = a /\ t \in Seq(S) /\ Len(t) = b
        /\ all \in Seq(S) /\ Len(all) = a + b
    <3>1. \A k \in 1..a + b : Hex((k - 1) \div 2) \in S
      BY <2>6
    <3>2. \A k \in 1..a : Hex((k - 1) \div 2) \in S
      BY <2>6
    <3>3. \A k \in 1..b : Hex(first + (k - 1) \div 2) \in S
      BY <2>6
    <3> QED
      BY <2>3, <2>4, <2>5, <3>1, <3>2, <3>3
  <2>8. /\ s \o t \in Seq(S) /\ Len(s \o t) = a + b
        /\ \A k \in 1..a : (s \o t)[k] = s[k]
        /\ \A k \in a + 1..a + b : (s \o t)[k] = t[k - a]
    <3>1. s \in Seq(S) /\ t \in Seq(S)
      BY <2>7
    <3>2. s \o t \in Seq(S) /\ Len(s \o t) = Len(s) + Len(t)
      BY ONLY <3>1
    <3>3. \A k \in 1..Len(s) : (s \o t)[k] = s[k]
      BY ONLY <3>1
    <3>4. \A k \in Len(s) + 1..Len(s) + Len(t) : (s \o t)[k] = t[k - Len(s)]
      BY ONLY <3>1
    <3> QED
      BY <2>7, <3>2, <3>3, <3>4, Zenon
  <2>9. ASSUME NEW k \in 1..a + b PROVE (s \o t)[k] = all[k]
    <3>1. CASE k <= a
      <4>1. k \in 1..a
        BY <3>1
      <4> QED
        BY <2>3, <2>5, <2>8, <4>1
    <3>2. CASE ~(k <= a)
      <4>1. k \in a + 1..a + b /\ k - a \in 1..b
        BY <3>2
      <4>2. (k - 1) \div 2 = first + ((k - a) - 1) \div 2
        BY <1>1, <2>1, <2>2, <3>2
      <4>3. t[k - a] = Hex(first + ((k - a) - 1) \div 2)
        BY <2>4, <4>1
      <4> QED
        BY <2>5, <2>8, <4>1, <4>2, <4>3
    <3> QED
      BY <3>1, <3>2
  <2>10. s \o t = all
    <3>1. a + b \in Nat
      OBVIOUS
    <3> QED
      BY <2>7, <2>8, <2>9, <3>1, SameSequence
  <2>11. a + b = 2 * (first + n)
    BY <2>1, <2>2
  <2> QED
    BY <2>1, <2>2, <2>3, <2>4, <2>5, <2>10, <2>11
<1>3. [k \in 1..first |-> Ascii(k - 1)] \o [k \in 1..n |-> Ascii(first + k - 1)]
        = [k \in 1..first + n |-> Ascii(k - 1)]
  <2>3. PICK s : s = [k \in 1..first |-> Ascii(k - 1)]
    OBVIOUS
  <2>4. PICK t : t = [k \in 1..n |-> Ascii(first + k - 1)]
    OBVIOUS
  <2>5. PICK all : all = [k \in 1..first + n |-> Ascii(k - 1)]
    OBVIOUS
  <2>6. PICK S : \A i \in Int : Ascii(i) \in S
    <3>1. \A i \in Int : Ascii(i) \in {Ascii(j) : j \in Int}
      OBVIOUS
    <3> QED
      BY <3>1
  <2>7. /\ s \in Seq(S) /\ Len(s) = first /\ t \in Seq(S) /\ Len(t) = n
        /\ all \in Seq(S) /\ Len(all) = first + n
    BY <2>3, <2>4, <2>5, <2>6
  <2>8. /\ s \o t \in Seq(S) /\ Len(s \o t) = first + n
        /\ \A k \in 1..first : (s \o t)[k] = s[k]
        /\ \A k \in first + 1..first + n : (s \o t)[k] = t[k - first]
    <3>1. s \in Seq(S) /\ t \in Seq(S)
      BY <2>7
    <3>2. s \o t \in Seq(S) /\ Len(s \o t) = Len(s) + Len(t)
      BY ONLY <3>1
    <3>3. \A k \in 1..Len(s) : (s \o t)[k] = s[k]
      BY ONLY <3>1
    <3>4. \A k \in Len(s) + 1..Len(s) + Len(t) : (s \o t)[k] = t[k - Len(s)]
      BY ONLY <3>1
    <3> QED
      BY <2>7, <3>2, <3>3, <3>4, Zenon
  <2>9. ASSUME NEW k \in 1..first + n PROVE (s \o t)[k] = all[k]
    <3>1. CASE k <= first
      <4>1. k \in 1..first
        BY <3>1
      <4> QED
        BY <2>3, <2>5, <2>8, <4>1
    <3>2. CASE ~(k <= first)
      <4>1. k \in first + 1..first + n /\ k - first \in 1..n /\ first + (k - first) - 1 = k - 1
        BY <3>2
      <4>3. t[k - first] = Ascii(first + (k - first) - 1)
        BY <2>4, <4>1
      <4> QED
        BY <2>5, <2>8, <4>1, <4>3
    <3> QED
      BY <3>1, <3>2
  <2>10. s \o t = all
    <3>1. first + n \in Nat
      OBVIOUS
    <3> QED
      BY <2>7, <2>8, <2>9, <3>1, SameSequence
  <2> QED
    BY <2>3, <2>4, <2>5, <2>10
<1> QED
  BY <1>2, <1>3

\* Text after text, the bytes are shown once, in order.
LEMMA ShownMore ==
  ASSUME NEW all \in Seq(RowChars), NEW row \in Seq(RowChars),
         NEW first \in Nat, NEW n \in Nat,
         ShowsBytes(all, first), RowShows(row, first, n)
  PROVE  ShowsBytes(all \o row, first + n)
<1>1. Column(all \o row, "hex") = Column(all, "hex") \o Column(row, "hex")
  BY ColumnConcat
<1>2. Column(all \o row, "ascii") = Column(all, "ascii") \o Column(row, "ascii")
  BY ColumnConcat
<1>3. /\ [k \in 1..2 * first |-> Hex((k - 1) \div 2)]
           \o [k \in 1..2 * n |-> Hex(first + (k - 1) \div 2)]
           = [k \in 1..2 * (first + n) |-> Hex((k - 1) \div 2)]
      /\ [k \in 1..first |-> Ascii(k - 1)] \o [k \in 1..n |-> Ascii(first + k - 1)]
           = [k \in 1..first + n |-> Ascii(k - 1)]
  BY MoreShown
<1> QED
  BY <1>1, <1>2, <1>3 DEF ShowsBytes, RowShows

-----------------------------------------------------------------------------
(* Lines: the invariant                                                    *)

\* The buffer begins as the line of the message does, up to where the message began.
Header ==
  /\ msg.msg_b \in Nat /\ msg.msg_b < Len(Head(lines)) /\ lines # <<>>
  /\ \A i \in 0..msg.msg_b - 1 :
       i \in DOMAIN msg.buf /\ msg.buf[i] = Head(lines)[i + 1]

\* The lines of a dump show the bytes that have been.
DumpShown ==
  /\ Rows \in Seq(Seq(RowChars))
  /\ \A k \in 2..Len(lines) :
       SubSeq(lines[k], 1, msg.msg_b) = SubSeq(Head(lines), 1, msg.msg_b)
  /\ Column(FlattenSeq(Rows), "hex") = [k \in 1..2 * Shown |-> Hex((k - 1) \div 2)]
  /\ Column(FlattenSeq(Rows), "ascii") = [k \in 1..Shown |-> Ascii(k - 1)]

\* The inductive invariant.
LinesInv ==
  /\ lines \in Seq(Seq(AllChars)) /\ CutOnce /\ TagFound
  /\ ~NoCall => Header
  /\ ~NoCall \/ Len(lines) > 1 => DumpShown

\* The text of a message and the marks of its tag.
LEMMA WrittenTag ==
  ASSUME MessageAssumption, NEW m, NEW t, Content(m, t), TagMarked(m, t), m.tag_b # -1,
         NEW line, line = LineOf(m)
  PROVE  {i \in DOMAIN line : line[i][1] \in TagParts} = m.tag_b + 1..m.tag_e
<1>1. PICK a, g, r : /\ Of(a, Kinds \ TagParts) /\ Of(g, TagParts) /\ Of(r, Kinds \ TagParts)
                     /\ t = (a \o g) \o r
                     /\ m.tag_b = Min({Len(a), BufEnd})
                     /\ m.tag_e = Min({Len(a \o g), BufEnd})
  BY DEF TagMarked
<1>2. PICK n \in Nat : n = Len(a)
  BY <1>1, TextLen DEF Of
<1>3. PICK l \in Nat : l = Len(g)
  BY <1>1, TextLen DEF Of
<1>4. /\ t \in Texts /\ n + l <= Len(t) /\ Len(a \o g) = n + l
      /\ \A k \in 1..Len(t) : t[k][1] \in TagParts <=> n < k /\ k <= n + l
  <2>1. /\ Len(a) \in Nat /\ Len(g) \in Nat /\ Len(a \o g) = Len(a) + Len(g)
        /\ t \in Texts /\ Len(a \o g) <= Len(t) /\ TagFrom(t, Len(a), Len(a \o g))
    BY <1>1, TagPlaces, Zenon
  <2>2. Len(a \o g) = n + l
    BY <1>2, <1>3, <2>1
  <2> QED
    BY <1>2, <2>1, <2>2 DEF TagFrom
<1>5. PICK len \in Nat : len = Len(t)
  BY <1>4, TextLen
<1>6. PICK p : p = m.p
  OBVIOUS
<1>7. /\ p \in Nat /\ p = Min({Len(t), BufEnd}) /\ p <= Len(t)
      /\ LineOf(m) = SubSeq(t, 1, Min({Len(t), BufEnd})) \o <<Eol>>
      /\ LineOf(m) \in Seq(AllChars) /\ Len(LineOf(m)) = p + 1
      /\ \A i \in 1..p : LineOf(m)[i] = t[i]
      /\ LineOf(m)[p + 1] = Eol
      /\ \A i \in 0..p - 1 : i \in DOMAIN Taken(m) /\ Taken(m)[i] = t[i + 1]
  <2>1. /\ p \in Nat /\ p = Min({Len(t), BufEnd}) /\ p <= Len(t)
        /\ LineOf(m) = SubSeq(t, 1, Min({Len(t), BufEnd})) \o <<Eol>>
        /\ IsLine(LineOf(m), t, p) /\ TakenHas(m, t, p)
    BY <1>6, LineOfContent, Zenon
  <2> QED
    BY <2>1 DEF IsLine, TakenHas
<1>8. PICK end \in Nat : end = BufEnd
  BY EndInside
<1>9. /\ p = (IF len =< end THEN len ELSE end)
      /\ m.tag_b = (IF n =< end THEN n ELSE end)
      /\ m.tag_e = (IF n + l =< end THEN n + l ELSE end)
  <2>1. p = Min({len, end}) /\ m.tag_b = Min({n, end})
    BY <1>1, <1>2, <1>5, <1>7, <1>8
  <2>2. m.tag_e = Min({n + l, end})
    BY <1>1, <1>4, <1>8
  <2> QED
    BY <2>1, <2>2, MinOfTwo
<1>10. PICK b : b = m.tag_b
  OBVIOUS
<1>11. PICK e : e = m.tag_e
  OBVIOUS
<1>12. /\ b + 1..e \subseteq 1..p + 1
       /\ \A k \in 1..p + 1 : k \in b + 1..e <=> k <= p /\ n < k /\ k <= n + l
  <2>1. n + l <= len /\ p \in Nat
    BY <1>4, <1>5, <1>7
  <2> QED
    BY <1>9, <1>10, <1>11, <2>1, TagCut
<1>13. DOMAIN line = 1..p + 1
  <2>1. line \in Seq(AllChars) /\ Len(line) = p + 1
    BY <1>7
  <2> QED
    BY <2>1
<1>14. ASSUME NEW k \in 1..p + 1
       PROVE  line[k][1] \in TagParts <=> k <= p /\ n < k /\ k <= n + l
  <2>1. CASE k <= p
    <3>1. k \in 1..p /\ k \in 1..Len(t)
      BY <1>5, <1>7, <2>1
    <3>2. line[k] = t[k]
      BY <1>7, <3>1
    <3> QED
      BY <1>4, <2>1, <3>1, <3>2
  <2>2. CASE ~(k <= p)
    <3>1. k = p + 1
      BY <1>7, <2>2
    <3>2. line[k] = <<"eol", 0>>
      BY <1>7, <3>1 DEF Eol
    <3> QED
      BY <2>2, <3>2 DEF TagParts
  <2> QED
    BY <2>1, <2>2
<1>15. {i \in DOMAIN line : line[i][1] \in TagParts} = b + 1..e
  BY <1>12, <1>13, <1>14, Zenon
<1> QED
  BY <1>10, <1>11, <1>15

\* A message that is written is one line and no row yet.
LEMMA NoRows ==
  ASSUME Len(lines) = 1
  PROVE  Rows = <<>> /\ FlattenSeq(Rows) = <<>>
<1>1. Rows = <<>>
  BY DEF Rows
<1> QED
  BY <1>1, FlattenNone

LEMMA WriteLines ==
  ASSUME MessageAssumption, MessageInv, NEW c \in Calls, WriteMessage(c)
  PROVE  LinesInv'
<1>1. PICK m : /\ msg' = [m EXCEPT !.buf = Taken(m)] /\ lines' = <<LineOf(m)>>
               /\ mem' = IF Dumped(c, m) THEN 0 ELSE -1
               /\ Content(m, text') /\ TagMarked(m, text')
               /\ "msg" \in Mask(c) => m.msg_b \in 0..m.p
  BY Written
<1>2. PICK t : t = text'
  OBVIOUS
<1>3. PICK line : line = LineOf(m)
  OBVIOUS
<1>4. PICK p : p = m.p
  OBVIOUS
<1>5. Content(m, t) /\ TagMarked(m, t) /\ lines' = <<line>>
  BY <1>1, <1>2, <1>3
<1>6. /\ p \in Nat /\ p = Min({Len(t), BufEnd}) /\ p <= Len(t)
      /\ LineOf(m) = SubSeq(t, 1, Min({Len(t), BufEnd})) \o <<Eol>>
      /\ LineOf(m) \in Seq(AllChars) /\ Len(LineOf(m)) = p + 1
      /\ \A i \in 1..p : LineOf(m)[i] = t[i]
      /\ LineOf(m)[p + 1] = Eol
      /\ \A i \in 0..p - 1 : i \in DOMAIN Taken(m) /\ Taken(m)[i] = t[i + 1]
  <2>1. /\ p \in Nat /\ p = Min({Len(t), BufEnd}) /\ p <= Len(t)
        /\ LineOf(m) = SubSeq(t, 1, Min({Len(t), BufEnd})) \o <<Eol>>
        /\ IsLine(LineOf(m), t, p) /\ TakenHas(m, t, p)
    BY <1>4, <1>5, LineOfContent, Zenon
  <2> QED
    BY <2>1 DEF IsLine, TakenHas
<1>7. /\ lines' \in Seq(Seq(AllChars)) /\ Head(lines') = line /\ Len(lines') = 1
      /\ lines' # <<>>
  <2>1. PICK S : S = Seq(AllChars)
    OBVIOUS
  <2>2. line \in S
    BY <1>3, <1>6, <2>1
  <2>3. <<line>> \in Seq(S) /\ Head(<<line>>) = line /\ Len(<<line>>) = 1 /\ <<line>> # <<>>
    BY ONLY <2>2
  <2> QED
    BY <1>5, <2>1, <2>3
<1>8. CutOnce'
  <2>1. line = SubSeq(t, 1, Min({Len(t), BufEnd})) \o <<Eol>>
    BY <1>3, <1>6
  <2>2. BufEnd' = BufEnd
    BY DEF BufEnd
  <2> QED
    BY <1>2, <1>7, <2>1, <2>2 DEF CutOnce
<1>9. /\ msg'.tag_b = m.tag_b /\ msg'.tag_e = m.tag_e /\ msg'.msg_b = m.msg_b
      /\ msg'.buf = Taken(m)
  BY <1>1 DEF Content, Inside
<1>10. TagFound'
  <2> SUFFICES ASSUME msg'.tag_b # -1
               PROVE  {i \in DOMAIN Head(lines') :
                         Head(lines')[i][1] \in {"prefix", "dot", "tag"}}
                        = msg'.tag_b + 1..msg'.tag_e
    BY DEF TagFound
  <2>1. {i \in DOMAIN line : line[i][1] \in TagParts} = m.tag_b + 1..m.tag_e
    BY <1>3, <1>5, <1>9, WrittenTag
  <2> QED
    BY <1>7, <1>9, <2>1 DEF TagParts
<1>11. ASSUME mem' # -1
       PROVE  Header' /\ DumpShown'
  <2>1. Dumped(c, m) /\ mem' = 0
    BY <1>1, <1>11
  <2>2. m.msg_b \in 0..p
    BY <1>1, <1>4, <2>1 DEF Dumped
  <2>3. ASSUME NEW i \in 0..m.msg_b - 1
        PROVE  i \in DOMAIN Taken(m) /\ Taken(m)[i] = line[i + 1]
    <3>1. i \in 0..p - 1 /\ i + 1 \in 1..p
      BY <1>6, <2>2
    <3> QED
      BY <1>3, <1>6, <3>1
  <2>4. Header'
    <3>1. m.msg_b \in Nat /\ m.msg_b < p + 1
      BY <1>6, <2>2
    <3>2. Len(line) = p + 1
      BY <1>3, <1>6
    <3> QED
      BY <1>7, <1>9, <2>3, <3>1, <3>2 DEF Header
  <2>5. Rows' = <<>> /\ FlattenSeq(Rows)' = <<>>
    <3>1. Rows' = <<>>
      BY <1>7 DEF Rows
    <3> QED
      BY <3>1, FlattenNone
  <2>6. Shown' = 0
    BY <1>11, <2>1 DEF Shown, NoCall
  <2>7. [k \in 1..2 * 0 |-> Hex((k - 1) \div 2)] = <<>> /\ [k \in 1..0 |-> Ascii(k - 1)] = <<>>
    OBVIOUS
  <2>8. <<>> \in Seq(Seq(RowChars)) /\ 2..1 = {}
    OBVIOUS
  <2>9. DumpShown'
    <3>1. Rows' \in Seq(Seq(RowChars))
      BY <2>5, <2>8
    <3>2. \A k \in 2..Len(lines') :
            SubSeq(lines'[k], 1, msg'.msg_b) = SubSeq(Head(lines'), 1, msg'.msg_b)
      BY <1>7, <2>8
    <3>3. Column(FlattenSeq(Rows)', "hex") = [k \in 1..2 * Shown' |-> Hex((k - 1) \div 2)]
      BY <2>5, <2>6, <2>7, ColumnNone
    <3>4. Column(FlattenSeq(Rows)', "ascii") = [k \in 1..Shown' |-> Ascii(k - 1)]
      BY <2>5, <2>6, <2>7, ColumnNone
    <3> QED
      BY <3>1, <3>2, <3>3, <3>4 DEF DumpShown
  <2> QED
    BY <2>4, <2>9
<1> QED
  BY <1>7, <1>8, <1>10, <1>11 DEF LinesInv, NoCall

\* What Poke leaves.
LEMMA PokeOld ==
  ASSUME NEW buf, NEW from \in Nat, NEW s, NEW l \in Nat, l = Len(s),
         NEW i \in Nat, i < from \/ from + l <= i, i \in DOMAIN buf
  PROVE  i \in DOMAIN Poke(buf, from, s) /\ Poke(buf, from, s)[i] = buf[i]
<1>1. i \notin from..from + Len(s) - 1
  OBVIOUS
<1> QED
  BY <1>1 DEF Poke

\* A row of a dump in the buffer.
DumpAt(i, b, w, n, first, buf) ==
  /\ i < b /\ i \in DOMAIN buf =>
       i \in DOMAIN Dump(first, n, buf) /\ Dump(first, n, buf)[i] = buf[i]
  /\ b <= i =>
       /\ i \in DOMAIN Dump(first, n, buf)
       /\ Dump(first, n, buf)[i] = RowChar(w, n, first, i - b + 1)

\* The buffer after the row of a dump: the header, the row and the end of line.
LEMMA DumpHolds ==
  ASSUME NEW b \in Nat, b = msg.msg_b, NEW w \in Nat, AsciiB(msg) = b + 2 * w + 2,
         NEW n \in Nat, n <= w, NEW first \in Nat, NEW buf,
         NEW i \in Nat, i < b + 2 * w + 2 + n
  PROVE  DumpAt(i, b, w, n, first, buf)
<1> DEFINE hex == [k \in 1..AsciiB(msg) - b |->
                     IF k <= 2 * n THEN Hex(first + (k - 1) \div 2) ELSE Blank]
           ascii == [k \in 1..n |-> Ascii(first + k - 1)]
<1>1. Dump(first, n, buf) = Poke(Poke(buf, b, hex), AsciiB(msg), ascii)
  BY DEF Dump
<1>2. PICK a \in Nat : a = b + 2 * w + 2
  OBVIOUS
<1>3. PICK c \in Nat : c = 2 * w + 2
  OBVIOUS
<1>4. AsciiB(msg) - b = c /\ AsciiB(msg) = a /\ a = b + c
  BY <1>2, <1>3
<1>5. c = Len(hex)
  BY <1>4
<1>6. n = Len(ascii)
  OBVIOUS
<1>7. \A k \in 1..c : hex[k] = IF k <= 2 * n THEN Hex(first + (k - 1) \div 2) ELSE Blank
  BY <1>4
<1>8. \A k \in 1..n : ascii[k] = Ascii(first + k - 1)
  OBVIOUS
<1> HIDE DEF hex, ascii
<1>9. PICK one : one = Poke(buf, b, hex)
  OBVIOUS
<1>10. PICK two : two = Dump(first, n, buf)
  OBVIOUS
<1>11. one = Poke(buf, b, hex) /\ two = Poke(one, a, ascii)
  BY <1>1, <1>4, <1>9, <1>10
<1>13. CASE i < b
  <2>1. ~(b <= i) /\ i < a
    BY <1>2, <1>13
  <2>2. ASSUME i \in DOMAIN buf PROVE i \in DOMAIN two /\ two[i] = buf[i]
    <3>1. i \in DOMAIN one /\ one[i] = buf[i]
      BY <1>5, <1>11, <1>13, <2>2, PokeOld
    <3>2. i \in DOMAIN two /\ two[i] = one[i]
      BY <1>6, <1>11, <2>1, <3>1, PokeOld
    <3> QED
      BY <3>1, <3>2
  <2> QED
    BY <1>10, <2>1, <2>2 DEF DumpAt
<1>14. CASE b <= i /\ i < b + c
  <2>1. i < a /\ i - b + 1 \in 1..c /\ ~(i < b)
    BY <1>4, <1>14
  <2>2. i \in DOMAIN two /\ two[i] = hex[i - b + 1]
    <3>1. i \in DOMAIN Poke(buf, b, hex) /\ Poke(buf, b, hex)[i] = hex[i - b + 1]
      <4>1. i \in b..b + Len(hex) - 1
        BY <1>5, <1>14
      <4> QED
        BY ONLY <4>1 DEF Poke
    <3>2. i \in DOMAIN two /\ two[i] = one[i]
      BY <1>6, <1>11, <2>1, <3>1, PokeOld
    <3> QED
      BY <1>11, <3>1, <3>2
  <2>3. PICK k \in 1..c : k = i - b + 1
    BY <2>1
  <2>4. hex[k] = RowChar(w, n, first, k)
    <3>1. k <= 2 * w + 2
      BY <1>3, <2>3
    <3> QED
      BY <1>7, <3>1 DEF RowChar
  <2> QED
    BY <1>10, <2>1, <2>2, <2>3, <2>4 DEF DumpAt
<1>15. CASE b + c <= i
  <2>1. a <= i /\ i < a + n /\ i - a + 1 \in 1..n /\ ~(i < b)
    BY <1>2, <1>4, <1>15
  <2>2. i \in DOMAIN two /\ two[i] = ascii[i - a + 1]
    <3>1. /\ i \in DOMAIN Poke(one, a, ascii)
          /\ Poke(one, a, ascii)[i] = ascii[i - a + 1]
      <4>1. i \in a..a + Len(ascii) - 1
        BY <1>6, <2>1
      <4> QED
        BY ONLY <4>1 DEF Poke
    <3> QED
      BY <1>11, <3>1
  <2>3. ascii[i - a + 1] = Ascii(first + (i - a + 1) - 1)
    BY <1>8, <2>1
  <2>4. PICK k \in Nat : k = i - b + 1
    BY <2>1
  <2>5. /\ ~(k <= 2 * n) /\ ~(k <= 2 * w + 2) /\ k <= 2 * w + 2 + n
        /\ first + k - (2 * w + 2) - 1 = first + (i - a + 1) - 1
    BY <1>2, <1>3, <1>4, <2>1, <2>4
  <2>6. RowChar(w, n, first, k) = Ascii(first + k - (2 * w + 2) - 1)
    BY <2>5 DEF RowChar
  <2> QED
    BY <1>10, <2>1, <2>2, <2>3, <2>4, <2>5, <2>6 DEF DumpAt
<1>16. i < b \/ (b <= i /\ i < b + c) \/ b + c <= i
  OBVIOUS
<1> QED
  BY <1>13, <1>14, <1>15, <1>16 DEF DumpAt

\* The first b characters of a line, in a buffer; a row of l characters and its end after
\* them, in the buffer and as a line.
HeadHeld(buf, head, b) == \A i \in 0..b - 1 : i \in DOMAIN buf /\ buf[i] = head[i + 1]

RowHeld(buf, row, b, l) ==
  /\ Len(row) = l + 1 /\ row[l + 1] = Eol
  /\ \A i \in b..b + l - 1 : i \in DOMAIN buf /\ buf[i] = row[i - b + 1]

IsRowLine(line, head, b, row) ==
  /\ line \in Seq(AllChars) /\ SubSeq(line, 1, b) = SubSeq(head, 1, b)
  /\ SubSeq(line, b + 1, Len(line)) = row

\* The header is held under the row, and the row after it.
LEMMA DumpHead ==
  ASSUME NEW b \in Nat, b = msg.msg_b, NEW w \in Nat, AsciiB(msg) = b + 2 * w + 2,
         NEW n \in Nat, n <= w, NEW first \in Nat, NEW buf, NEW head, HeadHeld(buf, head, b)
  PROVE  HeadHeld(Dump(first, n, buf), head, b)
<1> SUFFICES ASSUME NEW i \in 0..b - 1
             PROVE  /\ i \in DOMAIN Dump(first, n, buf)
                    /\ Dump(first, n, buf)[i] = head[i + 1]
  BY DEF HeadHeld
<1>1. i \in Nat /\ i < b /\ i < b + 2 * w + 2 + n
  OBVIOUS
<1>2. i \in DOMAIN buf /\ buf[i] = head[i + 1]
  BY DEF HeadHeld
<1>3. i \in DOMAIN Dump(first, n, buf) /\ Dump(first, n, buf)[i] = buf[i]
  <2>1. DumpAt(i, b, w, n, first, buf)
    BY <1>1, DumpHolds
  <2> QED
    BY <1>1, <1>2, <2>1 DEF DumpAt
<1> QED
  BY <1>2, <1>3

LEMMA DumpRow ==
  ASSUME NEW b \in Nat, b = msg.msg_b, NEW w \in Nat, AsciiB(msg) = b + 2 * w + 2,
         NEW n \in Nat, n <= w, NEW first \in Nat, NEW buf, NEW l \in Nat, l = 2 * w + 2 + n,
         NEW row, row = RowOf(w, n, first)
  PROVE  RowHeld(Dump(first, n, buf), row, b, l)
<1>1. Len(row) = l + 1
  BY RowColumns
<1>2. \A k \in 1..l + 1 : row[k] = RowChar(w, n, first, k)
  BY DEF RowOf
<1>3. RowChar(w, n, first, l + 1) = Eol
  BY DEF RowChar
<1>4. row[l + 1] = Eol
  BY <1>2, <1>3
<1>5. ASSUME NEW i \in b..b + l - 1
      PROVE  i \in DOMAIN Dump(first, n, buf) /\ Dump(first, n, buf)[i] = row[i - b + 1]
  <2>1. i \in Nat /\ b <= i /\ i < b + 2 * w + 2 + n /\ i - b + 1 \in 1..l + 1
    OBVIOUS
  <2>2. DumpAt(i, b, w, n, first, buf)
    BY <2>1, DumpHolds
  <2> QED
    BY <1>2, <2>1, <2>2 DEF DumpAt
<1> QED
  BY <1>1, <1>4, <1>5 DEF RowHeld

\* The line of a row: the header of the message, and the row.
LEMMA RowLine ==
  ASSUME NEW b \in Nat, NEW l \in Nat, NEW head \in Seq(AllChars), b < Len(head),
         NEW row \in Seq(RowChars), NEW m, m.p = b + l,
         HeadHeld(m.buf, head, b), RowHeld(m.buf, row, b, l), NEW line, line = LineOf(m)
  PROVE  IsRowLine(line, head, b, row) /\ HeadHeld(Taken(m), head, b)
<1>0. /\ Len(row) = l + 1 /\ row[l + 1] = Eol
      /\ \A i \in 0..b - 1 : i \in DOMAIN m.buf /\ m.buf[i] = head[i + 1]
      /\ \A i \in b..b + l - 1 : i \in DOMAIN m.buf /\ m.buf[i] = row[i - b + 1]
  BY DEF HeadHeld, RowHeld
<1>1. PICK p \in Nat : p = b + l
  OBVIOUS
<1>2. PICK s : s = [i \in 1..p |-> IF i <= b THEN head[i] ELSE row[i - b]]
  OBVIOUS
<1>3. PICK h \in Nat : h = Len(head)
  OBVIOUS
<1>4. (\A i \in 1..b : head[i] \in AllChars) /\ \A i \in 1..l + 1 : row[i] \in AllChars
  <2>1. \A i \in 1..h : head[i] \in AllChars
    BY <1>3
  <2>2. \A i \in 1..l + 1 : row[i] \in RowChars
    BY <1>0
  <2>3. RowChars \subseteq AllChars
    BY DEF RowChars, AllChars, AllKinds
  <2> QED
    BY <1>3, <2>1, <2>2, <2>3
<1>5. s \in Seq(AllChars) /\ Len(s) = p
      /\ (\A i \in 1..b : s[i] = head[i]) /\ \A i \in 1..l : s[b + i] = row[i]
  <2>1. ASSUME NEW i \in 1..p
        PROVE  (IF i <= b THEN head[i] ELSE row[i - b]) \in AllChars
    <3>1. CASE i <= b
      BY <1>4, <3>1
    <3>2. CASE ~(i <= b)
      <4>1. i - b \in 1..l + 1
        BY <1>1, <3>2
      <4> QED
        BY <1>4, <3>2, <4>1
    <3> QED
      BY <3>1, <3>2
  <2>2. s \in Seq(AllChars) /\ Len(s) = p
    <3>1. p \in Nat
      OBVIOUS
    <3> QED
      BY ONLY <1>2, <2>1, <3>1
  <2>3. \A i \in 1..b : s[i] = head[i]
    BY <1>1, <1>2
  <2>4. \A i \in 1..l : s[b + i] = row[i]
    <3> TAKE i \in 1..l
    <3>1. b + i \in 1..p /\ ~(b + i <= b) /\ (b + i) - b = i
      BY <1>1
    <3>2. s[b + i] = row[(b + i) - b]
      BY <1>2, <3>1
    <3> QED
      BY <3>1, <3>2
  <2> QED
    BY <2>2, <2>3, <2>4
<1>6. ASSUME NEW i \in 0..p - 1
      PROVE  i \in DOMAIN m.buf /\ m.buf[i] = s[i + 1]
  <2>1. CASE i < b
    <3>1. i \in 0..b - 1 /\ i + 1 \in 1..b
      BY <2>1
    <3> QED
      BY <1>0, <1>5, <3>1
  <2>2. CASE ~(i < b)
    <3>1. i \in b..b + l - 1 /\ i - b + 1 \in 1..l /\ b + (i - b + 1) = i + 1
      BY <1>1, <2>2
    <3>2. s[b + (i - b + 1)] = row[i - b + 1]
      BY <1>5, <3>1
    <3> QED
      BY <1>0, <3>1, <3>2
  <2> QED
    BY <2>1, <2>2
<1>7. IsLine(line, s, p) /\ TakenHas(m, s, p)
  <2>1. m.p = p /\ s \in Seq(AllChars) /\ Len(s) = p
    BY <1>1, <1>5
  <2>2. LineOf(m) = s \o <<Eol>> /\ IsLine(LineOf(m), s, p) /\ TakenHas(m, s, p)
    BY <1>6, <2>1, LineOfText
  <2> QED
    BY <2>2
<1>8. /\ line \in Seq(AllChars) /\ Len(line) = p + 1
      /\ (\A i \in 1..p : line[i] = s[i]) /\ line[p + 1] = Eol
  BY <1>7 DEF IsLine
<1>9. SubSeq(line, 1, b) = SubSeq(head, 1, b)
  <2>1. PICK x : x = SubSeq(line, 1, b)
    OBVIOUS
  <2>2. PICK y : y = SubSeq(head, 1, b)
    OBVIOUS
  <2>3. x \in Seq(AllChars) /\ Len(x) = b /\ \A i \in 1..b : x[i] = line[i]
    BY <1>1, <1>8, <2>1, SubSeqProperties
  <2>4. y \in Seq(AllChars) /\ Len(y) = b /\ \A i \in 1..b : y[i] = head[i]
    BY <1>3, <2>2, SubSeqProperties
  <2>5. ASSUME NEW i \in 1..b PROVE line[i] = head[i]
    <3>1. i \in 1..p
      BY <1>1
    <3> QED
      BY <1>5, <1>8, <3>1
  <2>6. \A i \in 1..b : x[i] = y[i]
    BY <2>3, <2>4, <2>5
  <2> QED
    BY <2>1, <2>2, <2>3, <2>4, <2>6, SameSequence
<1>10. SubSeq(line, b + 1, Len(line)) = row
  <2>1. PICK x : x = SubSeq(line, b + 1, p + 1)
    OBVIOUS
  <2>2. PICK z \in Nat : z = l + 1
    OBVIOUS
  <2>3. x \in Seq(AllChars) /\ Len(x) = z /\ \A i \in 1..z : x[i] = line[b + i]
    BY <1>1, <1>8, <2>1, <2>2, SubSeqProperties
  <2>4. ASSUME NEW i \in 1..z
        PROVE  x[i] = row[i]
    <3>1. CASE i <= l
      <4>1. i \in 1..l /\ b + i \in 1..p
        BY <1>1, <3>1
      <4> QED
        BY <1>5, <1>8, <2>3, <4>1
    <3>2. CASE ~(i <= l)
      <4>1. i = l + 1 /\ b + i = p + 1
        BY <1>1, <2>2, <3>2
      <4>2. line[b + i] = Eol
        BY <1>8, <4>1
      <4> QED
        BY <1>0, <2>3, <4>1, <4>2
    <3> QED
      BY <3>1, <3>2
  <2>5. row \in Seq(AllChars) /\ Len(row) = z
    <3>1. RowChars \subseteq AllChars
      BY DEF RowChars, AllChars, AllKinds
    <3>2. row \in Seq(AllChars)
      BY <3>1
    <3> QED
      BY <1>0, <2>2, <3>2
  <2>6. x = row
    BY <2>3, <2>4, <2>5, SameSequence
  <2> QED
    BY <1>8, <2>1, <2>6
<1>11. \A i \in 0..b - 1 : i \in DOMAIN Taken(m) /\ Taken(m)[i] = head[i + 1]
  <2> TAKE i \in 0..b - 1
  <2>1. i \in 0..p - 1 /\ i + 1 \in 1..b
    BY <1>1
  <2> QED
    BY <1>5, <1>7, <2>1 DEF TakenHas
<1> QED
  BY <1>8, <1>9, <1>10, <1>11 DEF IsRowLine, HeadHeld

\* A row more is the bytes of the row more.
LEMMA RowShown ==
  ASSUME NEW rows \in Seq(Seq(RowChars)), NEW more \in Seq(Seq(RowChars)),
         NEW n \in Nat, NEW first \in Nat, NEW row \in Seq(RowChars), RowShows(row, first, n),
         Len(more) = Len(rows) + 1, \A k \in 1..Len(rows) : more[k] = rows[k],
         more[Len(more)] = row, ShowsBytes(FlattenSeq(rows), first)
  PROVE  ShowsBytes(FlattenSeq(more), first + n)
<1>1. FlattenSeq(more) = FlattenSeq(rows) \o row
  <2>1. FlattenSeq(more) = FlattenSeq(rows) \o more[Len(more)]
    BY FlattenOneMore
  <2> QED
    BY <2>1
<1>2. PICK all \in Seq(RowChars) : all = FlattenSeq(rows)
  BY FlattenType
<1>3. ShowsBytes(all \o row, first + n)
  BY <1>2, ShownMore
<1> QED
  BY <1>1, <1>2, <1>3

\* A row more of a dump keeps the invariant, and so does every step.
LEMMA DumpLines ==
  ASSUME MessageAssumption, MessageInv, LinesInv, output_mem
  PROVE  LinesInv'
<1>1. PICK w \in Nat : w = format.mem_width
  BY DEF MessageInv
<1>2. PICK b \in Nat : b = msg.msg_b
  BY DEF MessageInv, DumpInv, output_mem
<1>3. PICK first \in Nat : first = mem
  BY DEF MessageInv, DumpInv, output_mem
<1>4. PICK n : n = Min({format.mem_width, call.mem - mem})
  OBVIOUS
<1>5. n \in Nat /\ n <= w
  <2>1. call.mem - mem \in Nat
    BY DEF MessageInv, DumpInv, output_mem
  <2> QED
    BY <1>1, <1>4, <2>1, MinOfTwo
<1>6. PICK m : m = [msg EXCEPT !.buf = Dump(mem, n, msg.buf), !.p = AsciiB(msg) + n]
  OBVIOUS
<1>7. /\ ~NoCall /\ msg' = [m EXCEPT !.buf = Taken(m)] /\ lines' = Append(lines, LineOf(m))
      /\ mem' = IF mem + n = call.mem THEN -1 ELSE mem + n
      /\ UNCHANGED <<format, output, outputLvl, call, text, ncalls>>
  BY <1>4, <1>6 DEF output_mem
<1>8. /\ m.buf = Dump(first, n, msg.buf) /\ m.p = AsciiB(msg) + n
      /\ msg'.buf = Taken(m) /\ msg'.msg_b = b
      /\ msg'.tag_b = msg.tag_b /\ msg'.tag_e = msg.tag_e
  BY <1>2, <1>3, <1>6, <1>7 DEF MessageInv, Inside
<1>9. Header /\ DumpShown
  BY <1>7 DEF LinesInv
<1>10. PICK head : head = Head(lines)
  OBVIOUS
<1>11. PICK len \in Nat : len = Len(lines)
  BY DEF LinesInv
<1>12. /\ head \in Seq(AllChars) /\ b < Len(head) /\ len >= 1 /\ lines \in Seq(Seq(AllChars))
       /\ \A i \in 0..b - 1 : i \in DOMAIN msg.buf /\ msg.buf[i] = head[i + 1]
       /\ head = lines[1]
  <2>1. lines \in Seq(Seq(AllChars)) /\ lines # <<>>
    BY <1>9 DEF LinesInv, Header
  <2>2. len >= 1 /\ head \in Seq(AllChars) /\ head = lines[1]
    BY <1>10, <1>11, <2>1
  <2> QED
    BY <1>2, <1>9, <1>10, <2>1, <2>2 DEF Header
<1>13. PICK row : row = RowOf(w, n, first)
  OBVIOUS
<1>14. PICK l \in Nat : l = 2 * w + 2 + n
  BY <1>5
<1>15. row \in Seq(RowChars) /\ RowShows(row, first, n)
  <2>1. /\ row \in Seq(RowChars) /\ Len(row) = 2 * w + 2 + n + 1
        /\ RowShows(row, first, n)
    BY <1>5, <1>13, RowColumns
  <2> QED
    BY <2>1
<1>16. AsciiB(msg) = b + 2 * w + 2 /\ AsciiB(msg) + n = b + l
  <2>1. AsciiB(msg) = b + 2 * w + 2
    BY <1>1, <1>2 DEF AsciiB
  <2> QED
    BY <1>5, <1>14, <2>1
<1>17. HeadHeld(m.buf, head, b)
  <2>1. HeadHeld(msg.buf, head, b)
    BY <1>12 DEF HeadHeld
  <2>2. HeadHeld(Dump(first, n, msg.buf), head, b)
    BY <1>2, <1>5, <1>16, <2>1, DumpHead
  <2> QED
    BY <1>8, <2>2
<1>18. RowHeld(m.buf, row, b, l)
  <2>1. RowHeld(Dump(first, n, msg.buf), row, b, l)
    BY <1>2, <1>5, <1>13, <1>14, <1>16, DumpRow
  <2> QED
    BY <1>8, <2>1
<1>19. PICK line : line = LineOf(m)
  OBVIOUS
<1>20. /\ line \in Seq(AllChars) /\ SubSeq(line, 1, b) = SubSeq(head, 1, b)
       /\ SubSeq(line, b + 1, Len(line)) = row
       /\ \A i \in 0..b - 1 : i \in DOMAIN Taken(m) /\ Taken(m)[i] = head[i + 1]
  <2>1. m.p = b + l
    BY <1>8, <1>16
  <2>2. IsRowLine(line, head, b, row) /\ HeadHeld(Taken(m), head, b)
    BY <1>12, <1>15, <1>17, <1>18, <1>19, <2>1, RowLine
  <2> QED
    BY <2>2 DEF IsRowLine, HeadHeld
<1>21. /\ lines' \in Seq(Seq(AllChars)) /\ Len(lines') = len + 1 /\ lines' # <<>>
       /\ Head(lines') = head /\ (\A k \in 1..len : lines'[k] = lines[k])
       /\ lines'[len + 1] = line
  <2>1. PICK S : S = Seq(AllChars)
    OBVIOUS
  <2>2. line \in S /\ lines \in Seq(S)
    BY <1>12, <1>20, <2>1
  <2>3. lines' = Append(lines, line)
    BY <1>7, <1>19
  <2>4. /\ lines' \in Seq(S) /\ Len(lines') = len + 1
        /\ (\A k \in 1..len : lines'[k] = lines[k]) /\ lines'[len + 1] = line
    BY <1>11, <2>2, <2>3
  <2>5. lines' # <<>> /\ Head(lines') = lines'[1]
    BY <1>12, <2>4
  <2>6. 1 \in 1..len
    BY <1>12
  <2>7. Head(lines') = head
    BY <1>12, <2>4, <2>5, <2>6
  <2>8. lines' \in Seq(Seq(AllChars))
    BY <2>1, <2>4
  <2> QED
    BY <2>4, <2>5, <2>7, <2>8
<1>22. CutOnce' /\ TagFound'
  <2>1. CutOnce /\ TagFound /\ lines # <<>> /\ Head(lines) = head /\ text' = text
    BY <1>7, <1>9, <1>10 DEF LinesInv, Header
  <2>2. CutOnce'
    <3>1. BufEnd' = BufEnd
      BY DEF BufEnd
    <3> QED
      BY <1>21, <2>1, <3>1 DEF CutOnce
  <2>3. TagFound'
    BY <1>8, <1>21, <2>1 DEF TagFound
  <2> QED
    BY <2>2, <2>3
<1>23. Header'
  <2>1. \A i \in 0..b - 1 : i \in DOMAIN msg'.buf /\ msg'.buf[i] = head[i + 1]
    BY <1>8, <1>20
  <2> QED
    BY <1>8, <1>12, <1>21, <2>1 DEF Header
<1>24. /\ Rows' \in Seq(Seq(RowChars)) /\ Len(Rows') = len
       /\ (\A k \in 1..len - 1 : Rows'[k] = Rows[k]) /\ Rows'[len] = row
       /\ Len(Rows) = len - 1 /\ Rows \in Seq(Seq(RowChars))
  <2>1. Rows = [k \in 1..len - 1 |-> SubSeq(lines[k + 1], b + 1, Len(lines[k + 1]))]
    BY <1>2, <1>11 DEF Rows
  <2>2. Rows \in Seq(Seq(RowChars))
    BY <1>9 DEF DumpShown
  <2>3. Rows' = [k \in 1..len |-> SubSeq(lines'[k + 1], b + 1, Len(lines'[k + 1]))]
    BY <1>8, <1>11, <1>21 DEF Rows
  <2>4. ASSUME NEW k \in 1..len - 1
        PROVE  Rows'[k] = Rows[k]
    <3>1. k + 1 \in 1..len /\ k \in 1..len
      OBVIOUS
    <3>2. lines'[k + 1] = lines[k + 1]
      BY <1>21, <3>1
    <3> QED
      BY <2>1, <2>3, <3>1, <3>2
  <2>5. Rows'[len] = row
    <3>1. len \in 1..len
      BY <1>12
    <3>2. Rows'[len] = SubSeq(lines'[len + 1], b + 1, Len(lines'[len + 1]))
      BY <2>3, <3>1
    <3> QED
      BY <1>20, <1>21, <3>2
  <2>6. Len(Rows) = len - 1
    BY <1>12, <2>1
  <2>7. \A k \in 1..len - 1 : Rows[k] \in Seq(RowChars)
    BY <2>2, <2>6
  <2>8. \A k \in 1..len : Rows'[k] \in Seq(RowChars)
    <3> TAKE k \in 1..len
    <3>1. k \in 1..len - 1 \/ k = len
      OBVIOUS
    <3> QED
      BY <1>15, <2>4, <2>5, <2>7, <3>1
  <2>9. Rows' = [k \in 1..len |-> Rows'[k]]
    BY <2>3
  <2>10. Rows' \in Seq(Seq(RowChars)) /\ Len(Rows') = len
    BY <2>8, <2>9
  <2> QED
    BY <2>2, <2>4, <2>5, <2>6, <2>10
<1>25. Shown = first /\ Shown' = first + n
  <2>1. Shown = first
    BY <1>3, <1>7 DEF Shown
  <2>2. Shown' = first + n
    <3>1. call' = call /\ mem + n \in Nat /\ mem + n = first + n
      BY <1>3, <1>5, <1>7
    <3>2. CASE mem + n = call.mem
      BY <1>7, <3>1, <3>2 DEF Shown, NoCall
    <3>3. CASE mem + n # call.mem
      <4>1. mem' = mem + n /\ mem' # -1
        BY <1>7, <3>1, <3>3
      <4> QED
        BY <3>1, <4>1 DEF Shown, NoCall
    <3> QED
      BY <3>2, <3>3
  <2> QED
    BY <2>1, <2>2
<1>26. DumpShown'
  <2>1. PICK rows : rows = Rows
    OBVIOUS
  <2>2. PICK more : more = Rows'
    OBVIOUS
  <2>3. PICK shown : shown = Shown'
    OBVIOUS
  <2>4. /\ rows \in Seq(Seq(RowChars)) /\ more \in Seq(Seq(RowChars))
        /\ Len(more) = Len(rows) + 1 /\ (\A k \in 1..Len(rows) : more[k] = rows[k])
        /\ more[Len(more)] = row /\ shown = first + n
    <3>1. Len(more) = len /\ Len(rows) = len - 1 /\ len = Len(rows) + 1
      BY <1>12, <1>24, <2>1, <2>2
    <3>2. rows \in Seq(Seq(RowChars)) /\ more \in Seq(Seq(RowChars)) /\ shown = first + n
      BY <1>24, <1>25, <2>1, <2>2, <2>3
    <3>3. \A k \in 1..len - 1 : more[k] = rows[k]
      BY <1>24, <2>1, <2>2
    <3>4. more[len] = row
      BY <1>24, <2>2
    <3> QED
      BY <3>1, <3>2, <3>3, <3>4
  <2>5. ShowsBytes(FlattenSeq(rows), first)
    BY <1>9, <1>25, <2>1 DEF DumpShown, ShowsBytes
  <2>6. ShowsBytes(FlattenSeq(more), first + n)
    BY <1>5, <1>15, <2>4, <2>5, RowShown
  <2>8. /\ Column(FlattenSeq(more), "hex") = [k \in 1..2 * shown |-> Hex((k - 1) \div 2)]
        /\ Column(FlattenSeq(more), "ascii") = [k \in 1..shown |-> Ascii(k - 1)]
    BY <2>4, <2>6 DEF ShowsBytes
  <2>7. ASSUME NEW k \in 2..Len(lines')
        PROVE  SubSeq(lines'[k], 1, b) = SubSeq(head, 1, b)
    <3>1. CASE k = len + 1
      BY <1>20, <1>21, <3>1
    <3>2. CASE k # len + 1
      <4>1. k \in 2..len /\ k \in 1..len
        BY <1>21, <3>2
      <4>2. SubSeq(lines[k], 1, b) = SubSeq(head, 1, b)
        BY <1>2, <1>9, <1>10, <1>11, <4>1 DEF DumpShown
      <4> QED
        BY <1>21, <4>1, <4>2
    <3> QED
      BY <3>1, <3>2
  <2> QED
    BY <1>8, <1>21, <2>2, <2>3, <2>4, <2>7, <2>8 DEF DumpShown
<1> QED
  BY <1>21, <1>22, <1>23, <1>26 DEF LinesInv

LEMMA LinesStep ==
  ASSUME MessageAssumption, MessageInv, LinesInv, [NextMessage]_messageVars
  PROVE  LinesInv'
<1>1. CASE UNCHANGED <<call, msg, mem, lines, text>>
  BY <1>1 DEF LinesInv, CutOnce, TagFound, Header, DumpShown, Rows, Shown, NoCall, BufEnd
<1>2. CASE UNCHANGED messageVars
  BY <1>1, <1>2 DEF messageVars
<1>3. CASE SetFormat \/ zf_log_set_output_v \/ zf_log_set_output_level
  BY <1>1, <1>3 DEF SetFormat, zf_log_set_output_v, zf_log_set_output_level
<1>4. ASSUME NEW c \in Calls, WriteMessage(c)
      PROVE  LinesInv'
  BY <1>4, WriteLines
<1>5. CASE output_mem
  BY <1>5, DumpLines
<1> QED
  BY <1>2, <1>3, <1>4, <1>5 DEF NextMessage

\* A line is the text asked for, cut at one place at most and as late as the buffer
\* allows, with the tag between tag_b and tag_e; and the lines of a dump of memory repeat
\* the header and show every byte once, in both columns, in order, with nothing left
\* over from the message or from a longer line (_zf_log_write_imp, output_mem).
THEOREM LinesAreExact ==
  ASSUME MessageAssumption
  PROVE  SpecMessage => []LinesExact
<1>1. InitMessage => MessageInv
  BY FreshInside DEF InitMessage, MessageInv, MessageAssumption, NoCall
<1>2. InitMessage => LinesInv
  BY DEF InitMessage, LinesInv, CutOnce, TagFound, NoCall, Fresh
<1>3. MessageInv /\ LinesInv /\ [NextMessage]_messageVars => MessageInv' /\ LinesInv'
  BY MessageStep, LinesStep
<1>4. MessageInv => InBuffer
  BY DEF MessageInv, Inside, InBuffer
<1>5. LinesInv => DumpExact
  <2> SUFFICES ASSUME LinesInv, Len(lines) > 1
               PROVE  DumpExact
    BY DEF DumpExact
  <2>1. DumpShown
    BY DEF LinesInv
  <2>2. PICK all \in Seq(RowChars) : all = FlattenSeq(Rows)
    BY <2>1, FlattenType DEF DumpShown
  <2>3. \A i \in DOMAIN all : all[i][1] \in {"hex", "blank", "ascii", "eol"}
    <3> TAKE i \in DOMAIN all
    <3>1. all[i] \in RowChars
      OBVIOUS
    <3> QED
      BY <3>1 DEF RowChars
  <2> QED
    BY <2>1, <2>2, <2>3 DEF DumpShown, DumpExact
<1>6. MessageInv /\ LinesInv => LinesExact
  BY <1>4, <1>5 DEF LinesExact, LinesInv
<1> QED
  BY <1>1, <1>2, <1>3, <1>6, PTL DEF SpecMessage
=============================================================================
