------------------------------ MODULE TimeCache ------------------------------
(***************************************************************************)
(* The time cache of zf_log (tcache_get, tcache_set, time_callback in      *)
(* zf_log.c): one struct tm shared by all threads, for the second it was   *)
(* computed for, so that localtime_r runs about once a second.  No lock    *)
(* protects it but g_tcache_mode, a word with two flag bits and, below     *)
(* them, the number of threads that have announced themselves as readers.  *)
(*                                                                         *)
(* An action is one atomic access to the word, or the plain accesses to    *)
(* the cached time between two of them.  gettimeofday may go backwards, so *)
(* the second it returns is any of Seconds; a struct tm is named by the    *)
(* second localtime_r computed it for, or Zero, the initial static one.    *)
(*                                                                         *)
(* A definition marked Mutant is not part of the specification: it is the  *)
(* definition below it with a bug that a property has to notice.           *)
(***************************************************************************)
EXTENDS Integers, FiniteSets

CONSTANTS
  Threads,   \* threads that log
  Seconds,   \* values of tv_sec
  Zero       \* g_tcache_tm before anything was cached

ASSUME TimeCacheAssumption ==
  /\ IsFiniteSet(Threads)
  /\ Zero \notin Seconds

VARIABLES
  stale,   \* bit TCACHE_STALE of g_tcache_mode
  fluid,   \* the bit of TCACHE_FLUID that TCACHE_STALE lacks
  count,   \* the bits below: readers that announced themselves
  tv,      \* g_tcache_tv.tv_sec
  tm,      \* g_tcache_tm
  pc,      \* where each thread is in time_callback
  now,     \* the second each thread got from gettimeofday
  res      \* the struct tm each thread fills in

modeVars == <<stale, fluid, count>>
cacheVars == <<tv, tm>>
vars == <<modeVars, cacheVars, pc, now, res>>

\* mode & TCACHE_FLUID is 0.
Readable == ~stale /\ ~fluid

Goto(t, where) == pc' = [pc EXCEPT ![t] = where]

Init ==
  /\ stale = TRUE /\ fluid = FALSE /\ count = 0
  /\ tv \in Seconds /\ tm = Zero
  /\ pc = [t \in Threads |-> "idle"]
  /\ now = [t \in Threads |-> Zero]
  /\ res = [t \in Threads |-> Zero]

\* time_callback: gettimeofday.
ReadClock(t) ==
  /\ pc[t] = "idle"
  /\ \E s \in Seconds : now' = [now EXCEPT ![t] = s]
  /\ res' = [res EXCEPT ![t] = Zero]
  /\ Goto(t, "load")
  /\ UNCHANGED <<modeVars, cacheVars>>

-----------------------------------------------------------------------------
(* tcache_get                                                              *)

LoadMode(t) ==
  /\ pc[t] = "load"
  /\ Goto(t, IF Readable THEN "announce" ELSE "miss")
  /\ UNCHANGED <<modeVars, cacheVars, now, res>>

\* Mutant: the word is read again and the reader not counted.
AnnounceUncounted(t) ==
  /\ pc[t] = "announce"
  /\ Goto(t, IF Readable THEN "compare" ELSE "withdraw")
  /\ UNCHANGED <<modeVars, cacheVars, now, res>>

\* fetch_add, and the test of the value it returns.
Announce(t) ==
  /\ pc[t] = "announce"
  /\ count' = count + 1
  /\ Goto(t, IF Readable THEN "compare" ELSE "withdraw")
  /\ UNCHANGED <<stale, fluid, cacheVars, now, res>>

\* Mutant: a cached time that is not older than the caller's is good enough.
CompareNewer(t) ==
  /\ pc[t] = "compare"
  /\ Goto(t, IF tv >= now[t] THEN "copy" ELSE "mark")
  /\ UNCHANGED <<modeVars, cacheVars, now, res>>

Compare(t) ==
  /\ pc[t] = "compare"
  /\ Goto(t, IF tv = now[t] THEN "copy" ELSE "mark")
  /\ UNCHANGED <<modeVars, cacheVars, now, res>>

Copy(t) ==
  /\ pc[t] = "copy"
  /\ res' = [res EXCEPT ![t] = tm]
  /\ Goto(t, "release")
  /\ UNCHANGED <<modeVars, cacheVars, now>>

\* sub_fetch of a hit.
Release(t) ==
  /\ pc[t] = "release"
  /\ count' = count - 1
  /\ Goto(t, "done")
  /\ UNCHANGED <<stale, fluid, cacheVars, now, res>>

\* or_fetch with TCACHE_STALE.
MarkStale(t) ==
  /\ pc[t] = "mark"
  /\ stale' = TRUE
  /\ Goto(t, "withdraw")
  /\ UNCHANGED <<fluid, count, cacheVars, now, res>>

\* Mutant: a miss does not give its announcement back.
WithdrawForgotten(t) ==
  /\ pc[t] = "withdraw"
  /\ Goto(t, "miss")
  /\ UNCHANGED <<modeVars, cacheVars, now, res>>

\* sub_fetch of a miss.
Withdraw(t) ==
  /\ pc[t] = "withdraw"
  /\ count' = count - 1
  /\ Goto(t, "miss")
  /\ UNCHANGED <<stale, fluid, cacheVars, now, res>>

-----------------------------------------------------------------------------
(* localtime_r and tcache_set                                              *)

Localtime(t) ==
  /\ pc[t] = "miss"
  /\ res' = [res EXCEPT ![t] = now[t]]
  /\ Goto(t, "set")
  /\ UNCHANGED <<modeVars, cacheVars, now>>

\* Mutant: the exchange looks at the flag and not at the readers.
SwapDespiteReaders(t) ==
  /\ pc[t] = "set"
  /\ IF stale /\ ~fluid
     THEN fluid' = TRUE /\ Goto(t, "writeTv")
     ELSE fluid' = fluid /\ Goto(t, "done")
  /\ UNCHANGED <<stale, count, cacheVars, now, res>>

\* The exchange succeeds when the word is TCACHE_STALE: no readers, no writer.
Swap(t) ==
  /\ pc[t] = "set"
  /\ IF stale /\ ~fluid /\ count = 0
     THEN fluid' = TRUE /\ Goto(t, "writeTv")
     ELSE fluid' = fluid /\ Goto(t, "done")
  /\ UNCHANGED <<stale, count, cacheVars, now, res>>

WriteTv(t) ==
  /\ pc[t] = "writeTv"
  /\ tv' = now[t]
  /\ Goto(t, "writeTm")
  /\ UNCHANGED <<modeVars, tm, now, res>>

WriteTm(t) ==
  /\ pc[t] = "writeTm"
  /\ tm' = res[t]
  /\ Goto(t, "publish")
  /\ UNCHANGED <<modeVars, tv, now, res>>

\* and_fetch with ~TCACHE_FLUID, which is both bits.
Publish(t) ==
  /\ pc[t] = "publish"
  /\ stale' = FALSE /\ fluid' = FALSE
  /\ Goto(t, "done")
  /\ UNCHANGED <<count, cacheVars, now, res>>

\* time_callback returns its struct tm.
Return(t) ==
  /\ pc[t] = "done"
  /\ Goto(t, "idle")
  /\ UNCHANGED <<modeVars, cacheVars, now, res>>

-----------------------------------------------------------------------------
Get(t) ==
  LoadMode(t) \/ Announce(t) \/ Compare(t) \/ Copy(t) \/ Release(t)
  \/ MarkStale(t) \/ Withdraw(t)

Set(t) == Localtime(t) \/ Swap(t) \/ WriteTv(t) \/ WriteTm(t) \/ Publish(t)

Next == \E t \in Threads : ReadClock(t) \/ Get(t) \/ Set(t) \/ Return(t)

\* The scheduler runs a thread that is inside of time_callback.
Fairness == \A t \in Threads : WF_vars(Get(t) \/ Set(t) \/ Return(t))

Spec == Init /\ [][Next]_vars

FairSpec == Spec /\ Fairness

-----------------------------------------------------------------------------
\* Threads whose announcement is in the count.
Announced ==
  {t \in Threads : pc[t] \in {"compare", "copy", "release", "mark", "withdraw"}}

\* Threads that look at the cached time, and threads that write it.
Reading == {t \in Threads : pc[t] \in {"compare", "copy"}}
Writing == {t \in Threads : pc[t] \in {"writeTv", "writeTm", "publish"}}

Places == {"idle", "load", "announce", "compare", "copy", "release", "mark",
           "withdraw", "miss", "set", "writeTv", "writeTm", "publish", "done"}

\* Every variable holds a value of its kind.
TypeOK ==
  /\ stale \in BOOLEAN /\ fluid \in BOOLEAN /\ count \in Nat
  /\ tv \in Seconds /\ tm \in Seconds \cup {Zero}
  /\ pc \in [Threads -> Places]
  /\ now \in [Threads -> Seconds \cup {Zero}]
  /\ res \in [Threads -> Seconds \cup {Zero}]

\* No thread looks at the cached time while another writes it, and no two
\* threads write it: the plain accesses of tcache_get and tcache_set do not
\* race.
NoRace ==
  /\ Reading # {} => Writing = {}
  /\ \A t, u \in Writing : t = u

\* A cache that may be read holds the time of its own second, and was filled.
CacheConsistent == Readable => tm = tv

\* Nothing leaks into the mode word: the count is the number of announced
\* readers, and the word is fluid exactly while somebody writes.  A leak would
\* make every later exchange fail and the cache useless without a symptom.
ModeExact ==
  /\ count = Cardinality(Announced)
  /\ fluid <=> Writing # {}

\* Whatever the other threads do to the cache, a thread is given the local time
\* of the second it read from the clock.
Source == INSTANCE TimeSource WITH
  asked <- [t \in Threads |-> IF pc[t] = "idle" THEN Zero ELSE now[t]],
  given <- [t \in Threads |-> IF pc[t] \in {"done"} THEN res[t] ELSE Zero]

ImplementsTimeSource == Source!Spec

\* A mark of staleness is not for ever: while threads keep missing, one of
\* them refills the cache, or all of them have left.
Refilled == stale ~> \/ ~stale
                     \/ \A t \in Threads : pc[t] = "idle"
=============================================================================
