-------------------------------- MODULE LogC --------------------------------
(***************************************************************************)
(* log.c: threads log to stderr and to up to MAX_CALLBACKS callbacks, each *)
(* with a level of its own, all under a lock the program may install with  *)
(* log_set_lock.  The library takes it for log_log alone: a callback is    *)
(* added, and the level and quiet are set, by any thread at any time.      *)
(*                                                                         *)
(* A line is written with several fprintf, here a head, which has the time *)
(* and the level, and a tail.  The time is what localtime has left in its  *)
(* one static struct tm, so a step formats the head and reads it there.  A *)
(* time is told by the message whose call of localtime it comes from.      *)
(*                                                                         *)
(* A callback is stored as a struct of three words: a step of log_log in   *)
(* another thread may see fn before the rest of it, and what the rest then *)
(* reads as (the zero a static struct starts with) is a NULL stream.       *)
(*                                                                         *)
(* A definition marked Mutant is not part of the specification: it is a    *)
(* definition with a bug that a property has to notice.                    *)
(***************************************************************************)
EXTENDS Integers, Sequences, FiniteSets

CONSTANTS
  Loggers,        \* threads that log
  Adders,         \* those that add callbacks
  LogLevels,      \* levels
  Files,          \* streams that are added
  MAX_CALLBACKS,
  MaxEvents,      \* bound: calls of log_log
  MaxSets,        \* bound: calls that set the level or quiet
  Nobody

LogCAssumption ==
  /\ Adders \subseteq Loggers
  /\ LogLevels \subseteq Nat /\ 0 \in LogLevels
  /\ Files \cap {"stderr", "NULL"} = {}
  /\ MAX_CALLBACKS \in Nat /\ MaxEvents \in Nat /\ MaxSets \in Nat
  /\ Nobody \notin Loggers

VARIABLES
  lockFn,       \* whether L.lock is set
  lockedBy,     \* who holds the lock it takes
  level, quiet, \* of L
  callbacks,    \* of L: in each slot fn, and the stream and level beside it
  tm,           \* the static struct tm of localtime: whose time it has
  at,           \* of each thread: where it is in log_log or log_add_callback
  ev,           \* of each thread: the event it logs
  slot,         \* of each thread: i, where 0 is stderr in log_log
  out,          \* what each stream has been given
  events, sets, \* counted for the bounds
  crashed,      \* a callback has used a NULL stream
  added,        \* history: what log_add_callback has returned 0 for
  owed          \* history: the streams each message has to reach

logCVars == <<lockFn, lockedBy, level, quiet, callbacks, tm, at, ev, slot,
              out, events, sets, crashed, added, owed>>

Streams == Files \cup {"stderr"}
Free == [fn |-> FALSE, udata |-> "NULL", level |-> 0]
NoEvent == [id |-> 0, level |-> 0, time |-> FALSE, udata |-> "NULL"]
Slots == 1..MAX_CALLBACKS

InitLogC ==
  /\ lockFn = FALSE /\ lockedBy = Nobody
  /\ level = 0 /\ quiet = FALSE
  /\ callbacks = [i \in Slots |-> Free]
  /\ tm = 0
  /\ at = [t \in Loggers |-> "idle"]
  /\ ev = [t \in Loggers |-> NoEvent]
  /\ slot = [t \in Loggers |-> 0]
  /\ out = [s \in Streams |-> << >>]
  /\ events = 0 /\ sets = 0
  /\ crashed = FALSE
  /\ added = {} /\ owed = [e \in 1..MaxEvents |-> {}]

Goes(t, from, to) == ~crashed /\ at[t] = from /\ at' = [at EXCEPT ![t] = to]

------------------------------------------------------------------------------
\* log_set_lock, before the first message: the lock of a message has to be its
\* unlock.
SetLock ==
  /\ ~crashed /\ events = 0 /\ ~lockFn
  /\ lockFn' = TRUE
  /\ UNCHANGED <<lockedBy, level, quiet, callbacks, tm, at, ev, slot, out,
                 events, sets, crashed, added, owed>>

\* log_set_level and log_set_quiet, when they change anything
Set ==
  /\ ~crashed /\ sets < MaxSets
  /\ sets' = sets + 1
  /\ \/ \E l \in LogLevels : level' = l /\ UNCHANGED quiet
     \/ \E b \in BOOLEAN : quiet' = b /\ UNCHANGED level
  /\ UNCHANGED <<lockFn, lockedBy, callbacks, tm, at, ev, slot, out, events,
                 crashed, added, owed>>

\* log_add_fp: the first free slot is found, then filled.
AddFind(t, f, l) ==
  /\ t \in Adders /\ f \notin {a.udata : a \in added}
  /\ Goes(t, "idle", "adding")
  /\ \E i \in Slots : /\ ~callbacks[i].fn
                      /\ \A j \in 1..(i - 1) : callbacks[j].fn
                      /\ slot' = [slot EXCEPT ![t] = i]
  /\ ev' = [ev EXCEPT ![t].udata = f, ![t].level = l]
  /\ UNCHANGED <<lockFn, lockedBy, level, quiet, callbacks, tm, out, events,
                 sets, crashed, added, owed>>

\* fn first and then the rest, or the rest first.
AddStore(t) ==
  LET cb == [fn |-> TRUE, udata |-> ev[t].udata, level |-> ev[t].level]
      old == callbacks[slot[t]]
  IN  /\ Goes(t, "adding", "added")
      /\ \E half \in {[old EXCEPT !.fn = TRUE], [cb EXCEPT !.fn = old.fn]} :
           callbacks' = [callbacks EXCEPT ![slot[t]] = half]
      /\ UNCHANGED <<lockFn, lockedBy, level, quiet, tm, ev, slot, out, events,
                     sets, crashed, added, owed>>

AddReturn(t) ==
  LET cb == [fn |-> TRUE, udata |-> ev[t].udata, level |-> ev[t].level]
  IN  /\ Goes(t, "added", "idle")
      /\ callbacks' = [callbacks EXCEPT ![slot[t]] = cb]
      /\ added' = added \cup {[udata |-> cb.udata, level |-> cb.level]}
      /\ ev' = [ev EXCEPT ![t] = NoEvent]
      /\ slot' = [slot EXCEPT ![t] = 0]
      /\ UNCHANGED <<lockFn, lockedBy, level, quiet, tm, out, events, sets,
                     crashed, owed>>

------------------------------------------------------------------------------
\* lock.  A message is owed to the files added before it that take its level.
\* Mutant: lock does nothing.
LogWithoutLock(t, l) ==
  /\ events < MaxEvents
  /\ Goes(t, "idle", "head")
  /\ events' = events + 1
  /\ ev' = [ev EXCEPT ![t] = [NoEvent EXCEPT !.id = events + 1, !.level = l]]
  /\ slot' = [slot EXCEPT ![t] = 0]
  /\ owed' = [owed EXCEPT ![events + 1] = {a.udata : a \in {b \in added : l >= b.level}}]
  /\ UNCHANGED <<lockFn, lockedBy, level, quiet, callbacks, tm, out, sets, crashed,
                 added>>
Log(t, l) ==
  /\ events < MaxEvents
  /\ Goes(t, "idle", "head")
  /\ IF lockFn THEN lockedBy = Nobody /\ lockedBy' = t ELSE UNCHANGED lockedBy
  /\ events' = events + 1
  /\ ev' = [ev EXCEPT ![t] = [NoEvent EXCEPT !.id = events + 1, !.level = l]]
  /\ slot' = [slot EXCEPT ![t] = 0]
  /\ owed' = [owed EXCEPT ![events + 1] = {a.udata : a \in {b \in added : l >= b.level}}]
  /\ UNCHANGED <<lockFn, level, quiet, callbacks, tm, out, sets, crashed, added>>

\* The loop ends at the first slot without fn.
AtEnd(t) == IF slot[t] \in Slots THEN ~callbacks[slot[t]].fn ELSE slot[t] > 0

Wanted(t) == IF slot[t] = 0 THEN ~quiet /\ ev[t].level >= level
                            ELSE ev[t].level >= callbacks[slot[t]].level

Stream(t) == IF slot[t] = 0 THEN "stderr" ELSE callbacks[slot[t]].udata

\* init_event, which calls localtime once for a message, and the first fprintf.
WriteHead(t) ==
  /\ ~AtEnd(t) /\ Wanted(t) /\ Stream(t) # "NULL"
  /\ Goes(t, "head", "tail")
  /\ tm' = IF ev[t].time THEN tm ELSE ev[t].id
  /\ ev' = [ev EXCEPT ![t].time = TRUE, ![t].udata = Stream(t)]
  /\ out' = [out EXCEPT ![Stream(t)] =
               Append(@, [id |-> ev[t].id, part |-> "head", time |-> tm'])]
  /\ UNCHANGED <<lockFn, lockedBy, level, quiet, callbacks, slot, events, sets,
                 crashed, added, owed>>

\* A callback whose stream is still NULL.
UseNull(t) ==
  /\ ~crashed /\ at[t] = "head"
  /\ ~AtEnd(t) /\ Wanted(t) /\ Stream(t) = "NULL"
  /\ crashed' = TRUE
  /\ UNCHANGED <<lockFn, lockedBy, level, quiet, callbacks, tm, at, ev, slot,
                 out, events, sets, added, owed>>

\* The rest of the line, and the fflush.
WriteTail(t) ==
  /\ Goes(t, "tail", "head")
  /\ out' = [out EXCEPT ![ev[t].udata] =
               Append(@, [id |-> ev[t].id, part |-> "tail", time |-> 0])]
  /\ slot' = [slot EXCEPT ![t] = @ + 1]
  /\ UNCHANGED <<lockFn, lockedBy, level, quiet, callbacks, tm, ev, events, sets,
                 crashed, added, owed>>

Skip(t) ==
  /\ ~crashed /\ at[t] = "head"
  /\ ~AtEnd(t) /\ ~Wanted(t)
  /\ slot' = [slot EXCEPT ![t] = @ + 1]
  /\ UNCHANGED <<lockFn, lockedBy, level, quiet, callbacks, tm, at, ev, out,
                 events, sets, crashed, added, owed>>

\* unlock
LogReturn(t) ==
  /\ AtEnd(t)
  /\ Goes(t, "head", "idle")
  /\ lockedBy' = IF lockFn THEN Nobody ELSE lockedBy
  /\ ev' = [ev EXCEPT ![t] = NoEvent]
  /\ slot' = [slot EXCEPT ![t] = 0]
  /\ UNCHANGED <<lockFn, level, quiet, callbacks, tm, out, events, sets, crashed,
                 added, owed>>

NextLogC ==
  \/ SetLock \/ Set
  \/ \E t \in Loggers, l \in LogLevels :
       \/ Log(t, l)
       \/ \E f \in Files : AddFind(t, f, l)
  \/ \E t \in Loggers :
       \/ AddStore(t) \/ AddReturn(t)
       \/ WriteHead(t) \/ UseNull(t) \/ WriteTail(t) \/ Skip(t) \/ LogReturn(t)

SpecLogC == InitLogC /\ [][NextLogC]_logCVars

------------------------------------------------------------------------------
LogCTypeOK ==
  /\ lockFn \in BOOLEAN /\ lockedBy \in Loggers \cup {Nobody}
  /\ level \in LogLevels /\ quiet \in BOOLEAN
  /\ callbacks \in [Slots -> [fn : BOOLEAN, udata : Files \cup {"NULL"}, level : LogLevels]]
  /\ tm \in 0..MaxEvents
  /\ at \in [Loggers -> {"idle", "adding", "added", "head", "tail"}]
  /\ ev \in [Loggers -> [id : 0..MaxEvents, level : LogLevels, time : BOOLEAN,
                         udata : Streams \cup {"NULL"}]]
  /\ slot \in [Loggers -> 0..(MAX_CALLBACKS + 1)]
  /\ out \in [Streams -> Seq([id : 1..MaxEvents, part : {"head", "tail"},
                              time : 0..MaxEvents])]
  /\ events \in 0..MaxEvents /\ sets \in 0..MaxSets /\ crashed \in BOOLEAN
  /\ added \subseteq [udata : Files, level : LogLevels]
  /\ owed \in [1..MaxEvents -> SUBSET Files]

Finished(e) == e <= events /\ \A t \in Loggers : ev[t].id # e

HeadsOf(s, e) == {k \in DOMAIN out[s] : out[s][k].id = e /\ out[s][k].part = "head"}

LineWhole(s, k) == /\ k < Len(out[s])
                   /\ out[s][k + 1].id = out[s][k].id /\ out[s][k + 1].part = "tail"

\* A message whose log_log has returned is in every file added before it that
\* takes its level, and in no stream twice: a head with its own tail directly
\* behind it, and its own time in all of the streams, however the calls of other
\* threads and the clock come in between (log_log, init_event).  This is what
\* the lock of log_set_lock is for: without it, messages only reach the files.
LinesWhole ==
  \A e \in 1..MaxEvents : Finished(e) =>
    /\ \A s \in owed[e] : HeadsOf(s, e) # {}
    /\ \A s \in Streams : Cardinality(HeadsOf(s, e)) <= 1
    /\ lockFn => /\ \A s \in Streams : \A k \in HeadsOf(s, e) :
                      LineWhole(s, k) /\ out[s][k].time = e
=============================================================================
