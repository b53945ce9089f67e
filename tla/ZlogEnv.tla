------------------------------- MODULE ZlogEnv -------------------------------
(***************************************************************************)
(* The environment of zlog (zlog.c, category.c, category_table.c,          *)
(* thread.c): one configuration, a table of categories, a table of record  *)
(* functions and a per-thread buffer, shared by threads that log, reload,  *)
(* initialise and finish the library.                                      *)
(*                                                                         *)
(* All of it is protected by zlog_env_lock, a read-write lock, except for  *)
(* two things: zlog(), vdzlog() and their relatives read the level bitmap  *)
(* of the category before they take the lock, and the message counter is   *)
(* incremented while only the read side is held.  An operation that runs   *)
(* under the write lock and touches no bitmap another thread may read is   *)
(* one step here; reload, which clears and rebuilds the bitmaps in place,  *)
(* is one step per write that a reader without the lock can see.           *)
(*                                                                         *)
(* A definition marked Mutant is not part of the specification: it is the  *)
(* definition below it with a bug that a property has to notice.           *)
(***************************************************************************)
EXTENDS ZlogRules, Sequences

CONSTANTS
  Threads,      \* threads of the program
  Categories,   \* category names
  Levels,       \* message levels, numbers
  Confs,        \* contents a configuration file may have
  RecNames,     \* names used by record rules ($name)
  RecFns,       \* functions given to zlog_set_record
  Failable,     \* allocations and system calls that may fail
  MaxCalls,     \* bound: calls made by the program
  MaxConfs,     \* bound: configuration objects created
  Null          \* NULL

\* What may fail: reading a configuration, a table of zlog_init_inner, a
\* category, the key of the first initialisation, a record, a thread object,
\* its message buffers, its event, an output, the rule list of an update.
FailurePoints == {"conf", "table", "category", "key", "record",
                  "thread", "buf", "event", "output", "update"}

Rule == [cats : SUBSET Categories, waste : BOOLEAN, levels : SUBSET Levels]

RecTable == [RecNames -> RecFns \cup {Null}]
ConfObj  == [id : Nat, cf : Confs, funcs : RecTable]

\* A list of rules of one configuration object; fit_rules and its backup.
Fit == [conf : Nat, rules : SUBSET Nat]

Category == [fit     : Fit \cup {Null}, levels     : SUBSET Levels,
             fitBack : Fit \cup {Null}, levelsBack : SUBSET Levels]

ThreadObj == [version : Nat, buf : {cf.buf : cf \in Confs},
              tcc : {cf.tcc : cf \in Confs}]

ASSUME ZlogEnvAssumption ==
  /\ Levels \subseteq Nat
  /\ Failable \subseteq FailurePoints
  /\ MaxCalls \in Nat
  /\ MaxConfs \in Nat
  /\ \A cf \in Confs : cf.period \in Nat /\ cf.rules \in Seq(Rule)
  /\ Null \notin Threads \cup Categories \cup Confs
  /\ Null \notin ConfObj \cup Fit \cup Category \cup ThreadObj

VARIABLES
  writer,    \* the thread that holds zlog_env_lock for writing, or Null
  readers,   \* the threads that hold it for reading
  isInit,    \* zlog_env_is_init
  version,   \* zlog_env_init_version
  env,       \* zlog_env_conf, a ConfObj or Null
  cats,      \* zlog_env_categories: a category object or Null for each name
  default,   \* zlog_default_category, a name or Null
  records,   \* zlog_env_records
  count,     \* zlog_env_reload_conf_count
  thread,    \* the value of zlog_thread_key in each thread, or Null
  pc,        \* where each thread is
  call,      \* the category the call of each thread logs through, or Null
  reg,       \* the counter value a thread has read and not yet stored
  newConf,   \* new_conf of the reload in progress, or Null
  todo,      \* categories the reload in progress has not updated yet
  filling,   \* the category whose bitmap it has cleared and not yet set
  calls,     \* calls started so far
  made,      \* configuration objects created so far
  counted,   \* history: messages counted since the counter was reset
  switched   \* history: categories whose bitmap zlog_level_switch set

lockVars == <<writer, readers>>
confVars == <<isInit, version, env, default, records>>
progVars == <<call, reg>>
loadVars == <<newConf, todo, filling>>
histVars == <<counted, switched>>
vars == <<lockVars, confVars, cats, count, thread, pc, progVars, loadVars,
          calls, made, histVars>>

Existing == {c \in Categories : cats[c] # Null}
NoFuncs  == [n \in RecNames |-> Null]

LockFree == writer = Null /\ readers = {}

\* The fit_rules list of category c under configuration object o.
ListOf(o, c) == [conf |-> o.id, rules |-> FitRules(o.cf, c)]

\* Mutant: the wastebin rule is forgotten.
NewCategoryMatching(o, c) ==
  [fit     |-> [conf |-> o.id, rules |-> Matching(o.cf, c)],
   levels  |-> LevelsOf(o.cf, FitRules(o.cf, c)),
   fitBack |-> Null, levelsBack |-> {}]

NewCategory(o, c) ==
  [fit     |-> ListOf(o, c), levels     |-> LevelsOf(o.cf, FitRules(o.cf, c)),
   fitBack |-> Null,         levelsBack |-> {}]

\* Mutant: zlog_rule_set_record is not called for the new rules.
NewConfUnwired(cf, recs) == [id |-> made + 1, cf |-> cf, funcs |-> NoFuncs]

\* zlog_conf_new, and zlog_rule_set_record over its rules.
NewConf(cf, recs) == [id |-> made + 1, cf |-> cf, funcs |-> recs]

MayFail(point) == point \in Failable

Init ==
  /\ writer = Null /\ readers = {}
  /\ isInit = FALSE /\ version = 0 /\ env = Null
  /\ cats = [c \in Categories |-> Null]
  /\ default = Null /\ records = NoFuncs
  /\ count = 0
  /\ thread = [t \in Threads |-> Null]
  /\ pc = [t \in Threads |-> "idle"]
  /\ call = [t \in Threads |-> Null]
  /\ reg = [t \in Threads |-> 0]
  /\ newConf = Null /\ todo = {} /\ filling = Null
  /\ calls = 0 /\ made = 0
  /\ counted = 0 /\ switched = {}

\* Thread t, outside of zlog, makes a call.
Begin(t) ==
  /\ pc[t] = "idle"
  /\ calls < MaxCalls
  /\ calls' = calls + 1

\* A whole operation under the write lock.
Exclusive(t) ==
  /\ Begin(t)
  /\ LockFree
  /\ UNCHANGED <<lockVars, pc, progVars, thread, loadVars>>

-----------------------------------------------------------------------------
(* Initialisation and termination                                          *)

\* zlog_init_inner got as far as version v and then failed: zlog_fini_inner.
CleanUp(v) ==
  /\ env' = Null /\ default' = Null /\ records' = NoFuncs
  /\ cats' = [c \in Categories |-> Null]
  /\ version' = v
  /\ UNCHANGED <<isInit, count>>

InitRefused ==
  /\ isInit
  /\ UNCHANGED <<confVars, cats, count, made, histVars>>

\* The version after the one-time part of zlog_init_inner.
FirstVersion == IF version = 0 THEN 1 ELSE version

InitInnerFails ==
  /\ ~isInit
  /\ \/ /\ MayFail("key") /\ version = 0
        /\ CleanUp(version)
        /\ UNCHANGED made
     \/ /\ MayFail("conf") \/ MayFail("table")
        /\ CleanUp(FirstVersion)
        /\ UNCHANGED made
  /\ switched' = {}
  /\ UNCHANGED counted

InitWith(cf) ==
  /\ ~isInit
  /\ made < MaxConfs
  /\ made' = made + 1
  /\ env' = NewConf(cf, NoFuncs)
  /\ records' = NoFuncs
  /\ switched' = {}
  /\ UNCHANGED <<count, counted>>

ZlogInit(t, cf) ==
  /\ Exclusive(t)
  /\ \/ InitRefused
     \/ InitInnerFails
     \/ /\ InitWith(cf)
        /\ cats' = [c \in Categories |-> Null]
        /\ isInit' = TRUE
        /\ version' = FirstVersion + 1
        /\ UNCHANGED default

\* When the category cannot be made, dzlog_init returns without undoing
\* zlog_init_inner: configuration and tables stay, zlog_env_is_init is 0.
DzlogInit(t, cf, c) ==
  /\ Exclusive(t)
  /\ \/ InitRefused
     \/ InitInnerFails
     \/ /\ InitWith(cf)
        /\ cats' = [[d \in Categories |-> Null] EXCEPT
                      ![c] = NewCategory(NewConf(cf, NoFuncs), c)]
        /\ default' = c
        /\ isInit' = TRUE
        /\ version' = FirstVersion + 1
     \/ /\ MayFail("category")
        /\ InitWith(cf)
        /\ cats' = [d \in Categories |-> Null]
        /\ default' = Null
        /\ version' = FirstVersion
        /\ UNCHANGED isInit

\* Mutant: zlog_fini_inner leaves zlog_default_category.
ZlogFiniKeepsDefault(t) ==
  /\ Exclusive(t)
  /\ \A u \in Threads : pc[u] # "tested"
  /\ isInit
  /\ isInit' = FALSE
  /\ env' = Null /\ records' = NoFuncs
  /\ cats' = [c \in Categories |-> Null]
  /\ switched' = {}
  /\ UNCHANGED <<version, default, count, made, counted>>

\* The program finishes the library only when no thread is between the level
\* test and the lock with a category it is about to use.
ZlogFini(t) ==
  /\ Exclusive(t)
  /\ \A u \in Threads : pc[u] # "tested"
  /\ IF isInit
     THEN /\ isInit' = FALSE
          /\ env' = Null /\ default' = Null /\ records' = NoFuncs
          /\ cats' = [c \in Categories |-> Null]
          /\ switched' = {}
          /\ UNCHANGED version
     ELSE UNCHANGED <<confVars, cats, switched>>
  /\ UNCHANGED <<count, made, counted>>
-----------------------------------------------------------------------------
(* Categories and record functions                                         *)

\* zlog_category_table_fetch_category: found, created, or failed.
FetchCategory(c, ok) ==
  IF ok /\ cats[c] = Null
  THEN cats' = [cats EXCEPT ![c] = NewCategory(env, c)]
  ELSE UNCHANGED cats

FetchOutcomes(c) ==
  IF cats[c] = Null /\ MayFail("category") THEN BOOLEAN ELSE {TRUE}

ZlogGetCategory(t, c) ==
  /\ Exclusive(t)
  /\ IF isInit
     THEN \E ok \in FetchOutcomes(c) : FetchCategory(c, ok)
     ELSE UNCHANGED cats
  /\ UNCHANGED <<confVars, count, made, histVars>>

\* The result of the fetch is assigned before it is tested.
DzlogSetCategory(t, c) ==
  /\ Exclusive(t)
  /\ IF isInit
     THEN \E ok \in FetchOutcomes(c) :
            /\ FetchCategory(c, ok)
            /\ default' = IF ok THEN c ELSE Null
     ELSE UNCHANGED <<cats, default>>
  /\ UNCHANGED <<isInit, version, env, records, count, made, histVars>>

ZlogSetRecord(t, n, f) ==
  /\ Exclusive(t)
  /\ \/ /\ isInit
        /\ records' = [records EXCEPT ![n] = f]
        /\ env' = [env EXCEPT !.funcs[n] = f]
     \/ /\ ~isInit \/ MayFail("record")
        /\ UNCHANGED <<records, env>>
  /\ UNCHANGED <<isInit, version, default, cats, count, made, histVars>>

\* zlog_level_switch takes no lock and says so; the program calls it when no
\* other thread is inside zlog.
ZlogLevelSwitch(t, c, l) ==
  /\ Begin(t)
  /\ \A u \in Threads : pc[u] = "idle"
  /\ c \in Existing
  /\ cats' = [cats EXCEPT ![c].levels = {m \in Levels : m >= l}]
  /\ switched' = switched \cup {c}
  /\ UNCHANGED <<lockVars, confVars, count, thread, pc, progVars, loadVars,
                 made, counted>>

\* The destructor of zlog_thread_key; t then stands for a new thread.
ThreadExit(t) ==
  /\ Begin(t)
  /\ thread' = [thread EXCEPT ![t] = Null]
  /\ UNCHANGED <<lockVars, confVars, cats, count, pc, progVars, loadVars,
                 made, histVars>>

-----------------------------------------------------------------------------
(* Logging                                                                 *)

Goto(t, where) == pc' = [pc EXCEPT ![t] = where]

Enter(t, c, where) ==
  /\ call' = [call EXCEPT ![t] = c]
  /\ Goto(t, where)

\* A category whose bitmap a reload is rebuilding may show any bits of the
\* new bitmap.
SeenLevels(c) ==
  IF filling = c
  THEN SUBSET LevelsOf(newConf.cf, FitRules(newConf.cf, c))
  ELSE {cats[c].levels}

\* vzlog, hzlog and zlog: the level test, before the lock.
ZlogTest(t, c, l) ==
  /\ Begin(t)
  /\ c \in Existing
  /\ \E seen \in SeenLevels(c) :
       IF l \in seen THEN Enter(t, c, "tested") ELSE UNCHANGED <<call, pc>>
  /\ UNCHANGED <<lockVars, confVars, cats, count, thread, reg, loadVars,
                 made, histVars>>

\* vdzlog and hdzlog: the same test, of the default category of that moment.
VdzlogTest(t, l) ==
  /\ Begin(t)
  /\ IF default = Null \/ \E seen \in SeenLevels(default) : l \in seen
     THEN Goto(t, "dtested")
     ELSE UNCHANGED pc
  /\ UNCHANGED <<lockVars, confVars, cats, count, thread, progVars, loadVars,
                 made, histVars>>

ReadLock(t) ==
  /\ writer = Null
  /\ readers' = readers \cup {t}
  /\ UNCHANGED writer

\* Unlock the read side; the locals of the call are gone.
Leave(t, where) ==
  /\ readers' = readers \ {t}
  /\ Goto(t, where)
  /\ call' = [call EXCEPT ![t] = Null]
  /\ reg' = [reg EXCEPT ![t] = 0]
  /\ UNCHANGED writer

ZlogLock(t) ==
  /\ pc[t] = "tested"
  /\ ReadLock(t)
  /\ Goto(t, "locked")
  /\ UNCHANGED <<confVars, cats, count, thread, progVars, loadVars, calls,
                 made, histVars>>

\* The default category is read again, and judged, under the lock.
VdzlogLock(t) ==
  /\ pc[t] = "dtested"
  /\ ReadLock(t)
  /\ IF isInit /\ default # Null
     THEN Enter(t, default, "locked")
     ELSE Enter(t, Null, "leaving")
  /\ UNCHANGED <<confVars, cats, count, thread, reg, loadVars, calls, made,
                 histVars>>

\* dzlog makes the level test under the lock.
DzlogLock(t, l) ==
  /\ Begin(t)
  /\ ReadLock(t)
  /\ IF isInit /\ default # Null /\ l \in cats[default].levels
     THEN Enter(t, default, "locked")
     ELSE Enter(t, Null, "leaving")
  /\ UNCHANGED <<confVars, cats, count, thread, reg, loadVars, made, histVars>>

\* zlog_put_mdc logs nothing and has no category.
PutMdcLock(t) ==
  /\ Begin(t)
  /\ ReadLock(t)
  /\ Enter(t, Null, "locked")
  /\ UNCHANGED <<confVars, cats, count, thread, reg, loadVars, made, histVars>>

\* zlog_get_mdc, zlog_remove_mdc and zlog_clean_mdc take the thread object as it
\* is, whatever its version, and make none.
MdcLock(t) ==
  /\ Begin(t)
  /\ ReadLock(t)
  /\ Enter(t, Null, "leaving")
  /\ UNCHANGED <<confVars, cats, count, thread, reg, loadVars, made, histVars>>

FreshThread == [version |-> version, buf |-> env.cf.buf, tcc |-> env.cf.tcc]

\* zlog_thread_rebuild_msg_buf allocates only when the sizes changed.
SameBuf(t) == thread[t].buf = env.cf.buf

\* Mutant: the event is not rebuilt when the version has changed.
FetchKeepsEvent(t) ==
  {[obj |-> IF thread[t] = Null THEN FreshThread
            ELSE [FreshThread EXCEPT !.tcc = thread[t].tcc], ok |-> TRUE]}

\* zlog_fetch_thread: the thread object it leaves, and did it succeed.  A
\* rebuild that fails at the event keeps the buffers it has just replaced.
FetchOutcome(t) ==
  LET old == thread[t]
      Done  == [obj |-> FreshThread, ok |-> TRUE]
  IN IF old = Null
     THEN {Done} \cup IF MayFail("thread")
                      THEN {[obj |-> Null, ok |-> FALSE]} ELSE {}
     ELSE IF old.version = version THEN {[obj |-> old, ok |-> TRUE]}
     ELSE {Done}
          \cup (IF MayFail("buf") /\ ~SameBuf(t)
                THEN {[obj |-> old, ok |-> FALSE]} ELSE {})
          \cup (IF MayFail("event")
                THEN {[obj |-> [old EXCEPT !.buf = env.cf.buf], ok |-> FALSE]}
                ELSE {})

FetchThread(t) ==
  /\ pc[t] = "locked"
  /\ IF isInit
     THEN \E o \in FetchOutcome(t) :
            /\ thread' = [thread EXCEPT ![t] = o.obj]
            /\ Goto(t, IF o.ok /\ call[t] # Null THEN "output" ELSE "leaving")
     ELSE Goto(t, "leaving") /\ UNCHANGED thread
  /\ UNCHANGED <<lockVars, confVars, cats, count, progVars, loadVars, calls,
                 made, histVars>>

\* zlog_category_output.  A message whose last rule failed is not counted.
Output(t) ==
  /\ pc[t] = "output"
  /\ \/ Goto(t, IF env.cf.period = 0 THEN "leaving" ELSE "count")
     \/ MayFail("output") /\ Goto(t, "leaving")
  /\ UNCHANGED <<lockVars, confVars, cats, count, thread, progVars, loadVars,
                 calls, made, histVars>>

\* ++zlog_env_reload_conf_count, by threads that share the read lock: a load
\* and a store.
CountLoad(t) ==
  /\ pc[t] = "count"
  /\ reg' = [reg EXCEPT ![t] = count]
  /\ Goto(t, "store")
  /\ UNCHANGED <<lockVars, confVars, cats, count, thread, call, loadVars,
                 calls, made, histVars>>

CountStore(t) ==
  /\ pc[t] = "store"
  /\ count' = reg[t] + 1
  /\ counted' = counted + 1
  /\ Leave(t, IF count' > env.cf.period THEN "auto" ELSE "idle")
  /\ UNCHANGED <<confVars, cats, thread, loadVars, calls, made, switched>>

\* Mutant: a return without the unlock.
ExitLocked(t) ==
  /\ pc[t] = "leaving"
  /\ Goto(t, "idle")
  /\ UNCHANGED <<lockVars, confVars, cats, count, thread, progVars, loadVars,
                 calls, made, histVars>>

Exit(t) ==
  /\ pc[t] = "leaving"
  /\ Leave(t, "idle")
  /\ UNCHANGED <<confVars, cats, count, thread, loadVars, calls, made,
                 histVars>>

-----------------------------------------------------------------------------
(* Reload                                                                  *)

ReloadDoesNothing(t) ==
  /\ Goto(t, "idle")
  /\ UNCHANGED <<lockVars, confVars, cats, count, thread, progVars, loadVars,
                 made, histVars>>

\* The counter is reset before anything can fail; then zlog_conf_new.
ReloadStarts(t) ==
  /\ count' = 0 /\ counted' = 0
  /\ \/ \E cf \in Confs :
          /\ made < MaxConfs
          /\ made' = made + 1
          /\ newConf' = NewConf(cf, records)
          /\ todo' = Existing
          /\ writer' = t
          /\ Goto(t, "update")
     \/ /\ MayFail("conf")
        /\ Goto(t, "idle")
        /\ UNCHANGED <<newConf, todo, writer, made>>
  /\ UNCHANGED <<readers, confVars, cats, thread, progVars, filling, switched>>

\* zlog_reload with a file, or with NULL for the last one.
ZlogReload(t) ==
  /\ Begin(t)
  /\ LockFree
  /\ IF isInit THEN ReloadStarts(t) ELSE ReloadDoesNothing(t)

\* Mutant: the counter is not tested again under the write lock.
AutoReloadUntested(t) ==
  /\ pc[t] = "auto"
  /\ LockFree
  /\ UNCHANGED calls
  /\ IF isInit THEN ReloadStarts(t) ELSE ReloadDoesNothing(t)

\* zlog_reload((char *)-1), after the read lock has been given up.
AutoReload(t) ==
  /\ pc[t] = "auto"
  /\ LockFree
  /\ UNCHANGED calls
  /\ IF isInit /\ count > env.cf.period
     THEN ReloadStarts(t)
     ELSE ReloadDoesNothing(t)

Cleared(k) == [fit     |-> Null,  levels     |-> {},
               fitBack |-> k.fit, levelsBack |-> k.levels]

\* zlog_category_update_rules up to the memset of level_bitmap.
UpdateClear(t, c) ==
  /\ pc[t] = "update"
  /\ c \in todo
  /\ cats' = [cats EXCEPT ![c] = Cleared(cats[c])]
  /\ filling' = c
  /\ Goto(t, "fill")
  /\ UNCHANGED <<lockVars, confVars, count, thread, progVars, newConf, todo,
                 calls, made, histVars>>

\* The rest of zlog_category_obtain_rules.
UpdateFill(t) ==
  /\ pc[t] = "fill"
  /\ LET rs == FitRules(newConf.cf, filling)
     IN cats' = [cats EXCEPT ![filling].fit    = ListOf(newConf, filling),
                             ![filling].levels = LevelsOf(newConf.cf, rs)]
  /\ todo' = todo \ {filling}
  /\ filling' = Null
  /\ switched' = switched \ {filling}
  /\ Goto(t, "update")
  /\ UNCHANGED <<lockVars, confVars, count, thread, progVars, newConf, calls,
                 made, counted>>

\* A category cannot get its rule list, after the bits of some of its rules.
\* c_up is still 0, so zlog_reload deletes new_conf and rolls nothing back.
UpdateFails(t) ==
  /\ pc[t] = "fill"
  /\ MayFail("update")
  /\ \E rs \in SUBSET FitRules(newConf.cf, filling) :
       /\ rs # FitRules(newConf.cf, filling) \/ rs = {}
       /\ cats' = [cats EXCEPT ![filling].levels = LevelsOf(newConf.cf, rs)]
  /\ newConf' = Null /\ todo' = {} /\ filling' = Null
  /\ writer' = Null
  /\ Goto(t, "idle")
  /\ UNCHANGED <<readers, confVars, count, thread, progVars, calls, made,
                 histVars>>

\* Mutant: the backup survives the commit.
NotCommitted(k) == k

\* zlog_category_commit_rules.
Committed(k) ==
  IF k # Null /\ k.fitBack # Null
  THEN [k EXCEPT !.fitBack = Null, !.levelsBack = {}] ELSE k

ReloadCommit(t) ==
  /\ pc[t] = "update"
  /\ todo = {}
  /\ version' = version + 1
  /\ cats' = [c \in Categories |-> Committed(cats[c])]
  /\ env' = newConf
  /\ newConf' = Null
  /\ writer' = Null
  /\ Goto(t, "idle")
  /\ UNCHANGED <<readers, isInit, default, records, count, thread, progVars,
                 todo, filling, calls, made, histVars>>

-----------------------------------------------------------------------------
\* A thread outside of zlog starts a call, or ends.
Call(t) ==
  \/ \E cf \in Confs : ZlogInit(t, cf)
  \/ \E cf \in Confs, c \in Categories : DzlogInit(t, cf, c)
  \/ ZlogFini(t)
  \/ \E c \in Categories : ZlogGetCategory(t, c)
  \/ \E c \in Categories : DzlogSetCategory(t, c)
  \/ \E n \in RecNames, f \in RecFns : ZlogSetRecord(t, n, f)
  \/ \E c \in Categories, l \in Levels : ZlogLevelSwitch(t, c, l)
  \/ \E c \in Categories, l \in Levels : ZlogTest(t, c, l)
  \/ \E l \in Levels : VdzlogTest(t, l)
  \/ \E l \in Levels : DzlogLock(t, l)
  \/ PutMdcLock(t)
  \/ MdcLock(t)
  \/ ZlogReload(t)
  \/ ThreadExit(t)

\* A thread inside of zlog goes on.
Continue(t) ==
  \/ ZlogLock(t)
  \/ VdzlogLock(t)
  \/ FetchThread(t)
  \/ Output(t)
  \/ CountLoad(t)
  \/ CountStore(t)
  \/ Exit(t)
  \/ AutoReload(t)
  \/ \E c \in Categories : UpdateClear(t, c)
  \/ UpdateFill(t)
  \/ UpdateFails(t)
  \/ ReloadCommit(t)

Next == \E t \in Threads : Call(t) \/ Continue(t)

\* The scheduler runs every thread that is inside a call; nothing makes a
\* program start one.
Fairness == \A t \in Threads : WF_vars(Continue(t))

Spec == Init /\ [][Next]_vars

FairSpec == Spec /\ Fairness

-----------------------------------------------------------------------------
(* Types                                                                   *)

Places == {"idle", "tested", "dtested", "locked", "output", "count", "store", "leaving",
           "auto", "update", "fill"}

LockTypes ==
  /\ writer \in Threads \cup {Null}
  /\ readers \in SUBSET Threads
  /\ pc \in [Threads -> Places]

ConfTypes ==
  /\ isInit \in BOOLEAN
  /\ version \in Nat
  /\ env \in ConfObj \cup {Null}
  /\ default \in Categories \cup {Null}
  /\ records \in RecTable

CatTypes == cats \in [Categories -> Category \cup {Null}]

ThreadTypes ==
  /\ thread \in [Threads -> ThreadObj \cup {Null}]
  /\ call \in [Threads -> Categories \cup {Null}]
  /\ reg \in [Threads -> Nat]

LoadTypes ==
  /\ newConf \in ConfObj \cup {Null}
  /\ todo \in SUBSET Categories
  /\ filling \in Categories \cup {Null}

CountTypes ==
  /\ count \in Nat /\ counted \in Nat
  /\ calls \in Nat /\ made \in Nat
  /\ switched \in SUBSET Categories

\* Every variable holds a value of its kind.
TypeOK ==
  /\ LockTypes /\ ConfTypes /\ CatTypes
  /\ ThreadTypes /\ LoadTypes /\ CountTypes
=============================================================================
