---------------------------- MODULE ZlogEnvProofs ----------------------------
(***************************************************************************)
(* Proofs, for any number of threads, categories, rules and configurations *)
(* and any set of failures, about the zlog environment.                    *)
(*                                                                         *)
(* TypeInv is the base of everything: the types; who is where when the     *)
(* lock is held; and which pointers are then not NULL.  FreshInv is the    *)
(* strengthening for the thread objects, CatInv for the categories,        *)
(* ConfInv for the configurations and their records, CountInv for the      *)
(* counter of the automatic reload.  From TypeInv, CatInv and ConfInv it   *)
(* follows that ZlogEnv implements ZlogService.                            *)
(***************************************************************************)
EXTENDS ZlogEnvProperties, TLAPS

\* A writer is alone, and where a thread is says what it holds.
LockInv ==
  /\ writer # Null => readers = {}
  /\ \A t \in Threads :
       /\ pc[t] \in {"update", "fill"} <=> writer = t
       /\ pc[t] \in {"locked", "output", "count", "store", "leaving"}
            <=> t \in readers

\* The pointers that some step is about to follow are not NULL.
EnvInv ==
  /\ isInit => env # Null
  /\ writer # Null => isInit /\ newConf # Null
  /\ \A t \in Threads : pc[t] \in {"output", "count", "store"} => isInit
  /\ \A t \in Threads : pc[t] = "fill" <=> writer = t /\ filling # Null
  /\ filling # Null => writer # Null /\ filling \in Existing
  /\ todo # {} => writer # Null
  /\ todo \subseteq Existing

TypeInv == TypeOK /\ LockInv /\ EnvInv

SameSizes(t) == thread[t].buf = env.cf.buf /\ thread[t].tcc = env.cf.tcc

\* A thread object of the current version has the sizes of the configuration in
\* force, and none is of a version that is still to come.
FreshInv ==
  /\ \A t \in Threads : thread[t] # Null => thread[t].version <= version
  /\ isInit => \A t \in Threads :
       thread[t] # Null /\ thread[t].version = version => SameSizes(t)
  /\ \A t \in Threads :
       pc[t] = "output" => thread[t] # Null /\ thread[t].version = version

\* The list a category gets is a list of positions of the configuration.
LEMMA FitType ==
  ASSUME NEW cf \in Confs, NEW c \in Categories
  PROVE  /\ FitRules(cf, c) \in SUBSET Nat
         /\ FitRules(cf, c) \subseteq DOMAIN cf.rules
BY ZlogEnvAssumption DEF FitRules, Matching, LastWastebin, Wastebins

\* The bitmap of a list of rules holds levels.
LEMMA LevelsType ==
  ASSUME NEW cf \in Confs, NEW rs, rs \subseteq DOMAIN cf.rules
  PROVE  LevelsOf(cf, rs) \in SUBSET Levels
<1>1. cf.rules \in Seq(Rule)
  BY ZlogEnvAssumption
<1>2. ASSUME NEW i \in rs PROVE cf.rules[i] \in Rule
  BY <1>1
<1>3. ASSUME NEW i \in rs PROVE cf.rules[i].levels \subseteq Levels
  BY <1>2 DEF Rule
<1> QED BY <1>3 DEF LevelsOf

\* A list of rules, and a category made from it, are well formed.
LEMMA ListType ==
  ASSUME NEW o \in ConfObj, NEW c \in Categories
  PROVE  /\ ListOf(o, c) \in Fit
         /\ NewCategory(o, c) \in Category
         /\ NewCategory(o, c) # Null
BY ZlogEnvAssumption, FitType, LevelsType DEF ListOf, Fit, ConfObj,
    NewCategory, Category

\* zlog_conf_new makes a configuration object.
LEMMA NewConfType ==
  ASSUME NEW cf \in Confs, NEW recs \in RecTable, made \in Nat
  PROVE  NewConf(cf, recs) \in ConfObj /\ NewConf(cf, recs) # Null
BY ZlogEnvAssumption DEF NewConf, ConfObj

\* The empty record table is a record table.
LEMMA NoFuncsType == NoFuncs \in RecTable
BY DEF NoFuncs, RecTable

\* zlog_init_inner never lowers the version.
LEMMA FirstType ==
  ASSUME version \in Nat
  PROVE  FirstVersion \in Nat /\ FirstVersion >= version
BY DEF FirstVersion

\* Registering a record function leaves the configuration well formed.
LEMMA RecordType ==
  ASSUME NEW o \in ConfObj, NEW n \in RecNames, NEW f \in RecFns
  PROVE  /\ [o EXCEPT !.funcs[n] = f] \in ConfObj
         /\ [o EXCEPT !.funcs[n] = f] # Null
BY ZlogEnvAssumption DEF ConfObj, RecTable

\* A category whose update has begun is a category.
LEMMA ClearedType ==
  ASSUME NEW k \in Category
  PROVE  Cleared(k) \in Category /\ Cleared(k) # Null
BY ZlogEnvAssumption DEF Cleared, Category

\* A commit neither makes nor removes a category.
LEMMA CommittedType ==
  ASSUME NEW k \in Category \cup {Null}
  PROVE  /\ Committed(k) \in Category \cup {Null}
         /\ Committed(k) = Null <=> k = Null
BY ZlogEnvAssumption DEF Committed, Category

\* zlog_fetch_thread leaves a thread object, or none.
LEMMA FetchType ==
  ASSUME TypeInv, NEW t \in Threads, pc[t] = "locked", isInit,
         NEW o \in FetchOutcome(t)
  PROVE  o.obj \in ThreadObj \cup {Null}
BY DEF TypeInv, TypeOK, ConfTypes, ThreadTypes, EnvInv, FetchOutcome,
       FreshThread, ThreadObj, ConfObj

\* zlog_fetch_thread succeeds only with an object of the current version, and
\* an object of the current version has the sizes of the configuration.
LEMMA FetchFresh ==
  ASSUME TypeInv, FreshInv, NEW t \in Threads, pc[t] = "locked", isInit,
         NEW o \in FetchOutcome(t)
  PROVE  /\ o.obj # Null => o.obj.version <= version
         /\ o.obj # Null /\ o.obj.version = version =>
              o.obj.buf = env.cf.buf /\ o.obj.tcc = env.cf.tcc
         /\ o.ok => o.obj # Null /\ o.obj.version = version
<1> DEFINE old == thread[t]
<1>1. /\ version \in Nat /\ env \in ConfObj /\ old \in ThreadObj \cup {Null}
      /\ old # Null => /\ old.version <= version
                       /\ old.version = version => SameSizes(t)
  BY DEF TypeInv, TypeOK, ConfTypes, ThreadTypes, EnvInv, FreshInv
<1>2. FreshThread \in ThreadObj /\ FreshThread # Null
  BY <1>1, ZlogEnvAssumption DEF FreshThread, ThreadObj, ConfObj
<1>3. CASE o.obj = FreshThread
  BY <1>1, <1>2, <1>3 DEF FreshThread
<1>4. CASE o.obj = old /\ (o.ok => old # Null /\ old.version = version)
  BY <1>1, <1>4 DEF SameSizes
<1>5. CASE /\ o.obj = [old EXCEPT !.buf = env.cf.buf] /\ ~o.ok
           /\ old # Null /\ old.version # version
  BY <1>1, <1>5 DEF ThreadObj
<1> QED
  BY <1>3, <1>4, <1>5 DEF FetchOutcome

\* zlog_fetch_thread preserves FreshInv.
LEMMA FetchFreshStep ==
  ASSUME TypeInv, FreshInv, NEW t \in Threads, FetchThread(t)
  PROVE  FreshInv'
<1>1. /\ UNCHANGED <<version, env>> /\ isInit' = isInit
      /\ pc[t] = "locked"
  BY DEF FetchThread, confVars
<1>2. /\ thread \in [Threads -> ThreadObj \cup {Null}]
      /\ pc \in [Threads -> Places]
  BY DEF TypeInv, TypeOK, ThreadTypes, LockTypes
<1>3. CASE ~isInit
  BY <1>1, <1>2, <1>3 DEF FetchThread, Goto, FreshInv, SameSizes
<1>4. CASE isInit
  <2>1. PICK o \in FetchOutcome(t) :
          /\ thread' = [thread EXCEPT ![t] = o.obj]
          /\ pc' = [pc EXCEPT ![t] = IF o.ok /\ call[t] # Null
                                    THEN "output" ELSE "leaving"]
    BY <1>4 DEF FetchThread, Goto
  <2>2. /\ o.obj # Null => o.obj.version <= version
        /\ o.obj # Null /\ o.obj.version = version =>
             o.obj.buf = env.cf.buf /\ o.obj.tcc = env.cf.tcc
        /\ o.ok => o.obj # Null /\ o.obj.version = version
    BY <1>1, <1>4, FetchFresh
  <2>3. \A u \in Threads \ {t} : thread'[u] = thread[u] /\ pc'[u] = pc[u]
    BY <1>2, <2>1
  <2>4. thread'[t] = o.obj /\ (pc'[t] = "output" => o.ok)
    BY <1>2, <2>1
  <2>5. \A u \in Threads : thread'[u] # Null => thread'[u].version <= version'
    BY <1>1, <2>2, <2>3, <2>4 DEF FreshInv
  <2>6. \A u \in Threads :
          thread'[u] # Null /\ thread'[u].version = version' => SameSizes(u)'
    BY <1>1, <1>4, <2>2, <2>3, <2>4 DEF FreshInv, SameSizes
  <2>7. \A u \in Threads :
          pc'[u] = "output" => thread'[u] # Null /\ thread'[u].version = version'
    BY <1>1, <2>2, <2>3, <2>4 DEF FreshInv
  <2> QED
    BY <2>5, <2>6, <2>7 DEF FreshInv
<1> QED
  BY <1>3, <1>4

\* What an update writes into a category is well formed.
LEMMA FillType ==
  ASSUME TypeInv, NEW t \in Threads, pc[t] = "fill"
  PROVE  /\ newConf \in ConfObj /\ filling \in Categories
         /\ cats[filling] \in Category
         /\ ListOf(newConf, filling) \in Fit
         /\ \A rs \in SUBSET FitRules(newConf.cf, filling) :
              LevelsOf(newConf.cf, rs) \in SUBSET Levels
<1>1. /\ newConf \in ConfObj /\ filling \in Categories
      /\ cats[filling] \in Category
  BY DEF TypeInv, TypeOK, LockTypes, CatTypes, LoadTypes, LockInv, EnvInv,
         Existing
<1>2. newConf.cf \in Confs
  BY <1>1 DEF ConfObj
<1> QED
  BY <1>1, <1>2, ListType, LevelsType, FitType

\* Every step keeps the program counters and zlog_env_lock in agreement.
LEMMA LockStep == TypeInv /\ [Next]_vars => LockInv'
<1> SUFFICES ASSUME TypeInv, [Next]_vars PROVE LockInv'
  OBVIOUS
<1>0. /\ pc \in [Threads -> Places]
     /\ readers \in SUBSET Threads
     /\ LockInv
  BY DEF TypeInv, TypeOK, LockTypes
<1> USE <1>0, ZlogEnvAssumption
    DEF LockInv, Places, lockVars, confVars, progVars, loadVars, histVars
<1>1. ASSUME NEW t \in Threads, NEW cf \in Confs, ZlogInit(t, cf)
      PROVE  LockInv'
  BY <1>1 DEF ZlogInit, Exclusive, Begin, LockFree, InitRefused,
      InitInnerFails, InitWith, CleanUp
<1>2. ASSUME NEW t \in Threads, NEW cf \in Confs, NEW c \in Categories,
             DzlogInit(t, cf, c)
      PROVE  LockInv'
  BY <1>2 DEF DzlogInit, Exclusive, Begin, LockFree, InitRefused,
      InitInnerFails, InitWith, CleanUp
<1>3. ASSUME NEW t \in Threads, ZlogFini(t) PROVE LockInv'
  BY <1>3 DEF ZlogFini, Exclusive, Begin, LockFree
<1>4. ASSUME NEW t \in Threads, NEW c \in Categories, ZlogGetCategory(t, c)
      PROVE  LockInv'
  BY <1>4 DEF ZlogGetCategory, Exclusive, Begin, LockFree, FetchCategory
<1>5. ASSUME NEW t \in Threads, NEW c \in Categories, DzlogSetCategory(t, c)
      PROVE  LockInv'
  BY <1>5 DEF DzlogSetCategory, Exclusive, Begin, LockFree, FetchCategory
<1>6. ASSUME NEW t \in Threads, NEW n \in RecNames, NEW f \in RecFns,
             ZlogSetRecord(t, n, f) PROVE LockInv'
  BY <1>6 DEF ZlogSetRecord, Exclusive, Begin, LockFree
<1>7. ASSUME NEW t \in Threads, NEW c \in Categories, NEW l \in Levels,
             ZlogLevelSwitch(t, c, l) PROVE LockInv'
  BY <1>7 DEF ZlogLevelSwitch, Begin
<1>8. ASSUME NEW t \in Threads, NEW c \in Categories, NEW l \in Levels,
             ZlogTest(t, c, l)
      PROVE  LockInv'
  BY <1>8 DEF ZlogTest, Begin, Enter, Goto
<1>9. ASSUME NEW t \in Threads, NEW l \in Levels, DzlogLock(t, l)
      PROVE  LockInv'
  BY <1>9 DEF DzlogLock, Begin, ReadLock, Enter, Goto
<1>10. ASSUME NEW t \in Threads, PutMdcLock(t) PROVE LockInv'
  BY <1>10 DEF PutMdcLock, Begin, ReadLock, Enter, Goto
<1>mdc. ASSUME NEW t \in Threads, MdcLock(t) PROVE LockInv'
  BY <1>mdc DEF MdcLock, Begin, ReadLock, Enter, Goto
<1>11. ASSUME NEW t \in Threads, ZlogReload(t) PROVE LockInv'
  BY <1>11 DEF ZlogReload, Begin, LockFree, ReloadStarts, ReloadDoesNothing,
      Goto
<1>12. ASSUME NEW t \in Threads, ThreadExit(t) PROVE LockInv'
  BY <1>12 DEF ThreadExit, Begin
<1>13. ASSUME NEW t \in Threads, ZlogLock(t) PROVE LockInv'
  BY <1>13 DEF ZlogLock, ReadLock, Goto
<1>14. ASSUME NEW t \in Threads, FetchThread(t) PROVE LockInv'
  BY <1>14 DEF FetchThread, Goto
<1>15. ASSUME NEW t \in Threads, Output(t) PROVE LockInv'
  BY <1>15 DEF Output, Goto
<1>16. ASSUME NEW t \in Threads, CountLoad(t) PROVE LockInv'
  BY <1>16 DEF CountLoad, Goto
<1>17. ASSUME NEW t \in Threads, CountStore(t) PROVE LockInv'
  BY <1>17 DEF CountStore, Leave, Goto
<1>18. ASSUME NEW t \in Threads, Exit(t) PROVE LockInv'
  BY <1>18 DEF Exit, Leave, Goto
<1>19. ASSUME NEW t \in Threads, AutoReload(t) PROVE LockInv'
  BY <1>19 DEF AutoReload, LockFree, ReloadStarts, ReloadDoesNothing, Goto
<1>20. ASSUME NEW t \in Threads, NEW c \in Categories, UpdateClear(t, c)
       PROVE  LockInv'
  BY <1>20 DEF UpdateClear, Goto
<1>21. ASSUME NEW t \in Threads, UpdateFill(t) PROVE LockInv'
  BY <1>21 DEF UpdateFill, Goto
<1>22. ASSUME NEW t \in Threads, UpdateFails(t) PROVE LockInv'
  BY <1>22 DEF UpdateFails, Goto
<1>23. ASSUME NEW t \in Threads, ReloadCommit(t) PROVE LockInv'
  BY <1>23 DEF ReloadCommit, Goto
<1>25. ASSUME NEW t \in Threads, NEW l \in Levels, VdzlogTest(t, l)
       PROVE  LockInv'
  BY <1>25 DEF VdzlogTest, Begin, Goto
<1>26. ASSUME NEW t \in Threads, VdzlogLock(t) PROVE LockInv'
  BY <1>26 DEF VdzlogLock, ReadLock, Enter, Goto
<1>24. CASE UNCHANGED vars
  BY <1>24 DEF vars
<1> QED
  BY <1>1, <1>2, <1>3, <1>4, <1>5, <1>6, <1>7, <1>8, <1>9, <1>10, <1>mdc, <1>11, <1>12,
     <1>13, <1>14, <1>15, <1>16, <1>17, <1>18, <1>19, <1>20, <1>21, <1>22, <1>23,
     <1>24, <1>25, <1>26
     DEF Next, Call, Continue

\* Every step keeps the pointers that are about to be followed alive.
LEMMA EnvStep == TypeInv /\ [Next]_vars => EnvInv'
<1> SUFFICES ASSUME TypeInv, [Next]_vars PROVE EnvInv'
  OBVIOUS
<1>0. TypeOK /\ LockInv /\ EnvInv
  BY DEF TypeInv
<1> USE <1>0, ZlogEnvAssumption DEF TypeOK, LockTypes, ConfTypes, CatTypes,
        ThreadTypes, LoadTypes, CountTypes, LockInv, EnvInv, Existing, Places,
        lockVars, confVars, progVars, loadVars, histVars
<1>1. ASSUME NEW t \in Threads, NEW cf \in Confs, ZlogInit(t, cf) PROVE EnvInv'
  BY <1>1, NewConfType, NoFuncsType DEF ZlogInit, Exclusive, Begin, LockFree,
      InitRefused, InitInnerFails, InitWith, CleanUp
<1>2. ASSUME NEW t \in Threads, NEW cf \in Confs, NEW c \in Categories,
             DzlogInit(t, cf, c)
      PROVE  EnvInv'
  BY <1>2, NewConfType, NoFuncsType, ListType DEF DzlogInit, Exclusive,
      Begin, LockFree, InitRefused, InitInnerFails, InitWith, CleanUp
<1>3. ASSUME NEW t \in Threads, ZlogFini(t) PROVE EnvInv'
  BY <1>3 DEF ZlogFini, Exclusive, Begin, LockFree
<1>4. ASSUME NEW t \in Threads, NEW c \in Categories, ZlogGetCategory(t, c)
      PROVE  EnvInv'
  BY <1>4, ListType DEF ZlogGetCategory, Exclusive, Begin, LockFree,
      FetchCategory
<1>5. ASSUME NEW t \in Threads, NEW c \in Categories, DzlogSetCategory(t, c)
      PROVE  EnvInv'
  BY <1>5, ListType DEF DzlogSetCategory, Exclusive, Begin, LockFree,
      FetchCategory
<1>6. ASSUME NEW t \in Threads, NEW n \in RecNames, NEW f \in RecFns,
             ZlogSetRecord(t, n, f) PROVE EnvInv'
  BY <1>6, RecordType DEF ZlogSetRecord, Exclusive, Begin, LockFree
<1>7. ASSUME NEW t \in Threads, NEW c \in Categories, NEW l \in Levels,
             ZlogLevelSwitch(t, c, l) PROVE EnvInv'
  BY <1>7 DEF ZlogLevelSwitch, Begin
<1>8. ASSUME NEW t \in Threads, NEW c \in Categories, NEW l \in Levels,
             ZlogTest(t, c, l)
      PROVE  EnvInv'
  BY <1>8 DEF ZlogTest, Begin, Enter, Goto
<1>9. ASSUME NEW t \in Threads, NEW l \in Levels, DzlogLock(t, l) PROVE EnvInv'
  BY <1>9 DEF DzlogLock, Begin, ReadLock, Enter, Goto
<1>10. ASSUME NEW t \in Threads, PutMdcLock(t) PROVE EnvInv'
  BY <1>10 DEF PutMdcLock, Begin, ReadLock, Enter, Goto
<1>mdc. ASSUME NEW t \in Threads, MdcLock(t) PROVE EnvInv'
  BY <1>mdc DEF MdcLock, Begin, ReadLock, Enter, Goto
<1>11. ASSUME NEW t \in Threads, ZlogReload(t) PROVE EnvInv'
  BY <1>11, NewConfType DEF ZlogReload, Begin, LockFree, ReloadStarts,
      ReloadDoesNothing, Goto
<1>12. ASSUME NEW t \in Threads, ThreadExit(t) PROVE EnvInv'
  BY <1>12 DEF ThreadExit, Begin
<1>13. ASSUME NEW t \in Threads, ZlogLock(t) PROVE EnvInv'
  BY <1>13 DEF ZlogLock, ReadLock, Goto
<1>14. ASSUME NEW t \in Threads, FetchThread(t) PROVE EnvInv'
  BY <1>14 DEF FetchThread, Goto
<1>15. ASSUME NEW t \in Threads, Output(t) PROVE EnvInv'
  BY <1>15 DEF Output, Goto
<1>16. ASSUME NEW t \in Threads, CountLoad(t) PROVE EnvInv'
  BY <1>16 DEF CountLoad, Goto
<1>17. ASSUME NEW t \in Threads, CountStore(t) PROVE EnvInv'
  BY <1>17 DEF CountStore, Leave, Goto
<1>18. ASSUME NEW t \in Threads, Exit(t) PROVE EnvInv'
  BY <1>18 DEF Exit, Leave, Goto
<1>19. ASSUME NEW t \in Threads, AutoReload(t) PROVE EnvInv'
  BY <1>19, NewConfType DEF AutoReload, LockFree, ReloadStarts,
      ReloadDoesNothing, Goto
<1>20. ASSUME NEW t \in Threads, NEW c \in Categories, UpdateClear(t, c)
       PROVE  EnvInv'
  BY <1>20, ClearedType DEF UpdateClear, Goto
<1>21. ASSUME NEW t \in Threads, UpdateFill(t) PROVE EnvInv'
  BY <1>21 DEF UpdateFill, Goto
<1>22. ASSUME NEW t \in Threads, UpdateFails(t) PROVE EnvInv'
  BY <1>22 DEF UpdateFails, Goto
<1>23. ASSUME NEW t \in Threads, ReloadCommit(t) PROVE EnvInv'
  BY <1>23, CommittedType DEF ReloadCommit, Goto
<1>25. ASSUME NEW t \in Threads, NEW l \in Levels, VdzlogTest(t, l)
       PROVE  EnvInv'
  BY <1>25 DEF VdzlogTest, Begin, Goto
<1>26. ASSUME NEW t \in Threads, VdzlogLock(t) PROVE EnvInv'
  BY <1>26 DEF VdzlogLock, ReadLock, Enter, Goto
<1>24. CASE UNCHANGED vars
  BY <1>24 DEF vars
<1> QED
  BY <1>1, <1>2, <1>3, <1>4, <1>5, <1>6, <1>7, <1>8, <1>9, <1>10, <1>mdc, <1>11, <1>12,
     <1>13, <1>14, <1>15, <1>16, <1>17, <1>18, <1>19, <1>20, <1>21, <1>22, <1>23,
     <1>24, <1>25, <1>26
     DEF Next, Call, Continue

\* Every step keeps every variable in its type.
LEMMA TypeStep == TypeInv /\ [Next]_vars => TypeOK'
<1> SUFFICES ASSUME TypeInv, [Next]_vars PROVE TypeOK'
  OBVIOUS
<1>lock. LockTypes
  BY DEF TypeInv, TypeOK
<1>conf. ConfTypes
  BY DEF TypeInv, TypeOK
<1>cats. CatTypes
  BY DEF TypeInv, TypeOK
<1>thread. ThreadTypes
  BY DEF TypeInv, TypeOK
<1>load. LoadTypes
  BY DEF TypeInv, TypeOK
<1>count. CountTypes
  BY DEF TypeInv, TypeOK
<1>inv. LockInv /\ EnvInv
  BY DEF TypeInv
<1> USE ZlogEnvAssumption DEF lockVars, confVars, progVars, loadVars, histVars
<1>1. ASSUME NEW t \in Threads, NEW cf \in Confs, ZlogInit(t, cf) PROVE TypeOK'
  <2>1. LockTypes'
    BY <1>1, <1>lock
      DEF LockTypes, ZlogInit, Exclusive, Begin, LockFree, InitRefused,
          InitInnerFails, InitWith, CleanUp, Places
  <2>2. ConfTypes'
    <3>1. NewConf(cf, NoFuncs) \in ConfObj /\ FirstVersion \in Nat
      BY <1>conf, <1>count, NewConfType, NoFuncsType, FirstType
        DEF ConfTypes, CountTypes
    <3>2. CASE InitRefused
      BY <3>2, <1>conf DEF ConfTypes, InitRefused
    <3>3. CASE InitInnerFails
      BY <3>1, <3>3, <1>conf, NoFuncsType DEF ConfTypes, InitInnerFails,
          CleanUp
    <3>4. CASE InitWith(cf) /\ default' = default
                  /\ isInit' = TRUE
                  /\ version' = FirstVersion + 1
      BY <3>1, <3>4, <1>conf, NoFuncsType DEF ConfTypes, InitWith
    <3> QED
      BY <1>1, <3>2, <3>3, <3>4 DEF ZlogInit
  <2>3. CatTypes' /\ ThreadTypes' /\ LoadTypes' /\ CountTypes'
    BY <1>1, <1>cats, <1>thread, <1>load, <1>count
    DEF CatTypes, ThreadTypes, LoadTypes, CountTypes,
        ZlogInit, Exclusive, Begin, LockFree, InitRefused, InitInnerFails, InitWith, CleanUp
  <2> QED
    BY <2>1, <2>2, <2>3 DEF TypeOK
<1>2. ASSUME NEW t \in Threads, NEW cf \in Confs, NEW c \in Categories,
             DzlogInit(t, cf, c)
      PROVE  TypeOK'
  <2>1. LockTypes'
    BY <1>2, <1>lock
      DEF LockTypes, DzlogInit, Exclusive, Begin, LockFree, InitRefused,
          InitInnerFails, InitWith, CleanUp, Places
  <2>2. ConfTypes'
    <3>1. NewConf(cf, NoFuncs) \in ConfObj /\ FirstVersion \in Nat
      BY <1>conf, <1>count, NewConfType, NoFuncsType, FirstType
        DEF ConfTypes, CountTypes
    <3>2. CASE InitRefused
      BY <3>2, <1>conf DEF ConfTypes, InitRefused
    <3>3. CASE InitInnerFails
      BY <3>1, <3>3, <1>conf, NoFuncsType DEF ConfTypes, InitInnerFails,
          CleanUp
    <3>4. CASE InitWith(cf) /\ default' = c
                  /\ isInit' = TRUE
                  /\ version' = FirstVersion + 1
      BY <3>1, <3>4, <1>conf, NoFuncsType DEF ConfTypes, InitWith
    <3>5. CASE InitWith(cf) /\ default' = Null
                  /\ isInit' = isInit
                  /\ version' = FirstVersion
      BY <3>1, <3>5, <1>conf, NoFuncsType DEF ConfTypes, InitWith
    <3> QED
      BY <1>2, <3>2, <3>3, <3>4, <3>5 DEF DzlogInit
  <2>3. CatTypes'
    BY <1>2, <1>cats, <1>count, NewConfType, NoFuncsType, ListType
      DEF CatTypes, DzlogInit, Exclusive, Begin, LockFree, InitRefused,
          InitInnerFails, InitWith, CleanUp, CountTypes
  <2>4. ThreadTypes' /\ LoadTypes' /\ CountTypes'
    BY <1>2, <1>thread, <1>load, <1>count
    DEF ThreadTypes, LoadTypes, CountTypes,
        DzlogInit, Exclusive, Begin, LockFree, InitRefused, InitInnerFails, InitWith, CleanUp
  <2> QED
    BY <2>1, <2>2, <2>3, <2>4 DEF TypeOK
<1>3. ASSUME NEW t \in Threads, ZlogFini(t) PROVE TypeOK'
  <2>1. LockTypes'
    BY <1>3, <1>lock
      DEF LockTypes, ZlogFini, Exclusive, Begin, LockFree, Places
  <2>2. ConfTypes'
    BY <1>3, <1>conf, NoFuncsType
      DEF ConfTypes, ZlogFini, Exclusive, Begin, LockFree
  <2>3. CatTypes' /\ ThreadTypes' /\ LoadTypes' /\ CountTypes'
    BY <1>3, <1>cats, <1>thread, <1>load, <1>count
    DEF CatTypes, ThreadTypes, LoadTypes, CountTypes,
        ZlogFini, Exclusive, Begin, LockFree
  <2> QED
    BY <2>1, <2>2, <2>3 DEF TypeOK
<1>4. ASSUME NEW t \in Threads, NEW c \in Categories, ZlogGetCategory(t, c)
      PROVE  TypeOK'
  <2>1. LockTypes'
    BY <1>4, <1>lock
      DEF LockTypes, ZlogGetCategory, Exclusive, Begin, LockFree,
          FetchCategory, Places
  <2>2. CatTypes'
    BY <1>4, <1>cats, <1>conf, <1>inv, ListType
      DEF CatTypes, ZlogGetCategory, Exclusive, Begin, LockFree,
          FetchCategory, ConfTypes, EnvInv
  <2>3. ConfTypes' /\ ThreadTypes' /\ LoadTypes' /\ CountTypes'
    BY <1>4, <1>conf, <1>thread, <1>load, <1>count
    DEF ConfTypes, ThreadTypes, LoadTypes, CountTypes,
        ZlogGetCategory, Exclusive, Begin, LockFree, FetchCategory
  <2> QED
    BY <2>1, <2>2, <2>3 DEF TypeOK
<1>5. ASSUME NEW t \in Threads, NEW c \in Categories, DzlogSetCategory(t, c)
      PROVE  TypeOK'
  BY <1>5, <1>lock, <1>conf, <1>cats, <1>thread, <1>load, <1>count, <1>inv,
      ListType
  DEF TypeOK, LockTypes, ConfTypes, CatTypes, ThreadTypes, LoadTypes,
      CountTypes,
      LockInv, EnvInv, Existing, DzlogSetCategory, Exclusive, Begin, LockFree,
      FetchCategory, Places
<1>6. ASSUME NEW t \in Threads, NEW n \in RecNames, NEW f \in RecFns,
             ZlogSetRecord(t, n, f) PROVE TypeOK'
  <2>1. LockTypes'
    BY <1>6, <1>lock
      DEF LockTypes, ZlogSetRecord, Exclusive, Begin, LockFree, Places
  <2>2. ConfTypes'
    BY <1>6, <1>conf, <1>inv, RecordType
      DEF ConfTypes, ZlogSetRecord, Exclusive, Begin, LockFree, EnvInv,
          RecTable
  <2>3. CatTypes' /\ ThreadTypes' /\ LoadTypes' /\ CountTypes'
    BY <1>6, <1>cats, <1>thread, <1>load, <1>count
    DEF CatTypes, ThreadTypes, LoadTypes, CountTypes,
        ZlogSetRecord, Exclusive, Begin, LockFree
  <2> QED
    BY <2>1, <2>2, <2>3 DEF TypeOK
<1>7. ASSUME NEW t \in Threads, NEW c \in Categories, NEW l \in Levels,
             ZlogLevelSwitch(t, c, l) PROVE TypeOK'
  <2>1. LockTypes'
    BY <1>7, <1>lock
      DEF LockTypes, ZlogLevelSwitch, Begin, Places
  <2>2. CatTypes'
    BY <1>7, <1>cats
      DEF CatTypes, ZlogLevelSwitch, Begin, Category, Existing
  <2>3. ConfTypes' /\ ThreadTypes' /\ LoadTypes' /\ CountTypes'
    BY <1>7, <1>conf, <1>thread, <1>load, <1>count
    DEF ConfTypes, ThreadTypes, LoadTypes, CountTypes,
        ZlogLevelSwitch, Begin
  <2> QED
    BY <2>1, <2>2, <2>3 DEF TypeOK
<1>8. ASSUME NEW t \in Threads, NEW c \in Categories, NEW l \in Levels,
             ZlogTest(t, c, l)
      PROVE  TypeOK'
  <2>1. LockTypes'
    BY <1>8, <1>lock
      DEF LockTypes, ZlogTest, Begin, Enter, Goto, Places
  <2>2. ThreadTypes'
    BY <1>8, <1>thread
      DEF ThreadTypes, ZlogTest, Begin, Enter, Goto
  <2>3. ConfTypes' /\ CatTypes' /\ LoadTypes' /\ CountTypes'
    BY <1>8, <1>conf, <1>cats, <1>load, <1>count
    DEF ConfTypes, CatTypes, LoadTypes, CountTypes,
        ZlogTest, Begin, Enter, Goto
  <2> QED
    BY <2>1, <2>2, <2>3 DEF TypeOK
<1>9. ASSUME NEW t \in Threads, NEW l \in Levels, DzlogLock(t, l) PROVE TypeOK'
  <2>1. LockTypes'
    BY <1>9, <1>lock
      DEF LockTypes, DzlogLock, Begin, ReadLock, Enter, Goto, Places
  <2>2. ThreadTypes'
    BY <1>9, <1>thread, <1>conf
      DEF ThreadTypes, DzlogLock, Begin, ReadLock, Enter, Goto, ConfTypes
  <2>3. ConfTypes' /\ CatTypes' /\ LoadTypes' /\ CountTypes'
    BY <1>9, <1>conf, <1>cats, <1>load, <1>count
    DEF ConfTypes, CatTypes, LoadTypes, CountTypes,
        DzlogLock, Begin, ReadLock, Enter, Goto
  <2> QED
    BY <2>1, <2>2, <2>3 DEF TypeOK
<1>10. ASSUME NEW t \in Threads, PutMdcLock(t) PROVE TypeOK'
  BY <1>10, <1>lock, <1>conf, <1>cats, <1>thread, <1>load, <1>count, <1>inv
  DEF TypeOK, LockTypes, ConfTypes, CatTypes, ThreadTypes, LoadTypes,
      CountTypes,
      LockInv, EnvInv, Existing, PutMdcLock, Begin, ReadLock, Enter, Goto, Places
<1>mdc. ASSUME NEW t \in Threads, MdcLock(t) PROVE TypeOK'
  BY <1>mdc, <1>lock, <1>conf, <1>cats, <1>thread, <1>load, <1>count, <1>inv
  DEF TypeOK, LockTypes, ConfTypes, CatTypes, ThreadTypes, LoadTypes,
      CountTypes,
      LockInv, EnvInv, Existing, MdcLock, Begin, ReadLock, Enter, Goto, Places
<1>11. ASSUME NEW t \in Threads, ZlogReload(t) PROVE TypeOK'
  <2>1. LockTypes'
    BY <1>11, <1>lock
      DEF LockTypes, ZlogReload, Begin, LockFree, ReloadStarts,
          ReloadDoesNothing, Goto, Places
  <2>2. LoadTypes'
    BY <1>11, <1>load, <1>conf, <1>count, NewConfType
      DEF LoadTypes, ZlogReload, Begin, LockFree, ReloadStarts,
          ReloadDoesNothing, Goto, ConfTypes, CountTypes, Existing
  <2>3. ConfTypes' /\ CatTypes' /\ ThreadTypes' /\ CountTypes'
    BY <1>11, <1>conf, <1>cats, <1>thread, <1>count
    DEF ConfTypes, CatTypes, ThreadTypes, CountTypes,
        ZlogReload, Begin, LockFree, ReloadStarts, ReloadDoesNothing, Goto
  <2> QED
    BY <2>1, <2>2, <2>3 DEF TypeOK
<1>12. ASSUME NEW t \in Threads, ThreadExit(t) PROVE TypeOK'
  BY <1>12, <1>lock, <1>conf, <1>cats, <1>thread, <1>load, <1>count, <1>inv
  DEF TypeOK, LockTypes, ConfTypes, CatTypes, ThreadTypes, LoadTypes,
      CountTypes,
      LockInv, EnvInv, Existing, ThreadExit, Begin, Places
<1>13. ASSUME NEW t \in Threads, ZlogLock(t) PROVE TypeOK'
  BY <1>13, <1>lock, <1>conf, <1>cats, <1>thread, <1>load, <1>count, <1>inv
  DEF TypeOK, LockTypes, ConfTypes, CatTypes, ThreadTypes, LoadTypes,
      CountTypes,
      LockInv, EnvInv, Existing, ZlogLock, ReadLock, Goto, Places
<1>14. ASSUME NEW t \in Threads, FetchThread(t) PROVE TypeOK'
  <2>1. LockTypes'
    BY <1>14, <1>lock
      DEF LockTypes, FetchThread, Goto, Places
  <2>2. ThreadTypes'
    BY <1>14, <1>thread, FetchType
      DEF ThreadTypes, FetchThread, Goto
  <2>3. ConfTypes' /\ CatTypes' /\ LoadTypes' /\ CountTypes'
    BY <1>14, <1>conf, <1>cats, <1>load, <1>count
    DEF ConfTypes, CatTypes, LoadTypes, CountTypes,
        FetchThread, Goto
  <2> QED
    BY <2>1, <2>2, <2>3 DEF TypeOK
<1>15. ASSUME NEW t \in Threads, Output(t) PROVE TypeOK'
  BY <1>15, <1>lock, <1>conf, <1>cats, <1>thread, <1>load, <1>count, <1>inv
  DEF TypeOK, LockTypes, ConfTypes, CatTypes, ThreadTypes, LoadTypes,
      CountTypes,
      LockInv, EnvInv, Existing, Output, Goto, Places
<1>16. ASSUME NEW t \in Threads, CountLoad(t) PROVE TypeOK'
  BY <1>16, <1>lock, <1>conf, <1>cats, <1>thread, <1>load, <1>count, <1>inv
  DEF TypeOK, LockTypes, ConfTypes, CatTypes, ThreadTypes, LoadTypes,
      CountTypes,
      LockInv, EnvInv, Existing, CountLoad, Goto, Places
<1>17. ASSUME NEW t \in Threads, CountStore(t) PROVE TypeOK'
  BY <1>17, <1>lock, <1>conf, <1>cats, <1>thread, <1>load, <1>count, <1>inv
  DEF TypeOK, LockTypes, ConfTypes, CatTypes, ThreadTypes, LoadTypes,
      CountTypes,
      LockInv, EnvInv, Existing, CountStore, Leave, Goto, Places
<1>18. ASSUME NEW t \in Threads, Exit(t) PROVE TypeOK'
  BY <1>18, <1>lock, <1>conf, <1>cats, <1>thread, <1>load, <1>count, <1>inv
  DEF TypeOK, LockTypes, ConfTypes, CatTypes, ThreadTypes, LoadTypes,
      CountTypes,
      LockInv, EnvInv, Existing, Exit, Leave, Goto, Places
<1>19. ASSUME NEW t \in Threads, AutoReload(t) PROVE TypeOK'
  <2>1. LockTypes'
    BY <1>19, <1>lock
      DEF LockTypes, AutoReload, LockFree, ReloadStarts,
          ReloadDoesNothing, Goto, Places
  <2>2. LoadTypes'
    BY <1>19, <1>load, <1>conf, <1>count, NewConfType
      DEF LoadTypes, AutoReload, LockFree, ReloadStarts,
          ReloadDoesNothing, Goto, ConfTypes, CountTypes, Existing
  <2>3. ConfTypes' /\ CatTypes' /\ ThreadTypes' /\ CountTypes'
    BY <1>19, <1>conf, <1>cats, <1>thread, <1>count
    DEF ConfTypes, CatTypes, ThreadTypes, CountTypes,
        AutoReload, LockFree, ReloadStarts, ReloadDoesNothing, Goto
  <2> QED
    BY <2>1, <2>2, <2>3 DEF TypeOK
<1>20. ASSUME NEW t \in Threads, NEW c \in Categories, UpdateClear(t, c)
       PROVE  TypeOK'
  BY <1>20, <1>lock, <1>conf, <1>cats, <1>thread, <1>load, <1>count, <1>inv,
      ClearedType
  DEF TypeOK, LockTypes, ConfTypes, CatTypes, ThreadTypes, LoadTypes,
      CountTypes,
      LockInv, EnvInv, Existing, UpdateClear, Goto, Places, Existing
<1>21. ASSUME NEW t \in Threads, UpdateFill(t) PROVE TypeOK'
  <2>1. LockTypes'
    BY <1>21, <1>lock
      DEF LockTypes, UpdateFill, Goto, Places
  <2>2. CatTypes'
    BY <1>21, <1>cats, FillType
      DEF CatTypes, UpdateFill, Goto, Category
  <2>3. ConfTypes' /\ ThreadTypes' /\ LoadTypes' /\ CountTypes'
    BY <1>21, <1>conf, <1>thread, <1>load, <1>count
    DEF ConfTypes, ThreadTypes, LoadTypes, CountTypes,
        UpdateFill, Goto
  <2> QED
    BY <2>1, <2>2, <2>3 DEF TypeOK
<1>22. ASSUME NEW t \in Threads, UpdateFails(t) PROVE TypeOK'
  <2>1. LockTypes'
    BY <1>22, <1>lock
      DEF LockTypes, UpdateFails, Goto, Places
  <2>2. CatTypes'
    <3>1. PICK rs \in SUBSET FitRules(newConf.cf, filling) :
            cats' = [cats EXCEPT ![filling].levels = LevelsOf(newConf.cf, rs)]
      BY <1>22 DEF UpdateFails
    <3>2. LevelsOf(newConf.cf, rs) \in SUBSET Levels
          /\ cats[filling] \in Category /\ filling \in Categories
      BY <1>22, FillType DEF UpdateFails
    <3> QED
      BY <3>1, <3>2, <1>cats DEF CatTypes, Category
  <2>3. ConfTypes' /\ ThreadTypes' /\ LoadTypes' /\ CountTypes'
    BY <1>22, <1>conf, <1>thread, <1>load, <1>count
    DEF ConfTypes, ThreadTypes, LoadTypes, CountTypes,
        UpdateFails, Goto
  <2> QED
    BY <2>1, <2>2, <2>3 DEF TypeOK
<1>23. ASSUME NEW t \in Threads, ReloadCommit(t) PROVE TypeOK'
  BY <1>23, <1>lock, <1>conf, <1>cats, <1>thread, <1>load, <1>count, <1>inv,
      CommittedType
  DEF TypeOK, LockTypes, ConfTypes, CatTypes, ThreadTypes, LoadTypes,
      CountTypes,
      LockInv, EnvInv, Existing, ReloadCommit, Goto, Places
<1>25. ASSUME NEW t \in Threads, NEW l \in Levels, VdzlogTest(t, l)
       PROVE  TypeOK'
  <2>1. LockTypes'
    BY <1>25, <1>lock DEF LockTypes, VdzlogTest, Begin, Goto, Places
  <2>2. ThreadTypes' /\ ConfTypes' /\ CatTypes' /\ LoadTypes' /\ CountTypes'
    BY <1>25, <1>thread, <1>conf, <1>cats, <1>load, <1>count
    DEF ThreadTypes, ConfTypes, CatTypes, LoadTypes, CountTypes, VdzlogTest,
        Begin, Goto
  <2> QED
    BY <2>1, <2>2 DEF TypeOK
<1>26. ASSUME NEW t \in Threads, VdzlogLock(t) PROVE TypeOK'
  <2>1. LockTypes'
    BY <1>26, <1>lock DEF LockTypes, VdzlogLock, ReadLock, Enter, Goto, Places
  <2>2. ThreadTypes'
    BY <1>26, <1>thread, <1>conf
    DEF ThreadTypes, VdzlogLock, ReadLock, Enter, Goto, ConfTypes
  <2>3. ConfTypes' /\ CatTypes' /\ LoadTypes' /\ CountTypes'
    BY <1>26, <1>conf, <1>cats, <1>load, <1>count
    DEF ConfTypes, CatTypes, LoadTypes, CountTypes, VdzlogLock, ReadLock,
        Enter, Goto
  <2> QED
    BY <2>1, <2>2, <2>3 DEF TypeOK
<1>24. CASE UNCHANGED vars
  BY <1>24, <1>lock, <1>conf, <1>cats, <1>thread, <1>load, <1>count
  DEF vars, TypeOK, LockTypes, ConfTypes, CatTypes, ThreadTypes, LoadTypes,
      CountTypes
<1> QED
  BY <1>1, <1>2, <1>3, <1>4, <1>5, <1>6, <1>7, <1>8, <1>9, <1>10, <1>mdc, <1>11, <1>12,
     <1>13, <1>14, <1>15, <1>16, <1>17, <1>18, <1>19, <1>20, <1>21, <1>22, <1>23,
     <1>24, <1>25, <1>26
     DEF Next, Call, Continue

\* The initial state is well formed.
LEMMA TypeInvInit == Init => TypeInv
<1> SUFFICES ASSUME Init PROVE TypeInv
  OBVIOUS
<1> USE DEF Init
<1>1. LockTypes /\ CatTypes /\ ThreadTypes
  BY DEF LockTypes, CatTypes, ThreadTypes, Places
<1>2. ConfTypes
  BY NoFuncsType DEF ConfTypes
<1>3. LoadTypes /\ CountTypes
  BY DEF LoadTypes, CountTypes
<1>4. LockInv /\ EnvInv
  BY ZlogEnvAssumption DEF LockInv, EnvInv
<1> QED
  BY <1>1, <1>2, <1>3, <1>4 DEF TypeInv, TypeOK

\* The types, the lock and the pointers are right in every reachable state.
LEMMA TypeInvariant == Spec => []TypeInv
<1>1. TypeInv /\ [Next]_vars => TypeInv'
  BY LockStep, EnvStep, TypeStep DEF TypeInv
<1> QED
  BY TypeInvInit, <1>1, PTL DEF Spec

\* Every variable keeps its kind, whatever fails.
THEOREM TypeCorrect == Spec => []TypeOK
<1>1. TypeInv => TypeOK
  BY DEF TypeInv
<1> QED
  BY TypeInvariant, <1>1, PTL

\* Every step preserves FreshInv.
LEMMA FreshStep == TypeInv /\ FreshInv /\ [Next]_vars => FreshInv'
<1> SUFFICES ASSUME TypeInv /\ FreshInv, [Next]_vars PROVE FreshInv'
  OBVIOUS
<1>0. TypeOK /\ LockInv /\ EnvInv /\ FreshInv
  BY DEF TypeInv
<1> USE <1>0, ZlogEnvAssumption
    DEF TypeOK, LockTypes, ConfTypes, ThreadTypes, LockInv, EnvInv, FreshInv,
        SameSizes, ThreadObj, lockVars, confVars, progVars, loadVars, histVars
<1>1. ASSUME NEW t \in Threads, NEW cf \in Confs, ZlogInit(t, cf)
      PROVE  FreshInv'
  BY <1>1, FirstType DEF ZlogInit, Exclusive, Begin, LockFree, InitRefused,
      InitInnerFails, InitWith, CleanUp
<1>2. ASSUME NEW t \in Threads, NEW cf \in Confs, NEW c \in Categories,
             DzlogInit(t, cf, c)
      PROVE  FreshInv'
  BY <1>2, FirstType DEF DzlogInit, Exclusive, Begin, LockFree, InitRefused,
      InitInnerFails, InitWith, CleanUp
<1>3. ASSUME NEW t \in Threads, ZlogFini(t) PROVE FreshInv'
  BY <1>3 DEF ZlogFini, Exclusive, Begin, LockFree
<1>4. ASSUME NEW t \in Threads, NEW c \in Categories, ZlogGetCategory(t, c)
      PROVE  FreshInv'
  BY <1>4 DEF ZlogGetCategory, Exclusive, Begin, LockFree, FetchCategory
<1>5. ASSUME NEW t \in Threads, NEW c \in Categories, DzlogSetCategory(t, c)
      PROVE  FreshInv'
  BY <1>5 DEF DzlogSetCategory, Exclusive, Begin, LockFree, FetchCategory
<1>6. ASSUME NEW t \in Threads, NEW n \in RecNames, NEW f \in RecFns,
             ZlogSetRecord(t, n, f) PROVE FreshInv'
  BY <1>6 DEF ZlogSetRecord, Exclusive, Begin, LockFree, ConfObj
<1>7. ASSUME NEW t \in Threads, NEW c \in Categories, NEW l \in Levels,
             ZlogLevelSwitch(t, c, l) PROVE FreshInv'
  BY <1>7 DEF ZlogLevelSwitch, Begin
<1>8. ASSUME NEW t \in Threads, NEW c \in Categories, NEW l \in Levels,
             ZlogTest(t, c, l)
      PROVE  FreshInv'
  BY <1>8 DEF ZlogTest, Begin, Enter, Goto
<1>9. ASSUME NEW t \in Threads, NEW l \in Levels, DzlogLock(t, l)
      PROVE  FreshInv'
  BY <1>9 DEF DzlogLock, Begin, ReadLock, Enter, Goto
<1>10. ASSUME NEW t \in Threads, PutMdcLock(t) PROVE FreshInv'
  BY <1>10 DEF PutMdcLock, Begin, ReadLock, Enter, Goto
<1>mdc. ASSUME NEW t \in Threads, MdcLock(t) PROVE FreshInv'
  BY <1>mdc DEF MdcLock, Begin, ReadLock, Enter, Goto
<1>11. ASSUME NEW t \in Threads, ZlogReload(t) PROVE FreshInv'
  BY <1>11 DEF ZlogReload, Begin, LockFree, ReloadStarts, ReloadDoesNothing,
      Goto
<1>12. ASSUME NEW t \in Threads, ThreadExit(t) PROVE FreshInv'
  BY <1>12 DEF ThreadExit, Begin
<1>13. ASSUME NEW t \in Threads, ZlogLock(t) PROVE FreshInv'
  BY <1>13 DEF ZlogLock, ReadLock, Goto
<1>14. ASSUME NEW t \in Threads, FetchThread(t) PROVE FreshInv'
  BY <1>14, FetchFreshStep DEF TypeInv
<1>15. ASSUME NEW t \in Threads, Output(t) PROVE FreshInv'
  BY <1>15 DEF Output, Goto
<1>16. ASSUME NEW t \in Threads, CountLoad(t) PROVE FreshInv'
  BY <1>16 DEF CountLoad, Goto
<1>17. ASSUME NEW t \in Threads, CountStore(t) PROVE FreshInv'
  BY <1>17 DEF CountStore, Leave, Goto
<1>18. ASSUME NEW t \in Threads, Exit(t) PROVE FreshInv'
  BY <1>18 DEF Exit, Leave, Goto
<1>19. ASSUME NEW t \in Threads, AutoReload(t) PROVE FreshInv'
  BY <1>19 DEF AutoReload, LockFree, ReloadStarts, ReloadDoesNothing, Goto
<1>20. ASSUME NEW t \in Threads, NEW c \in Categories, UpdateClear(t, c)
       PROVE  FreshInv'
  BY <1>20 DEF UpdateClear, Goto
<1>21. ASSUME NEW t \in Threads, UpdateFill(t) PROVE FreshInv'
  BY <1>21 DEF UpdateFill, Goto
<1>22. ASSUME NEW t \in Threads, UpdateFails(t) PROVE FreshInv'
  BY <1>22 DEF UpdateFails, Goto
<1>23. ASSUME NEW t \in Threads, ReloadCommit(t) PROVE FreshInv'
  BY <1>23 DEF ReloadCommit, Goto
<1>25. ASSUME NEW t \in Threads, NEW l \in Levels, VdzlogTest(t, l)
       PROVE  FreshInv'
  BY <1>25 DEF VdzlogTest, Begin, Goto
<1>26. ASSUME NEW t \in Threads, VdzlogLock(t) PROVE FreshInv'
  BY <1>26 DEF VdzlogLock, ReadLock, Enter, Goto
<1>24. CASE UNCHANGED vars
  BY <1>24 DEF vars
<1> QED
  BY <1>1, <1>2, <1>3, <1>4, <1>5, <1>6, <1>7, <1>8, <1>9, <1>10, <1>mdc, <1>11, <1>12,
     <1>13, <1>14, <1>15, <1>16, <1>17, <1>18, <1>19, <1>20, <1>21, <1>22, <1>23,
     <1>24, <1>25, <1>26
     DEF Next, Call, Continue

\* A version number never stands for two sizes.
LEMMA FreshInvariant == Spec => []FreshInv
<1>1. Init => FreshInv
  BY DEF Init, FreshInv
<1> QED
  BY TypeInvariant, <1>1, FreshStep, PTL DEF Spec

\* A message is always formatted with buffers and a time cache of the sizes the
\* configuration in force asks for (zlog_fetch_thread): the inductive invariant
\* says that a version number never stands for two configurations.
THEOREM FreshThreadUsed == Spec => []UsesFreshThread
<1>1. TypeInv /\ FreshInv => UsesFreshThread
  BY DEF TypeInv, EnvInv, FreshInv, UsesFreshThread, SameSizes
<1> QED
  BY TypeInvariant, FreshInvariant, <1>1, PTL

ReaderStable == readers # {} => UNCHANGED <<confVars, cats>>

\* A step taken while someone reads leaves the environment alone.
LEMMA ReaderStep == TypeInv /\ [Next]_vars => ReaderStable
<1> SUFFICES ASSUME TypeInv, [Next]_vars PROVE ReaderStable
  OBVIOUS
<1>0. LockTypes /\ LockInv
  BY DEF TypeInv, TypeOK
<1> USE <1>0, ZlogEnvAssumption
    DEF LockTypes, LockInv, ReaderStable, lockVars, confVars, progVars,
        loadVars, histVars
<1>1. ASSUME NEW t \in Threads, NEW cf \in Confs, ZlogInit(t, cf)
      PROVE  ReaderStable
  BY <1>1 DEF ZlogInit, Exclusive, Begin, LockFree, InitRefused,
      InitInnerFails, InitWith, CleanUp
<1>2. ASSUME NEW t \in Threads, NEW cf \in Confs, NEW c \in Categories,
             DzlogInit(t, cf, c)
      PROVE  ReaderStable
  BY <1>2 DEF DzlogInit, Exclusive, Begin, LockFree, InitRefused,
      InitInnerFails, InitWith, CleanUp
<1>3. ASSUME NEW t \in Threads, ZlogFini(t) PROVE ReaderStable
  BY <1>3 DEF ZlogFini, Exclusive, Begin, LockFree
<1>4. ASSUME NEW t \in Threads, NEW c \in Categories, ZlogGetCategory(t, c)
      PROVE  ReaderStable
  BY <1>4 DEF ZlogGetCategory, Exclusive, Begin, LockFree, FetchCategory
<1>5. ASSUME NEW t \in Threads, NEW c \in Categories, DzlogSetCategory(t, c)
      PROVE  ReaderStable
  BY <1>5 DEF DzlogSetCategory, Exclusive, Begin, LockFree, FetchCategory
<1>6. ASSUME NEW t \in Threads, NEW n \in RecNames, NEW f \in RecFns,
             ZlogSetRecord(t, n, f) PROVE ReaderStable
  BY <1>6 DEF ZlogSetRecord, Exclusive, Begin, LockFree
<1>7. ASSUME NEW t \in Threads, NEW c \in Categories, NEW l \in Levels,
             ZlogLevelSwitch(t, c, l) PROVE ReaderStable
  BY <1>7 DEF ZlogLevelSwitch, Begin
<1>8. ASSUME NEW t \in Threads, NEW c \in Categories, NEW l \in Levels,
             ZlogTest(t, c, l)
      PROVE  ReaderStable
  BY <1>8 DEF ZlogTest, Begin, Enter, Goto
<1>9. ASSUME NEW t \in Threads, NEW l \in Levels, DzlogLock(t, l)
      PROVE  ReaderStable
  BY <1>9 DEF DzlogLock, Begin, ReadLock, Enter, Goto
<1>10. ASSUME NEW t \in Threads, PutMdcLock(t) PROVE ReaderStable
  BY <1>10 DEF PutMdcLock, Begin, ReadLock, Enter, Goto
<1>mdc. ASSUME NEW t \in Threads, MdcLock(t) PROVE ReaderStable
  BY <1>mdc DEF MdcLock, Begin, ReadLock, Enter, Goto
<1>11. ASSUME NEW t \in Threads, ZlogReload(t) PROVE ReaderStable
  BY <1>11 DEF ZlogReload, Begin, LockFree, ReloadStarts, ReloadDoesNothing,
      Goto
<1>12. ASSUME NEW t \in Threads, ThreadExit(t) PROVE ReaderStable
  BY <1>12 DEF ThreadExit, Begin
<1>13. ASSUME NEW t \in Threads, ZlogLock(t) PROVE ReaderStable
  BY <1>13 DEF ZlogLock, ReadLock, Goto
<1>14. ASSUME NEW t \in Threads, FetchThread(t) PROVE ReaderStable
  BY <1>14 DEF FetchThread, Goto
<1>15. ASSUME NEW t \in Threads, Output(t) PROVE ReaderStable
  BY <1>15 DEF Output, Goto
<1>16. ASSUME NEW t \in Threads, CountLoad(t) PROVE ReaderStable
  BY <1>16 DEF CountLoad, Goto
<1>17. ASSUME NEW t \in Threads, CountStore(t) PROVE ReaderStable
  BY <1>17 DEF CountStore, Leave, Goto
<1>18. ASSUME NEW t \in Threads, Exit(t) PROVE ReaderStable
  BY <1>18 DEF Exit, Leave, Goto
<1>19. ASSUME NEW t \in Threads, AutoReload(t) PROVE ReaderStable
  BY <1>19 DEF AutoReload, LockFree, ReloadStarts, ReloadDoesNothing, Goto
<1>20. ASSUME NEW t \in Threads, NEW c \in Categories, UpdateClear(t, c)
       PROVE  ReaderStable
  BY <1>20 DEF UpdateClear, Goto
<1>21. ASSUME NEW t \in Threads, UpdateFill(t) PROVE ReaderStable
  BY <1>21 DEF UpdateFill, Goto
<1>22. ASSUME NEW t \in Threads, UpdateFails(t) PROVE ReaderStable
  BY <1>22 DEF UpdateFails, Goto
<1>23. ASSUME NEW t \in Threads, ReloadCommit(t) PROVE ReaderStable
  BY <1>23 DEF ReloadCommit, Goto
<1>25. ASSUME NEW t \in Threads, NEW l \in Levels, VdzlogTest(t, l)
       PROVE  ReaderStable
  BY <1>25 DEF VdzlogTest, Begin, Goto
<1>26. ASSUME NEW t \in Threads, VdzlogLock(t) PROVE ReaderStable
  BY <1>26 DEF VdzlogLock, ReadLock, Enter, Goto
<1>24. CASE UNCHANGED vars
  BY <1>24 DEF vars
<1> QED
  BY <1>1, <1>2, <1>3, <1>4, <1>5, <1>6, <1>7, <1>8, <1>9, <1>10, <1>mdc, <1>11, <1>12,
     <1>13, <1>14, <1>15, <1>16, <1>17, <1>18, <1>19, <1>20, <1>21, <1>22, <1>23,
     <1>24, <1>25, <1>26
     DEF Next, Call, Continue

\* No step of any thread changes the environment, or a category, under a thread
\* that holds the read lock.
THEOREM ReadersProtected == Spec => ReadersSeeOneEnv
<1>1. TypeInv /\ [Next]_vars => [readers # {} => UNCHANGED <<confVars, cats>>]_vars
  BY ReaderStep DEF ReaderStable
<1> QED
  BY TypeInvariant, <1>1, PTL DEF Spec, ReadersSeeOneEnv

VersionStep == isInit' /\ (isInit => env'.id # env.id) => version' > version

\* A step that puts another configuration object in force raises the version.
LEMMA VersionStepHolds == TypeInv /\ [Next]_vars => VersionStep
<1> SUFFICES ASSUME TypeInv, [Next]_vars PROVE VersionStep
  OBVIOUS
<1>0. ConfTypes /\ EnvInv
  BY DEF TypeInv, TypeOK
<1> USE <1>0, ZlogEnvAssumption
    DEF ConfTypes, EnvInv, VersionStep, lockVars, confVars, progVars,
        loadVars, histVars
<1>1. ASSUME NEW t \in Threads, NEW cf \in Confs, ZlogInit(t, cf)
      PROVE  VersionStep
  <2>1. FirstVersion \in Nat /\ FirstVersion >= version
    BY FirstType
  <2>2. \/ isInit /\ env' = env
        \/ ~isInit'
        \/ version' = FirstVersion + 1
    BY <1>1 DEF ZlogInit, InitRefused, InitInnerFails, InitWith, CleanUp
  <2> QED
    BY <2>1, <2>2
<1>2. ASSUME NEW t \in Threads, NEW cf \in Confs, NEW c \in Categories,
             DzlogInit(t, cf, c)
      PROVE  VersionStep
  <2>1. FirstVersion \in Nat /\ FirstVersion >= version
    BY FirstType
  <2>2. \/ isInit /\ env' = env
        \/ ~isInit'
        \/ version' = FirstVersion + 1
    BY <1>2 DEF DzlogInit, InitRefused, InitInnerFails, InitWith, CleanUp
  <2> QED
    BY <2>1, <2>2
<1>3. ASSUME NEW t \in Threads, ZlogFini(t) PROVE VersionStep
  BY <1>3 DEF ZlogFini, Exclusive, Begin, LockFree
<1>4. ASSUME NEW t \in Threads, NEW c \in Categories, ZlogGetCategory(t, c)
      PROVE  VersionStep
  BY <1>4 DEF ZlogGetCategory, Exclusive, Begin, LockFree, FetchCategory
<1>5. ASSUME NEW t \in Threads, NEW c \in Categories, DzlogSetCategory(t, c)
      PROVE  VersionStep
  BY <1>5 DEF DzlogSetCategory, Exclusive, Begin, LockFree, FetchCategory
<1>6. ASSUME NEW t \in Threads, NEW n \in RecNames, NEW f \in RecFns,
             ZlogSetRecord(t, n, f) PROVE VersionStep
  BY <1>6 DEF ZlogSetRecord, Exclusive, Begin, LockFree, ConfObj
<1>7. ASSUME NEW t \in Threads, NEW c \in Categories, NEW l \in Levels,
             ZlogLevelSwitch(t, c, l) PROVE VersionStep
  BY <1>7 DEF ZlogLevelSwitch, Begin
<1>8. ASSUME NEW t \in Threads, NEW c \in Categories, NEW l \in Levels,
             ZlogTest(t, c, l)
      PROVE  VersionStep
  BY <1>8 DEF ZlogTest, Begin, Enter, Goto
<1>9. ASSUME NEW t \in Threads, NEW l \in Levels, DzlogLock(t, l)
      PROVE  VersionStep
  BY <1>9 DEF DzlogLock, Begin, ReadLock, Enter, Goto
<1>10. ASSUME NEW t \in Threads, PutMdcLock(t) PROVE VersionStep
  BY <1>10 DEF PutMdcLock, Begin, ReadLock, Enter, Goto
<1>mdc. ASSUME NEW t \in Threads, MdcLock(t) PROVE VersionStep
  BY <1>mdc DEF MdcLock, Begin, ReadLock, Enter, Goto
<1>11. ASSUME NEW t \in Threads, ZlogReload(t) PROVE VersionStep
  BY <1>11 DEF ZlogReload, Begin, LockFree, ReloadStarts, ReloadDoesNothing,
      Goto
<1>12. ASSUME NEW t \in Threads, ThreadExit(t) PROVE VersionStep
  BY <1>12 DEF ThreadExit, Begin
<1>13. ASSUME NEW t \in Threads, ZlogLock(t) PROVE VersionStep
  BY <1>13 DEF ZlogLock, ReadLock, Goto
<1>14. ASSUME NEW t \in Threads, FetchThread(t) PROVE VersionStep
  BY <1>14 DEF FetchThread, Goto
<1>15. ASSUME NEW t \in Threads, Output(t) PROVE VersionStep
  BY <1>15 DEF Output, Goto
<1>16. ASSUME NEW t \in Threads, CountLoad(t) PROVE VersionStep
  BY <1>16 DEF CountLoad, Goto
<1>17. ASSUME NEW t \in Threads, CountStore(t) PROVE VersionStep
  BY <1>17 DEF CountStore, Leave, Goto
<1>18. ASSUME NEW t \in Threads, Exit(t) PROVE VersionStep
  BY <1>18 DEF Exit, Leave, Goto
<1>19. ASSUME NEW t \in Threads, AutoReload(t) PROVE VersionStep
  BY <1>19 DEF AutoReload, LockFree, ReloadStarts, ReloadDoesNothing, Goto
<1>20. ASSUME NEW t \in Threads, NEW c \in Categories, UpdateClear(t, c)
       PROVE  VersionStep
  BY <1>20 DEF UpdateClear, Goto
<1>21. ASSUME NEW t \in Threads, UpdateFill(t) PROVE VersionStep
  BY <1>21 DEF UpdateFill, Goto
<1>22. ASSUME NEW t \in Threads, UpdateFails(t) PROVE VersionStep
  BY <1>22 DEF UpdateFails, Goto
<1>23. ASSUME NEW t \in Threads, ReloadCommit(t) PROVE VersionStep
  BY <1>23 DEF ReloadCommit, Goto
<1>25. ASSUME NEW t \in Threads, NEW l \in Levels, VdzlogTest(t, l)
       PROVE  VersionStep
  BY <1>25 DEF VdzlogTest, Begin, Goto
<1>26. ASSUME NEW t \in Threads, VdzlogLock(t) PROVE VersionStep
  BY <1>26 DEF VdzlogLock, ReadLock, Enter, Goto
<1>24. CASE UNCHANGED vars
  BY <1>24 DEF vars
<1> QED
  BY <1>1, <1>2, <1>3, <1>4, <1>5, <1>6, <1>7, <1>8, <1>9, <1>10, <1>mdc, <1>11, <1>12,
     <1>13, <1>14, <1>15, <1>16, <1>17, <1>18, <1>19, <1>20, <1>21, <1>22, <1>23,
     <1>24, <1>25, <1>26
     DEF Next, Call, Continue

\* A configuration object is never put in force without a new version.
THEOREM VersionGrows == Spec => VersionTracksConf
<1>1. TypeInv /\ [Next]_vars
        => [isInit' /\ (isInit => env'.id # env.id) => version' > version]_vars
  BY VersionStepHolds DEF VersionStep
<1> QED
  BY TypeInvariant, <1>1, PTL DEF Spec, VersionTracksConf

-----------------------------------------------------------------------------
(* Categories.  When no update fails, each category of a running reload is *)
(* in one of three states: not touched, cut from its old list, or moved.   *)

Stable(c) ==
  /\ cats[c].fit = ListOf(env, c)
  /\ cats[c].fitBack = Null
  /\ c \notin switched => cats[c].levels = LevelsOf(env.cf, FitRules(env.cf, c))

Cut(c) == cats[c].fit = Null /\ cats[c].fitBack = ListOf(env, c)

Moved(c) ==
  /\ cats[c].fit = ListOf(newConf, c)
  /\ cats[c].fitBack = ListOf(env, c)
  /\ cats[c].levels = LevelsOf(newConf.cf, FitRules(newConf.cf, c))
  /\ c \notin switched

CatInv ==
  isInit => \A c \in Existing :
    /\ c = filling => Cut(c)
    /\ c # filling /\ (writer = Null \/ c \in todo) => Stable(c)
    /\ c # filling /\ writer # Null /\ c \notin todo => Moved(c)

\* Starting a reload, or failing to, disturbs no category.
LEMMA StartCat ==
  ASSUME TypeInv, CatInv, NEW t \in Threads, LockFree, isInit, ReloadStarts(t)
  PROVE  CatInv'
<1>1. /\ filling = Null /\ writer = Null
      /\ UNCHANGED <<cats, env, filling, switched>>
  BY DEF TypeInv, EnvInv, LockFree, ReloadStarts, confVars
<1>2. \A c \in Existing : Stable(c)
  BY <1>1, ZlogEnvAssumption DEF CatInv, Existing
<1>3. \A c \in Existing' : c \in Existing /\ c # filling' /\ Stable(c)'
  BY <1>1, <1>2, ZlogEnvAssumption DEF Existing, Stable
<1>4. writer' = Null \/ todo' = Existing'
  BY <1>1 DEF ReloadStarts, Existing
<1> QED
  BY <1>3, <1>4 DEF CatInv

\* A commit makes every category stable under the new configuration.
LEMMA CommitCat ==
  ASSUME TypeInv, CatInv, NEW t \in Threads, ReloadCommit(t)
  PROVE  CatInv'
<1>1. /\ env \in ConfObj /\ newConf \in ConfObj /\ filling = Null
      /\ writer # Null /\ isInit /\ todo = {}
  BY ZlogEnvAssumption
     DEF TypeInv, TypeOK, LockTypes, ConfTypes, LoadTypes, LockInv, EnvInv,
         ReloadCommit
<1>2. \A c \in Existing : Moved(c)
  BY <1>1, ZlogEnvAssumption DEF CatInv, Existing
<1>3. /\ env' = newConf /\ writer' = Null /\ UNCHANGED <<filling, switched>>
      /\ cats' = [c \in Categories |-> Committed(cats[c])]
  BY DEF ReloadCommit, histVars
<1>4. \A c \in Categories : cats[c] \in Category \cup {Null}
  BY DEF TypeInv, TypeOK, CatTypes
<1>5. Existing' = Existing
  BY <1>3, <1>4, CommittedType DEF Existing
<1>6. ASSUME NEW c \in Existing PROVE Stable(c)'
  <2>1. cats[c].fitBack # Null /\ cats[c] \in Category
    BY <1>1, <1>2, <1>4, ListType, ZlogEnvAssumption DEF Moved, Existing
  <2>2. cats'[c] = [cats[c] EXCEPT !.fitBack = Null, !.levelsBack = {}]
    BY <1>3, <2>1, ZlogEnvAssumption DEF Existing, Committed
  <2> QED
    BY <1>2, <1>3, <2>1, <2>2 DEF Stable, Moved, Category
<1> QED
  BY <1>1, <1>3, <1>5, <1>6, ZlogEnvAssumption DEF CatInv, Existing

\* dzlog_init makes a table of at most one category, which is stable.
LEMMA DzlogInitCat ==
  ASSUME TypeInv, CatInv, NEW t \in Threads, NEW cf \in Confs,
         NEW c \in Categories, DzlogInit(t, cf, c)
  PROVE  CatInv'
<1>1. filling = Null /\ UNCHANGED <<writer, filling>> /\ writer = Null
  BY DEF TypeInv, EnvInv, DzlogInit, Exclusive, LockFree, lockVars, loadVars
<1>2. CASE InitRefused
  BY <1>1, <1>2, ZlogEnvAssumption
     DEF CatInv, InitRefused, confVars, histVars, Existing, Stable
<1>3. CASE ~isInit'
  BY <1>3 DEF CatInv
<1>4. CASE /\ InitWith(cf)
           /\ cats' = [[d \in Categories |-> Null] EXCEPT
                         ![c] = NewCategory(NewConf(cf, NoFuncs), c)]
  <2>1. NewConf(cf, NoFuncs).cf = cf /\ env' = NewConf(cf, NoFuncs)
    BY <1>4 DEF InitWith, NewConf
  <2>2. \A d \in Existing' : d = c /\ d # filling'
    BY <1>1, <1>4, ZlogEnvAssumption DEF Existing
  <2>3. Stable(c)'
    BY <1>4, <2>1 DEF Stable, NewCategory
  <2> QED
    BY <1>1, <2>2, <2>3 DEF CatInv
<1>5. InitInnerFails => ~isInit'
  BY DEF InitInnerFails, CleanUp
<1>6. ~isInit /\ UNCHANGED isInit => ~isInit'
  OBVIOUS
<1> QED
  BY <1>2, <1>3, <1>4, <1>5, <1>6 DEF DzlogInit, InitWith

\* Every step moves the categories between the three states as described.
LEMMA CatStep == ("update" \notin Failable) /\ TypeInv /\ CatInv /\ [Next]_vars => CatInv'
<1> SUFFICES ASSUME ("update" \notin Failable) /\ TypeInv /\ CatInv,
       [Next]_vars
PROVE  CatInv'
  OBVIOUS
<1>0. TypeOK /\ LockInv /\ EnvInv /\ CatInv /\ "update" \notin Failable
  BY DEF TypeInv
<1> USE <1>0, ZlogEnvAssumption
    DEF TypeOK, LockTypes, ConfTypes, CatTypes, LoadTypes, LockInv, EnvInv,
        Existing, CatInv, Stable, Cut, Moved, lockVars, confVars, progVars, loadVars, histVars
<1>1. ASSUME NEW t \in Threads, NEW cf \in Confs, ZlogInit(t, cf) PROVE CatInv'
  BY <1>1, NewConfType DEF ZlogInit, Exclusive, Begin, LockFree, InitRefused,
      InitInnerFails, InitWith, CleanUp
<1>2. ASSUME NEW t \in Threads, NEW cf \in Confs, NEW c \in Categories,
             DzlogInit(t, cf, c)
      PROVE  CatInv'
  BY <1>2, DzlogInitCat DEF TypeInv
<1>3. ASSUME NEW t \in Threads, ZlogFini(t) PROVE CatInv'
  BY <1>3 DEF ZlogFini, Exclusive, Begin, LockFree
<1>4. ASSUME NEW t \in Threads, NEW c \in Categories, ZlogGetCategory(t, c)
      PROVE  CatInv'
  BY <1>4 DEF ZlogGetCategory, Exclusive, Begin, LockFree, FetchCategory,
      NewCategory
<1>5. ASSUME NEW t \in Threads, NEW c \in Categories, DzlogSetCategory(t, c)
      PROVE  CatInv'
  BY <1>5 DEF DzlogSetCategory, Exclusive, Begin, LockFree, FetchCategory,
      NewCategory
<1>6. ASSUME NEW t \in Threads, NEW n \in RecNames, NEW f \in RecFns,
             ZlogSetRecord(t, n, f) PROVE CatInv'
  BY <1>6 DEF ZlogSetRecord, Exclusive, Begin, LockFree, ConfObj, ListOf
<1>7. ASSUME NEW t \in Threads, NEW c \in Categories, NEW l \in Levels,
             ZlogLevelSwitch(t, c, l) PROVE CatInv'
  BY <1>7 DEF ZlogLevelSwitch, Begin, Category
<1>8. ASSUME NEW t \in Threads, NEW c \in Categories, NEW l \in Levels,
             ZlogTest(t, c, l)
      PROVE  CatInv'
  BY <1>8 DEF ZlogTest, Begin, Enter, Goto
<1>9. ASSUME NEW t \in Threads, NEW l \in Levels, DzlogLock(t, l) PROVE CatInv'
  BY <1>9 DEF DzlogLock, Begin, ReadLock, Enter, Goto
<1>10. ASSUME NEW t \in Threads, PutMdcLock(t) PROVE CatInv'
  BY <1>10 DEF PutMdcLock, Begin, ReadLock, Enter, Goto
<1>mdc. ASSUME NEW t \in Threads, MdcLock(t) PROVE CatInv'
  BY <1>mdc DEF MdcLock, Begin, ReadLock, Enter, Goto
<1>11. ASSUME NEW t \in Threads, ZlogReload(t) PROVE CatInv'
  <2>1. CASE isInit
    BY <1>11, <2>1, StartCat DEF ZlogReload, TypeInv
  <2>2. CASE ~isInit
    BY <1>11, <2>2 DEF ZlogReload, ReloadDoesNothing
  <2> QED
    BY <2>1, <2>2
<1>12. ASSUME NEW t \in Threads, ThreadExit(t) PROVE CatInv'
  BY <1>12 DEF ThreadExit, Begin
<1>13. ASSUME NEW t \in Threads, ZlogLock(t) PROVE CatInv'
  BY <1>13 DEF ZlogLock, ReadLock, Goto
<1>14. ASSUME NEW t \in Threads, FetchThread(t) PROVE CatInv'
  BY <1>14 DEF FetchThread, Goto
<1>15. ASSUME NEW t \in Threads, Output(t) PROVE CatInv'
  BY <1>15 DEF Output, Goto
<1>16. ASSUME NEW t \in Threads, CountLoad(t) PROVE CatInv'
  BY <1>16 DEF CountLoad, Goto
<1>17. ASSUME NEW t \in Threads, CountStore(t) PROVE CatInv'
  BY <1>17 DEF CountStore, Leave, Goto
<1>18. ASSUME NEW t \in Threads, Exit(t) PROVE CatInv'
  BY <1>18 DEF Exit, Leave, Goto
<1>19. ASSUME NEW t \in Threads, AutoReload(t) PROVE CatInv'
  <2>1. CASE isInit /\ count > env.cf.period
    BY <1>19, <2>1, StartCat DEF AutoReload, TypeInv
  <2>2. CASE ~(isInit /\ count > env.cf.period)
    <3>1. ReloadDoesNothing(t)
      BY <1>19, <2>2 DEF AutoReload
    <3> QED
      BY <3>1 DEF ReloadDoesNothing
  <2> QED
    BY <2>1, <2>2
<1>20. ASSUME NEW t \in Threads, NEW c \in Categories, UpdateClear(t, c)
       PROVE  CatInv'
  BY <1>20 DEF UpdateClear, Goto, Cleared
<1>21. ASSUME NEW t \in Threads, UpdateFill(t) PROVE CatInv'
  BY <1>21 DEF UpdateFill, Goto
<1>22. ASSUME NEW t \in Threads, UpdateFails(t) PROVE CatInv'
  BY <1>22 DEF UpdateFails, Goto, MayFail
<1>23. ASSUME NEW t \in Threads, ReloadCommit(t) PROVE CatInv'
  BY <1>23, CommitCat DEF TypeInv
<1>25. ASSUME NEW t \in Threads, NEW l \in Levels, VdzlogTest(t, l)
       PROVE  CatInv'
  BY <1>25 DEF VdzlogTest, Begin, Goto
<1>26. ASSUME NEW t \in Threads, VdzlogLock(t) PROVE CatInv'
  BY <1>26 DEF VdzlogLock, ReadLock, Enter, Goto
<1>24. CASE UNCHANGED vars
  BY <1>24 DEF vars
<1> QED
  BY <1>1, <1>2, <1>3, <1>4, <1>5, <1>6, <1>7, <1>8, <1>9, <1>10, <1>mdc, <1>11, <1>12,
     <1>13, <1>14, <1>15, <1>16, <1>17, <1>18, <1>19, <1>20, <1>21, <1>22, <1>23,
     <1>24, <1>25, <1>26
     DEF Next, Call, Continue

CatsHold == "update" \notin Failable => CatInv

\* CatInv, in every reachable state, when no update fails.
LEMMA CatInvariant == Spec => []CatsHold
<1>1. Init => CatsHold
  BY DEF Init, CatsHold, CatInv
<1>2. TypeInv /\ CatsHold /\ [Next]_vars => CatsHold'
  BY CatStep DEF CatsHold
<1> QED
  BY TypeInvariant, <1>1, <1>2, PTL DEF Spec

\* If no rule list of an update fails, outside of a reload every category logs
\* through the list the configuration in force gives it: no reload, complete,
\* refused or failed, leaves a category with freed rules.
THEOREM ServedCurrent ==
  ASSUME "update" \notin Failable
  PROVE  Spec => []ServedByCurrentConf
<1>1. TypeInv /\ CatsHold => ServedByCurrentConf
  BY ZlogEnvAssumption
     DEF TypeInv, EnvInv, CatsHold, CatInv, Stable, ServedByCurrentConf,
         Settled, Existing
<1> QED
  BY TypeInvariant, CatInvariant, <1>1, PTL

\* Under the same condition the level test without the lock is exact outside of
\* a reload, for every category zlog_level_switch has not overridden.
THEOREM LevelTestExact ==
  ASSUME "update" \notin Failable
  PROVE  Spec => []BitmapExact
<1>1. ASSUME TypeInv, CatsHold, Settled,
             NEW c \in Existing \ switched, NEW l \in Levels
      PROVE  l \in cats[c].levels
               <=> Emitting(env.cf, FitRules(env.cf, c), l) # {}
  <2>1. cats[c].levels = LevelsOf(env.cf, FitRules(env.cf, c))
    BY <1>1, ZlogEnvAssumption
       DEF TypeInv, EnvInv, CatsHold, CatInv, Stable, Settled, Existing
  <2> QED
    BY <2>1 DEF LevelsOf, Emitting
<1>2. TypeInv /\ CatsHold => BitmapExact
  BY <1>1 DEF BitmapExact
<1> QED
  BY TypeInvariant, CatInvariant, <1>2, PTL

-----------------------------------------------------------------------------
(* Records and the default category.                                       *)

\* The record functions of every configuration object that is or will be in
\* force are the registered ones, and the one to come is another object.
ConfInv ==
  /\ env # Null => env.id <= made
  /\ isInit => env.funcs = records
  /\ newConf # Null =>
       /\ writer # Null /\ newConf.funcs = records
       /\ newConf.id > env.id /\ newConf.id <= made

\* Every step preserves ConfInv.
LEMMA ConfStep == TypeInv /\ ConfInv /\ [Next]_vars => ConfInv'
<1> SUFFICES ASSUME TypeInv, ConfInv, [Next]_vars PROVE ConfInv'
  OBVIOUS
<1>type. ConfTypes /\ LoadTypes /\ CountTypes /\ EnvInv /\ ConfInv
  BY DEF TypeInv, TypeOK
<1> USE <1>type, ZlogEnvAssumption
    DEF ConfTypes, LoadTypes, CountTypes, EnvInv, ConfInv, ConfObj, lockVars, confVars,
        progVars, loadVars, histVars
<1>1. ASSUME NEW t \in Threads, NEW cf \in Confs, ZlogInit(t, cf)
      PROVE  ConfInv'
  BY <1>1, NewConfType, NoFuncsType DEF ZlogInit, Exclusive, Begin, LockFree,
    InitRefused, InitInnerFails, InitWith, CleanUp, NewConf
<1>2. ASSUME NEW t \in Threads, NEW cf \in Confs, NEW c \in Categories, DzlogInit(t, cf, c)
      PROVE  ConfInv'
  BY <1>2, NewConfType, NoFuncsType, ListType DEF DzlogInit, Exclusive, Begin, LockFree,
    InitRefused, InitInnerFails, InitWith, CleanUp, NewConf
<1>3. ASSUME NEW t \in Threads, ZlogFini(t)
      PROVE  ConfInv'
  BY <1>3 DEF ZlogFini, Exclusive, Begin, LockFree
<1>4. ASSUME NEW t \in Threads, NEW c \in Categories, ZlogGetCategory(t, c)
      PROVE  ConfInv'
  BY <1>4, ListType DEF ZlogGetCategory, Exclusive, Begin, LockFree, FetchCategory
<1>5. ASSUME NEW t \in Threads, NEW c \in Categories, DzlogSetCategory(t, c)
      PROVE  ConfInv'
  BY <1>5, ListType DEF DzlogSetCategory, Exclusive, Begin, LockFree, FetchCategory
<1>6. ASSUME NEW t \in Threads, NEW n \in RecNames, NEW f \in RecFns, ZlogSetRecord(t, n,
             f)
      PROVE  ConfInv'
  BY <1>6, RecordType DEF ZlogSetRecord, Exclusive, Begin, LockFree
<1>7. ASSUME NEW t \in Threads, NEW c \in Categories, NEW l \in Levels, ZlogLevelSwitch(t,
             c, l)
      PROVE  ConfInv'
  BY <1>7 DEF ZlogLevelSwitch, Begin
<1>8. ASSUME NEW t \in Threads, NEW c \in Categories, NEW l \in Levels, ZlogTest(t, c, l)
      PROVE  ConfInv'
  BY <1>8 DEF ZlogTest, Begin, Enter, Goto
<1>9. ASSUME NEW t \in Threads, NEW l \in Levels, DzlogLock(t, l)
      PROVE  ConfInv'
  BY <1>9 DEF DzlogLock, Begin, ReadLock, Enter, Goto
<1>10. ASSUME NEW t \in Threads, PutMdcLock(t)
       PROVE  ConfInv'
  BY <1>10 DEF PutMdcLock, Begin, ReadLock, Enter, Goto
<1>11. ASSUME NEW t \in Threads, MdcLock(t)
       PROVE  ConfInv'
  BY <1>11 DEF MdcLock, Begin, ReadLock, Enter, Goto
<1>12. ASSUME NEW t \in Threads, ZlogReload(t)
       PROVE  ConfInv'
  BY <1>12, NewConfType DEF ZlogReload, Begin, LockFree, ReloadStarts, ReloadDoesNothing,
    Goto, NewConf
<1>13. ASSUME NEW t \in Threads, ThreadExit(t)
       PROVE  ConfInv'
  BY <1>13 DEF ThreadExit, Begin
<1>14. ASSUME NEW t \in Threads, ZlogLock(t)
       PROVE  ConfInv'
  BY <1>14 DEF ZlogLock, ReadLock, Goto
<1>15. ASSUME NEW t \in Threads, FetchThread(t)
       PROVE  ConfInv'
  BY <1>15 DEF FetchThread, Goto
<1>16. ASSUME NEW t \in Threads, Output(t)
       PROVE  ConfInv'
  BY <1>16 DEF Output, Goto
<1>17. ASSUME NEW t \in Threads, CountLoad(t)
       PROVE  ConfInv'
  BY <1>17 DEF CountLoad, Goto
<1>18. ASSUME NEW t \in Threads, CountStore(t)
       PROVE  ConfInv'
  BY <1>18 DEF CountStore, Leave, Goto
<1>19. ASSUME NEW t \in Threads, Exit(t)
       PROVE  ConfInv'
  BY <1>19 DEF Exit, Leave, Goto
<1>20. ASSUME NEW t \in Threads, AutoReload(t)
       PROVE  ConfInv'
  BY <1>20, NewConfType DEF AutoReload, LockFree, ReloadStarts, ReloadDoesNothing, Goto,
    NewConf
<1>21. ASSUME NEW t \in Threads, NEW c \in Categories, UpdateClear(t, c)
       PROVE  ConfInv'
  BY <1>21, ClearedType DEF UpdateClear, Goto
<1>22. ASSUME NEW t \in Threads, UpdateFill(t)
       PROVE  ConfInv'
  BY <1>22, FillType DEF UpdateFill, Goto
<1>23. ASSUME NEW t \in Threads, UpdateFails(t)
       PROVE  ConfInv'
  BY <1>23, FillType DEF UpdateFails, Goto
<1>24. ASSUME NEW t \in Threads, ReloadCommit(t)
       PROVE  ConfInv'
  <2>1. newConf # Null /\ writer # Null
    BY <1>24 DEF TypeInv, TypeOK, LockTypes, LockInv, ReloadCommit
  <2> QED
    BY <1>24, <2>1 DEF ReloadCommit
<1>25. ASSUME NEW t \in Threads, NEW l \in Levels, VdzlogTest(t, l)
       PROVE  ConfInv'
  BY <1>25 DEF VdzlogTest, Begin, Goto
<1>26. ASSUME NEW t \in Threads, VdzlogLock(t)
       PROVE  ConfInv'
  BY <1>26 DEF VdzlogLock, ReadLock, Enter, Goto
<1>0. CASE UNCHANGED vars
  BY <1>0 DEF vars
<1> QED
  BY <1>0, <1>1, <1>2, <1>3, <1>4, <1>5, <1>6, <1>7, <1>8, <1>9, <1>10, <1>11, <1>12,
    <1>13, <1>14, <1>15, <1>16, <1>17, <1>18, <1>19, <1>20, <1>21, <1>22, <1>23, <1>24,
    <1>25, <1>26 DEF Next, Call, Continue

LEMMA ConfInvariant == Spec => []ConfInv
<1>1. Init => ConfInv
  BY DEF Init, ConfInv
<1> QED
  BY TypeInvariant, <1>1, ConfStep, PTL DEF Spec

\* Whatever was registered, before or after a configuration was loaded, and
\* however many reloads came between, record rules call the function registered
\* last (zlog_set_record, zlog_reload).
THEOREM RecordsStayWired == Spec => []RecordsWired
<1>1. ConfInv => RecordsWired
  BY DEF ConfInv, RecordsWired, Settled
<1> QED
  BY ConfInvariant, <1>1, PTL

\* Every step preserves DefaultAlive.
LEMMA DefaultStep == TypeInv /\ DefaultAlive /\ [Next]_vars => DefaultAlive'
<1> SUFFICES ASSUME TypeInv, DefaultAlive, [Next]_vars PROVE DefaultAlive'
  OBVIOUS
<1>type. ConfTypes /\ CatTypes /\ EnvInv /\ DefaultAlive
  BY DEF TypeInv, TypeOK
<1> USE <1>type, ZlogEnvAssumption
    DEF ConfTypes, CatTypes, EnvInv, DefaultAlive, lockVars, confVars, progVars, loadVars,
        histVars
<1>1. ASSUME NEW t \in Threads, NEW cf \in Confs, ZlogInit(t, cf)
      PROVE  DefaultAlive'
  BY <1>1, NewConfType, NoFuncsType DEF ZlogInit, Exclusive, Begin, LockFree,
    InitRefused, InitInnerFails, InitWith, CleanUp
<1>2. ASSUME NEW t \in Threads, NEW cf \in Confs, NEW c \in Categories, DzlogInit(t, cf, c)
      PROVE  DefaultAlive'
  <2>1. \/ default' = Null
        \/ UNCHANGED <<default, isInit, cats>>
        \/ isInit' /\ default' = c /\ cats'[c] = NewCategory(NewConf(cf, NoFuncs), c)
    BY <1>2 DEF DzlogInit, InitRefused, InitInnerFails, InitWith, CleanUp
  <2>2. NewCategory(NewConf(cf, NoFuncs), c) # Null
    BY NewConfType, NoFuncsType, ListType DEF TypeInv, TypeOK, CountTypes
  <2> QED
    BY <2>1, <2>2
<1>3. ASSUME NEW t \in Threads, ZlogFini(t)
      PROVE  DefaultAlive'
  BY <1>3 DEF ZlogFini, Exclusive, Begin, LockFree
<1>4. ASSUME NEW t \in Threads, NEW c \in Categories, ZlogGetCategory(t, c)
      PROVE  DefaultAlive'
  BY <1>4, ListType DEF ZlogGetCategory, Exclusive, Begin, LockFree, FetchCategory
<1>5. ASSUME NEW t \in Threads, NEW c \in Categories, DzlogSetCategory(t, c)
      PROVE  DefaultAlive'
  BY <1>5, ListType DEF DzlogSetCategory, Exclusive, Begin, LockFree, FetchCategory
<1>6. ASSUME NEW t \in Threads, NEW n \in RecNames, NEW f \in RecFns, ZlogSetRecord(t, n,
             f)
      PROVE  DefaultAlive'
  BY <1>6, RecordType DEF ZlogSetRecord, Exclusive, Begin, LockFree
<1>7. ASSUME NEW t \in Threads, NEW c \in Categories, NEW l \in Levels, ZlogLevelSwitch(t,
             c, l)
      PROVE  DefaultAlive'
  BY <1>7 DEF ZlogLevelSwitch, Begin, Category, Existing
<1>8. ASSUME NEW t \in Threads, NEW c \in Categories, NEW l \in Levels, ZlogTest(t, c, l)
      PROVE  DefaultAlive'
  BY <1>8 DEF ZlogTest, Begin, Enter, Goto
<1>9. ASSUME NEW t \in Threads, NEW l \in Levels, DzlogLock(t, l)
      PROVE  DefaultAlive'
  BY <1>9 DEF DzlogLock, Begin, ReadLock, Enter, Goto
<1>10. ASSUME NEW t \in Threads, PutMdcLock(t)
       PROVE  DefaultAlive'
  BY <1>10 DEF PutMdcLock, Begin, ReadLock, Enter, Goto
<1>11. ASSUME NEW t \in Threads, MdcLock(t)
       PROVE  DefaultAlive'
  BY <1>11 DEF MdcLock, Begin, ReadLock, Enter, Goto
<1>12. ASSUME NEW t \in Threads, ZlogReload(t)
       PROVE  DefaultAlive'
  BY <1>12, NewConfType DEF ZlogReload, Begin, LockFree, ReloadStarts, ReloadDoesNothing,
    Goto
<1>13. ASSUME NEW t \in Threads, ThreadExit(t)
       PROVE  DefaultAlive'
  BY <1>13 DEF ThreadExit, Begin
<1>14. ASSUME NEW t \in Threads, ZlogLock(t)
       PROVE  DefaultAlive'
  BY <1>14 DEF ZlogLock, ReadLock, Goto
<1>15. ASSUME NEW t \in Threads, FetchThread(t)
       PROVE  DefaultAlive'
  BY <1>15 DEF FetchThread, Goto
<1>16. ASSUME NEW t \in Threads, Output(t)
       PROVE  DefaultAlive'
  BY <1>16 DEF Output, Goto
<1>17. ASSUME NEW t \in Threads, CountLoad(t)
       PROVE  DefaultAlive'
  BY <1>17 DEF CountLoad, Goto
<1>18. ASSUME NEW t \in Threads, CountStore(t)
       PROVE  DefaultAlive'
  BY <1>18 DEF CountStore, Leave, Goto
<1>19. ASSUME NEW t \in Threads, Exit(t)
       PROVE  DefaultAlive'
  BY <1>19 DEF Exit, Leave, Goto
<1>20. ASSUME NEW t \in Threads, AutoReload(t)
       PROVE  DefaultAlive'
  BY <1>20, NewConfType DEF AutoReload, LockFree, ReloadStarts, ReloadDoesNothing, Goto
<1>21. ASSUME NEW t \in Threads, NEW c \in Categories, UpdateClear(t, c)
       PROVE  DefaultAlive'
  BY <1>21, ClearedType DEF UpdateClear, Goto
<1>22. ASSUME NEW t \in Threads, UpdateFill(t)
       PROVE  DefaultAlive'
  <2>1. filling \in Categories /\ cats[filling] \in Category
    BY <1>22, FillType DEF UpdateFill
  <2>2. \A c \in Categories \ {filling} : cats'[c] = cats[c]
    BY <1>22, <2>1 DEF UpdateFill
  <2>3. cats'[filling] # Null
    <3> DEFINE fit == ListOf(newConf, filling)
               bits == LevelsOf(newConf.cf, FitRules(newConf.cf, filling))
    <3>1. fit \in Fit /\ bits \in SUBSET Levels
      BY <1>22, FillType DEF UpdateFill
    <3>2. cats'[filling] = [cats[filling] EXCEPT !.fit = fit, !.levels = bits]
      BY <1>22, <2>1 DEF UpdateFill
    <3>3. [cats[filling] EXCEPT !.fit = fit, !.levels = bits] \in Category
      BY <2>1, <3>1 DEF Category
    <3> QED
      BY <3>2, <3>3
  <2> QED
    BY <1>22, <2>2, <2>3 DEF UpdateFill
<1>23. ASSUME NEW t \in Threads, UpdateFails(t)
       PROVE  DefaultAlive'
  <2>1. filling \in Categories /\ cats[filling] \in Category
    BY <1>23, FillType DEF UpdateFails
  <2>2. \A c \in Categories \ {filling} : cats'[c] = cats[c]
    BY <1>23, <2>1 DEF UpdateFails
  <2>3. cats'[filling] # Null
    BY <1>23, <2>1, FillType DEF UpdateFails, Category
  <2> QED
    BY <1>23, <2>2, <2>3 DEF UpdateFails
<1>24. ASSUME NEW t \in Threads, ReloadCommit(t)
       PROVE  DefaultAlive'
  BY <1>24, CommittedType DEF ReloadCommit, Goto
<1>25. ASSUME NEW t \in Threads, NEW l \in Levels, VdzlogTest(t, l)
       PROVE  DefaultAlive'
  BY <1>25 DEF VdzlogTest, Begin, Goto
<1>26. ASSUME NEW t \in Threads, VdzlogLock(t)
       PROVE  DefaultAlive'
  BY <1>26 DEF VdzlogLock, ReadLock, Enter, Goto
<1>0. CASE UNCHANGED vars
  BY <1>0 DEF vars
<1> QED
  BY <1>0, <1>1, <1>2, <1>3, <1>4, <1>5, <1>6, <1>7, <1>8, <1>9, <1>10, <1>11, <1>12,
    <1>13, <1>14, <1>15, <1>16, <1>17, <1>18, <1>19, <1>20, <1>21, <1>22, <1>23, <1>24,
    <1>25, <1>26 DEF Next, Call, Continue

\* The default category is one of the table in force (zlog_fini_inner,
\* dzlog_init, dzlog_set_category), whatever fails.
THEOREM DefaultStaysAlive == Spec => []DefaultAlive
<1>1. Init => DefaultAlive
  BY DEF Init, DefaultAlive
<1> QED
  BY TypeInvariant, <1>1, DefaultStep, PTL DEF Spec

-----------------------------------------------------------------------------
(* The automatic reload.                                                   *)

\* The counter may lose messages, but counts none twice.
CountInv ==
  /\ count <= counted
  /\ \A t \in Threads : pc[t] = "store" => reg[t] <= counted

\* Every step preserves CountInv.
LEMMA CountStep == TypeInv /\ CountInv /\ [Next]_vars => CountInv'
<1> SUFFICES ASSUME TypeInv, CountInv, [Next]_vars PROVE CountInv'
  OBVIOUS
<1>type. LockTypes /\ ThreadTypes /\ CountTypes /\ LockInv /\ CountInv
  BY DEF TypeInv, TypeOK
<1> USE <1>type
    DEF LockTypes, ThreadTypes, CountTypes, LockInv, CountInv, lockVars, confVars, progVars,
        loadVars, histVars
<1>1. ASSUME NEW t \in Threads, NEW cf \in Confs, ZlogInit(t, cf)
      PROVE  CountInv'
  BY <1>1 DEF ZlogInit, Exclusive, Begin, LockFree, InitRefused, InitInnerFails,
    InitWith, CleanUp
<1>2. ASSUME NEW t \in Threads, NEW cf \in Confs, NEW c \in Categories, DzlogInit(t, cf, c)
      PROVE  CountInv'
  BY <1>2 DEF DzlogInit, Exclusive, Begin, LockFree, InitRefused, InitInnerFails,
    InitWith, CleanUp
<1>3. ASSUME NEW t \in Threads, ZlogFini(t)
      PROVE  CountInv'
  BY <1>3 DEF ZlogFini, Exclusive, Begin, LockFree
<1>4. ASSUME NEW t \in Threads, NEW c \in Categories, ZlogGetCategory(t, c)
      PROVE  CountInv'
  BY <1>4 DEF ZlogGetCategory, Exclusive, Begin, LockFree, FetchCategory
<1>5. ASSUME NEW t \in Threads, NEW c \in Categories, DzlogSetCategory(t, c)
      PROVE  CountInv'
  BY <1>5 DEF DzlogSetCategory, Exclusive, Begin, LockFree, FetchCategory
<1>6. ASSUME NEW t \in Threads, NEW n \in RecNames, NEW f \in RecFns, ZlogSetRecord(t, n,
             f)
      PROVE  CountInv'
  BY <1>6 DEF ZlogSetRecord, Exclusive, Begin, LockFree
<1>7. ASSUME NEW t \in Threads, NEW c \in Categories, NEW l \in Levels, ZlogLevelSwitch(t,
             c, l)
      PROVE  CountInv'
  BY <1>7 DEF ZlogLevelSwitch, Begin
<1>8. ASSUME NEW t \in Threads, NEW c \in Categories, NEW l \in Levels, ZlogTest(t, c, l)
      PROVE  CountInv'
  BY <1>8 DEF ZlogTest, Begin, Enter, Goto
<1>9. ASSUME NEW t \in Threads, NEW l \in Levels, DzlogLock(t, l)
      PROVE  CountInv'
  BY <1>9 DEF DzlogLock, Begin, ReadLock, Enter, Goto
<1>10. ASSUME NEW t \in Threads, PutMdcLock(t)
       PROVE  CountInv'
  BY <1>10 DEF PutMdcLock, Begin, ReadLock, Enter, Goto
<1>11. ASSUME NEW t \in Threads, MdcLock(t)
       PROVE  CountInv'
  BY <1>11 DEF MdcLock, Begin, ReadLock, Enter, Goto
<1>12. ASSUME NEW t \in Threads, ZlogReload(t)
       PROVE  CountInv'
  BY <1>12 DEF ZlogReload, Begin, LockFree, ReloadStarts, ReloadDoesNothing, Goto
<1>13. ASSUME NEW t \in Threads, ThreadExit(t)
       PROVE  CountInv'
  BY <1>13 DEF ThreadExit, Begin
<1>14. ASSUME NEW t \in Threads, ZlogLock(t)
       PROVE  CountInv'
  BY <1>14 DEF ZlogLock, ReadLock, Goto
<1>15. ASSUME NEW t \in Threads, FetchThread(t)
       PROVE  CountInv'
  BY <1>15 DEF FetchThread, Goto
<1>16. ASSUME NEW t \in Threads, Output(t)
       PROVE  CountInv'
  BY <1>16 DEF Output, Goto
<1>17. ASSUME NEW t \in Threads, CountLoad(t)
       PROVE  CountInv'
  BY <1>17 DEF CountLoad, Goto
<1>18. ASSUME NEW t \in Threads, CountStore(t)
       PROVE  CountInv'
  BY <1>18 DEF CountStore, Leave, Goto
<1>19. ASSUME NEW t \in Threads, Exit(t)
       PROVE  CountInv'
  BY <1>19 DEF Exit, Leave, Goto
<1>20. ASSUME NEW t \in Threads, AutoReload(t)
       PROVE  CountInv'
  BY <1>20 DEF AutoReload, LockFree, ReloadStarts, ReloadDoesNothing, Goto
<1>21. ASSUME NEW t \in Threads, NEW c \in Categories, UpdateClear(t, c)
       PROVE  CountInv'
  BY <1>21 DEF UpdateClear, Goto
<1>22. ASSUME NEW t \in Threads, UpdateFill(t)
       PROVE  CountInv'
  BY <1>22 DEF UpdateFill, Goto
<1>23. ASSUME NEW t \in Threads, UpdateFails(t)
       PROVE  CountInv'
  BY <1>23 DEF UpdateFails, Goto
<1>24. ASSUME NEW t \in Threads, ReloadCommit(t)
       PROVE  CountInv'
  BY <1>24 DEF ReloadCommit, Goto
<1>25. ASSUME NEW t \in Threads, NEW l \in Levels, VdzlogTest(t, l)
       PROVE  CountInv'
  BY <1>25 DEF VdzlogTest, Begin, Goto
<1>26. ASSUME NEW t \in Threads, VdzlogLock(t)
       PROVE  CountInv'
  BY <1>26 DEF VdzlogLock, ReadLock, Enter, Goto
<1>0. CASE UNCHANGED vars
  BY <1>0 DEF vars
<1> QED
  BY <1>0, <1>1, <1>2, <1>3, <1>4, <1>5, <1>6, <1>7, <1>8, <1>9, <1>10, <1>11, <1>12,
    <1>13, <1>14, <1>15, <1>16, <1>17, <1>18, <1>19, <1>20, <1>21, <1>22, <1>23, <1>24,
    <1>25, <1>26 DEF Next, Call, Continue

LEMMA CountInvariant == Spec => []CountInv
<1>1. Init => CountInv
  BY DEF Init, CountInv
<1> QED
  BY TypeInvariant, <1>1, CountStep, PTL DEF Spec

ReloadEarned ==
  \A t \in Threads : pc[t] = "auto" /\ pc'[t] = "update" => counted > env.cf.period

\* A step of another thread moves nobody from auto to update.
LEMMA EarnedStep == TypeInv /\ CountInv /\ [Next]_vars => ReloadEarned
<1> SUFFICES ASSUME TypeInv, CountInv, [Next]_vars PROVE ReloadEarned
  OBVIOUS
<1>type. LockTypes /\ CountTypes /\ CountInv
  BY DEF TypeInv, TypeOK
<1>period. isInit => env.cf.period \in Nat
  BY ZlogEnvAssumption DEF TypeInv, TypeOK, ConfTypes, EnvInv, ConfObj
<1> USE <1>type, <1>period
    DEF LockTypes, CountTypes, CountInv, ReloadEarned, lockVars, confVars, progVars, loadVars,
        histVars
<1>1. ASSUME NEW t \in Threads, NEW cf \in Confs, ZlogInit(t, cf)
      PROVE  ReloadEarned
  BY <1>1 DEF ZlogInit, Exclusive, Begin, LockFree, InitRefused, InitInnerFails,
    InitWith, CleanUp
<1>2. ASSUME NEW t \in Threads, NEW cf \in Confs, NEW c \in Categories, DzlogInit(t, cf, c)
      PROVE  ReloadEarned
  BY <1>2 DEF DzlogInit, Exclusive, Begin, LockFree, InitRefused, InitInnerFails,
    InitWith, CleanUp
<1>3. ASSUME NEW t \in Threads, ZlogFini(t)
      PROVE  ReloadEarned
  BY <1>3 DEF ZlogFini, Exclusive, Begin, LockFree
<1>4. ASSUME NEW t \in Threads, NEW c \in Categories, ZlogGetCategory(t, c)
      PROVE  ReloadEarned
  BY <1>4 DEF ZlogGetCategory, Exclusive, Begin, LockFree, FetchCategory
<1>5. ASSUME NEW t \in Threads, NEW c \in Categories, DzlogSetCategory(t, c)
      PROVE  ReloadEarned
  BY <1>5 DEF DzlogSetCategory, Exclusive, Begin, LockFree, FetchCategory
<1>6. ASSUME NEW t \in Threads, NEW n \in RecNames, NEW f \in RecFns, ZlogSetRecord(t, n,
             f)
      PROVE  ReloadEarned
  BY <1>6 DEF ZlogSetRecord, Exclusive, Begin, LockFree
<1>7. ASSUME NEW t \in Threads, NEW c \in Categories, NEW l \in Levels, ZlogLevelSwitch(t,
             c, l)
      PROVE  ReloadEarned
  BY <1>7 DEF ZlogLevelSwitch, Begin
<1>8. ASSUME NEW t \in Threads, NEW c \in Categories, NEW l \in Levels, ZlogTest(t, c, l)
      PROVE  ReloadEarned
  BY <1>8 DEF ZlogTest, Begin, Enter, Goto
<1>9. ASSUME NEW t \in Threads, NEW l \in Levels, DzlogLock(t, l)
      PROVE  ReloadEarned
  BY <1>9 DEF DzlogLock, Begin, ReadLock, Enter, Goto
<1>10. ASSUME NEW t \in Threads, PutMdcLock(t)
       PROVE  ReloadEarned
  BY <1>10 DEF PutMdcLock, Begin, ReadLock, Enter, Goto
<1>11. ASSUME NEW t \in Threads, MdcLock(t)
       PROVE  ReloadEarned
  BY <1>11 DEF MdcLock, Begin, ReadLock, Enter, Goto
<1>12. ASSUME NEW t \in Threads, ZlogReload(t)
       PROVE  ReloadEarned
  BY <1>12 DEF ZlogReload, Begin, LockFree, ReloadStarts, ReloadDoesNothing, Goto
<1>13. ASSUME NEW t \in Threads, ThreadExit(t)
       PROVE  ReloadEarned
  BY <1>13 DEF ThreadExit, Begin
<1>14. ASSUME NEW t \in Threads, ZlogLock(t)
       PROVE  ReloadEarned
  BY <1>14 DEF ZlogLock, ReadLock, Goto
<1>15. ASSUME NEW t \in Threads, FetchThread(t)
       PROVE  ReloadEarned
  BY <1>15 DEF FetchThread, Goto
<1>16. ASSUME NEW t \in Threads, Output(t)
       PROVE  ReloadEarned
  BY <1>16 DEF Output, Goto
<1>17. ASSUME NEW t \in Threads, CountLoad(t)
       PROVE  ReloadEarned
  BY <1>17 DEF CountLoad, Goto
<1>18. ASSUME NEW t \in Threads, CountStore(t)
       PROVE  ReloadEarned
  BY <1>18 DEF CountStore, Leave, Goto
<1>19. ASSUME NEW t \in Threads, Exit(t)
       PROVE  ReloadEarned
  BY <1>19 DEF Exit, Leave, Goto
<1>20. ASSUME NEW t \in Threads, AutoReload(t)
       PROVE  ReloadEarned
  BY <1>20 DEF AutoReload, LockFree, ReloadStarts, ReloadDoesNothing, Goto
<1>21. ASSUME NEW t \in Threads, NEW c \in Categories, UpdateClear(t, c)
       PROVE  ReloadEarned
  BY <1>21 DEF UpdateClear, Goto
<1>22. ASSUME NEW t \in Threads, UpdateFill(t)
       PROVE  ReloadEarned
  BY <1>22 DEF UpdateFill, Goto
<1>23. ASSUME NEW t \in Threads, UpdateFails(t)
       PROVE  ReloadEarned
  BY <1>23 DEF UpdateFails, Goto
<1>24. ASSUME NEW t \in Threads, ReloadCommit(t)
       PROVE  ReloadEarned
  BY <1>24 DEF ReloadCommit, Goto
<1>25. ASSUME NEW t \in Threads, NEW l \in Levels, VdzlogTest(t, l)
       PROVE  ReloadEarned
  BY <1>25 DEF VdzlogTest, Begin, Goto
<1>26. ASSUME NEW t \in Threads, VdzlogLock(t)
       PROVE  ReloadEarned
  BY <1>26 DEF VdzlogLock, ReadLock, Enter, Goto
<1>0. CASE UNCHANGED vars
  BY <1>0 DEF vars
<1> QED
  BY <1>0, <1>1, <1>2, <1>3, <1>4, <1>5, <1>6, <1>7, <1>8, <1>9, <1>10, <1>11, <1>12,
    <1>13, <1>14, <1>15, <1>16, <1>17, <1>18, <1>19, <1>20, <1>21, <1>22, <1>23, <1>24,
    <1>25, <1>26 DEF Next, Call, Continue

\* However many threads saw the counter cross the period, and whatever counts were
\* lost between them, an automatic reload has its messages (zlog_reload tests
\* again under the write lock).
THEOREM ReloadsEarned == Spec => AutoReloadEarned
<1>1. TypeInv /\ CountInv /\ [Next]_vars => [ReloadEarned]_vars
  BY EarnedStep
<1>2. [ReloadEarned]_vars
        => [\A t \in Threads :
              pc[t] = "auto" /\ pc'[t] = "update" => counted > env.cf.period]_vars
  BY DEF ReloadEarned
<1> QED
  BY TypeInvariant, CountInvariant, <1>1, <1>2, PTL DEF Spec, AutoReloadEarned

-----------------------------------------------------------------------------
(* The environment implements ZlogService.                                 *)

\* Outside of the library, between two calls, or with a category more or less.
ServiceStep ==
  \/ ~isInit'
  \/ /\ ~isInit /\ isInit' /\ env'.cf \in Confs
     /\ Existing' = {} \/ \E c \in Categories : Existing' = {c}
  \/ isInit /\ isInit' /\ env'.cf \in Confs /\ Existing' = Existing
  \/ /\ isInit /\ isInit' /\ env'.cf = env.cf
     /\ \E c \in Categories : Existing' = Existing \cup {c}

\* Every step starts the library, replaces the configuration of all categories,
\* adds a category, or ends the library.
LEMMA ServiceSteps == TypeInv /\ [Next]_vars => ServiceStep
<1> SUFFICES ASSUME TypeInv, [Next]_vars PROVE ServiceStep
  OBVIOUS
<1>type. ConfTypes /\ CatTypes /\ EnvInv
  BY DEF TypeInv, TypeOK
<1>conf. isInit => env.cf \in Confs
  BY <1>type DEF ConfTypes, EnvInv, ConfObj
<1> USE <1>type, <1>conf, ZlogEnvAssumption
    DEF ConfTypes, CatTypes, EnvInv, Existing, ServiceStep, lockVars, confVars, progVars,
        loadVars, histVars
<1>1. ASSUME NEW t \in Threads, NEW cf \in Confs, ZlogInit(t, cf)
      PROVE  ServiceStep
  <2>1. NewConf(cf, NoFuncs).cf = cf
    BY DEF NewConf
  <2> QED
    BY <1>1, <2>1 DEF ZlogInit, Exclusive, InitRefused, InitInnerFails, InitWith, CleanUp
<1>2. ASSUME NEW t \in Threads, NEW cf \in Confs, NEW c \in Categories, DzlogInit(t, cf, c)
      PROVE  ServiceStep
  <2>1. NewConf(cf, NoFuncs).cf = cf
    BY DEF NewConf
  <2>2. NewCategory(NewConf(cf, NoFuncs), c) # Null
    BY NewConfType, NoFuncsType, ListType DEF TypeInv, TypeOK, CountTypes
  <2>3. \/ ~isInit'
        \/ UNCHANGED <<isInit, env, cats>>
        \/ /\ ~isInit /\ env' = NewConf(cf, NoFuncs)
           /\ cats' = [[d \in Categories |-> Null] EXCEPT
                         ![c] = NewCategory(NewConf(cf, NoFuncs), c)]
    BY <1>2 DEF DzlogInit, InitRefused, InitInnerFails, InitWith, CleanUp
  <2>4. CASE /\ ~isInit /\ isInit' /\ env' = NewConf(cf, NoFuncs)
             /\ cats' = [[d \in Categories |-> Null] EXCEPT
                           ![c] = NewCategory(NewConf(cf, NoFuncs), c)]
    <3>1. Existing' = {c}
      BY <2>2, <2>4
    <3> QED
      BY <2>1, <2>4, <3>1
  <2> QED
    BY <2>3, <2>4
<1>3. ASSUME NEW t \in Threads, ZlogFini(t)
      PROVE  ServiceStep
  BY <1>3 DEF ZlogFini, Exclusive, Begin, LockFree
<1>4. ASSUME NEW t \in Threads, NEW c \in Categories, ZlogGetCategory(t, c)
      PROVE  ServiceStep
  <2>1. CASE ~isInit
    BY <1>4, <2>1 DEF ZlogGetCategory, Exclusive
  <2>2. CASE isInit /\ cats' = cats
    BY <1>4, <2>2 DEF ZlogGetCategory, Exclusive
  <2>3. CASE isInit /\ cats' = [cats EXCEPT ![c] = NewCategory(env, c)]
    <3>1. Existing' = Existing \cup {c}
      BY <2>3, ListType
    <3> QED
      BY <1>4, <2>3, <3>1 DEF ZlogGetCategory, Exclusive
  <2> QED
    BY <1>4, <2>1, <2>2, <2>3 DEF ZlogGetCategory, FetchCategory
<1>5. ASSUME NEW t \in Threads, NEW c \in Categories, DzlogSetCategory(t, c)
      PROVE  ServiceStep
  <2>1. CASE ~isInit
    BY <1>5, <2>1 DEF DzlogSetCategory, Exclusive
  <2>2. CASE isInit /\ cats' = cats
    BY <1>5, <2>2 DEF DzlogSetCategory, Exclusive
  <2>3. CASE isInit /\ cats' = [cats EXCEPT ![c] = NewCategory(env, c)]
    <3>1. Existing' = Existing \cup {c}
      BY <2>3, ListType
    <3> QED
      BY <1>5, <2>3, <3>1 DEF DzlogSetCategory, Exclusive
  <2> QED
    BY <1>5, <2>1, <2>2, <2>3 DEF DzlogSetCategory, FetchCategory
<1>6. ASSUME NEW t \in Threads, NEW n \in RecNames, NEW f \in RecFns, ZlogSetRecord(t, n,
             f)
      PROVE  ServiceStep
  BY <1>6, RecordType DEF ZlogSetRecord, Exclusive, Begin, LockFree, ConfObj
<1>7. ASSUME NEW t \in Threads, NEW c \in Categories, NEW l \in Levels, ZlogLevelSwitch(t,
             c, l)
      PROVE  ServiceStep
  BY <1>7 DEF ZlogLevelSwitch, Begin, Category
<1>8. ASSUME NEW t \in Threads, NEW c \in Categories, NEW l \in Levels, ZlogTest(t, c, l)
      PROVE  ServiceStep
  BY <1>8 DEF ZlogTest, Begin, Enter, Goto
<1>9. ASSUME NEW t \in Threads, NEW l \in Levels, DzlogLock(t, l)
      PROVE  ServiceStep
  BY <1>9 DEF DzlogLock, Begin, ReadLock, Enter, Goto
<1>10. ASSUME NEW t \in Threads, PutMdcLock(t)
       PROVE  ServiceStep
  BY <1>10 DEF PutMdcLock, Begin, ReadLock, Enter, Goto
<1>11. ASSUME NEW t \in Threads, MdcLock(t)
       PROVE  ServiceStep
  BY <1>11 DEF MdcLock, Begin, ReadLock, Enter, Goto
<1>12. ASSUME NEW t \in Threads, ZlogReload(t)
       PROVE  ServiceStep
  BY <1>12, NewConfType DEF ZlogReload, Begin, LockFree, ReloadStarts, ReloadDoesNothing,
    Goto
<1>13. ASSUME NEW t \in Threads, ThreadExit(t)
       PROVE  ServiceStep
  BY <1>13 DEF ThreadExit, Begin
<1>14. ASSUME NEW t \in Threads, ZlogLock(t)
       PROVE  ServiceStep
  BY <1>14 DEF ZlogLock, ReadLock, Goto
<1>15. ASSUME NEW t \in Threads, FetchThread(t)
       PROVE  ServiceStep
  BY <1>15 DEF FetchThread, Goto
<1>16. ASSUME NEW t \in Threads, Output(t)
       PROVE  ServiceStep
  BY <1>16 DEF Output, Goto
<1>17. ASSUME NEW t \in Threads, CountLoad(t)
       PROVE  ServiceStep
  BY <1>17 DEF CountLoad, Goto
<1>18. ASSUME NEW t \in Threads, CountStore(t)
       PROVE  ServiceStep
  BY <1>18 DEF CountStore, Leave, Goto
<1>19. ASSUME NEW t \in Threads, Exit(t)
       PROVE  ServiceStep
  BY <1>19 DEF Exit, Leave, Goto
<1>20. ASSUME NEW t \in Threads, AutoReload(t)
       PROVE  ServiceStep
  BY <1>20, NewConfType DEF AutoReload, LockFree, ReloadStarts, ReloadDoesNothing, Goto
<1>21. ASSUME NEW t \in Threads, NEW c \in Categories, UpdateClear(t, c)
       PROVE  ServiceStep
  BY <1>21, ClearedType DEF UpdateClear, Goto
<1>22. ASSUME NEW t \in Threads, UpdateFill(t)
       PROVE  ServiceStep
  <2>1. filling \in Categories /\ cats[filling] \in Category
    BY <1>22, FillType DEF UpdateFill
  <2>2. \A c \in Categories \ {filling} : cats'[c] = cats[c]
    BY <1>22, <2>1 DEF UpdateFill
  <2>3. cats'[filling] # Null
    <3> DEFINE fit == ListOf(newConf, filling)
               bits == LevelsOf(newConf.cf, FitRules(newConf.cf, filling))
    <3>1. fit \in Fit /\ bits \in SUBSET Levels
      BY <1>22, FillType DEF UpdateFill
    <3>2. cats'[filling] = [cats[filling] EXCEPT !.fit = fit, !.levels = bits]
      BY <1>22, <2>1 DEF UpdateFill
    <3>3. [cats[filling] EXCEPT !.fit = fit, !.levels = bits] \in Category
      BY <2>1, <3>1 DEF Category
    <3> QED
      BY <3>2, <3>3
  <2>4. Existing' = Existing
    BY <2>1, <2>2, <2>3
  <2> QED
    BY <1>22, <2>4 DEF UpdateFill
<1>23. ASSUME NEW t \in Threads, UpdateFails(t)
       PROVE  ServiceStep
  <2>1. filling \in Categories /\ cats[filling] \in Category
    BY <1>23, FillType DEF UpdateFails
  <2>2. \A c \in Categories \ {filling} : cats'[c] = cats[c]
    BY <1>23, <2>1 DEF UpdateFails
  <2>3. cats'[filling] # Null
    BY <1>23, <2>1, FillType DEF UpdateFails, Category
  <2>4. Existing' = Existing
    BY <2>1, <2>2, <2>3
  <2> QED
    BY <1>23, <2>4 DEF UpdateFails
<1>24. ASSUME NEW t \in Threads, ReloadCommit(t)
       PROVE  ServiceStep
  <2>1. newConf \in ConfObj
    BY <1>24 DEF TypeInv, TypeOK, LockTypes, LoadTypes, LockInv, ReloadCommit
  <2>2. Existing' = Existing
    BY <1>24, CommittedType DEF ReloadCommit
  <2> QED
    BY <1>24, <2>1, <2>2 DEF ReloadCommit, ConfObj
<1>25. ASSUME NEW t \in Threads, NEW l \in Levels, VdzlogTest(t, l)
       PROVE  ServiceStep
  BY <1>25 DEF VdzlogTest, Begin, Goto
<1>26. ASSUME NEW t \in Threads, VdzlogLock(t)
       PROVE  ServiceStep
  BY <1>26 DEF VdzlogLock, ReadLock, Enter, Goto
<1>0. CASE UNCHANGED vars
  BY <1>0 DEF vars
<1> QED
  BY <1>0, <1>1, <1>2, <1>3, <1>4, <1>5, <1>6, <1>7, <1>8, <1>9, <1>10, <1>11, <1>12,
    <1>13, <1>14, <1>15, <1>16, <1>17, <1>18, <1>19, <1>20, <1>21, <1>22, <1>23, <1>24,
    <1>25, <1>26 DEF Next, Call, Continue

\* The rules a category is served by are those of the configuration in force.
ServedExact ==
  "update" \notin Failable /\ isInit =>
    /\ env.cf \in Confs
    /\ \A c \in Existing : HeldRules(cats[c]) = FitRules(env.cf, c)

\* Wherever an update has moved the list of a category, HeldRules finds it.
LEMMA ServedRules == TypeInv /\ ConfInv /\ CatsHold => ServedExact
<1> SUFFICES ASSUME TypeInv, ConfInv, CatInv, isInit
             PROVE  /\ env.cf \in Confs
                    /\ \A c \in Existing : HeldRules(cats[c]) = FitRules(env.cf, c)
  BY DEF ServedExact, CatsHold
<1>1. env \in ConfObj /\ (newConf # Null => newConf \in ConfObj)
  BY DEF TypeInv, TypeOK, ConfTypes, LoadTypes, EnvInv
<1>2. ASSUME NEW c \in Existing
      PROVE  HeldRules(cats[c]) = FitRules(env.cf, c)
  <2>1. c \in Categories /\ ListOf(env, c) \in Fit /\ ListOf(env, c) # Null
    BY <1>1, ListType, ZlogEnvAssumption DEF Existing
  <2>2. ListOf(env, c).conf = env.id /\ ListOf(env, c).rules = FitRules(env.cf, c)
    BY DEF ListOf
  <2>3. CASE Cut(c)
    BY <2>2, <2>3 DEF Cut, HeldRules
  <2>4. CASE Stable(c)
    BY <2>1, <2>2, <2>4 DEF Stable, HeldRules
  <2>5. CASE Moved(c) /\ newConf # Null
    <3>1. newConf.id # env.id
      BY <1>1, <2>5 DEF ConfInv, ConfObj
    <3>2. cats[c].fit.conf = newConf.id
      BY <2>5 DEF Moved, ListOf
    <3> QED
      BY <2>2, <2>5, <3>1, <3>2 DEF Moved, HeldRules
  <2>6. \/ Cut(c)
        \/ Stable(c)
        \/ Moved(c) /\ newConf # Null
    BY DEF CatInv, Stable, TypeInv, EnvInv
  <2> QED
    BY <2>3, <2>4, <2>5, <2>6
<1> QED
  BY <1>1, <1>2 DEF ConfObj

LEMMA SameFitRules ==
  ASSUME NEW cf, NEW c
  PROVE  Service!FitRules(cf, c) = FitRules(cf, c)
BY DEF Service!FitRules, Service!Matching, Service!LastWastebin, Service!Wastebins, FitRules,
       Matching, LastWastebin, Wastebins

\* If no rule list of an update fails, the threads that log see one configuration
\* at a time, every category served by its rules, and all categories change
\* together (zlog_init, zlog_reload, zlog_get_category, zlog_fini).
THEOREM ServiceImplemented ==
  ASSUME "update" \notin Failable
  PROVE  Spec => ImplementsService
<1> DEFINE inForce == IF isInit THEN env.cf ELSE Null
           serving == IF isInit THEN [c \in Existing |-> HeldRules(cats[c])]
                                ELSE [c \in {} |-> {}]
<1>1. Init => Service!Init
  BY DEF Init, Service!Init
<1>2. ServedExact /\ ServedExact' /\ ServiceStep => [Service!Next]_<<inForce, serving>>
  <2> SUFFICES ASSUME ServedExact, ServedExact', ServiceStep
               PROVE  Service!Next
    OBVIOUS
  <2>1. CASE ~isInit'
    <3>1. Service!Stop
      BY <2>1 DEF Service!Stop
    <3> QED
      BY <3>1 DEF Service!Next
  <2>2. CASE /\ ~isInit /\ isInit' /\ env'.cf \in Confs
             /\ Existing' = {} \/ \E c \in Categories : Existing' = {c}
    <3>1. serving' = Service!Serving(env'.cf, Existing')
      BY <2>2, SameFitRules DEF ServedExact, Service!Serving
    <3>2. Service!Start(env'.cf, Existing')
      BY <2>2, <3>1 DEF Service!Start
    <3> QED
      BY <2>2, <3>2 DEF Service!Next
  <2>3. CASE isInit /\ isInit' /\ env'.cf \in Confs /\ Existing' = Existing
    <3>1. serving' = Service!Serving(env'.cf, Existing')
      BY <2>3, SameFitRules DEF ServedExact, Service!Serving
    <3>2. env.cf # Null /\ DOMAIN serving = Existing
      BY <2>3, ZlogEnvAssumption DEF ServedExact
    <3>3. Service!Install(env'.cf)
      BY <2>3, <3>1, <3>2 DEF Service!Install
    <3> QED
      BY <2>3, <3>3 DEF Service!Next
  <2>4. CASE /\ isInit /\ isInit' /\ env'.cf = env.cf
             /\ \E c \in Categories : Existing' = Existing \cup {c}
    <3>1. PICK c \in Categories : Existing' = Existing \cup {c}
      BY <2>4
    <3>2. serving' = Service!Serving(env'.cf, Existing')
      BY <2>4, SameFitRules DEF ServedExact, Service!Serving
    <3>3. env.cf # Null /\ DOMAIN serving = Existing
      BY <2>4, ZlogEnvAssumption DEF ServedExact
    <3>4. Service!Know(c)
      BY <2>4, <3>1, <3>2, <3>3 DEF Service!Know
    <3> QED
      BY <3>4 DEF Service!Next
  <2> QED
    BY <2>1, <2>2, <2>3, <2>4 DEF ServiceStep
<1>3. TypeInv /\ [Next]_vars => ServiceStep
  BY ServiceSteps
<1>4. TypeInv /\ ConfInv /\ CatsHold => ServedExact
  BY ServedRules
<1> QED
  BY <1>1, <1>2, <1>3, <1>4, TypeInvariant, ConfInvariant, CatInvariant, PTL
  DEF Spec, ImplementsService, Service!Spec
=============================================================================
