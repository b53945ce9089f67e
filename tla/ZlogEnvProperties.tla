-------------------------- MODULE ZlogEnvProperties --------------------------
(***************************************************************************)
(* What must be true of the zlog environment, and what it implements.      *)
(***************************************************************************)
EXTENDS ZlogEnv

\* No thread is rebuilding the environment.
Settled == isInit /\ writer = Null

\* A thread that formats and writes a message does so with buffers of the
\* sizes, and an event with the time cache size, of the configuration in force,
\* however many reloads, finishes and failed rebuilds its thread object has
\* lived through.  (spec.c indexes the event's time cache by an index computed
\* from the configuration; zlog_fetch_thread is what keeps it in bounds.)
UsesFreshThread ==
  \A t \in Threads :
    pc[t] = "output" =>
      /\ thread[t] # Null
      /\ thread[t].buf = env.cf.buf
      /\ thread[t].tcc = env.cf.tcc

\* Outside of a reload every category logs through the rule list the
\* configuration in force gives it, and no list survives from an earlier one
\* whose rules have been freed (zlog_category_update_rules and commit).
ServedByCurrentConf ==
  Settled => \A c \in Existing : /\ cats[c].fit = ListOf(env, c)
                                 /\ cats[c].fitBack = Null

\* Outside of a reload the level test made without the lock drops exactly the
\* messages no rule of the category lets through, unless zlog_level_switch
\* overrode the bitmap since the last reload: "will be the right value after
\* zlog_reload()" (zlog.c, vzlog).
BitmapExact ==
  Settled =>
    \A c \in Existing \ switched, l \in Levels :
      l \in cats[c].levels <=> Emitting(env.cf, FitRules(env.cf, c), l) # {}

\* The record rules call the function last registered under their name, whether
\* it was registered before or after the configuration was loaded
\* (zlog_set_record walks the rules, zlog_reload walks the new rules).
RecordsWired == Settled => env.funcs = records

\* The default category is never a category of a table that has been freed
\* (zlog_fini_inner, dzlog_set_category).
DefaultAlive == default # Null => isInit /\ cats[default] # Null

\* A thread that holds the read lock sees one environment until it releases
\* it: no reload, initialisation or finish changes anything under it.
ReadersSeeOneEnv == [][readers # {} => UNCHANGED <<confVars, cats>>]_vars

\* Whenever the configuration object in force is replaced the version grows, so
\* a version a thread object carries never stands for two configurations.
VersionTracksConf ==
  [][isInit' /\ (isInit => env'.id # env.id) => version' > version]_vars

\* The automatic reload happens only when more messages than the period have
\* been counted since the last reload: of several threads that all saw the
\* counter cross the period one reloads, and the others find it reset.
AutoReloadEarned ==
  [][\A t \in Threads :
       pc[t] = "auto" /\ pc'[t] = "update" => counted > env.cf.period]_vars

\* Every call returns: no path through zlog leaves the lock held.
CallsReturn == \A t \in Threads : pc[t] # "idle" ~> pc[t] = "idle"

\* The zlog environment implements ZlogService: the list of a category in a
\* reload that has not committed is still the one that came from the
\* configuration in force, wherever update_rules has moved it.
HeldRules(k) ==
  IF k.fit # Null /\ k.fit.conf = env.id THEN k.fit.rules ELSE k.fitBack.rules

Service == INSTANCE ZlogService WITH
  conf   <- IF isInit THEN env.cf ELSE Null,
  served <- IF isInit THEN [c \in Existing |-> HeldRules(cats[c])]
                      ELSE [c \in {} |-> {}]

ImplementsService == Service!Spec

\* zlog.c says of a reload that failed: "fail, roll back everything" and "use
\* old conf file, still working".  Then every category still logs through rules
\* of the configuration in force.
OldConfStillWorking ==
  Settled => \A c \in Existing : /\ cats[c].fit # Null
                                 /\ cats[c].fit.conf = env.id
=============================================================================
