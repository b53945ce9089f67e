-------------------------------- MODULE Slog --------------------------------
(***************************************************************************)
(* slog: threads display messages on the screen and in a file and change   *)
(* the configuration, each call under one recursive mutex if slog_init was *)
(* called with nTdSafe.  A message first goes to the callback of the       *)
(* configuration, which is code of the program: it may call slog again, in *)
(* the same thread, and its value says where the message goes next.        *)
(*                                                                         *)
(* Each thread has a stack of the calls of slog it is in, the last one     *)
(* running.  A step is one access to the configuration, one output or one  *)
(* operation on the mutex with the access next to it.                      *)
(*                                                                         *)
(* As the parameter is for, calls of two threads overlap only when slog is *)
(* thread safe; and slog_init and slog_destroy, which take no lock, are    *)
(* called when no thread is in slog.  Colors, tags, dates, indentation and *)
(* the separator make up the text of a message and are left out.           *)
(*                                                                         *)
(* A definition marked Mutant is not part of the specification: it is a    *)
(* definition with a bug that a property has to notice.                    *)
(***************************************************************************)
EXTENDS Integers, Sequences, FiniteSets

CONSTANTS
  Users,       \* threads that use slog
  Flags,       \* levels of messages
  Callbacks,   \* callbacks of the program, each with its context
  OutputChoices, \* what slog_config_set may set nToScreen, nToFile, nUseHeap to
  MaxDepth,    \* bound: calls of slog within one another
  MaxDisplays, \* bound: calls of slog_display
  MaxChanges,  \* bound: calls that change the configuration, and slog_init
  Nothing

SlogAssumption ==
  /\ Nothing \notin Users \cup Callbacks
  /\ OutputChoices \subseteq [nToScreen : BOOLEAN, nToFile : BOOLEAN, nUseHeap : BOOLEAN]
  /\ MaxDepth \in Nat \ {0} /\ MaxDisplays \in Nat /\ MaxChanges \in Nat

VARIABLES
  nTdSafe, mutex,  \* of g_slog: mutex is [owner, depth]
  config,          \* of g_slog: its fields the rest depends on
  calls,           \* of each thread: the calls of slog it is in
  screen, file,    \* the messages on stdout and in the file
  displays, changes,  \* counted for the bounds
  broken           \* history: a callback was called as NULL, or with the
                   \* context of another

slogVars == <<nTdSafe, mutex, config, calls, screen, file, displays, changes, broken>>

\* slog_init sets nToScreen and clears the rest but the flags.
Config(flags) ==
  [nFlags |-> flags, nToScreen |-> TRUE, nToFile |-> FALSE, nUseHeap |-> FALSE,
   logCallback |-> Nothing, pCallbackCtx |-> Nothing]

\* slog_sync_init
NewMutex == [owner |-> Nothing, depth |-> 0]

\* g_slog is static.
ZeroConfig == [Config({}) EXCEPT !.nToScreen = FALSE]

InitSlog ==
  /\ nTdSafe = FALSE /\ mutex = NewMutex
  /\ config = ZeroConfig
  /\ calls = [t \in Users |-> << >>]
  /\ screen = << >> /\ file = << >>
  /\ displays = 0 /\ changes = 0
  /\ broken = FALSE

Inside(t) == calls[t] # << >>
Top(t) == calls[t][Len(calls[t])]

\* A call of the program, or of a callback it has given.
MayCall(t) ==
  /\ Inside(t) => Len(calls[t]) < MaxDepth /\ Top(t).at = "callback"
  /\ nTdSafe \/ \A u \in Users \ {t} : ~Inside(u)

\* slog_lock and slog_unlock
Lock(t) ==
  IF nTdSafe
    THEN /\ mutex.owner \in {Nothing, t}
         /\ mutex' = [owner |-> t, depth |-> mutex.depth + 1]
    ELSE UNCHANGED mutex

Unlocked ==
  IF ~nTdSafe THEN mutex
  ELSE [owner |-> IF mutex.depth = 1 THEN Nothing ELSE mutex.owner, depth |-> mutex.depth - 1]

Enter(t, call) == calls' = [calls EXCEPT ![t] = Append(@, call)]
CallGoto(t, there) == calls' = [calls EXCEPT ![t][Len(calls[t])].at = there]
Leave(t) == calls' = [calls EXCEPT ![t] = SubSeq(@, 1, Len(@) - 1)]
At(t, here) == Inside(t) /\ Top(t).at = here

------------------------------------------------------------------------------
\* slog_init makes a new mutex; slog_destroy clears the callback and, if slog
\* was thread safe, destroys the mutex.
SlogInit(flags, safe) ==
  /\ changes < MaxChanges /\ \A u \in Users : ~Inside(u)
  /\ changes' = changes + 1
  /\ config' = Config(flags)
  /\ nTdSafe' = safe
  /\ mutex' = IF safe THEN NewMutex ELSE mutex
  /\ UNCHANGED <<calls, screen, file, displays, broken>>

SlogDestroy ==
  /\ changes < MaxChanges /\ \A u \in Users : ~Inside(u)
  /\ changes' = changes + 1
  /\ config' = [config EXCEPT !.pCallbackCtx = Nothing, !.logCallback = Nothing]
  /\ nTdSafe' = FALSE
  /\ UNCHANGED <<mutex, calls, screen, file, displays, broken>>

\* slog_enable and slog_disable
Switch(t, flag) ==
  /\ MayCall(t) /\ changes < MaxChanges
  /\ nTdSafe => mutex.owner \in {Nothing, t}
  /\ changes' = changes + 1
  /\ \/ config' = [config EXCEPT !.nFlags = @ \cup {flag}]
     \/ config' = [config EXCEPT !.nFlags = @ \ {flag}]
  /\ UNCHANGED <<nTdSafe, mutex, calls, screen, file, displays, broken>>

\* slog_config_get, then, with other outputs, slog_config_set
ConfigGet(t) ==
  /\ MayCall(t) /\ changes < MaxChanges
  /\ nTdSafe => mutex.owner \in {Nothing, t}
  /\ changes' = changes + 1
  /\ Enter(t, [at |-> "edit", copy |-> config])
  /\ UNCHANGED <<nTdSafe, mutex, config, screen, file, displays, broken>>

ConfigSet(t, o) ==
  /\ At(t, "edit")
  /\ nTdSafe => mutex.owner \in {Nothing, t}
  /\ config' = [Top(t).copy EXCEPT !.nToScreen = o.nToScreen, !.nToFile = o.nToFile,
                                   !.nUseHeap = o.nUseHeap]
  /\ Leave(t)
  /\ UNCHANGED <<nTdSafe, mutex, screen, file, displays, changes, broken>>

\* slog_callback_set: the context, then the callback.  A callback is its own
\* context here, so that a pair shows that it belongs together.
\* Mutant: without the lock.
CallbackSetUnlocked(t, cb) ==
  /\ MayCall(t) /\ changes < MaxChanges
  /\ UNCHANGED mutex
  /\ changes' = changes + 1
  /\ config' = [config EXCEPT !.pCallbackCtx = cb]
  /\ Enter(t, [at |-> "setting", cb |-> cb])
  /\ UNCHANGED <<nTdSafe, screen, file, displays, broken>>
CallbackSet(t, cb) ==
  /\ MayCall(t) /\ changes < MaxChanges
  /\ Lock(t)
  /\ changes' = changes + 1
  /\ config' = [config EXCEPT !.pCallbackCtx = cb]
  /\ Enter(t, [at |-> "setting", cb |-> cb])
  /\ UNCHANGED <<nTdSafe, screen, file, displays, broken>>

CallbackSetEnd(t) ==
  /\ At(t, "setting")
  /\ config' = [config EXCEPT !.logCallback = Top(t).cb]
  /\ mutex' = Unlocked
  /\ Leave(t)
  /\ UNCHANGED <<nTdSafe, screen, file, displays, changes, broken>>

------------------------------------------------------------------------------
\* slog_display, of a message that is enabled and has somewhere to go: any other
\* changes nothing.
Display(t, flag) ==
  /\ MayCall(t) /\ displays < MaxDisplays
  /\ Lock(t)
  /\ flag \in config.nFlags /\ (config.nToScreen \/ config.nToFile)
  /\ displays' = displays + 1
  /\ Enter(t, [at |-> "text", id |-> displays + 1, nCbVal |-> 1])
  /\ UNCHANGED <<nTdSafe, config, screen, file, changes, broken>>

\* Is there a callback?
Text(t) ==
  /\ At(t, "text")
  /\ CallGoto(t, IF config.logCallback = Nothing THEN "screen" ELSE "call")
  /\ UNCHANGED <<nTdSafe, mutex, config, screen, file, displays, changes, broken>>

\* No memory: on the heap, for the message, which is lost; for the callback,
\* which is left out.
NoMessage(t) ==
  /\ At(t, "text") /\ config.nUseHeap
  /\ mutex' = Unlocked
  /\ Leave(t)
  /\ UNCHANGED <<nTdSafe, config, screen, file, displays, changes, broken>>

NoLog(t) ==
  /\ At(t, "call")
  /\ CallGoto(t, "screen")
  /\ UNCHANGED <<nTdSafe, mutex, config, screen, file, displays, changes, broken>>

CallCallback(t) ==
  /\ At(t, "call")
  /\ broken' = (broken \/ config.logCallback = Nothing
                       \/ config.pCallbackCtx # config.logCallback)
  /\ CallGoto(t, "callback")
  /\ UNCHANGED <<nTdSafe, mutex, config, screen, file, displays, changes>>

CallbackReturns(t, val) ==
  /\ At(t, "callback")
  /\ calls' = [calls EXCEPT ![t][Len(calls[t])].at = "screen",
                            ![t][Len(calls[t])].nCbVal = val]
  /\ UNCHANGED <<nTdSafe, mutex, config, screen, file, displays, changes, broken>>

\* The configuration is read again: the callback may have changed it.
\* Mutant: the mutex is released before the file is written.
ToScreenAndUnlock(t) ==
  /\ At(t, "screen")
  /\ screen' = IF config.nToScreen /\ Top(t).nCbVal > 0 THEN Append(screen, Top(t).id)
                                                        ELSE screen
  /\ CallGoto(t, "file")
  /\ mutex' = Unlocked
  /\ UNCHANGED <<nTdSafe, config, file, displays, changes, broken>>
ToScreen(t) ==
  /\ At(t, "screen")
  /\ screen' = IF config.nToScreen /\ Top(t).nCbVal > 0 THEN Append(screen, Top(t).id)
                                                        ELSE screen
  /\ CallGoto(t, "file")
  /\ UNCHANGED <<nTdSafe, mutex, config, file, displays, changes, broken>>

\* The file is opened for each message, and a message lost if it cannot be.
\* Mutant: the early returns do not reach slog_unlock.
ToFileStillLocked(t) ==
  /\ At(t, "file")
  /\ \/ /\ config.nToFile /\ Top(t).nCbVal >= 0
        /\ file' = Append(file, Top(t).id)
        /\ mutex' = Unlocked
     \/ UNCHANGED <<file, mutex>>
  /\ Leave(t)
  /\ UNCHANGED <<nTdSafe, config, screen, displays, changes, broken>>
ToFile(t) ==
  /\ At(t, "file")
  /\ \/ /\ config.nToFile /\ Top(t).nCbVal >= 0
        /\ file' = Append(file, Top(t).id)
     \/ UNCHANGED file
  /\ mutex' = Unlocked
  /\ Leave(t)
  /\ UNCHANGED <<nTdSafe, config, screen, displays, changes, broken>>

NextSlog ==
  \/ \E flags \in SUBSET Flags, safe \in BOOLEAN : SlogInit(flags, safe)
  \/ SlogDestroy
  \/ \E t \in Users :
       \/ \E flag \in Flags : Switch(t, flag) \/ Display(t, flag)
       \/ ConfigGet(t)
       \/ \E o \in OutputChoices : ConfigSet(t, o)
       \/ \E cb \in Callbacks \cup {Nothing} : CallbackSet(t, cb)
       \/ CallbackSetEnd(t)
       \/ Text(t) \/ NoMessage(t) \/ NoLog(t) \/ CallCallback(t)
       \/ \E val \in {-1, 0, 1} : CallbackReturns(t, val)
       \/ ToScreen(t) \/ ToFile(t)

SpecSlog == InitSlog /\ [][NextSlog]_slogVars

------------------------------------------------------------------------------
Configs == [nFlags : SUBSET Flags, nToScreen : BOOLEAN, nToFile : BOOLEAN,
            nUseHeap : BOOLEAN, logCallback : Callbacks \cup {Nothing},
            pCallbackCtx : Callbacks \cup {Nothing}]

CallTypes ==
  [at : {"text", "call", "callback", "screen", "file"}, id : 1..MaxDisplays,
   nCbVal : {-1, 0, 1}]
  \cup [at : {"edit"}, copy : Configs]
  \cup [at : {"setting"}, cb : Callbacks \cup {Nothing}]

SlogTypeOK ==
  /\ nTdSafe \in BOOLEAN
  /\ mutex \in [owner : Users \cup {Nothing}, depth : 0..MaxDepth]
  /\ config \in Configs
  /\ calls \in [Users -> Seq(CallTypes)] /\ \A t \in Users : Len(calls[t]) <= MaxDepth
  /\ screen \in Seq(1..MaxDisplays) /\ file \in Seq(1..MaxDisplays)
  /\ displays \in 0..MaxDisplays /\ changes \in 0..MaxChanges
  /\ broken \in BOOLEAN

\* Any two messages that are both on the screen and in the file are in the same
\* order there, those a callback displays while the message it was given waits
\* included: slog_display keeps the mutex from the callback to the file.
OneOrder ==
  \A i, j \in DOMAIN screen, k, l \in DOMAIN file :
    i < j /\ screen[i] = file[k] /\ screen[j] = file[l] => k < l

\* No thread calls a callback that another has just removed, or gives one the
\* context of another (slog_callback_set writes the two one by one,
\* slog_display_message tests and reads them one by one).
CallbackPaired == ~broken
=============================================================================
