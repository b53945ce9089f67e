---------------------------- MODULE ProgramProofs -----------------------------
(***************************************************************************)
(* Proofs about the two libraries of which threads share one logger, and   *)
(* about the benchmark that runs them.                                     *)
(*                                                                         *)
(* slog, for any threads, callbacks and depth of the calls that a callback *)
(* makes.  StackInv says what the stack of a thread looks like, MutexInv   *)
(* that its length is the depth of the mutex, so that one thread at a time *)
(* is in a call that changes something; PairInv and OrderInv build on it.  *)
(*                                                                         *)
(* log.c, for any threads, levels, streams and slots, of which one thread  *)
(* adds callbacks.  SlotsInv is about the slots, OwedInv about what a      *)
(* thread in log_log has still to write, LineInv and WholeInv about what   *)
(* is written.                                                             *)
(*                                                                         *)
(* The benchmark, for any n and any of its programs and levels.  Ack and   *)
(* Cost are the value of a call of ackermann and the calls it takes in     *)
(* all, AckRecursion that they obey ackermann's recursion, and Waits that  *)
(* every call that waits will return its value after as many calls.        *)
(***************************************************************************)
EXTENDS Slog, LogC, Benchmark, FiniteSetTheorems, SequenceLemmas

-----------------------------------------------------------------------------
(* slog                                                                    *)

DisplayCalls ==
  [at : {"text", "call", "callback", "screen", "file"}, id : 1..MaxDisplays,
   nCbVal : {-1, 0, 1}]
EditCalls == [at : {"edit"}, copy : Configs]
SettingCalls == [at : {"setting"}, cb : Callbacks \cup {Nothing}]

\* Only a callback calls slog again.
StackInv ==
  /\ calls \in [Users -> Seq(CallTypes)]
  /\ \A t \in Users : Len(calls[t]) <= MaxDepth
  /\ \A t \in Users : \A i \in 1..Len(calls[t]) - 1 : calls[t][i].at = "callback"

\* The calls of a thread that hold the mutex: all but slog_config_get and
\* slog_config_set, which give it back in between.
Held(t) == IF At(t, "edit") THEN Len(calls[t]) - 1 ELSE Len(calls[t])

MutexInv ==
  /\ nTdSafe \in BOOLEAN
  /\ mutex \in [owner : Users \cup {Nothing}, depth : 0..MaxDepth]
  /\ IF nTdSafe
       THEN /\ \A t \in Users : mutex.owner = t <=> Held(t) > 0
            /\ \A t \in Users : mutex.owner = t => mutex.depth = Held(t)
            /\ mutex.owner = Nothing => mutex.depth = 0
       ELSE \A t, u \in Users : Inside(t) /\ Inside(u) => t = u

\* Nobody else is in a call that holds the mutex.
Alone(t) == \A u \in Users \ {t} : Held(u) = 0

-----------------------------------------------------------------------------
(* Stacks                                                                  *)

LEMMA CallKinds ==
  /\ CallTypes = DisplayCalls \cup EditCalls \cup SettingCalls
  /\ \A c \in CallTypes :
       /\ c.at = "edit" <=> c \in EditCalls
       /\ c.at = "setting" <=> c \in SettingCalls
       /\ c.at \in {"text", "call", "callback", "screen", "file"} <=> c \in DisplayCalls
<1>1. CallTypes = DisplayCalls \cup EditCalls \cup SettingCalls
  BY DEF CallTypes, DisplayCalls, EditCalls, SettingCalls
<1>2. \A c \in DisplayCalls : c.at \in {"text", "call", "callback", "screen", "file"}
  BY DEF DisplayCalls
<1>3. \A c \in EditCalls : c.at = "edit"
  BY DEF EditCalls
<1>4. \A c \in SettingCalls : c.at = "setting"
  BY DEF SettingCalls
<1> QED
  BY <1>1, <1>2, <1>3, <1>4

LEMMA TopKind ==
  ASSUME StackInv, NEW t \in Users, Inside(t)
  PROVE  Len(calls[t]) \in Nat \ {0} /\ Top(t) \in CallTypes
BY DEF StackInv, Inside, Top

\* A call is entered.
LEMMA Pushed ==
  ASSUME StackInv, NEW t \in Users, NEW call \in CallTypes, Enter(t, call),
         Inside(t) => Top(t).at = "callback" /\ Len(calls[t]) < MaxDepth,
         SlogAssumption
  PROVE  /\ StackInv'
         /\ Inside(t)' /\ Top(t)' = call
         /\ Len(calls'[t]) = Len(calls[t]) + 1
         /\ \A i \in 1..Len(calls[t]) : calls'[t][i] = calls[t][i]
         /\ \A u \in Users \ {t} : calls'[u] = calls[u]
<1>1. calls' = [calls EXCEPT ![t] = Append(calls[t], call)]
  BY DEF Enter
<1>2. calls[t] \in Seq(CallTypes) /\ Len(calls[t]) \in Nat
  BY DEF StackInv
<1>3. /\ calls'[t] = Append(calls[t], call)
      /\ \A u \in Users \ {t} : calls'[u] = calls[u]
      /\ calls' \in [Users -> Seq(CallTypes)]
  BY <1>1, <1>2 DEF StackInv
<1>4. /\ Len(calls'[t]) = Len(calls[t]) + 1
      /\ \A i \in 1..Len(calls[t]) : calls'[t][i] = calls[t][i]
      /\ calls'[t][Len(calls[t]) + 1] = call
  BY <1>2, <1>3
<1>5. Len(calls'[t]) <= MaxDepth
  <2>1. CASE Inside(t)
    BY <1>2, <1>4, <2>1 DEF SlogAssumption
  <2>2. CASE ~Inside(t)
    BY <1>2, <1>4, <2>2 DEF SlogAssumption, Inside
  <2> QED
    BY <2>1, <2>2
<1>6. ASSUME NEW i \in 1..Len(calls'[t]) - 1
      PROVE  calls'[t][i].at = "callback"
  <2>1. i \in 1..Len(calls[t]) /\ calls'[t][i] = calls[t][i]
    BY <1>2, <1>4
  <2>2. CASE i = Len(calls[t])
    <3>1. calls[t] # << >>
      BY <1>2, <2>1
    <3> QED
      BY <2>1, <2>2, <3>1 DEF Inside, Top
  <2>3. CASE i # Len(calls[t])
    <3>1. i \in 1..Len(calls[t]) - 1
      BY <1>2, <2>1, <2>3
    <3> QED
      BY <2>1, <3>1 DEF StackInv
  <2> QED
    BY <2>2, <2>3
<1>7. StackInv'
  BY <1>3, <1>5, <1>6 DEF StackInv
<1>8. Inside(t)' /\ Top(t)' = call
  BY <1>2, <1>3, <1>4 DEF Inside, Top
<1> QED
  BY <1>3, <1>4, <1>7, <1>8

\* The call that runs goes on.
LEMMA Changed ==
  ASSUME StackInv, NEW t \in Users, Inside(t), NEW call \in CallTypes,
         calls' = [calls EXCEPT ![t] = [@ EXCEPT ![Len(calls[t])] = call]]
  PROVE  /\ StackInv'
         /\ Inside(t)' /\ Top(t)' = call
         /\ Len(calls'[t]) = Len(calls[t])
         /\ \A i \in 1..Len(calls[t]) - 1 : calls'[t][i] = calls[t][i]
         /\ \A u \in Users \ {t} : calls'[u] = calls[u]
<1>1. calls[t] \in Seq(CallTypes) /\ Len(calls[t]) \in Nat \ {0}
  BY TopKind DEF StackInv
<1>2. /\ calls'[t] = [calls[t] EXCEPT ![Len(calls[t])] = call]
      /\ \A u \in Users \ {t} : calls'[u] = calls[u]
  BY DEF StackInv
<1>3. /\ calls'[t] \in Seq(CallTypes)
      /\ Len(calls'[t]) = Len(calls[t])
      /\ calls'[t][Len(calls[t])] = call
      /\ \A i \in 1..Len(calls[t]) - 1 : calls'[t][i] = calls[t][i]
  BY <1>1, <1>2
<1>4. calls' \in [Users -> Seq(CallTypes)]
  BY <1>2, <1>3 DEF StackInv
<1>5. Inside(t)' /\ Top(t)' = call
  BY <1>1, <1>3 DEF Inside, Top
<1>6. StackInv'
  BY <1>2, <1>3, <1>4 DEF StackInv
<1> QED
  BY <1>2, <1>3, <1>5, <1>6

\* A call returns.
LEMMA Popped ==
  ASSUME SlogAssumption, StackInv, NEW t \in Users, Inside(t), Leave(t)
  PROVE  /\ StackInv'
         /\ Inside(t)' => Top(t)'.at = "callback"
         /\ Len(calls'[t]) = Len(calls[t]) - 1
         /\ \A i \in 1..Len(calls[t]) - 1 : calls'[t][i] = calls[t][i]
         /\ \A u \in Users \ {t} : calls'[u] = calls[u]
<1>1. calls[t] \in Seq(CallTypes) /\ Len(calls[t]) \in Nat \ {0}
  BY TopKind DEF StackInv
<1>2. /\ calls'[t] = SubSeq(calls[t], 1, Len(calls[t]) - 1)
      /\ \A u \in Users \ {t} : calls'[u] = calls[u]
  BY DEF StackInv, Leave
<1>3. /\ calls'[t] \in Seq(CallTypes)
      /\ Len(calls'[t]) = Len(calls[t]) - 1
      /\ \A i \in 1..Len(calls[t]) - 1 : calls'[t][i] = calls[t][i]
  BY <1>1, <1>2
<1>4. calls' \in [Users -> Seq(CallTypes)]
  BY <1>2, <1>3 DEF StackInv, Leave
<1>5. \A i \in 1..Len(calls'[t]) : calls'[t][i].at = "callback"
  BY <1>3 DEF StackInv
<1>6. Inside(t)' => Top(t)'.at = "callback"
  <2>1. Inside(t)' => Len(calls'[t]) \in 1..Len(calls'[t])
    BY <1>1, <1>3 DEF Inside
  <2> QED
    BY <1>5, <2>1 DEF Top
<1>7. StackInv'
  <2>1. ASSUME NEW u \in Users
        PROVE  Len(calls'[u]) <= MaxDepth
    <3>1. Len(calls[t]) <= MaxDepth /\ Len(calls[u]) <= MaxDepth
      BY DEF StackInv
    <3>2. CASE u = t
      BY <1>1, <1>3, <3>1, <3>2, SlogAssumption DEF SlogAssumption
    <3>3. CASE u # t
      BY <1>2, <3>1, <3>3
    <3> QED
      BY <3>2, <3>3
  <2>2. ASSUME NEW u \in Users, NEW i \in 1..Len(calls'[u]) - 1
        PROVE  calls'[u][i].at = "callback"
    <3>1. CASE u = t
      <4>1. i \in 1..Len(calls'[t])
        BY <1>1, <1>3, <3>1
      <4> QED
        BY <1>5, <3>1, <4>1
    <3>2. CASE u # t
      BY <1>2, <3>2 DEF StackInv
    <3> QED
      BY <3>1, <3>2
  <2> QED
    BY <1>4, <2>1, <2>2 DEF StackInv
<1> QED
  BY <1>2, <1>3, <1>6, <1>7

-----------------------------------------------------------------------------
(* The mutex                                                               *)

LEMMA HeldNat ==
  ASSUME StackInv, NEW t \in Users
  PROVE  /\ Held(t) \in Nat
         /\ Held(t) <= Len(calls[t])
         /\ Inside(t) /\ ~At(t, "edit") => Held(t) > 0
         /\ ~Inside(t) => Held(t) = 0
<1>1. calls[t] \in Seq(CallTypes) /\ Len(calls[t]) \in Nat
  BY DEF StackInv
<1>2. Inside(t) => Len(calls[t]) > 0
  BY <1>1 DEF Inside
<1>3. ~Inside(t) => Len(calls[t]) = 0 /\ ~At(t, "edit")
  BY DEF Inside, At
<1> QED
  BY <1>1, <1>2, <1>3 DEF Held, At

\* Who has the mutex, or may take it, is alone.
LEMMA HasMutex ==
  ASSUME StackInv, MutexInv, NEW t \in Users,
         nTdSafe => mutex.owner \in {Nothing, t},
         ~nTdSafe => Inside(t) \/ \A u \in Users \ {t} : ~Inside(u),
         Nothing \notin Users
  PROVE  Alone(t)
<1> SUFFICES ASSUME NEW u \in Users \ {t}
             PROVE  Held(u) = 0
  BY DEF Alone
<1>1. Held(u) \in Nat
  BY HeldNat
<1>2. CASE nTdSafe
  <2>1. mutex.owner # u
    BY <1>2
  <2>2. ~(Held(u) > 0)
    BY <1>2, <2>1 DEF MutexInv
  <2> QED
    BY <1>1, <2>2
<1>3. CASE ~nTdSafe
  <2>1. ~Inside(u)
    BY <1>3 DEF MutexInv
  <2> QED
    BY <2>1, HeldNat
<1> QED
  BY <1>2, <1>3

LEMMA HolderAlone ==
  ASSUME StackInv, MutexInv, NEW t \in Users, Inside(t), ~At(t, "edit"),
         Nothing \notin Users
  PROVE  /\ Alone(t)
         /\ Held(t) \in Nat \ {0}
         /\ nTdSafe => mutex.owner = t /\ mutex.depth = Held(t)
<1>1. Held(t) \in Nat /\ Held(t) > 0
  BY HeldNat
<1>2. nTdSafe => mutex.owner = t /\ mutex.depth = Held(t)
  BY <1>1 DEF MutexInv
<1>3. Alone(t)
  BY <1>2, HasMutex
<1> QED
  BY <1>1, <1>2, <1>3

\* A step of t outside the mutex, or within it.
LEMMA MutexSame ==
  ASSUME StackInv, StackInv', MutexInv, NEW t \in Users,
         \A u \in Users \ {t} : calls'[u] = calls[u],
         Held(t)' = Held(t),
         Inside(t) \/ nTdSafe \/ \A u \in Users \ {t} : ~Inside(u),
         UNCHANGED <<nTdSafe, mutex>>
  PROVE  MutexInv'
<1>1. \A u \in Users \ {t} : Held(u)' = Held(u) /\ (Inside(u)' <=> Inside(u))
  BY DEF Held, At, Inside, Top
<1>2. \A u \in Users : Held(u)' = Held(u)
  BY <1>1
<1>3. CASE nTdSafe
  BY <1>2, <1>3 DEF MutexInv
<1>4. CASE ~nTdSafe
  <2>1. \A u \in Users \ {t} : ~Inside(t) => ~Inside(u)
    BY <1>4
  <2>2. \A u \in Users \ {t} : ~Inside(u)' \/ ~Inside(t)'
    BY <1>1, <1>4, <2>1 DEF MutexInv
  <2>3. \A u, v \in Users : Inside(u)' /\ Inside(v)' => u = v
    BY <1>1, <1>4, <2>2 DEF MutexInv
  <2> QED
    BY <1>4, <2>3 DEF MutexInv
<1> QED
  BY <1>3, <1>4

LEMMA MutexTaken ==
  ASSUME StackInv, StackInv', MutexInv, NEW t \in Users, Nothing \notin Users,
         \A u \in Users \ {t} : calls'[u] = calls[u],
         Held(t)' = Held(t) + 1, MaxDepth \in Nat, Held(t) < MaxDepth,
         nTdSafe \/ \A u \in Users \ {t} : ~Inside(u),
         Lock(t), nTdSafe' = nTdSafe
  PROVE  MutexInv' /\ Alone(t)'
<1>1. \A u \in Users \ {t} : Held(u)' = Held(u) /\ (Inside(u)' <=> Inside(u))
  BY DEF Held, At, Inside, Top
<1>2. nTdSafe => mutex.owner \in {Nothing, t}
  BY DEF Lock
<1>3. Alone(t)
  BY <1>2, HasMutex
<1>4. Alone(t)'
  BY <1>1, <1>3 DEF Alone
<1>5. CASE nTdSafe
  <2>1. mutex' = [owner |-> t, depth |-> mutex.depth + 1]
    BY <1>5 DEF Lock
  <2>2. Held(t) \in Nat
    BY HeldNat
  <2>3. mutex.depth = Held(t)
    <3>1. CASE mutex.owner = t
      BY <1>5, <3>1 DEF MutexInv
    <3>2. CASE mutex.owner # t
      BY <1>2, <1>5, <2>2, <3>2 DEF MutexInv
    <3> QED
      BY <3>1, <3>2
  <2>4. /\ mutex'.owner = t /\ mutex'.depth = Held(t)' /\ Held(t)' > 0
        /\ mutex' \in [owner : Users \cup {Nothing}, depth : 0..MaxDepth]
    BY <2>1, <2>2, <2>3
  <2>5. \A u \in Users : mutex'.owner = u <=> Held(u)' > 0
    BY <1>4, <2>4 DEF Alone
  <2>6. \A u \in Users : mutex'.owner = u => mutex'.depth = Held(u)'
    BY <2>4
  <2> QED
    BY <1>4, <1>5, <2>4, <2>5, <2>6 DEF MutexInv
<1>6. CASE ~nTdSafe
  <2>1. UNCHANGED mutex
    BY <1>6 DEF Lock
  <2>2. \A u \in Users \ {t} : ~Inside(u)'
    BY <1>1, <1>6
  <2> QED
    BY <1>4, <1>6, <2>1, <2>2 DEF MutexInv
<1> QED
  BY <1>4, <1>5, <1>6

LEMMA MutexGiven ==
  ASSUME StackInv, StackInv', MutexInv, NEW t \in Users, Nothing \notin Users,
         \A u \in Users \ {t} : calls'[u] = calls[u],
         Inside(t), ~At(t, "edit"), Held(t)' = Held(t) - 1, MaxDepth \in Nat,
         mutex' = Unlocked, nTdSafe' = nTdSafe
  PROVE  MutexInv'
<1>1. \A u \in Users \ {t} : Held(u)' = Held(u) /\ (Inside(u)' <=> Inside(u))
  BY DEF Held, At, Inside, Top
<1>2. Alone(t) /\ Held(t) \in Nat \ {0}
      /\ (nTdSafe => mutex.owner = t /\ mutex.depth = Held(t))
  BY HolderAlone
<1>3. \A u \in Users \ {t} : Held(u)' = 0
  BY <1>1, <1>2 DEF Alone
<1>4. CASE nTdSafe
  <2>1. mutex' = [owner |-> IF Held(t) = 1 THEN Nothing ELSE t, depth |-> Held(t) - 1]
    BY <1>2, <1>4 DEF Unlocked
  <2>2. mutex'.depth \in 0..MaxDepth
    <3>1. mutex.depth \in 0..MaxDepth
      BY DEF MutexInv
    <3> QED
      BY <1>2, <1>4, <2>1, <3>1
  <2>3. mutex' \in [owner : Users \cup {Nothing}, depth : 0..MaxDepth]
    BY <2>1, <2>2
  <2>4. mutex'.owner = t <=> Held(t)' > 0
    BY <1>2, <2>1
  <2>5. mutex'.owner = t => mutex'.depth = Held(t)'
    BY <2>1
  <2>6. mutex'.owner = Nothing => mutex'.depth = 0
    BY <1>2, <2>1
  <2> QED
    BY <1>3, <1>4, <2>1, <2>3, <2>4, <2>5, <2>6 DEF MutexInv
<1>5. CASE ~nTdSafe
  <2>1. mutex' = mutex
    BY <1>5 DEF Unlocked
  <2>2. \A u \in Users \ {t} : ~Inside(u)'
    BY <1>1, <1>5 DEF MutexInv
  <2> QED
    BY <1>5, <2>1, <2>2 DEF MutexInv
<1> QED
  BY <1>4, <1>5

-----------------------------------------------------------------------------
(* The shapes of a step of t                                               *)

BaseInv ==
  /\ StackInv /\ MutexInv
  /\ config \in Configs
  /\ displays \in 0..MaxDisplays

Others(t) == \A u \in Users \ {t} : calls'[u] = calls[u]

Pushes(t, call) ==
  /\ StackInv' /\ Inside(t)' /\ Top(t)' = call
  /\ Len(calls'[t]) = Len(calls[t]) + 1
  /\ \A i \in 1..Len(calls[t]) : calls'[t][i] = calls[t][i]
  /\ Others(t)

Moves(t, call) ==
  /\ StackInv' /\ Inside(t) /\ Inside(t)' /\ Top(t)' = call
  /\ Len(calls'[t]) = Len(calls[t])
  /\ \A i \in 1..Len(calls[t]) - 1 : calls'[t][i] = calls[t][i]
  /\ Others(t)

Pops(t) ==
  /\ StackInv' /\ Inside(t) /\ (Inside(t)' => Top(t)'.at = "callback")
  /\ Len(calls'[t]) = Len(calls[t]) - 1
  /\ \A i \in 1..Len(calls[t]) - 1 : calls'[t][i] = calls[t][i]
  /\ Others(t)

LEMMA MayPush ==
  ASSUME SlogAssumption, StackInv, NEW t \in Users, MayCall(t),
         NEW call \in CallTypes, Enter(t, call)
  PROVE  /\ Pushes(t, call)
         /\ Held(t) = Len(calls[t]) /\ Held(t) \in Nat /\ Held(t) < MaxDepth
         /\ Held(t)' = IF call.at = "edit" THEN Held(t) ELSE Held(t) + 1
<1>1. Inside(t) => Top(t).at = "callback" /\ Len(calls[t]) < MaxDepth
  BY DEF MayCall
<1>2. Pushes(t, call)
  BY <1>1, Pushed DEF Pushes, Others
<1>3. Held(t) = Len(calls[t]) /\ Held(t) \in Nat
  BY <1>1, HeldNat DEF Held, At
<1>4. Held(t) < MaxDepth
  <2>1. ~Inside(t) => Held(t) = 0
    BY HeldNat
  <2> QED
    BY <1>1, <1>3, <2>1 DEF SlogAssumption
<1>5. Held(t)' = IF call.at = "edit" THEN Held(t) ELSE Held(t) + 1
  BY <1>2, <1>3 DEF Pushes, Held, At
<1> QED
  BY <1>2, <1>3, <1>4, <1>5

LEMMA EnterHolding ==
  ASSUME SlogAssumption, BaseInv, NEW t \in Users, MayCall(t), Lock(t),
         NEW call \in CallTypes, call.at # "edit", Enter(t, call), nTdSafe' = nTdSafe
  PROVE  Pushes(t, call) /\ MutexInv' /\ Alone(t) /\ Alone(t)'
<1>1. /\ Pushes(t, call)
      /\ Held(t) < MaxDepth /\ Held(t)' = Held(t) + 1
  BY MayPush DEF BaseInv
<1>2. nTdSafe \/ \A u \in Users \ {t} : ~Inside(u)
  BY DEF MayCall
<1>3. nTdSafe => mutex.owner \in {Nothing, t}
  BY DEF Lock
<1>4. Nothing \notin Users /\ MaxDepth \in Nat
  BY DEF SlogAssumption
<1>5. Alone(t)
  BY <1>2, <1>3, <1>4, HasMutex DEF BaseInv
<1>6. MutexInv' /\ Alone(t)'
  BY <1>1, <1>2, <1>4, MutexTaken DEF BaseInv, Pushes, Others
<1> QED
  BY <1>1, <1>5, <1>6

LEMMA EnterFree ==
  ASSUME SlogAssumption, BaseInv, NEW t \in Users, MayCall(t),
         nTdSafe => mutex.owner \in {Nothing, t},
         NEW call \in CallTypes, call.at = "edit", Enter(t, call),
         UNCHANGED <<nTdSafe, mutex>>
  PROVE  Pushes(t, call) /\ MutexInv' /\ Alone(t)
<1>1. Pushes(t, call) /\ Held(t)' = Held(t)
  BY MayPush DEF BaseInv
<1>2. nTdSafe \/ \A u \in Users \ {t} : ~Inside(u)
  BY DEF MayCall
<1>3. Nothing \notin Users
  BY DEF SlogAssumption
<1>4. Alone(t)
  BY <1>2, <1>3, HasMutex DEF BaseInv
<1>5. MutexInv'
  BY <1>1, <1>2, MutexSame DEF BaseInv, Pushes, Others
<1> QED
  BY <1>1, <1>4, <1>5

LEMMA CallGoes ==
  ASSUME SlogAssumption, BaseInv, NEW t \in Users, Inside(t), ~At(t, "edit"),
         NEW call \in CallTypes, call.at # "edit",
         calls' = [calls EXCEPT ![t] = [@ EXCEPT ![Len(calls[t])] = call]],
         UNCHANGED <<nTdSafe, mutex>>
  PROVE  Moves(t, call) /\ MutexInv' /\ Alone(t)
<1>1. Moves(t, call)
  BY Changed DEF BaseInv, Moves, Others
<1>2. Alone(t)
  BY HolderAlone DEF BaseInv, SlogAssumption
<1>3. Held(t)' = Held(t)
  BY <1>1 DEF Moves, Held, At
<1>4. MutexInv'
  BY <1>1, <1>3, MutexSame DEF BaseInv, Moves, Others
<1> QED
  BY <1>1, <1>2, <1>4

LEMMA LeaveHolding ==
  ASSUME SlogAssumption, BaseInv, NEW t \in Users, Inside(t), ~At(t, "edit"),
         Leave(t), mutex' = Unlocked, nTdSafe' = nTdSafe
  PROVE  Pops(t) /\ MutexInv' /\ Alone(t)
<1>1. Pops(t)
  BY Popped DEF BaseInv, Pops, Others
<1>2. Alone(t)
  BY HolderAlone DEF BaseInv, SlogAssumption
<1>3. Held(t)' = Held(t) - 1
  BY <1>1 DEF Pops, Held, At
<1>4. Nothing \notin Users /\ MaxDepth \in Nat
  BY DEF SlogAssumption
<1>5. MutexInv'
  BY <1>1, <1>3, <1>4, MutexGiven DEF BaseInv, Pops, Others
<1> QED
  BY <1>1, <1>2, <1>5

LEMMA LeaveEdit ==
  ASSUME SlogAssumption, BaseInv, NEW t \in Users, At(t, "edit"), Leave(t),
         nTdSafe => mutex.owner \in {Nothing, t}, UNCHANGED <<nTdSafe, mutex>>
  PROVE  Pops(t) /\ MutexInv' /\ Alone(t)
<1>1. Inside(t)
  BY DEF At
<1>2. Pops(t)
  BY <1>1, Popped DEF BaseInv, Pops, Others
<1>3. Alone(t)
  BY <1>1, HasMutex DEF BaseInv, SlogAssumption
<1>4. Held(t)' = Held(t)
  BY <1>2 DEF Pops, Held, At
<1>5. MutexInv'
  BY <1>1, <1>2, <1>4, MutexSame DEF BaseInv, Pops, Others
<1> QED
  BY <1>2, <1>3, <1>5

\* The message that is being displayed.
LEMMA TopDisplay ==
  ASSUME StackInv, NEW t \in Users,
         NEW here \in {"text", "call", "callback", "screen", "file"}, At(t, here)
  PROVE  /\ Inside(t) /\ ~At(t, "edit")
         /\ Top(t) \in DisplayCalls
         /\ Top(t).id \in 1..MaxDisplays
         /\ \A there \in {"text", "call", "callback", "screen", "file"} :
              /\ [Top(t) EXCEPT !.at = there] \in CallTypes
              /\ CallGoto(t, there) =>
                   calls' = [calls EXCEPT ![t] =
                              [@ EXCEPT ![Len(calls[t])] = [Top(t) EXCEPT !.at = there]]]
<1>1. Inside(t) /\ ~At(t, "edit") /\ Top(t).at = here
  BY DEF At
<1>2. Top(t) \in CallTypes
  BY <1>1, TopKind
<1>3. Top(t) \in DisplayCalls
  BY <1>1, <1>2, CallKinds
<1>4. \A there \in {"text", "call", "callback", "screen", "file"} :
        [Top(t) EXCEPT !.at = there] \in DisplayCalls
  BY <1>3 DEF DisplayCalls
<1>5. Top(t).id \in 1..MaxDisplays
  BY <1>3 DEF DisplayCalls
<1>6. \A there \in {"text", "call", "callback", "screen", "file"} :
        CallGoto(t, there) =>
          calls' = [calls EXCEPT ![t] =
                     [@ EXCEPT ![Len(calls[t])] = [Top(t) EXCEPT !.at = there]]]
  BY DEF CallGoto, Top
<1> QED
  BY <1>1, <1>3, <1>4, <1>5, <1>6, CallKinds

-----------------------------------------------------------------------------
(* The steps                                                               *)

LEMMA SwitchStep ==
  ASSUME SlogAssumption, BaseInv, NEW t \in Users, NEW flag \in Flags, Switch(t, flag)
  PROVE  BaseInv' /\ Alone(t)
<1>1. UNCHANGED <<nTdSafe, mutex, calls, displays>>
  BY DEF Switch
<1>2. config' \in Configs
  BY DEF Switch, BaseInv, Configs
<1>3. StackInv' /\ MutexInv'
  BY <1>1 DEF BaseInv, StackInv, MutexInv, Held, At, Inside, Top
<1>4. Alone(t)
  BY HasMutex DEF BaseInv, Switch, MayCall, SlogAssumption
<1> QED
  BY <1>1, <1>2, <1>3, <1>4 DEF BaseInv

LEMMA ConfigGetStep ==
  ASSUME SlogAssumption, BaseInv, NEW t \in Users, ConfigGet(t)
  PROVE  BaseInv' /\ Alone(t) /\ Pushes(t, [at |-> "edit", copy |-> config])
<1>1. [at |-> "edit", copy |-> config] \in EditCalls
  BY DEF BaseInv, EditCalls
<1>2. /\ MutexInv' /\ Alone(t)
      /\ Pushes(t, [at |-> "edit", copy |-> config])
  BY <1>1, CallKinds, EnterFree DEF ConfigGet
<1> QED
  BY <1>2 DEF BaseInv, Pushes, ConfigGet

LEMMA ConfigSetStep ==
  ASSUME SlogAssumption, BaseInv, NEW t \in Users, NEW o \in OutputChoices, ConfigSet(t, o)
  PROVE  /\ BaseInv' /\ Alone(t) /\ Pops(t)
         /\ config'.logCallback = Top(t).copy.logCallback
         /\ config'.pCallbackCtx = Top(t).copy.pCallbackCtx
<1>1. Pops(t) /\ MutexInv' /\ Alone(t)
  BY LeaveEdit DEF ConfigSet
<1>2. Top(t).copy \in Configs
  <2>1. Inside(t) /\ Top(t).at = "edit"
    BY DEF ConfigSet, At
  <2>2. Top(t) \in EditCalls
    BY <2>1, TopKind, CallKinds DEF BaseInv
  <2> QED
    BY <2>2 DEF EditCalls
<1>3. o \in [nToScreen : BOOLEAN, nToFile : BOOLEAN, nUseHeap : BOOLEAN]
  BY DEF SlogAssumption
<1>4. /\ config' \in Configs
      /\ config'.logCallback = Top(t).copy.logCallback
      /\ config'.pCallbackCtx = Top(t).copy.pCallbackCtx
  BY <1>2, <1>3 DEF ConfigSet, Configs
<1> QED
  BY <1>1, <1>4 DEF BaseInv, Pops, ConfigSet

LEMMA CallbackSetStep ==
  ASSUME SlogAssumption, BaseInv, NEW t \in Users, NEW cb \in Callbacks \cup {Nothing},
         CallbackSet(t, cb)
  PROVE  /\ BaseInv' /\ Alone(t) /\ Alone(t)'
         /\ Pushes(t, [at |-> "setting", cb |-> cb])
         /\ config'.pCallbackCtx = cb
<1>1. [at |-> "setting", cb |-> cb] \in SettingCalls
  BY DEF SettingCalls
<1>2. /\ MutexInv' /\ Alone(t) /\ Alone(t)'
      /\ Pushes(t, [at |-> "setting", cb |-> cb])
  BY <1>1, CallKinds, EnterHolding DEF CallbackSet
<1>3. config' \in Configs /\ config'.pCallbackCtx = cb
  BY DEF CallbackSet, BaseInv, Configs
<1> QED
  BY <1>2, <1>3 DEF BaseInv, Pushes, CallbackSet

LEMMA CallbackSetEndStep ==
  ASSUME SlogAssumption, BaseInv, NEW t \in Users, CallbackSetEnd(t)
  PROVE  /\ BaseInv' /\ Alone(t) /\ Pops(t)
         /\ config'.logCallback = Top(t).cb
         /\ config'.pCallbackCtx = config.pCallbackCtx
<1>1. Inside(t) /\ Top(t).at = "setting" /\ ~At(t, "edit")
  BY DEF CallbackSetEnd, At
<1>2. Top(t) \in SettingCalls
  BY <1>1, TopKind, CallKinds DEF BaseInv
<1>3. /\ config' \in Configs
      /\ config'.logCallback = Top(t).cb
      /\ config'.pCallbackCtx = config.pCallbackCtx
  BY <1>2 DEF CallbackSetEnd, BaseInv, Configs, SettingCalls
<1>4. Pops(t) /\ MutexInv' /\ Alone(t)
  BY <1>1, LeaveHolding DEF CallbackSetEnd
<1> QED
  BY <1>3, <1>4 DEF BaseInv, Pops, CallbackSetEnd

LEMMA DisplayStep ==
  ASSUME SlogAssumption, BaseInv, NEW t \in Users, NEW flag \in Flags, Display(t, flag)
  PROVE  /\ BaseInv' /\ Alone(t) /\ Alone(t)'
         /\ Pushes(t, [at |-> "text", id |-> displays + 1, nCbVal |-> 1])
<1>1. displays + 1 \in 1..MaxDisplays
  BY DEF Display, BaseInv, SlogAssumption
<1>2. [at |-> "text", id |-> displays + 1, nCbVal |-> 1] \in DisplayCalls
  BY <1>1 DEF DisplayCalls
<1>3. /\ MutexInv' /\ Alone(t) /\ Alone(t)'
      /\ Pushes(t, [at |-> "text", id |-> displays + 1, nCbVal |-> 1])
  BY <1>2, CallKinds, EnterHolding DEF Display
<1>4. displays' \in 0..MaxDisplays
  BY <1>1 DEF Display, BaseInv
<1> QED
  BY <1>3, <1>4 DEF BaseInv, Pushes, Display

LEMMA AdvanceStep ==
  ASSUME SlogAssumption, BaseInv, NEW t \in Users,
         NEW here \in {"text", "call", "callback", "screen", "file"}, At(t, here),
         NEW there \in {"text", "call", "callback", "screen", "file"},
         CallGoto(t, there), UNCHANGED <<nTdSafe, mutex, config, displays>>
  PROVE  /\ BaseInv' /\ Alone(t)
         /\ Top(t) \in DisplayCalls
         /\ Moves(t, [Top(t) EXCEPT !.at = there])
<1>1. /\ Inside(t) /\ ~At(t, "edit") /\ Top(t) \in DisplayCalls
      /\ [Top(t) EXCEPT !.at = there] \in CallTypes
      /\ calls' = [calls EXCEPT ![t] =
                    [@ EXCEPT ![Len(calls[t])] = [Top(t) EXCEPT !.at = there]]]
  BY TopDisplay DEF BaseInv
<1>2. [Top(t) EXCEPT !.at = there].at # "edit"
  BY <1>1 DEF DisplayCalls
<1>3. Moves(t, [Top(t) EXCEPT !.at = there]) /\ MutexInv' /\ Alone(t)
  BY <1>1, <1>2, CallGoes
<1> QED
  BY <1>1, <1>3 DEF BaseInv, Moves

LEMMA ReturnsStep ==
  ASSUME SlogAssumption, BaseInv, NEW t \in Users, NEW val \in {-1, 0, 1},
         CallbackReturns(t, val)
  PROVE  /\ BaseInv' /\ Alone(t)
         /\ Top(t) \in DisplayCalls
         /\ Moves(t, [Top(t) EXCEPT !.at = "screen", !.nCbVal = val])
<1>1. Inside(t) /\ ~At(t, "edit") /\ Top(t) \in DisplayCalls
  BY TopDisplay DEF BaseInv, CallbackReturns
<1>2. /\ [Top(t) EXCEPT !.at = "screen", !.nCbVal = val] \in DisplayCalls
      /\ [Top(t) EXCEPT !.at = "screen", !.nCbVal = val].at = "screen"
  BY <1>1 DEF DisplayCalls
<1>3. calls' = [calls EXCEPT ![t] =
                 [@ EXCEPT ![Len(calls[t])] =
                    [Top(t) EXCEPT !.at = "screen", !.nCbVal = val]]]
  <2>1. calls[t] \in Seq(CallTypes) /\ Len(calls[t]) \in 1..Len(calls[t])
        /\ t \in DOMAIN calls
    <3>1. calls[t] \in Seq(CallTypes) /\ t \in DOMAIN calls
      BY DEF BaseInv, StackInv
    <3>2. Len(calls[t]) \in Nat \ {0}
      BY TopKind, <1>1 DEF BaseInv
    <3> QED
      BY <3>1, <3>2
  <2>2. calls' = [calls EXCEPT ![t][Len(calls[t])].at = "screen",
                               ![t][Len(calls[t])].nCbVal = val]
    BY DEF CallbackReturns
  <2> QED
    BY <2>1, <2>2, <1>1 DEF Top
<1>4. /\ Moves(t, [Top(t) EXCEPT !.at = "screen", !.nCbVal = val])
      /\ MutexInv' /\ Alone(t)
  BY <1>1, <1>2, <1>3, CallKinds, CallGoes DEF CallbackReturns
<1> QED
  BY <1>1, <1>4 DEF BaseInv, Moves, CallbackReturns

LEMMA EndStep ==
  ASSUME SlogAssumption, BaseInv, NEW t \in Users,
         NEW here \in {"text", "call", "callback", "screen", "file"}, At(t, here),
         Leave(t), mutex' = Unlocked, UNCHANGED <<nTdSafe, config, displays>>
  PROVE  BaseInv' /\ Alone(t) /\ Top(t) \in DisplayCalls /\ Pops(t)
<1>1. Inside(t) /\ ~At(t, "edit") /\ Top(t) \in DisplayCalls
  BY TopDisplay DEF BaseInv
<1>2. Pops(t) /\ MutexInv' /\ Alone(t)
  BY <1>1, LeaveHolding
<1> QED
  BY <1>1, <1>2 DEF BaseInv, Pops

-----------------------------------------------------------------------------
(* The callback and its context                                            *)

PairInv ==
  /\ \/ config.logCallback = config.pCallbackCtx
     \/ \E t \in Users : At(t, "setting")
  /\ \A t \in Users : At(t, "setting") => Top(t).cb = config.pCallbackCtx
  /\ \A t \in Users :
       At(t, "edit") => Top(t).copy.logCallback = Top(t).copy.pCallbackCtx
  /\ \A t \in Users : At(t, "call") => config.logCallback # Nothing
  /\ ~broken

\* What the others of t are doing when t is alone.
LEMMA OthersIdle ==
  ASSUME StackInv, NEW t \in Users, Alone(t), NEW u \in Users \ {t}
  PROVE  ~At(u, "setting") /\ ~At(u, "call") /\ ~At(u, "screen") /\ ~At(u, "file")
<1>1. Held(u) = 0
  BY DEF Alone
<1> QED
  BY <1>1, HeldNat DEF At

LEMMA SameAt ==
  ASSUME NEW t \in Users, Others(t), NEW u \in Users \ {t}
  PROVE  /\ \A here : At(u, here)' <=> At(u, here)
         /\ Top(u)' = Top(u)
BY DEF Others, At, Inside, Top

\* A step of t, alone, that leaves the callback and its context alone.
LEMMA PairSame ==
  ASSUME StackInv, PairInv, NEW t \in Users, Alone(t), Others(t),
         ~At(t, "setting"), ~At(t, "setting")',
         config'.logCallback = config.logCallback,
         config'.pCallbackCtx = config.pCallbackCtx,
         At(t, "call")' => config.logCallback # Nothing,
         At(t, "edit")' => Top(t)'.copy = config,
         ~broken'
  PROVE  PairInv'
<1>1. \A u \in Users : ~At(u, "setting") /\ ~At(u, "setting")'
  BY OthersIdle, SameAt
<1>2. config.logCallback = config.pCallbackCtx
  BY <1>1 DEF PairInv
<1>3. \A u \in Users : At(u, "edit")' => Top(u)'.copy.logCallback = Top(u)'.copy.pCallbackCtx
  BY <1>2, SameAt DEF PairInv
<1>4. \A u \in Users : At(u, "call")' => config.logCallback # Nothing
  BY OthersIdle, SameAt
<1> QED
  BY <1>1, <1>2, <1>3, <1>4 DEF PairInv

LEMMA PairStep ==
  ASSUME SlogAssumption, BaseInv, PairInv, [NextSlog]_slogVars
  PROVE  BaseInv' /\ PairInv'
<1> USE DEF BaseInv
<1>0. CASE UNCHANGED slogVars
  BY <1>0 DEF slogVars, BaseInv, StackInv, MutexInv, PairInv, Held, At, Inside, Top
<1>1. ASSUME NEW flags \in SUBSET Flags, NEW safe \in BOOLEAN, SlogInit(flags, safe)
      PROVE  BaseInv' /\ PairInv'
  <2>1. \A u \in Users : ~Inside(u)' /\ Held(u)' = 0
    <3>1. \A u \in Users : ~Inside(u) /\ Held(u) = 0
      BY <1>1, HeldNat DEF SlogInit
    <3> QED
      BY <1>1, <3>1 DEF SlogInit, Inside, Held, At, Top
  <2>2. config' \in Configs /\ config'.logCallback = config'.pCallbackCtx
    BY <1>1 DEF SlogInit, Config, Configs
  <2>3. StackInv' /\ displays' = displays /\ ~broken'
    BY <1>1 DEF SlogInit, StackInv, PairInv
  <2>4. MutexInv'
    BY <1>1, <2>1 DEF SlogInit, MutexInv, NewMutex, SlogAssumption
  <2> QED
    BY <2>1, <2>2, <2>3, <2>4 DEF PairInv, At
<1>2. CASE SlogDestroy
  <2>1. \A u \in Users : ~Inside(u)' /\ Held(u)' = 0
    <3>1. \A u \in Users : ~Inside(u) /\ Held(u) = 0
      BY <1>2, HeldNat DEF SlogDestroy
    <3> QED
      BY <1>2, <3>1 DEF SlogDestroy, Inside, Held, At, Top
  <2>2. config' \in Configs /\ config'.logCallback = config'.pCallbackCtx
    BY <1>2 DEF SlogDestroy, Configs
  <2>3. StackInv' /\ displays' = displays /\ ~broken'
    BY <1>2 DEF SlogDestroy, StackInv, PairInv
  <2>4. MutexInv'
    BY <1>2, <2>1 DEF SlogDestroy, MutexInv
  <2> QED
    BY <2>1, <2>2, <2>3, <2>4 DEF PairInv, At
<1>3. ASSUME NEW t \in Users, NEW flag \in Flags, Switch(t, flag)
      PROVE  BaseInv' /\ PairInv'
  <2>1. BaseInv'
    BY <1>3, SwitchStep
  <2>2. /\ config'.logCallback = config.logCallback
        /\ config'.pCallbackCtx = config.pCallbackCtx
        /\ calls' = calls /\ broken' = broken
    BY <1>3 DEF Switch, Configs
  <2> QED
    BY <2>1, <2>2 DEF PairInv, At, Inside, Top
<1>4. ASSUME NEW t \in Users, NEW flag \in Flags, Display(t, flag)
      PROVE  BaseInv' /\ PairInv'
  <2>1. /\ BaseInv' /\ Alone(t)
        /\ Pushes(t, [at |-> "text", id |-> displays + 1, nCbVal |-> 1])
    BY <1>4, DisplayStep
  <2>2. ~At(t, "setting") /\ config' = config /\ ~broken'
    BY <1>4 DEF Display, MayCall, At, PairInv
  <2> QED
    BY <2>1, <2>2, PairSame DEF Pushes, At
<1>5. ASSUME NEW t \in Users, ConfigGet(t)
      PROVE  BaseInv' /\ PairInv'
  <2>1. BaseInv' /\ Alone(t) /\ Pushes(t, [at |-> "edit", copy |-> config])
    BY <1>5, ConfigGetStep
  <2>2. ~At(t, "setting") /\ config' = config /\ ~broken'
    BY <1>5 DEF ConfigGet, MayCall, At, PairInv
  <2> QED
    BY <2>1, <2>2, PairSame DEF Pushes, At
<1>6. ASSUME NEW t \in Users, NEW o \in OutputChoices, ConfigSet(t, o)
      PROVE  BaseInv' /\ PairInv'
  <2>1. /\ BaseInv' /\ Alone(t) /\ Pops(t)
        /\ config'.logCallback = Top(t).copy.logCallback
        /\ config'.pCallbackCtx = Top(t).copy.pCallbackCtx
    BY <1>6, ConfigSetStep
  <2>2. At(t, "edit") /\ ~broken'
    BY <1>6 DEF ConfigSet, PairInv
  <2>3. config'.logCallback = config'.pCallbackCtx
    BY <2>1, <2>2 DEF PairInv
  <2>4. ~At(t, "setting")' /\ ~At(t, "call")' /\ ~At(t, "edit")'
    BY <2>1 DEF Pops, At
  <2>5. \A u \in Users : ~At(u, "setting")' /\ ~At(u, "call")'
    BY <2>1, <2>4, OthersIdle, SameAt DEF Pops
  <2>6. \A u \in Users :
          At(u, "edit")' => Top(u)'.copy.logCallback = Top(u)'.copy.pCallbackCtx
    BY <2>1, <2>4, SameAt DEF PairInv, Pops
  <2> QED
    BY <2>1, <2>2, <2>3, <2>5, <2>6 DEF PairInv
<1>7. ASSUME NEW t \in Users, NEW cb \in Callbacks \cup {Nothing}, CallbackSet(t, cb)
      PROVE  BaseInv' /\ PairInv'
  <2>1. /\ BaseInv' /\ Alone(t)
        /\ Pushes(t, [at |-> "setting", cb |-> cb])
        /\ config'.pCallbackCtx = cb
    BY <1>7, CallbackSetStep
  <2>2. /\ At(t, "setting")' /\ Top(t)'.cb = cb
        /\ ~At(t, "call")' /\ ~At(t, "edit")' /\ ~broken'
    BY <1>7, <2>1 DEF Pushes, At, CallbackSet, PairInv
  <2>3. \A u \in Users : At(u, "setting")' => u = t
    BY <2>1, OthersIdle, SameAt DEF Pushes
  <2>4. \A u \in Users : ~At(u, "call")'
    BY <2>1, <2>2, OthersIdle, SameAt DEF Pushes
  <2>5. \A u \in Users :
          At(u, "edit")' => Top(u)'.copy.logCallback = Top(u)'.copy.pCallbackCtx
    BY <2>1, <2>2, SameAt DEF PairInv, Pushes
  <2> QED
    BY <2>1, <2>2, <2>3, <2>4, <2>5 DEF PairInv
<1>8. ASSUME NEW t \in Users, CallbackSetEnd(t)
      PROVE  BaseInv' /\ PairInv'
  <2>1. /\ BaseInv' /\ Alone(t) /\ Pops(t)
        /\ config'.logCallback = Top(t).cb
        /\ config'.pCallbackCtx = config.pCallbackCtx
    BY <1>8, CallbackSetEndStep
  <2>2. config'.logCallback = config'.pCallbackCtx /\ ~broken'
    BY <1>8, <2>1 DEF CallbackSetEnd, PairInv
  <2>3. ~At(t, "setting")' /\ ~At(t, "call")' /\ ~At(t, "edit")'
    BY <2>1 DEF Pops, At
  <2>4. \A u \in Users : ~At(u, "setting")' /\ ~At(u, "call")'
    BY <2>1, <2>3, OthersIdle, SameAt DEF Pops
  <2>5. \A u \in Users :
          At(u, "edit")' => Top(u)'.copy.logCallback = Top(u)'.copy.pCallbackCtx
    BY <2>1, <2>3, SameAt DEF PairInv, Pops
  <2> QED
    BY <2>1, <2>2, <2>4, <2>5 DEF PairInv
<1>9. ASSUME NEW t \in Users, Text(t)
      PROVE  BaseInv' /\ PairInv'
  <2> DEFINE there == IF config.logCallback = Nothing THEN "screen" ELSE "call"
  <2>1. /\ BaseInv' /\ Alone(t) /\ Top(t) \in DisplayCalls
        /\ Moves(t, [Top(t) EXCEPT !.at = there])
    BY <1>9, AdvanceStep DEF Text
  <2>2. ~At(t, "setting") /\ config' = config /\ ~broken'
    BY <1>9 DEF Text, At, PairInv
  <2>3. Top(t)'.at = there
    BY <2>1 DEF Moves, DisplayCalls
  <2> QED
    BY <2>1, <2>2, <2>3, PairSame DEF Moves, At
<1>10. ASSUME NEW t \in Users, NoMessage(t)
       PROVE  BaseInv' /\ PairInv'
  <2>1. BaseInv' /\ Alone(t) /\ Pops(t)
    BY <1>10, EndStep DEF NoMessage
  <2>2. ~At(t, "setting") /\ config' = config /\ ~broken'
    BY <1>10 DEF NoMessage, At, PairInv
  <2> QED
    BY <2>1, <2>2, PairSame DEF Pops, At
<1>11. ASSUME NEW t \in Users, NoLog(t)
       PROVE  BaseInv' /\ PairInv'
  <2>1. /\ BaseInv' /\ Alone(t) /\ Top(t) \in DisplayCalls
        /\ Moves(t, [Top(t) EXCEPT !.at = "screen"])
    BY <1>11, AdvanceStep DEF NoLog
  <2>2. ~At(t, "setting") /\ config' = config /\ ~broken'
    BY <1>11 DEF NoLog, At, PairInv
  <2>3. Top(t)'.at = "screen"
    BY <2>1 DEF Moves, DisplayCalls
  <2> QED
    BY <2>1, <2>2, <2>3, PairSame DEF Moves, At
<1>12. ASSUME NEW t \in Users, CallCallback(t)
       PROVE  BaseInv' /\ PairInv'
  <2>1. /\ BaseInv' /\ Alone(t) /\ Top(t) \in DisplayCalls
        /\ Moves(t, [Top(t) EXCEPT !.at = "callback"])
    BY <1>12, AdvanceStep DEF CallCallback
  <2>2. ~At(t, "setting") /\ config' = config
    BY <1>12 DEF CallCallback, At
  <2>3. \A u \in Users : ~At(u, "setting")
    BY <2>1, <2>2, OthersIdle
  <2>4. ~broken'
    BY <1>12, <2>3 DEF CallCallback, PairInv
  <2>5. Top(t)'.at = "callback"
    BY <2>1 DEF Moves, DisplayCalls
  <2> QED
    BY <2>1, <2>2, <2>4, <2>5, PairSame DEF Moves, At
<1>13. ASSUME NEW t \in Users, NEW val \in {-1, 0, 1}, CallbackReturns(t, val)
       PROVE  BaseInv' /\ PairInv'
  <2>1. /\ BaseInv' /\ Alone(t) /\ Top(t) \in DisplayCalls
        /\ Moves(t, [Top(t) EXCEPT !.at = "screen", !.nCbVal = val])
    BY <1>13, ReturnsStep
  <2>2. ~At(t, "setting") /\ config' = config /\ ~broken'
    BY <1>13 DEF CallbackReturns, At, PairInv
  <2>3. Top(t)'.at = "screen"
    BY <2>1 DEF Moves, DisplayCalls
  <2> QED
    BY <2>1, <2>2, <2>3, PairSame DEF Moves, At
<1>14. ASSUME NEW t \in Users, ToScreen(t)
       PROVE  BaseInv' /\ PairInv'
  <2>1. /\ BaseInv' /\ Alone(t) /\ Top(t) \in DisplayCalls
        /\ Moves(t, [Top(t) EXCEPT !.at = "file"])
    BY <1>14, AdvanceStep DEF ToScreen
  <2>2. ~At(t, "setting") /\ config' = config /\ ~broken'
    BY <1>14 DEF ToScreen, At, PairInv
  <2>3. Top(t)'.at = "file"
    BY <2>1 DEF Moves, DisplayCalls
  <2> QED
    BY <2>1, <2>2, <2>3, PairSame DEF Moves, At
<1>15. ASSUME NEW t \in Users, ToFile(t)
       PROVE  BaseInv' /\ PairInv'
  <2>1. BaseInv' /\ Alone(t) /\ Pops(t)
    BY <1>15, EndStep DEF ToFile
  <2>2. ~At(t, "setting") /\ config' = config /\ ~broken'
    BY <1>15 DEF ToFile, At, PairInv
  <2> QED
    BY <2>1, <2>2, PairSame DEF Pops, At
<1> QED
  BY <1>0, <1>1, <1>2, <1>3, <1>4, <1>5, <1>6, <1>7, <1>8, <1>9, <1>10, <1>11, <1>12,
     <1>13, <1>14, <1>15 DEF NextSlog

-----------------------------------------------------------------------------
(* The order of the messages                                               *)

\* The displays among the calls of a thread.
DisplaysOf(t) == {i \in 1..Len(calls[t]) : calls[t][i] \in DisplayCalls}

\* Every display under way has a message of its own, not yet in the file; it is
\* on the screen only if the display is at the file, and then as the last one.
OrderInv ==
  /\ screen \in Seq(1..MaxDisplays) /\ file \in Seq(1..MaxDisplays)
  /\ \A k \in 1..Len(screen) : screen[k] <= displays
  /\ \A k \in 1..Len(file) : file[k] <= displays
  /\ \A t \in Users : \A i \in DisplaysOf(t) :
       /\ calls[t][i].id <= displays
       /\ \A k \in 1..Len(file) : file[k] # calls[t][i].id
       /\ \A k \in 1..Len(screen) :
            screen[k] = calls[t][i].id => calls[t][i].at = "file" /\ k = Len(screen)
  /\ \A t, u \in Users : \A i \in DisplaysOf(t), j \in DisplaysOf(u) :
       calls[t][i].id = calls[u][j].id => t = u /\ i = j
  /\ OneOrder

LEMMA DisplayFields ==
  ASSUME StackInv, NEW t \in Users, NEW i \in DisplaysOf(t)
  PROVE  calls[t][i].id \in 1..MaxDisplays /\ i \in Nat
BY DEF DisplaysOf, DisplayCalls

\* The displays after a step are displays that were there before.
Kept ==
  \A u \in Users : \A i \in DisplaysOf(u)' :
    /\ i \in DisplaysOf(u)
    /\ calls'[u][i].id = calls[u][i].id

LEMMA KeptByPush ==
  ASSUME NEW t \in Users, NEW call, Pushes(t, call), StackInv, call \notin DisplayCalls
  PROVE  /\ Kept
         /\ \A u \in Users : \A i \in DisplaysOf(u)' : calls'[u][i] = calls[u][i]
<1>1. Len(calls[t]) \in Nat /\ Len(calls'[t]) = Len(calls[t]) + 1
  BY DEF StackInv, Pushes
<1>2. calls'[t][Len(calls'[t])] = call
  BY DEF Pushes, Top
<1>3. ASSUME NEW u \in Users, NEW i \in DisplaysOf(u)'
      PROVE  i \in DisplaysOf(u) /\ calls'[u][i] = calls[u][i]
  <2>1. CASE u = t
    <3>1. i \in 1..Len(calls[t])
      BY <1>1, <1>2, <2>1 DEF DisplaysOf
    <3>2. calls'[t][i] = calls[t][i]
      BY <3>1 DEF Pushes
    <3> QED
      BY <2>1, <3>1, <3>2 DEF DisplaysOf
  <2>2. CASE u # t
    BY <2>2 DEF Pushes, Others, DisplaysOf
  <2> QED
    BY <2>1, <2>2
<1> QED
  BY <1>3 DEF Kept

LEMMA KeptByPop ==
  ASSUME NEW t \in Users, Pops(t), StackInv
  PROVE  /\ Kept
         /\ Len(calls[t]) \notin DisplaysOf(t)'
         /\ \A u \in Users : \A i \in DisplaysOf(u)' : calls'[u][i] = calls[u][i]
<1>1. Len(calls[t]) \in Nat /\ Len(calls'[t]) = Len(calls[t]) - 1
  BY DEF StackInv, Pops
<1>2. ASSUME NEW u \in Users, NEW i \in DisplaysOf(u)'
      PROVE  i \in DisplaysOf(u) /\ calls'[u][i] = calls[u][i]
  <2>1. CASE u = t
    <3>1. i \in 1..Len(calls[t]) - 1 /\ i \in 1..Len(calls[t])
      BY <1>1, <2>1 DEF DisplaysOf
    <3>2. calls'[t][i] = calls[t][i]
      BY <3>1 DEF Pops
    <3> QED
      BY <2>1, <3>1, <3>2 DEF DisplaysOf
  <2>2. CASE u # t
    BY <2>2 DEF Pops, Others, DisplaysOf
  <2> QED
    BY <2>1, <2>2
<1>3. Len(calls[t]) \notin DisplaysOf(t)'
  BY <1>1 DEF DisplaysOf
<1> QED
  BY <1>2, <1>3 DEF Kept

\* A display that goes on stays the same display; all others stay as they are.
LEMMA KeptByMove ==
  ASSUME NEW t \in Users, NEW call, Moves(t, call), StackInv, Top(t) \in DisplayCalls,
         call.id = Top(t).id
  PROVE  /\ Kept
         /\ Len(calls[t]) \in DisplaysOf(t)
         /\ calls'[t][Len(calls[t])] = call
         /\ \A u \in Users : \A i \in DisplaysOf(u)' :
              u # t \/ i # Len(calls[t]) => calls'[u][i] = calls[u][i]
<1>1. /\ Len(calls[t]) \in Nat \ {0} /\ Len(calls'[t]) = Len(calls[t])
      /\ Len(calls[t]) \in 1..Len(calls[t])
  BY TopKind DEF StackInv, Moves
<1>2. calls'[t][Len(calls[t])] = call
  BY <1>1 DEF Moves, Top
<1>3. Len(calls[t]) \in DisplaysOf(t)
  BY <1>1 DEF DisplaysOf, Top
<1>4. ASSUME NEW u \in Users, NEW i \in DisplaysOf(u)', u # t \/ i # Len(calls[t])
      PROVE  i \in DisplaysOf(u) /\ calls'[u][i] = calls[u][i]
  <2>1. CASE u = t
    <3>1. i \in 1..Len(calls[t]) - 1 /\ i \in 1..Len(calls[t])
      BY <1>1, <1>4, <2>1 DEF DisplaysOf
    <3>2. calls'[t][i] = calls[t][i]
      BY <3>1 DEF Moves
    <3> QED
      BY <2>1, <3>1, <3>2 DEF DisplaysOf
  <2>2. CASE u # t
    BY <2>2 DEF Moves, Others, DisplaysOf
  <2> QED
    BY <2>1, <2>2
<1>5. Kept
  BY <1>2, <1>3, <1>4 DEF Kept, Top
<1> QED
  BY <1>2, <1>3, <1>4, <1>5

\* A step that puts nothing out.
LEMMA Silent ==
  ASSUME StackInv, OrderInv, Kept, UNCHANGED <<screen, file, displays>>,
         \A u \in Users : \A i \in DisplaysOf(u)' :
           calls[u][i].at = "file" => calls'[u][i].at = "file"
  PROVE  OrderInv'
<1>1. ASSUME NEW u \in Users, NEW i \in DisplaysOf(u)'
      PROVE  /\ calls'[u][i].id <= displays'
             /\ \A k \in 1..Len(file') : file'[k] # calls'[u][i].id
             /\ \A k \in 1..Len(screen') :
                  screen'[k] = calls'[u][i].id =>
                    calls'[u][i].at = "file" /\ k = Len(screen')
  BY DEF OrderInv, Kept
<1>2. ASSUME NEW u \in Users, NEW v \in Users,
             NEW i \in DisplaysOf(u)', NEW j \in DisplaysOf(v)',
             calls'[u][i].id = calls'[v][j].id
      PROVE  u = v /\ i = j
  BY <1>2 DEF OrderInv, Kept
<1>3. OneOrder'
  BY DEF OrderInv, OneOrder
<1> QED
  BY <1>1, <1>2, <1>3 DEF OrderInv

LEMMA ElementOf ==
  ASSUME NEW S, NEW q \in Seq(S), NEW k \in 1..Len(q)
  PROVE  q[k] \in S
OBVIOUS

\* A message is begun.
LEMMA Begun ==
  ASSUME BaseInv, OrderInv, NEW t \in Users,
         Pushes(t, [at |-> "text", id |-> displays + 1, nCbVal |-> 1]),
         displays' = displays + 1, UNCHANGED <<screen, file>>
  PROVE  OrderInv'
<1> DEFINE call == [at |-> "text", id |-> displays + 1, nCbVal |-> 1]
           new == Len(calls[t]) + 1
<1>1. displays \in Nat
  BY DEF BaseInv
<1>2. Len(calls[t]) \in Nat /\ calls'[t][new] = call
  BY DEF BaseInv, StackInv, Pushes, Top
<1>3. ASSUME NEW u \in Users, NEW i \in DisplaysOf(u)', u # t \/ i # new
      PROVE  i \in DisplaysOf(u) /\ calls'[u][i] = calls[u][i]
  <2>1. CASE u = t
    <3>1. i \in 1..Len(calls[t])
      BY <1>2, <1>3, <2>1 DEF DisplaysOf, Pushes
    <3>2. calls'[t][i] = calls[t][i]
      BY <3>1 DEF Pushes
    <3> QED
      BY <2>1, <3>1, <3>2 DEF DisplaysOf
  <2>2. CASE u # t
    BY <2>2 DEF Pushes, Others, DisplaysOf
  <2> QED
    BY <2>1, <2>2
<1>4. \A u \in Users : \A i \in DisplaysOf(u) :
        calls[u][i].id \in Nat /\ calls[u][i].id <= displays
  BY DisplayFields DEF BaseInv, OrderInv
<1>5. ASSUME NEW k \in 1..Len(screen)
      PROVE  screen[k] \in Nat /\ screen[k] <= displays
  <2>1. screen \in Seq(1..MaxDisplays) /\ screen[k] <= displays
    BY DEF OrderInv
  <2>2. screen[k] \in 1..MaxDisplays
    BY <2>1, ElementOf
  <2> QED
    BY <2>1, <2>2
<1>6. ASSUME NEW k \in 1..Len(file)
      PROVE  file[k] \in Nat /\ file[k] <= displays
  <2>1. file \in Seq(1..MaxDisplays) /\ file[k] <= displays
    BY DEF OrderInv
  <2>2. file[k] \in 1..MaxDisplays
    BY <2>1, ElementOf
  <2> QED
    BY <2>1, <2>2
<1>7. ASSUME NEW u \in Users, NEW i \in DisplaysOf(u)'
      PROVE  /\ calls'[u][i].id <= displays'
             /\ \A k \in 1..Len(file') : file'[k] # calls'[u][i].id
             /\ \A k \in 1..Len(screen') :
                  screen'[k] = calls'[u][i].id =>
                    calls'[u][i].at = "file" /\ k = Len(screen')
  <2>1. CASE u = t /\ i = new
    <3>1. calls'[u][i].id = displays + 1
      BY <1>2, <2>1
    <3> QED
      BY <1>1, <1>5, <1>6, <3>1
  <2>2. CASE u # t \/ i # new
    <3>1. i \in DisplaysOf(u) /\ calls'[u][i] = calls[u][i]
      BY <1>3, <2>2
    <3>2. calls[u][i].id <= displays'
      BY <1>1, <1>4, <3>1
    <3> QED
      BY <3>1, <3>2 DEF OrderInv
  <2> QED
    BY <2>1, <2>2
<1>8. ASSUME NEW u \in Users, NEW v \in Users,
             NEW i \in DisplaysOf(u)', NEW j \in DisplaysOf(v)',
             calls'[u][i].id = calls'[v][j].id
      PROVE  u = v /\ i = j
  <2>1. CASE u = t /\ i = new /\ ~(v = t /\ j = new)
    <3>1. calls'[u][i].id = displays + 1 /\ calls'[v][j].id <= displays
          /\ calls'[v][j].id \in Nat
      BY <1>2, <1>3, <1>4, <2>1
    <3> QED
      BY <1>1, <1>8, <3>1
  <2>2. CASE v = t /\ j = new /\ ~(u = t /\ i = new)
    <3>1. calls'[v][j].id = displays + 1
      BY <1>2, <2>2
    <3>2. i \in DisplaysOf(u) /\ calls'[u][i] = calls[u][i]
      BY <1>3, <2>2
    <3>3. calls'[u][i].id <= displays /\ calls'[u][i].id \in Nat
      BY <1>4, <3>2
    <3> QED
      BY <1>1, <1>8, <3>1, <3>3
  <2>3. CASE ~(u = t /\ i = new) /\ ~(v = t /\ j = new)
    <3>1. /\ i \in DisplaysOf(u) /\ calls'[u][i] = calls[u][i]
          /\ j \in DisplaysOf(v) /\ calls'[v][j] = calls[v][j]
      BY <1>3, <2>3
    <3> QED
      BY <1>8, <3>1 DEF OrderInv
  <2> QED
    BY <2>1, <2>2, <2>3
<1>9. OneOrder'
  BY DEF OrderInv, OneOrder
<1>10. /\ \A k \in 1..Len(screen') : screen'[k] <= displays'
       /\ \A k \in 1..Len(file') : file'[k] <= displays'
  BY <1>1, <1>5, <1>6
<1>11. screen' \in Seq(1..MaxDisplays) /\ file' \in Seq(1..MaxDisplays)
  BY DEF OrderInv
<1> QED
  BY <1>7, <1>8, <1>9, <1>10, <1>11 DEF OrderInv

\* It is shown on the screen: no other display is at the file.
LEMMA Shown ==
  ASSUME BaseInv, OrderInv, NEW t \in Users, Alone(t), At(t, "screen"),
         Top(t) \in DisplayCalls, Moves(t, [Top(t) EXCEPT !.at = "file"]),
         screen' = Append(screen, Top(t).id) \/ screen' = screen,
         UNCHANGED <<file, displays>>
  PROVE  OrderInv'
<1> DEFINE top == Len(calls[t])
           call == [Top(t) EXCEPT !.at = "file"]
<1>1. call.id = Top(t).id /\ call.at = "file" /\ Top(t).id \in 1..MaxDisplays
  BY DEF DisplayCalls
<1>2. /\ Kept /\ top \in DisplaysOf(t) /\ calls'[t][top] = call
      /\ \A u \in Users : \A i \in DisplaysOf(u)' :
           u # t \/ i # top => calls'[u][i] = calls[u][i]
  BY <1>1, KeptByMove DEF BaseInv
<1>3. calls[t][top].id = Top(t).id /\ calls[t][top].at = "screen"
  BY DEF At, Top
<1>4. Top(t).id <= displays /\ Len(screen) \in Nat
  BY <1>2, <1>3 DEF OrderInv
<1>5. \A k \in 1..Len(screen) : screen[k] # Top(t).id
  BY <1>2, <1>3 DEF OrderInv
<1>6. CASE screen' = screen
  BY <1>1, <1>2, <1>6, Silent DEF BaseInv
<1>7. CASE screen' = Append(screen, Top(t).id)
  <2>1. /\ screen' \in Seq(1..MaxDisplays) /\ Len(screen') = Len(screen) + 1
        /\ \A k \in 1..Len(screen) : screen'[k] = screen[k]
        /\ screen'[Len(screen) + 1] = Top(t).id
    BY <1>1, <1>7 DEF OrderInv
  <2>2. \A k \in 1..Len(screen') : screen'[k] <= displays
    <3>1. ASSUME NEW k \in 1..Len(screen')
          PROVE  k \in 1..Len(screen) \/ k = Len(screen) + 1
      BY <1>4, <2>1
    <3> QED
      BY <1>4, <2>1, <3>1 DEF OrderInv
  <2>3. ASSUME NEW u \in Users, NEW i \in DisplaysOf(u)'
        PROVE  /\ calls'[u][i].id <= displays'
               /\ \A k \in 1..Len(file') : file'[k] # calls'[u][i].id
    BY <1>2 DEF OrderInv, Kept
  <2>4. ASSUME NEW u \in Users, NEW i \in DisplaysOf(u)',
               NEW k \in 1..Len(screen'), screen'[k] = calls'[u][i].id
        PROVE  calls'[u][i].at = "file" /\ k = Len(screen')
    <3>1. CASE u = t /\ i = top
      <4>1. calls'[u][i] = call
        BY <1>2, <3>1
      <4>2. k \notin 1..Len(screen)
        BY <1>1, <1>5, <2>1, <2>4, <4>1
      <4> QED
        BY <1>1, <1>4, <2>1, <4>1, <4>2
    <3>2. CASE u # t \/ i # top
      <4>1. i \in DisplaysOf(u) /\ calls'[u][i] = calls[u][i]
        BY <1>2, <3>2 DEF Kept
      <4>2. calls[u][i].id # Top(t).id
        BY <1>2, <1>3, <3>2, <4>1 DEF OrderInv
      <4>3. k \in 1..Len(screen) /\ screen[k] = calls[u][i].id
        BY <1>4, <2>1, <2>4, <4>1, <4>2
      <4>4. calls[u][i].at = "file"
        BY <4>1, <4>3 DEF OrderInv
      <4>5. u # t
        <5>1. CASE u = t
          <6>1. i \in 1..Len(calls[t]) - 1
            BY <3>2, <4>1, <5>1 DEF DisplaysOf, BaseInv, StackInv
          <6>2. calls[t][i].at = "callback"
            BY <6>1 DEF BaseInv, StackInv
          <6> QED
            BY <4>4, <5>1, <6>2
        <5> QED
          BY <5>1
      <4>6. At(u, "file")
        <5>1. i \in 1..Len(calls[u]) /\ Len(calls[u]) \in Nat
          BY <4>1 DEF DisplaysOf, BaseInv, StackInv
        <5>2. i = Len(calls[u])
          <6>1. CASE i # Len(calls[u])
            <7>1. i \in 1..Len(calls[u]) - 1
              BY <5>1, <6>1
            <7>2. calls[u][i].at = "callback"
              BY <7>1 DEF BaseInv, StackInv
            <7> QED
              BY <4>4, <7>2
          <6> QED
            BY <6>1
        <5>3. calls[u] # << >>
          BY <5>1
        <5> QED
          BY <4>4, <5>2, <5>3 DEF At, Inside, Top
      <4> QED
        BY <4>5, <4>6, OthersIdle DEF BaseInv
    <3> QED
      BY <3>1, <3>2
  <2>5. ASSUME NEW u \in Users, NEW v \in Users,
               NEW i \in DisplaysOf(u)', NEW j \in DisplaysOf(v)',
               calls'[u][i].id = calls'[v][j].id
        PROVE  u = v /\ i = j
    BY <1>2, <2>5 DEF OrderInv, Kept
  <2>6. OneOrder'
    <3> SUFFICES ASSUME NEW i \in DOMAIN screen', NEW j \in DOMAIN screen',
                        NEW k \in DOMAIN file', NEW l \in DOMAIN file',
                        i < j, screen'[i] = file'[k], screen'[j] = file'[l]
                 PROVE  k < l
      BY DEF OneOrder
    <3>1. /\ i \in 1..Len(screen') /\ j \in 1..Len(screen')
          /\ k \in 1..Len(file) /\ l \in 1..Len(file)
      BY <2>1 DEF OrderInv
    <3>2. file[l] # Top(t).id
      BY <1>2, <1>3, <3>1 DEF OrderInv
    <3>3. j \in 1..Len(screen) /\ i \in 1..Len(screen)
      BY <1>4, <2>1, <3>1, <3>2
    <3>4. i \in DOMAIN screen /\ j \in DOMAIN screen
      BY <3>3 DEF OrderInv
    <3> QED
      BY <2>1, <3>3, <3>4 DEF OrderInv, OneOrder
  <2> QED
    BY <2>1, <2>2, <2>3, <2>4, <2>5, <2>6 DEF OrderInv
<1> QED
  BY <1>6, <1>7

\* It is written to the file, and the display is over.
LEMMA WrittenLast ==
  ASSUME BaseInv, OrderInv, NEW t \in Users, At(t, "file"),
         Top(t) \in DisplayCalls, Pops(t),
         file' = Append(file, Top(t).id), UNCHANGED <<screen, displays>>
  PROVE  OrderInv'
<1> DEFINE top == Len(calls[t])
<1>1. top \in DisplaysOf(t) /\ calls[t][top].id = Top(t).id
  <2>1. top \in 1..Len(calls[t])
    BY TopKind DEF BaseInv, Pops
  <2> QED
    BY <2>1 DEF DisplaysOf, Top
<1>2. /\ Kept /\ top \notin DisplaysOf(t)'
      /\ \A u \in Users : \A i \in DisplaysOf(u)' : calls'[u][i] = calls[u][i]
  BY KeptByPop DEF BaseInv
<1>3. Top(t).id \in 1..MaxDisplays /\ Top(t).id <= displays /\ Len(file) \in Nat
  BY <1>1 DEF OrderInv, DisplayCalls
<1>4. /\ file' \in Seq(1..MaxDisplays) /\ Len(file') = Len(file) + 1
      /\ \A k \in 1..Len(file) : file'[k] = file[k]
      /\ file'[Len(file) + 1] = Top(t).id
  BY <1>3 DEF OrderInv
<1>5. \A k \in 1..Len(file') : k \in 1..Len(file) \/ k = Len(file) + 1
  BY <1>3, <1>4
<1>6. \A k \in 1..Len(file') : file'[k] <= displays
  BY <1>3, <1>4, <1>5 DEF OrderInv
<1>7. ASSUME NEW u \in Users, NEW i \in DisplaysOf(u)'
      PROVE  /\ calls'[u][i].id <= displays'
             /\ \A k \in 1..Len(file') : file'[k] # calls'[u][i].id
             /\ \A k \in 1..Len(screen') :
                  screen'[k] = calls'[u][i].id =>
                    calls'[u][i].at = "file" /\ k = Len(screen')
  <2>1. i \in DisplaysOf(u) /\ calls'[u][i] = calls[u][i]
    BY <1>2 DEF Kept
  <2>2. calls[u][i].id # Top(t).id
    BY <1>1, <1>2, <2>1 DEF OrderInv
  <2>3. \A k \in 1..Len(file') : file'[k] # calls[u][i].id
    BY <1>4, <1>5, <2>1, <2>2 DEF OrderInv
  <2> QED
    BY <2>1, <2>3 DEF OrderInv
<1>8. ASSUME NEW u \in Users, NEW v \in Users,
             NEW i \in DisplaysOf(u)', NEW j \in DisplaysOf(v)',
             calls'[u][i].id = calls'[v][j].id
      PROVE  u = v /\ i = j
  BY <1>2, <1>8 DEF OrderInv, Kept
<1>9. OneOrder'
  <2> SUFFICES ASSUME NEW i \in DOMAIN screen', NEW j \in DOMAIN screen',
                      NEW k \in DOMAIN file', NEW l \in DOMAIN file',
                      i < j, screen'[i] = file'[k], screen'[j] = file'[l]
               PROVE  k < l
    BY DEF OneOrder
  <2>1. /\ i \in 1..Len(screen) /\ j \in 1..Len(screen) /\ Len(screen) \in Nat
        /\ k \in 1..Len(file') /\ l \in 1..Len(file')
        /\ screen' = screen
    BY <1>4 DEF OrderInv
  <2>2. screen[i] # Top(t).id
    <3>1. CASE screen[i] = Top(t).id
      <4>1. i = Len(screen)
        BY <1>1, <2>1, <3>1 DEF OrderInv
      <4> QED
        BY <2>1, <4>1
    <3> QED
      BY <3>1
  <2>3. k \in 1..Len(file) /\ file[k] = screen[i]
    BY <1>4, <1>5, <2>1, <2>2
  <2>4. CASE l = Len(file) + 1
    BY <1>3, <2>3, <2>4
  <2>5. CASE l \in 1..Len(file)
    <3>1. i \in DOMAIN screen /\ j \in DOMAIN screen
          /\ k \in DOMAIN file /\ l \in DOMAIN file
          /\ screen[j] = file[l]
      BY <1>4, <2>1, <2>3, <2>5 DEF OrderInv
    <3> QED
      BY <2>3, <3>1 DEF OrderInv, OneOrder
  <2> QED
    BY <1>5, <2>1, <2>4, <2>5
<1>10. screen' \in Seq(1..MaxDisplays) /\ \A k \in 1..Len(screen') : screen'[k] <= displays'
  BY DEF OrderInv
<1> QED
  BY <1>4, <1>6, <1>7, <1>8, <1>9, <1>10 DEF OrderInv

LEMMA OrderStep ==
  ASSUME SlogAssumption, BaseInv, OrderInv, [NextSlog]_slogVars
  PROVE  OrderInv'
<1>0. CASE UNCHANGED slogVars
  BY <1>0 DEF slogVars, OrderInv, OneOrder, DisplaysOf
<1>1. ASSUME UNCHANGED <<calls, screen, file, displays>>
      PROVE  OrderInv'
  BY <1>1 DEF OrderInv, OneOrder, DisplaysOf
<1>2. ASSUME NEW t \in Users, NEW flag \in Flags, Display(t, flag)
      PROVE  OrderInv'
  BY <1>2, DisplayStep, Begun DEF Display
<1>3. ASSUME NEW t \in Users, ConfigGet(t)
      PROVE  OrderInv'
  <2>1. Pushes(t, [at |-> "edit", copy |-> config])
    BY <1>3, ConfigGetStep
  <2>2. [at |-> "edit", copy |-> config] \notin DisplayCalls
    BY DEF DisplayCalls
  <2> QED
    BY <1>3, <2>1, <2>2, KeptByPush, Silent DEF ConfigGet, BaseInv
<1>4. ASSUME NEW t \in Users, NEW cb \in Callbacks \cup {Nothing}, CallbackSet(t, cb)
      PROVE  OrderInv'
  <2>1. Pushes(t, [at |-> "setting", cb |-> cb])
    BY <1>4, CallbackSetStep
  <2>2. [at |-> "setting", cb |-> cb] \notin DisplayCalls
    BY DEF DisplayCalls
  <2> QED
    BY <1>4, <2>1, <2>2, KeptByPush, Silent DEF CallbackSet, BaseInv
<1>5. ASSUME NEW t \in Users, NEW o \in OutputChoices, ConfigSet(t, o)
      PROVE  OrderInv'
  BY <1>5, ConfigSetStep, KeptByPop, Silent DEF ConfigSet, BaseInv
<1>6. ASSUME NEW t \in Users, CallbackSetEnd(t)
      PROVE  OrderInv'
  BY <1>6, CallbackSetEndStep, KeptByPop, Silent DEF CallbackSetEnd, BaseInv
<1>7. ASSUME NEW t \in Users, NEW call, Top(t) \in DisplayCalls, Moves(t, call),
             call.id = Top(t).id, ~At(t, "file"), UNCHANGED <<screen, file, displays>>
      PROVE  OrderInv'
  <2>1. /\ Kept
        /\ \A u \in Users : \A i \in DisplaysOf(u)' :
             u # t \/ i # Len(calls[t]) => calls'[u][i] = calls[u][i]
    BY <1>7, KeptByMove DEF BaseInv
  <2>2. calls[t][Len(calls[t])].at # "file"
    BY <1>7 DEF Moves, At, Top
  <2> QED
    BY <1>7, <2>1, <2>2, Silent DEF BaseInv
<1>8. ASSUME NEW t \in Users, Text(t)
      PROVE  OrderInv'
  <2> DEFINE there == IF config.logCallback = Nothing THEN "screen" ELSE "call"
  <2>1. Top(t) \in DisplayCalls /\ Moves(t, [Top(t) EXCEPT !.at = there])
    BY <1>8, AdvanceStep DEF Text
  <2>2. [Top(t) EXCEPT !.at = there].id = Top(t).id /\ ~At(t, "file")
    BY <1>8, <2>1 DEF DisplayCalls, Text, At
  <2> QED
    BY <1>7, <1>8, <2>1, <2>2 DEF Text
<1>9. ASSUME NEW t \in Users, NoLog(t)
      PROVE  OrderInv'
  <2>1. Top(t) \in DisplayCalls /\ Moves(t, [Top(t) EXCEPT !.at = "screen"])
    BY <1>9, AdvanceStep DEF NoLog
  <2>2. [Top(t) EXCEPT !.at = "screen"].id = Top(t).id /\ ~At(t, "file")
    BY <1>9, <2>1 DEF DisplayCalls, NoLog, At
  <2> QED
    BY <1>7, <1>9, <2>1, <2>2 DEF NoLog
<1>10. ASSUME NEW t \in Users, CallCallback(t)
       PROVE  OrderInv'
  <2>1. Top(t) \in DisplayCalls /\ Moves(t, [Top(t) EXCEPT !.at = "callback"])
    BY <1>10, AdvanceStep DEF CallCallback
  <2>2. [Top(t) EXCEPT !.at = "callback"].id = Top(t).id /\ ~At(t, "file")
    BY <1>10, <2>1 DEF DisplayCalls, CallCallback, At
  <2> QED
    BY <1>7, <1>10, <2>1, <2>2 DEF CallCallback
<1>11. ASSUME NEW t \in Users, NEW val \in {-1, 0, 1}, CallbackReturns(t, val)
       PROVE  OrderInv'
  <2>1. /\ Top(t) \in DisplayCalls
        /\ Moves(t, [Top(t) EXCEPT !.at = "screen", !.nCbVal = val])
    BY <1>11, ReturnsStep
  <2>2. /\ [Top(t) EXCEPT !.at = "screen", !.nCbVal = val].id = Top(t).id
        /\ ~At(t, "file")
    BY <1>11, <2>1 DEF DisplayCalls, CallbackReturns, At
  <2> QED
    BY <1>7, <1>11, <2>1, <2>2 DEF CallbackReturns
<1>12. ASSUME NEW t \in Users, ToScreen(t)
       PROVE  OrderInv'
  <2>1. /\ Alone(t) /\ Top(t) \in DisplayCalls
        /\ Moves(t, [Top(t) EXCEPT !.at = "file"])
    BY <1>12, AdvanceStep DEF ToScreen
  <2> QED
    BY <1>12, <2>1, Shown DEF ToScreen
<1>13. ASSUME NEW t \in Users, NoMessage(t)
       PROVE  OrderInv'
  <2>1. Pops(t)
    BY <1>13, EndStep DEF NoMessage
  <2> QED
    BY <1>13, <2>1, KeptByPop, Silent DEF NoMessage, BaseInv
<1>14. ASSUME NEW t \in Users, ToFile(t)
       PROVE  OrderInv'
  <2>1. Top(t) \in DisplayCalls /\ Pops(t)
    BY <1>14, EndStep DEF ToFile
  <2>2. CASE file' = file
    BY <1>14, <2>1, <2>2, KeptByPop, Silent DEF ToFile, BaseInv
  <2>3. CASE file' = Append(file, Top(t).id)
    BY <1>14, <2>1, <2>3, WrittenLast DEF ToFile
  <2> QED
    BY <1>14, <2>2, <2>3 DEF ToFile
<1>15. ASSUME NEW flags \in SUBSET Flags, NEW safe \in BOOLEAN, SlogInit(flags, safe)
       PROVE  OrderInv'
  BY <1>1, <1>15 DEF SlogInit
<1>16. CASE SlogDestroy
  BY <1>1, <1>16 DEF SlogDestroy
<1>17. ASSUME NEW t \in Users, NEW flag \in Flags, Switch(t, flag)
       PROVE  OrderInv'
  BY <1>1, <1>17 DEF Switch
<1> QED
  BY <1>0, <1>2, <1>3, <1>4, <1>5, <1>6, <1>8, <1>9, <1>10, <1>11, <1>12, <1>13, <1>14,
     <1>15, <1>16, <1>17 DEF NextSlog

-----------------------------------------------------------------------------
(* The theorems                                                            *)

LEMMA Initially ==
  ASSUME SlogAssumption, InitSlog
  PROVE  BaseInv /\ PairInv /\ OrderInv
<1>1. \A t \in Users : calls[t] = << >> /\ ~Inside(t)
  BY DEF InitSlog, Inside
<1>2. \A t \in Users : Held(t) = 0 /\ \A here : ~At(t, here)
  BY <1>1 DEF Held, At
<1>3. StackInv
  BY <1>1 DEF InitSlog, StackInv, SlogAssumption
<1>4. MutexInv
  <2>1. mutex \in [owner : Users \cup {Nothing}, depth : 0..MaxDepth]
    BY DEF InitSlog, NewMutex, SlogAssumption
  <2> QED
    BY <1>1, <2>1 DEF InitSlog, MutexInv
<1>5. config \in Configs /\ config.logCallback = config.pCallbackCtx
  BY DEF InitSlog, ZeroConfig, Config, Configs
<1>6. displays \in 0..MaxDisplays
  BY DEF InitSlog, SlogAssumption
<1>7. PairInv
  BY <1>2, <1>5 DEF InitSlog, PairInv
<1>8. screen = << >> /\ file = << >> /\ \A t \in Users : DisplaysOf(t) = {}
  BY <1>1 DEF InitSlog, DisplaysOf
<1>9. OrderInv
  BY <1>8 DEF OrderInv, OneOrder
<1> QED
  BY <1>3, <1>4, <1>5, <1>6, <1>7, <1>9 DEF BaseInv

\* A callback is called with the context it was set with, and never after it was
\* removed, whatever other threads and callbacks set meanwhile:
\* slog_display_message reads the two while it holds the mutex that
\* slog_callback_set holds while it writes them.
THEOREM PairedCalls == ASSUME SlogAssumption PROVE SpecSlog => []CallbackPaired
<1>1. InitSlog => BaseInv /\ PairInv
  BY Initially
<1>2. BaseInv /\ PairInv /\ [NextSlog]_slogVars => (BaseInv /\ PairInv)'
  BY PairStep
<1>3. PairInv => CallbackPaired
  BY DEF PairInv, CallbackPaired
<1> QED
  BY <1>1, <1>2, <1>3, PTL DEF SpecSlog

\* The messages that are on the screen and in the file are in the same order on
\* both, with any number of threads and of displays within one another:
\* slog_display keeps the mutex over both outputs.
THEOREM SameOrder == ASSUME SlogAssumption PROVE SpecSlog => []OneOrder
<1>1. InitSlog => BaseInv /\ PairInv /\ OrderInv
  BY Initially
<1>2. BaseInv /\ PairInv /\ OrderInv /\ [NextSlog]_slogVars
        => (BaseInv /\ PairInv /\ OrderInv)'
  BY PairStep, OrderStep
<1>3. OrderInv => OneOrder
  BY DEF OrderInv
<1> QED
  BY <1>1, <1>2, <1>3, PTL DEF SpecSlog

-----------------------------------------------------------------------------
(* log.c                                                                   *)

\* One thread adds callbacks.  Two of them may fill one slot, and what the first
\* has added is lost: what is proved here is false of them.
OneAdder == \A t, u \in Adders : t = u

Active(t) == at[t] \in {"head", "tail"}
Adding(t) == at[t] \in {"adding", "added"}

\* A slot that has its stream.
Full(i) == callbacks[i].fn /\ callbacks[i].udata # "NULL"

AddedFiles == {a.udata : a \in added}

\* The slots in use come first, each for a stream of its own, and hold what was
\* added; the one that is being filled is free, or half filled.
SlotsInv ==
  /\ \A i \in Slots : callbacks[i].fn => \A j \in 1..i - 1 : callbacks[j].fn
  /\ \A i \in Slots : ~callbacks[i].fn => \/ callbacks[i] = Free
                                          \/ \E t \in Loggers : at[t] = "added" /\ slot[t] = i
  /\ \A i \in Slots : Full(i) => callbacks[i].udata \in AddedFiles
  /\ \A i, j \in Slots : Full(i) /\ Full(j) /\ callbacks[i].udata = callbacks[j].udata
                           => i = j
  /\ \A a \in added : \E i \in Slots :
       callbacks[i] = [fn |-> TRUE, udata |-> a.udata, level |-> a.level]

AdderInv(t) ==
  /\ Adding(t) => /\ t \in Adders /\ slot[t] \in Slots
                  /\ ev[t].udata \in Files /\ ev[t].udata \notin AddedFiles
                  /\ \A j \in 1..slot[t] - 1 : callbacks[j].fn
  /\ at[t] = "adding" => callbacks[slot[t]] = Free
  /\ at[t] = "added" => ~Full(slot[t])

\* Of a thread in log_log: the event has a number of its own; while a line is
\* written its stream is that of the slot.
LoggerInv(t) ==
  /\ Active(t) <=> ev[t].id # 0
  /\ ev[t].id <= events
  /\ at[t] = "tail" =>
       /\ slot[t] <= MAX_CALLBACKS /\ ev[t].udata = Stream(t) /\ ev[t].time
       /\ slot[t] \in Slots => Full(slot[t])

IdsInv == \A t, u \in Loggers : Active(t) /\ Active(u) /\ ev[t].id = ev[u].id => t = u

\* Who logs holds the lock, and then the time localtime has left is that of its event.
LockInv == lockFn => \A t \in Loggers :
  Active(t) => lockedBy = t /\ (ev[t].time => tm = ev[t].id)

Passed(t, i) == i < slot[t] \/ (i = slot[t] /\ at[t] = "tail")

\* What the event of a thread is owed to has a slot; it is there when the thread
\* has passed the slot, and nothing is there that it has not passed.
OwedInv(t) == Active(t) =>
  /\ \A s \in owed[ev[t].id] : \E i \in Slots :
       /\ Full(i) /\ callbacks[i].udata = s /\ ev[t].level >= callbacks[i].level
       /\ Passed(t, i) => HeadsOf(s, ev[t].id) # {}
  /\ \A s \in Streams : HeadsOf(s, ev[t].id) # {} =>
       \/ s = "stderr" /\ Passed(t, 0)
       \/ \E i \in Slots : Full(i) /\ callbacks[i].udata = s /\ Passed(t, i)

\* Each stream has one line of a message, and all of it when the message is
\* finished.
LineInv(s) ==
  /\ \A k \in DOMAIN out[s] : out[s][k].id <= events
  /\ \A e \in 1..MaxEvents : \A k, l \in HeadsOf(s, e) : k = l
  /\ \A e \in 1..MaxEvents : Finished(e) /\ s \in owed[e] => HeadsOf(s, e) # {}

\* The thread whose line ends with this head is going to write the tail.
Pending(s, k) == k = Len(out[s]) /\ \E t \in Loggers :
  at[t] = "tail" /\ ev[t].udata = s /\ ev[t].id = out[s][k].id

WholeInv(s) == lockFn => \A k \in DOMAIN out[s] : out[s][k].part = "head" =>
  out[s][k].time = out[s][k].id /\ (LineWhole(s, k) \/ Pending(s, k))

LogCInv ==
  /\ LogCTypeOK
  /\ SlotsInv
  /\ \A t \in Loggers : AdderInv(t) /\ LoggerInv(t) /\ OwedInv(t)
  /\ IdsInv /\ LockInv
  /\ \A s \in Streams : LineInv(s) /\ WholeInv(s)

\* What has been written to a stream.
Parts == [id : 1..MaxEvents, part : {"head", "tail"}, time : 0..MaxEvents]

\* The functions of the threads and streams.
LEMMA LogCTypes ==
  ASSUME LogCTypeOK
  PROVE  /\ \A t \in Loggers : /\ at[t] \in {"idle", "adding", "added", "head", "tail"}
                               /\ ev[t].id \in 0..MaxEvents /\ ev[t].level \in LogLevels
                               /\ slot[t] \in 0..MAX_CALLBACKS + 1
         /\ \A s \in Streams : out[s] \in Seq(Parts)
         /\ \A e \in 1..MaxEvents : owed[e] \subseteq Files
         /\ \A i \in Slots : /\ callbacks[i].udata \in Files \cup {"NULL"}
                             /\ callbacks[i].fn \in BOOLEAN
                             /\ callbacks[i].level \in LogLevels
         /\ \A a \in added : a.udata \in Files /\ a.level \in LogLevels
<1>1. \A t \in Loggers : at[t] \in {"idle", "adding", "added", "head", "tail"}
                         /\ slot[t] \in 0..MAX_CALLBACKS + 1
  BY DEF LogCTypeOK
<1>2. \A t \in Loggers : ev[t] \in [id : 0..MaxEvents, level : LogLevels, time : BOOLEAN,
                                    udata : Streams \cup {"NULL"}]
  BY DEF LogCTypeOK
<1>3. \A t \in Loggers : ev[t].id \in 0..MaxEvents /\ ev[t].level \in LogLevels
  BY <1>2
<1>4. \A s \in Streams : out[s] \in Seq(Parts)
  BY DEF LogCTypeOK, Parts
<1>5. \A e \in 1..MaxEvents : owed[e] \subseteq Files
  BY DEF LogCTypeOK
<1>6. \A i \in Slots : callbacks[i] \in [fn : BOOLEAN, udata : Files \cup {"NULL"},
                                         level : LogLevels]
  BY DEF LogCTypeOK
<1>7. \A i \in Slots : /\ callbacks[i].udata \in Files \cup {"NULL"}
                       /\ callbacks[i].fn \in BOOLEAN
                       /\ callbacks[i].level \in LogLevels
  BY <1>6
<1>8. \A a \in added : a.udata \in Files /\ a.level \in LogLevels
  BY DEF LogCTypeOK
<1> QED
  BY <1>1, <1>3, <1>4, <1>5, <1>7, <1>8

\* The heads of a message in a stream that is given one part more.
LEMMA HeadsAppend ==
  ASSUME NEW a \in Seq(Parts), NEW p \in Parts, NEW b, b = Append(a, p), NEW e
  PROVE  /\ DOMAIN a = 1..Len(a) /\ Len(a) \in Nat /\ Len(b) = Len(a) + 1
         /\ DOMAIN b = 1..Len(a) + 1 /\ b[Len(a) + 1] = p
         /\ \A k \in DOMAIN a : b[k] = a[k]
         /\ {k \in DOMAIN b : b[k].id = e /\ b[k].part = "head"}
              = {k \in DOMAIN a : a[k].id = e /\ a[k].part = "head"}
                  \cup (IF p.id = e /\ p.part = "head" THEN {Len(a) + 1} ELSE {})
<1>1. /\ DOMAIN a = 1..Len(a) /\ Len(a) \in Nat /\ Len(b) = Len(a) + 1
      /\ DOMAIN b = 1..Len(a) + 1 /\ b[Len(a) + 1] = p
      /\ \A k \in DOMAIN a : b[k] = a[k]
  BY AppendProperties
<1>2. \A k : k \in DOMAIN b <=> k \in DOMAIN a \/ k = Len(a) + 1
  BY <1>1
<1>3. Len(a) + 1 \notin DOMAIN a
  BY <1>1
<1> DEFINE last == Len(a) + 1
<1>4. /\ b[last] = p /\ last \notin DOMAIN a
      /\ \A k : k \in DOMAIN b <=> k \in DOMAIN a \/ k = last
  BY <1>1, <1>2, <1>3
<1> HIDE DEF last
<1>5. {k \in DOMAIN b : b[k].id = e /\ b[k].part = "head"}
        = {k \in DOMAIN a : a[k].id = e /\ a[k].part = "head"}
            \cup (IF p.id = e /\ p.part = "head" THEN {last} ELSE {})
  BY <1>1, <1>4
<1> QED
  BY <1>1, <1>5 DEF last

LEMMA LogCInit ==
  ASSUME LogCAssumption, InitLogC
  PROVE  LogCInv
<1>1. LogCTypeOK
  <2>1. Free \in [fn : BOOLEAN, udata : Files \cup {"NULL"}, level : LogLevels]
    BY DEF Free, LogCAssumption
  <2>2. NoEvent \in [id : 0..MaxEvents, level : LogLevels, time : BOOLEAN,
                     udata : Streams \cup {"NULL"}]
    BY DEF NoEvent, LogCAssumption
  <2>3. \A s \in Streams : out[s] \in Seq(Parts)
    BY EmptySeq DEF InitLogC
  <2>4. out \in [Streams -> Seq(Parts)]
    BY <2>3 DEF InitLogC
  <2>5. slot \in [Loggers -> 0..(MAX_CALLBACKS + 1)] /\ events \in 0..MaxEvents
        /\ sets \in 0..MaxSets /\ tm \in 0..MaxEvents /\ level \in LogLevels
    BY DEF InitLogC, LogCAssumption
  <2> QED
    BY <2>1, <2>2, <2>4, <2>5 DEF InitLogC, LogCTypeOK, Parts
<1>2. /\ \A t \in Loggers : ~Active(t) /\ ~Adding(t) /\ ev[t].id = 0 /\ at[t] = "idle"
      /\ \A i \in Slots : callbacks[i] = Free /\ ~callbacks[i].fn
      /\ added = {} /\ events = 0 /\ \A s \in Streams : DOMAIN out[s] = {}
      /\ \A e \in 1..MaxEvents : owed[e] = {}
  BY DEF InitLogC, Active, Adding, NoEvent, Free
<1>3. SlotsInv
  BY <1>2 DEF SlotsInv, Full
<1>4. \A t \in Loggers : AdderInv(t) /\ LoggerInv(t) /\ OwedInv(t)
  BY <1>2 DEF AdderInv, LoggerInv, OwedInv
<1>5. IdsInv /\ LockInv
  BY <1>2 DEF IdsInv, LockInv
<1>6. \A s \in Streams : LineInv(s) /\ WholeInv(s)
  BY <1>2 DEF LineInv, WholeInv, HeadsOf
<1> QED
  BY <1>1, <1>3, <1>4, <1>5, <1>6 DEF LogCInv

\* A thread in its slots, and its event.
LEMMA EventType ==
  ASSUME LogCTypeOK, NEW t \in Loggers
  PROVE  ev[t] \in [id : 0..MaxEvents, level : LogLevels, time : BOOLEAN,
                    udata : Streams \cup {"NULL"}]
BY DEF LogCTypeOK

LEMMA NoEventType ==
  ASSUME LogCAssumption
  PROVE  NoEvent \in [id : 0..MaxEvents, level : LogLevels, time : BOOLEAN,
                      udata : Streams \cup {"NULL"}]
BY DEF NoEvent, LogCAssumption

LEMMA LogCTypeStep ==
  ASSUME LogCAssumption, LogCInv, NextLogC
  PROVE  LogCTypeOK'
<1> DEFINE Events == [id : 0..MaxEvents, level : LogLevels, time : BOOLEAN,
                      udata : Streams \cup {"NULL"}]
           States == {"idle", "adding", "added", "head", "tail"}
           Cbs == [fn : BOOLEAN, udata : Files \cup {"NULL"}, level : LogLevels]
<1>1. LogCTypeOK /\ MAX_CALLBACKS \in Nat /\ MaxEvents \in Nat /\ MaxSets \in Nat
      /\ \A t \in Loggers : AdderInv(t) /\ LoggerInv(t)
  BY DEF LogCInv, LogCAssumption
<1>2. CASE SetLock \/ Set
  <2>1. CASE SetLock
    BY <1>1, <2>1 DEF LogCTypeOK, SetLock
  <2>2. CASE Set
    <3>1. sets' \in 0..MaxSets /\ level' \in LogLevels /\ quiet' \in BOOLEAN
      BY <1>1, <2>2 DEF LogCTypeOK, Set
    <3> QED
      BY <1>1, <2>2, <3>1 DEF LogCTypeOK, Set
  <2> QED
    BY <1>2, <2>1, <2>2
<1>3. ASSUME NEW t \in Loggers, NEW f \in Files, NEW l \in LogLevels, AddFind(t, f, l)
      PROVE  LogCTypeOK'
  <2>1. ev' \in [Loggers -> Events]
    <3>1. ev' = [ev EXCEPT ![t].udata = f, ![t].level = l]
      BY <1>3 DEF AddFind
    <3>2. ev \in [Loggers -> Events]
      BY <1>1 DEF LogCTypeOK
    <3> QED
      BY <3>1, <3>2 DEF Streams
  <2>2. slot' \in [Loggers -> 0..(MAX_CALLBACKS + 1)]
    BY <1>1, <1>3 DEF AddFind, LogCTypeOK, Slots
  <2>3. at' \in [Loggers -> States]
    BY <1>1, <1>3 DEF AddFind, Goes, LogCTypeOK
  <2> QED
    BY <1>1, <1>3, <2>1, <2>2, <2>3 DEF LogCTypeOK, AddFind
<1>4. ASSUME NEW t \in Loggers, AddStore(t)
      PROVE  LogCTypeOK'
  <2>1. slot[t] \in Slots /\ ev[t].udata \in Files /\ ev[t].level \in LogLevels
    BY <1>1, <1>4, LogCTypes DEF AddStore, Goes, AdderInv, Adding
  <2>2. [fn |-> TRUE, udata |-> ev[t].udata, level |-> ev[t].level] \in Cbs
        /\ callbacks[slot[t]] \in Cbs
    BY <1>1, <2>1 DEF LogCTypeOK
  <2>3. \A c, d \in Cbs : [c EXCEPT !.fn = TRUE] \in Cbs /\ [c EXCEPT !.fn = d.fn] \in Cbs
    OBVIOUS
  <2> HIDE DEF Cbs
  <2>4. \E half \in Cbs : callbacks' = [callbacks EXCEPT ![slot[t]] = half]
    BY <1>4, <2>2, <2>3 DEF AddStore
  <2>5. callbacks' \in [Slots -> Cbs]
    BY <1>1, <2>4 DEF LogCTypeOK, Cbs
  <2>6. at' \in [Loggers -> States]
    BY <1>1, <1>4 DEF AddStore, Goes, LogCTypeOK
  <2> QED
    BY <1>1, <1>4, <2>5, <2>6 DEF LogCTypeOK, AddStore, Cbs
<1>5. ASSUME NEW t \in Loggers, AddReturn(t)
      PROVE  LogCTypeOK'
  <2>1. slot[t] \in Slots /\ ev[t].udata \in Files /\ ev[t].level \in LogLevels
    BY <1>1, <1>5, LogCTypes DEF AddReturn, Goes, AdderInv, Adding
  <2>2. [fn |-> TRUE, udata |-> ev[t].udata, level |-> ev[t].level] \in Cbs
    BY <2>1
  <2>3. callbacks' \in [Slots -> Cbs]
    BY <1>1, <1>5, <2>2 DEF LogCTypeOK, AddReturn
  <2>4. added' \subseteq [udata : Files, level : LogLevels]
    BY <1>1, <1>5, <2>1 DEF LogCTypeOK, AddReturn
  <2>5. ev' \in [Loggers -> Events] /\ slot' \in [Loggers -> 0..(MAX_CALLBACKS + 1)]
    BY <1>1, <1>5, NoEventType DEF LogCTypeOK, AddReturn
  <2>6. at' \in [Loggers -> States]
    BY <1>1, <1>5 DEF AddReturn, Goes, LogCTypeOK
  <2> QED
    BY <1>1, <1>5, <2>3, <2>4, <2>5, <2>6 DEF LogCTypeOK, AddReturn
<1>6. ASSUME NEW t \in Loggers, NEW l \in LogLevels, Log(t, l)
      PROVE  LogCTypeOK'
  <2>1. events' \in 0..MaxEvents /\ events + 1 \in 1..MaxEvents /\ events' = events + 1
    BY <1>1, <1>6 DEF Log, LogCTypeOK
  <2>2. ev' \in [Loggers -> Events]
    <3>1. [NoEvent EXCEPT !.id = events + 1, !.level = l] \in Events
      BY <2>1, NoEventType
    <3> QED
      BY <1>1, <1>6, <3>1 DEF LogCTypeOK, Log
  <2>3. owed' \in [1..MaxEvents -> SUBSET Files]
    <3>1. {a.udata : a \in {b \in added : l >= b.level}} \subseteq Files
      BY <1>1, LogCTypes
    <3> QED
      BY <1>1, <1>6, <2>1, <3>1 DEF LogCTypeOK, Log
  <2>4. slot' \in [Loggers -> 0..(MAX_CALLBACKS + 1)]
    BY <1>1, <1>6 DEF Log, LogCTypeOK
  <2>5. at' \in [Loggers -> States] /\ lockedBy' \in Loggers \cup {Nobody}
    BY <1>1, <1>6 DEF Log, Goes, LogCTypeOK
  <2> QED
    BY <1>1, <1>6, <2>1, <2>2, <2>3, <2>4, <2>5 DEF LogCTypeOK, Log
<1>7. ASSUME NEW t \in Loggers, WriteHead(t)
      PROVE  LogCTypeOK'
  <2>1. ev[t].id \in 1..MaxEvents /\ tm' \in 0..MaxEvents
    BY <1>1, <1>7, LogCTypes DEF WriteHead, Goes, LoggerInv, Active, LogCTypeOK
  <2>2. Stream(t) \in Streams
    BY <1>1, <1>7, LogCTypes DEF WriteHead, Stream, Streams, AtEnd
  <2>3. [id |-> ev[t].id, part |-> "head", time |-> tm'] \in Parts
    BY <2>1 DEF Parts
  <2>4. out' \in [Streams -> Seq(Parts)]
    <3>1. Append(out[Stream(t)], [id |-> ev[t].id, part |-> "head", time |-> tm'])
            \in Seq(Parts)
      BY <1>1, <2>2, <2>3, LogCTypes, AppendProperties
    <3> QED
      BY <1>1, <1>7, <3>1 DEF LogCTypeOK, WriteHead, Parts
  <2>5. ev' \in [Loggers -> Events]
    <3>1. ev' = [ev EXCEPT ![t].time = TRUE, ![t].udata = Stream(t)]
      BY <1>7 DEF WriteHead
    <3>2. ev \in [Loggers -> Events]
      BY <1>1 DEF LogCTypeOK
    <3> QED
      BY <2>2, <3>1, <3>2
  <2>6. at' \in [Loggers -> States]
    BY <1>1, <1>7 DEF WriteHead, Goes, LogCTypeOK
  <2> QED
    BY <1>1, <1>7, <2>1, <2>4, <2>5, <2>6 DEF LogCTypeOK, WriteHead, Parts
<1>8. ASSUME NEW t \in Loggers, WriteTail(t)
      PROVE  LogCTypeOK'
  <2>1. ev[t].id \in 1..MaxEvents /\ slot[t] + 1 \in 0..MAX_CALLBACKS + 1
    BY <1>1, <1>8, LogCTypes DEF WriteTail, Goes, LoggerInv, Active, LogCTypeOK
  <2>2. [id |-> ev[t].id, part |-> "tail", time |-> 0] \in Parts
    BY <1>1, <2>1 DEF Parts
  <2>3. ev[t].udata \in Streams \cup {"NULL"}
    BY <1>1, EventType
  <2>4. \A s \in Streams : Append(out[s], [id |-> ev[t].id, part |-> "tail", time |-> 0])
            \in Seq(Parts)
    BY <1>1, <2>2, LogCTypes, AppendProperties
  <2>5. out' \in [Streams -> Seq(Parts)]
    <3>1. out \in [Streams -> Seq(Parts)]
      BY <1>1 DEF LogCTypeOK, Parts
    <3> QED
      BY <1>8, <2>4, <3>1 DEF WriteTail
  <2>6. at' \in [Loggers -> States] /\ slot' \in [Loggers -> 0..(MAX_CALLBACKS + 1)]
    BY <1>1, <1>8, <2>1 DEF WriteTail, Goes, LogCTypeOK
  <2> QED
    BY <1>1, <1>8, <2>5, <2>6 DEF LogCTypeOK, WriteTail, Parts
<1>9. ASSUME NEW t \in Loggers, UseNull(t)
      PROVE  LogCTypeOK'
  BY <1>1, <1>9 DEF LogCTypeOK, UseNull
<1>10. ASSUME NEW t \in Loggers, Skip(t)
       PROVE  LogCTypeOK'
  <2>1. slot[t] + 1 \in 0..MAX_CALLBACKS + 1
    BY <1>1, <1>10, LogCTypes DEF Skip, AtEnd, Slots
  <2>2. slot' \in [Loggers -> 0..(MAX_CALLBACKS + 1)]
    BY <1>1, <1>10, <2>1 DEF Skip, LogCTypeOK
  <2> QED
    BY <1>1, <1>10, <2>2 DEF LogCTypeOK, Skip
<1>11. ASSUME NEW t \in Loggers, LogReturn(t)
       PROVE  LogCTypeOK'
  <2>1. ev' \in [Loggers -> Events] /\ slot' \in [Loggers -> 0..(MAX_CALLBACKS + 1)]
    BY <1>1, <1>11, NoEventType DEF LogCTypeOK, LogReturn
  <2>2. at' \in [Loggers -> States] /\ lockedBy' \in Loggers \cup {Nobody}
    BY <1>1, <1>11 DEF LogReturn, Goes, LogCTypeOK
  <2> QED
    BY <1>1, <1>11, <2>1, <2>2 DEF LogCTypeOK, LogReturn
<1> QED
  BY <1>2, <1>3, <1>4, <1>5, <1>6, <1>7, <1>8, <1>9, <1>10, <1>11 DEF NextLogC

-----------------------------------------------------------------------------
(* log_set_lock, log_set_level, log_set_quiet, log_add_callback            *)

\* While no message has been logged nobody logs, and nothing is written.
LEMMA SetLockKeeps ==
  ASSUME LogCAssumption, LogCInv, SetLock, LogCTypeOK'
  PROVE  LogCInv'
<1>1. /\ LogCTypeOK /\ SlotsInv /\ IdsInv /\ \A s \in Streams : LineInv(s)
      /\ \A t \in Loggers : AdderInv(t) /\ LoggerInv(t) /\ OwedInv(t)
  BY DEF LogCInv
<1>2. events = 0 /\ events' = events /\ at' = at /\ ev' = ev /\ slot' = slot
      /\ callbacks' = callbacks /\ out' = out /\ added' = added /\ owed' = owed
  BY DEF SetLock
<1>3. \A t \in Loggers : ~Active(t)
  BY <1>1, <1>2, LogCTypes DEF LoggerInv
<1>4. \A s \in Streams : \A k \in DOMAIN out[s] : FALSE
  <2> SUFFICES ASSUME NEW s \in Streams, NEW k \in DOMAIN out[s] PROVE FALSE
    OBVIOUS
  <2>1. out[s][k] \in Parts
    BY <1>1, LogCTypes, ElementOfSeq
  <2>2. out[s][k].id <= 0
    BY <1>1, <1>2 DEF LineInv
  <2> QED
    BY <2>1, <2>2 DEF Parts
<1>5. \A t : Active(t)' <=> Active(t)
  BY <1>2 DEF Active
<1>6. SlotsInv'
  BY <1>1, <1>2 DEF SlotsInv, Full, AddedFiles
<1>7. \A t \in Loggers : AdderInv(t)' /\ LoggerInv(t)' /\ OwedInv(t)'
  BY <1>1, <1>2, <1>3, <1>5 DEF AdderInv, LoggerInv, OwedInv, Full, AddedFiles, Adding, Stream
<1>8. IdsInv' /\ LockInv'
  BY <1>3, <1>5 DEF IdsInv, LockInv
<1>9. \A s \in Streams : LineInv(s)' /\ WholeInv(s)'
  BY <1>1, <1>2, <1>4 DEF LineInv, WholeInv, HeadsOf, Finished
<1> QED
  BY <1>6, <1>7, <1>8, <1>9 DEF LogCInv

\* The settings, and steps that change nothing the invariant is about.
LEMMA SetKeeps ==
  ASSUME LogCInv, LogCTypeOK', UNCHANGED <<lockFn, lockedBy, callbacks, tm, at, ev, slot, out,
                                           events, added, owed>>
  PROVE  LogCInv'
<1>1. /\ LogCTypeOK /\ SlotsInv /\ IdsInv /\ LockInv
      /\ \A s \in Streams : LineInv(s) /\ WholeInv(s)
      /\ \A t \in Loggers : AdderInv(t) /\ LoggerInv(t) /\ OwedInv(t)
  BY DEF LogCInv
<1>2. SlotsInv'
  BY <1>1 DEF SlotsInv, Full, AddedFiles
<1>3. IdsInv' /\ LockInv'
  BY <1>1 DEF IdsInv, LockInv, Active
<1>4. \A t \in Loggers : AdderInv(t)' /\ LoggerInv(t)'
  BY <1>1 DEF AdderInv, LoggerInv, Full, AddedFiles, Adding, Stream, Active
<1>5. \A t \in Loggers : OwedInv(t)'
  BY <1>1 DEF OwedInv, Full, Active, Passed, HeadsOf
<1>6. \A s \in Streams : LineInv(s)'
  BY <1>1 DEF LineInv, HeadsOf, Finished
<1>7. \A s \in Streams : WholeInv(s)'
  BY <1>1 DEF WholeInv, LineWhole, Pending
<1> QED
  BY <1>2, <1>3, <1>4, <1>5, <1>6, <1>7 DEF LogCInv

\* What a thread in log_add_callback leaves of the threads in log_log: the streams
\* of the slots that have one.
LEMMA AddingKeeps ==
  ASSUME LogCAssumption, LogCInv, LogCTypeOK', NEW t \in Loggers,
         ~Active(t), ~Active(t)', ev'[t].id = 0,
         \A u \in Loggers : u # t => at'[u] = at[u] /\ ev'[u] = ev[u] /\ slot'[u] = slot[u],
         \A i \in Slots : Full(i) => callbacks'[i] = callbacks[i],
         UNCHANGED <<lockFn, lockedBy, tm, out, events, owed>>,
         SlotsInv', \A u \in Loggers : AdderInv(u)'
  PROVE  LogCInv'
<1>1. /\ LogCTypeOK /\ IdsInv /\ LockInv
      /\ \A s \in Streams : LineInv(s) /\ WholeInv(s)
      /\ \A u \in Loggers : LoggerInv(u) /\ OwedInv(u)
  BY DEF LogCInv
<1>2. /\ \A u \in Loggers : Active(u)' <=> Active(u)
      /\ \A u \in Loggers : Active(u) => u # t
      /\ \A u \in Loggers : at'[u] = "tail" <=> at[u] = "tail"
  BY DEF Active
<1>3. \A i \in Slots : Full(i) => Full(i)' /\ callbacks'[i].udata = callbacks[i].udata
                                  /\ callbacks'[i].level = callbacks[i].level
  BY DEF Full
<1>4. ev[t].id = 0 /\ \A u \in Loggers : ev'[u].id = ev[u].id
  BY <1>1 DEF LoggerInv
<1>5. \A s, e : HeadsOf(s, e)' = HeadsOf(s, e)
  BY DEF HeadsOf
<1>6. ASSUME NEW u \in Loggers
      PROVE  LoggerInv(u)' /\ OwedInv(u)'
  <2>1. CASE u = t
    BY <1>1, <1>2, <1>4, <2>1 DEF LoggerInv, OwedInv, Active
  <2>2. CASE u # t
    <3>1. at'[u] = at[u] /\ ev'[u] = ev[u] /\ slot'[u] = slot[u] /\ LoggerInv(u) /\ OwedInv(u)
      BY <1>1, <2>2
    <3>2. at[u] = "tail" => Stream(u)' = Stream(u)
      BY <1>1, <1>3, <3>1, LogCTypes DEF LoggerInv, Stream, Slots, LogCAssumption
    <3>3. LoggerInv(u)'
      BY <1>2, <1>3, <3>1, <3>2 DEF LoggerInv
    <3>4. \A i : Passed(u, i)' <=> Passed(u, i)
      BY <3>1 DEF Passed
    <3>5. OwedInv(u)'
      <4> SUFFICES ASSUME Active(u) PROVE OwedInv(u)'
        BY <1>2 DEF OwedInv
      <4>1. \A s \in owed[ev[u].id] : \E i \in Slots :
              /\ Full(i)' /\ callbacks'[i].udata = s /\ ev[u].level >= callbacks'[i].level
              /\ Passed(u, i) => HeadsOf(s, ev[u].id) # {}
        BY <1>3, <3>1 DEF OwedInv
      <4>2. \A s \in Streams : HeadsOf(s, ev[u].id) # {} =>
              \/ s = "stderr" /\ Passed(u, 0)
              \/ \E i \in Slots : Full(i)' /\ callbacks'[i].udata = s /\ Passed(u, i)
        BY <1>3, <3>1 DEF OwedInv
      <4> QED
        BY <1>5, <3>1, <3>4, <4>1, <4>2 DEF OwedInv
    <3> QED
      BY <3>3, <3>5
  <2> QED
    BY <2>1, <2>2
<1>7. IdsInv'
  BY <1>1, <1>2 DEF IdsInv
<1>8. LockInv'
  BY <1>1, <1>2 DEF LockInv
<1>9. ASSUME NEW s \in Streams
      PROVE  LineInv(s)' /\ WholeInv(s)'
  <2>1. \A e : Finished(e)' => Finished(e)
    BY <1>4 DEF Finished
  <2>2. LineInv(s)'
    BY <1>1, <1>5, <2>1 DEF LineInv
  <2>3. \A k : Pending(s, k) => Pending(s, k)'
    BY <1>1, <1>2 DEF Pending, Active
  <2>4. \A k : LineWhole(s, k)' <=> LineWhole(s, k)
    BY DEF LineWhole
  <2> QED
    BY <1>1, <2>2, <2>3, <2>4 DEF WholeInv
<1> QED
  BY <1>6, <1>7, <1>8, <1>9 DEF LogCInv

LEMMA AddFindKeeps ==
  ASSUME LogCAssumption, OneAdder, LogCInv, LogCTypeOK', NEW t \in Loggers,
         NEW f \in Files, NEW l \in LogLevels, AddFind(t, f, l)
  PROVE  LogCInv'
<1>1. /\ LogCTypeOK /\ SlotsInv /\ \A u \in Loggers : AdderInv(u) /\ LoggerInv(u)
  BY DEF LogCInv
<1>2. /\ t \in Adders /\ f \notin AddedFiles /\ at[t] = "idle"
      /\ at' = [at EXCEPT ![t] = "adding"]
      /\ ev' = [ev EXCEPT ![t].udata = f, ![t].level = l]
      /\ callbacks' = callbacks /\ added' = added
      /\ UNCHANGED <<lockFn, lockedBy, tm, out, events, owed>>
  BY DEF AddFind, Goes, AddedFiles
<1>3. PICK i \in Slots : /\ ~callbacks[i].fn /\ \A j \in 1..(i - 1) : callbacks[j].fn
                         /\ slot' = [slot EXCEPT ![t] = i]
  BY DEF AddFind
<1>4. \A u \in Loggers : Adding(u) => u = t
  BY <1>1, <1>2 DEF AdderInv, OneAdder
<1>5. ~Adding(t) /\ ~Active(t) /\ ev[t].id = 0
  BY <1>1, <1>2 DEF Adding, Active, LoggerInv
<1>6. /\ at'[t] = "adding" /\ slot'[t] = i
      /\ \A u \in Loggers : u # t => at'[u] = at[u] /\ ev'[u] = ev[u] /\ slot'[u] = slot[u]
  BY <1>1, <1>2, <1>3 DEF LogCTypeOK
<1>7. ev'[t].id = ev[t].id /\ ev'[t].udata = f
  BY <1>1, <1>2, EventType DEF LogCTypeOK
<1>8. callbacks[i] = Free
  <2>1. ~\E u \in Loggers : at[u] = "added"
    BY <1>4, <1>5 DEF Adding
  <2> QED
    BY <1>1, <1>3, <2>1 DEF SlotsInv
<1>9. AddedFiles' = AddedFiles /\ \A j : Full(j)' <=> Full(j)
  BY <1>2 DEF AddedFiles, Full
<1>10. SlotsInv'
  <2>1. \A u \in Loggers : at[u] # "added"
    BY <1>4, <1>5 DEF Adding
  <2> QED
    BY <1>1, <1>2, <1>9, <2>1 DEF SlotsInv
<1>11. AdderInv(t)'
  BY <1>2, <1>3, <1>6, <1>7, <1>8, <1>9 DEF AdderInv, Adding
<1>12. \A u \in Loggers : u # t => AdderInv(u)'
  BY <1>1, <1>2, <1>4, <1>6 DEF AdderInv, Adding
<1>13. ~Active(t)' /\ ev'[t].id = 0
  BY <1>5, <1>6, <1>7 DEF Active
<1> QED
  BY <1>2, <1>5, <1>6, <1>10, <1>11, <1>12, <1>13, AddingKeeps

\* Half of a slot is stored: what shows of it has no stream.
LEMMA AddStoreKeeps ==
  ASSUME LogCAssumption, OneAdder, LogCInv, LogCTypeOK', NEW t \in Loggers, AddStore(t)
  PROVE  LogCInv'
<1> DEFINE i == slot[t]
           c == [fn |-> TRUE, udata |-> ev[t].udata, level |-> ev[t].level]
           first == [Free EXCEPT !.fn = TRUE]
           last == [c EXCEPT !.fn = Free.fn]
<1>1. /\ LogCTypeOK /\ SlotsInv /\ \A u \in Loggers : AdderInv(u) /\ LoggerInv(u)
  BY DEF LogCInv
<1>2. /\ at[t] = "adding" /\ at' = [at EXCEPT ![t] = "added"]
      /\ ev' = ev /\ slot' = slot /\ added' = added
      /\ UNCHANGED <<lockFn, lockedBy, tm, out, events, owed>>
  BY DEF AddStore, Goes
<1>3. /\ t \in Adders /\ i \in Slots /\ callbacks[i] = Free
      /\ ev[t].udata \in Files /\ ev[t].udata \notin AddedFiles
      /\ \A j \in 1..i - 1 : callbacks[j].fn
  BY <1>1, <1>2 DEF AdderInv, Adding
<1>4. \/ callbacks' = [callbacks EXCEPT ![i] = first]
      \/ callbacks' = [callbacks EXCEPT ![i] = last]
  <2>1. \E half \in {[Free EXCEPT !.fn = TRUE], [c EXCEPT !.fn = Free.fn]} :
           callbacks' = [callbacks EXCEPT ![i] = half]
    BY <1>3, Zenon DEF AddStore
  <2> QED
    BY <2>1
<1>5. \A u \in Loggers : Adding(u) => u = t
  BY <1>1, <1>3 DEF AdderInv, OneAdder
<1>6. at'[t] = "added" /\ \A u \in Loggers : u # t => at'[u] = at[u]
  BY <1>1, <1>2 DEF LogCTypeOK
<1>7. /\ \A j \in Slots : j # i => callbacks'[j] = callbacks[j]
      /\ callbacks'[i] = first \/ callbacks'[i] = last
  BY <1>1, <1>3, <1>4 DEF LogCTypeOK
<1>8. ~Full(i) /\ ~Full(i)' /\ ~callbacks[i].fn
  <2>1. first.udata = "NULL" /\ ~last.fn /\ ~Free.fn
    BY DEF Free
  <2> HIDE DEF first, last
  <2> QED
    BY <1>2, <1>3, <1>7, <2>1 DEF Full
<1>9. \A j \in Slots : (Full(j)' <=> Full(j)) /\ (Full(j) => callbacks'[j] = callbacks[j])
  BY <1>2, <1>7, <1>8 DEF Full
<1>10. AddedFiles' = AddedFiles
  BY <1>2 DEF AddedFiles
<1>11. SlotsInv'
  <2>1. ASSUME NEW j \in Slots, callbacks'[j].fn, NEW g \in 1..j - 1
        PROVE  callbacks'[g].fn
    <3>1. g \in Slots /\ (g # i => callbacks'[g].fn <=> callbacks[g].fn)
      BY <1>3, <1>7 DEF Slots, LogCAssumption
    <3>2. CASE j = i
      BY <1>3, <2>1, <3>1, <3>2 DEF Slots
    <3>3. CASE j # i
      <4>1. callbacks[j].fn
        BY <1>7, <2>1, <3>3
      <4>2. callbacks[g].fn
        BY <1>1, <2>1, <4>1 DEF SlotsInv
      <4> QED
        BY <1>8, <3>1, <4>2
    <3> QED
      BY <3>2, <3>3
  <2>2. \A j \in Slots : ~callbacks'[j].fn =>
          callbacks'[j] = Free \/ \E u \in Loggers : at'[u] = "added" /\ slot'[u] = j
    <3> TAKE j \in Slots
    <3>1. CASE j = i
      BY <1>2, <1>6, <3>1
    <3>2. CASE j # i
      <4>1. ~\E u \in Loggers : at[u] = "added"
        BY <1>2, <1>5 DEF Adding
      <4> QED
        BY <1>1, <1>7, <3>2, <4>1 DEF SlotsInv
    <3> QED
      BY <3>1, <3>2
  <2>3. \A a \in added' : \E j \in Slots :
          callbacks'[j] = [fn |-> TRUE, udata |-> a.udata, level |-> a.level]
    <3> TAKE a \in added'
    <3>1. PICK j \in Slots : callbacks[j] = [fn |-> TRUE, udata |-> a.udata, level |-> a.level]
      BY <1>1, <1>2 DEF SlotsInv
    <3>2. j # i
      BY <1>8, <3>1
    <3> QED
      BY <1>7, <3>1, <3>2
  <2>4. \A j \in Slots : Full(j)' => callbacks'[j].udata \in AddedFiles'
    BY <1>1, <1>9, <1>10 DEF SlotsInv
  <2>5. \A j, g \in Slots : Full(j)' /\ Full(g)' /\ callbacks'[j].udata = callbacks'[g].udata
                              => j = g
    BY <1>1, <1>9 DEF SlotsInv
  <2> QED
    BY <2>1, <2>2, <2>3, <2>4, <2>5 DEF SlotsInv
<1>12. AdderInv(t)'
  <2>1. \A j \in 1..i - 1 : callbacks'[j].fn
    <3> TAKE j \in 1..i - 1
    <3>1. j \in Slots /\ j # i
      BY <1>3 DEF Slots, LogCAssumption
    <3> QED
      BY <1>3, <1>7, <3>1
  <2>2. slot'[t] = i /\ ev'[t] = ev[t] /\ at'[t] = "added"
    BY <1>2, <1>6
  <2>3. ~Full(slot[t])'
    BY <1>8, <2>2 DEF Full
  <2> QED
    BY <1>3, <1>10, <2>1, <2>2, <2>3 DEF AdderInv, Adding
<1>13. \A u \in Loggers : u # t => AdderInv(u)'
  BY <1>5, <1>6 DEF AdderInv, Adding
<1>14. ~Active(t) /\ ~Active(t)' /\ ev'[t].id = 0
  BY <1>1, <1>2, <1>6 DEF Active, LoggerInv
<1>15. \A u \in Loggers : u # t => at'[u] = at[u] /\ ev'[u] = ev[u] /\ slot'[u] = slot[u]
  BY <1>2, <1>6
<1>16. \A u \in Loggers : AdderInv(u)'
  BY <1>12, <1>13
<1>17. \A j \in Slots : Full(j) => callbacks'[j] = callbacks[j]
  BY <1>9
<1> QED
  BY <1>2, <1>11, <1>14, <1>15, <1>16, <1>17, AddingKeeps

LEMMA AddReturnKeeps ==
  ASSUME LogCAssumption, OneAdder, LogCInv, LogCTypeOK', NEW t \in Loggers, AddReturn(t)
  PROVE  LogCInv'
<1> DEFINE i == slot[t]
           c == [fn |-> TRUE, udata |-> ev[t].udata, level |-> ev[t].level]
           new == [udata |-> ev[t].udata, level |-> ev[t].level]
<1>1. /\ LogCTypeOK /\ SlotsInv /\ \A u \in Loggers : AdderInv(u) /\ LoggerInv(u)
  BY DEF LogCInv
<1>2. /\ at[t] = "added" /\ at' = [at EXCEPT ![t] = "idle"]
      /\ ev' = [ev EXCEPT ![t] = NoEvent] /\ slot' = [slot EXCEPT ![t] = 0]
      /\ callbacks' = [callbacks EXCEPT ![i] = c]
      /\ added' = added \cup {[udata |-> c.udata, level |-> c.level]}
      /\ UNCHANGED <<lockFn, lockedBy, tm, out, events, owed>>
  BY DEF AddReturn, Goes
<1>3. /\ t \in Adders /\ i \in Slots
      /\ ev[t].udata \in Files /\ ev[t].udata \notin AddedFiles
      /\ \A j \in 1..i - 1 : callbacks[j].fn
  BY <1>1, <1>2 DEF AdderInv, Adding
<1>4. ~Full(i)
  BY <1>1, <1>2 DEF AdderInv
<1>5. \A u \in Loggers : Adding(u) => u = t
  BY <1>1, <1>3 DEF AdderInv, OneAdder
<1>6. /\ at'[t] = "idle" /\ ev'[t] = NoEvent
      /\ \A u \in Loggers : u # t => at'[u] = at[u] /\ ev'[u] = ev[u] /\ slot'[u] = slot[u]
  BY <1>1, <1>2 DEF LogCTypeOK
<1>7. callbacks'[i] = c /\ \A j \in Slots : j # i => callbacks'[j] = callbacks[j]
  BY <1>1, <1>2, <1>3 DEF LogCTypeOK
<1>8. added' = added \cup {new} /\ c.udata = ev[t].udata /\ c.fn /\ c.udata # "NULL"
      /\ c.udata \notin AddedFiles
  BY <1>2, <1>3 DEF LogCAssumption
<1>9. AddedFiles' = AddedFiles \cup {c.udata}
  <2>1. new.udata = c.udata
    OBVIOUS
  <2> HIDE DEF new
  <2> QED
    BY <1>8, <2>1 DEF AddedFiles
<1>11. \A j \in Slots : Full(j)' <=> Full(j) \/ j = i
  BY <1>7, <1>8 DEF Full
<1>12. \A j \in Slots : Full(j) => j # i /\ callbacks'[j] = callbacks[j]
  BY <1>4, <1>7
<1>13. SlotsInv'
  <2>1. ASSUME NEW j \in Slots, callbacks'[j].fn, NEW g \in 1..j - 1
        PROVE  callbacks'[g].fn
    <3>1. g \in Slots
      BY DEF Slots, LogCAssumption
    <3>2. g = i => callbacks'[g].fn
      BY <1>7, <1>8
    <3>3. CASE j = i
      BY <1>3, <1>7, <3>1, <3>2, <3>3
    <3>4. CASE j # i
      <4>1. callbacks[j].fn
        BY <1>7, <2>1, <3>4
      <4>2. callbacks[g].fn
        BY <1>1, <2>1, <4>1 DEF SlotsInv
      <4> QED
        BY <1>7, <3>1, <3>2, <4>2
    <3> QED
      BY <3>3, <3>4
  <2>2. \A j \in Slots : ~callbacks'[j].fn => callbacks'[j] = Free
    <3> SUFFICES ASSUME NEW j \in Slots, ~callbacks'[j].fn PROVE callbacks'[j] = Free
      OBVIOUS
    <3>1. j # i
      BY <1>7, <1>8
    <3>2. ~\E u \in Loggers : at[u] = "added" /\ slot[u] = j
      BY <1>5, <3>1 DEF Adding
    <3> QED
      BY <1>1, <1>7, <3>1, <3>2 DEF SlotsInv
  <2>3. \A a \in added' : \E j \in Slots :
          callbacks'[j] = [fn |-> TRUE, udata |-> a.udata, level |-> a.level]
    <3> TAKE a \in added'
    <3>1. CASE a = new
      BY <1>3, <1>7, <3>1
    <3>2. CASE a \in added
      <4>1. PICK j \in Slots :
               callbacks[j] = [fn |-> TRUE, udata |-> a.udata, level |-> a.level]
        BY <1>1, <3>2 DEF SlotsInv
      <4>2. callbacks[j].fn /\ callbacks[j].udata = a.udata /\ a.udata \in Files
        BY <1>1, <3>2, <4>1, LogCTypes
      <4>3. Full(j)
        BY <4>2 DEF Full, LogCAssumption
      <4> QED
        BY <1>12, <4>1, <4>3
    <3> QED
      BY <1>8, <3>1, <3>2
  <2>4. \A j \in Slots : Full(j)' => callbacks'[j].udata \in AddedFiles'
    BY <1>1, <1>7, <1>9, <1>11, <1>12 DEF SlotsInv
  <2>5. \A j, g \in Slots : Full(j)' /\ Full(g)' /\ callbacks'[j].udata = callbacks'[g].udata
                              => j = g
    BY <1>1, <1>7, <1>8, <1>11, <1>12 DEF SlotsInv
  <2> QED
    BY <2>1, <2>2, <2>3, <2>4, <2>5 DEF SlotsInv
<1>14. \A u \in Loggers : AdderInv(u)'
  BY <1>5, <1>6 DEF AdderInv, Adding
<1>15. ~Active(t) /\ ~Active(t)' /\ ev'[t].id = 0
  BY <1>2, <1>6 DEF Active, NoEvent
<1>16. \A j \in Slots : Full(j) => callbacks'[j] = callbacks[j]
  BY <1>12
<1> QED
  BY <1>2, <1>6, <1>13, <1>14, <1>15, <1>16, AddingKeeps

-----------------------------------------------------------------------------
(* log_log                                                                 *)

\* What a thread in log_log leaves of the slots and of the other threads.
LEMMA LoggingKeeps ==
  ASSUME LogCAssumption, LogCInv, LogCTypeOK', NEW t \in Loggers,
         ~Adding(t), ~Adding(t)', UNCHANGED <<callbacks, added>>, events <= events',
         \A u \in Loggers : u # t => at'[u] = at[u] /\ ev'[u] = ev[u] /\ slot'[u] = slot[u],
         \A u \in Loggers : Active(u) /\ u # t => \A s \in Streams :
           HeadsOf(s, ev[u].id)' = HeadsOf(s, ev[u].id) /\ owed'[ev[u].id] = owed[ev[u].id]
  PROVE  /\ SlotsInv' /\ \A u \in Loggers : AdderInv(u)'
         /\ \A u \in Loggers : u # t => LoggerInv(u)' /\ OwedInv(u)'
<1>1. /\ LogCTypeOK /\ SlotsInv
      /\ \A u \in Loggers : AdderInv(u) /\ LoggerInv(u) /\ OwedInv(u)
  BY DEF LogCInv
<1>2. AddedFiles' = AddedFiles /\ \A i : Full(i)' <=> Full(i)
  BY DEF AddedFiles, Full
<1>3. \A u \in Loggers : Adding(u) => u # t
  OBVIOUS
<1>4. SlotsInv'
  <2>1. \A u \in Loggers : at[u] = "added" => at'[u] = "added" /\ slot'[u] = slot[u]
    BY DEF Adding
  <2> QED
    BY <1>1, <1>2, <2>1 DEF SlotsInv
<1>5. \A u \in Loggers : AdderInv(u)'
  <2> TAKE u \in Loggers
  <2>1. CASE u = t
    BY <2>1 DEF AdderInv, Adding
  <2>2. CASE u # t
    BY <1>1, <1>2, <2>2 DEF AdderInv, Adding
  <2> QED
    BY <2>1, <2>2
<1>6. ASSUME NEW u \in Loggers, u # t
      PROVE  LoggerInv(u)' /\ OwedInv(u)'
  <2>1. at'[u] = at[u] /\ ev'[u] = ev[u] /\ slot'[u] = slot[u] /\ LoggerInv(u) /\ OwedInv(u)
    BY <1>1, <1>6
  <2>2. Stream(u)' = Stream(u) /\ (Active(u)' <=> Active(u))
    BY <2>1 DEF Stream, Active
  <2>3. \A i : Passed(u, i)' <=> Passed(u, i)
    BY <2>1 DEF Passed
  <2>4. ev[u].id <= events'
    <3>1. ev[u].id <= events /\ ev[u].id \in Nat /\ events \in Nat /\ events' \in Nat
      BY <1>1, <2>1, LogCTypes DEF LoggerInv, LogCTypeOK
    <3> QED
      BY <3>1
  <2>5. LoggerInv(u)'
    BY <1>2, <2>1, <2>2, <2>4 DEF LoggerInv
  <2>6. OwedInv(u)'
    <3> SUFFICES ASSUME Active(u) PROVE OwedInv(u)'
      BY <2>2 DEF OwedInv
    <3> DEFINE e == ev[u].id
    <3>1. /\ \A s \in owed[e] : \E i \in Slots :
               /\ Full(i) /\ callbacks[i].udata = s /\ ev[u].level >= callbacks[i].level
               /\ Passed(u, i) => HeadsOf(s, e) # {}
          /\ \A s \in Streams : HeadsOf(s, e) # {} =>
               \/ s = "stderr" /\ Passed(u, 0)
               \/ \E i \in Slots : Full(i) /\ callbacks[i].udata = s /\ Passed(u, i)
      BY <2>1 DEF OwedInv
    <3>2. \A s \in Streams : HeadsOf(s, e)' = HeadsOf(s, e)
      BY <1>6, <2>1
    <3>3. owed[e] \subseteq Streams
      <4>1. e \in 1..MaxEvents
        BY <1>1, <2>1, LogCTypes DEF LoggerInv
      <4> QED
        BY <1>1, <4>1, LogCTypes DEF Streams
    <3>4. owed'[e] = owed[e]
      BY <1>6 DEF Streams
    <3>5. \A s \in owed[e] : HeadsOf(s, e)' = HeadsOf(s, e)
      BY <3>2, <3>3
    <3> QED
      BY <1>2, <2>1, <2>3, <3>1, <3>2, <3>4, <3>5 DEF OwedInv
  <2> QED
    BY <2>5, <2>6
<1> QED
  BY <1>4, <1>5, <1>6

LEMMA LogKeeps ==
  ASSUME LogCAssumption, LogCInv, LogCTypeOK', NEW t \in Loggers, NEW l \in LogLevels,
         Log(t, l)
  PROVE  LogCInv'
<1> DEFINE e == events + 1
<1>1. /\ LogCTypeOK /\ SlotsInv /\ IdsInv /\ LockInv
      /\ \A s \in Streams : LineInv(s) /\ WholeInv(s)
      /\ \A u \in Loggers : AdderInv(u) /\ LoggerInv(u) /\ OwedInv(u)
  BY DEF LogCInv
<1>2. /\ events < MaxEvents /\ at[t] = "idle" /\ at' = [at EXCEPT ![t] = "head"]
      /\ (lockFn => lockedBy = Nobody /\ lockedBy' = t)
      /\ events' = e
      /\ ev' = [ev EXCEPT ![t] = [NoEvent EXCEPT !.id = e, !.level = l]]
      /\ slot' = [slot EXCEPT ![t] = 0]
      /\ owed' = [owed EXCEPT ![e] = {a.udata : a \in {b \in added : l >= b.level}}]
      /\ UNCHANGED <<lockFn, callbacks, tm, out, added>>
  BY DEF Log, Goes
<1>3. events \in 0..MaxEvents /\ MaxEvents \in Nat /\ e \in 1..MaxEvents
  BY <1>1, <1>2 DEF LogCTypeOK, LogCAssumption
<1>4. /\ at'[t] = "head" /\ slot'[t] = 0
      /\ ev'[t].id = e /\ ev'[t].level = l /\ ~ev'[t].time
      /\ \A u \in Loggers : u # t => at'[u] = at[u] /\ ev'[u] = ev[u] /\ slot'[u] = slot[u]
  BY <1>1, <1>2 DEF LogCTypeOK, NoEvent
<1>5. /\ owed'[e] = {a.udata : a \in {b \in added : l >= b.level}}
      /\ \A d \in 1..MaxEvents : d # e => owed'[d] = owed[d]
  BY <1>1, <1>2, <1>3 DEF LogCTypeOK
<1>6. ~Adding(t) /\ ~Adding(t)' /\ ~Active(t) /\ Active(t)' /\ ev[t].id = 0
  BY <1>1, <1>2, <1>4 DEF Adding, Active, LoggerInv
<1>7. \A s, d : HeadsOf(s, d)' = HeadsOf(s, d)
  BY <1>2 DEF HeadsOf
<1>8. \A u \in Loggers : ev[u].id \in 0..events
  <2> TAKE u \in Loggers
  <2>1. ev[u].id <= events /\ ev[u].id \in Nat
    BY <1>1, LogCTypes DEF LoggerInv
  <2> QED
    BY <1>3, <2>1
<1> HIDE DEF e
<1>9. \A d \in 0..events : d # e /\ d \in 0..MaxEvents
  BY <1>3 DEF e
<1>10. \A u \in Loggers : Active(u) /\ u # t => owed'[ev[u].id] = owed[ev[u].id]
  <2> SUFFICES ASSUME NEW u \in Loggers, Active(u) PROVE owed'[ev[u].id] = owed[ev[u].id]
    OBVIOUS
  <2>1. ev[u].id # 0
    BY <1>1 DEF LoggerInv
  <2>2. ev[u].id \in 1..MaxEvents /\ ev[u].id # e
    BY <1>3, <1>8, <1>9, <2>1
  <2> QED
    BY <1>5, <2>2
<1>11. /\ SlotsInv' /\ \A u \in Loggers : AdderInv(u)'
       /\ \A u \in Loggers : u # t => LoggerInv(u)' /\ OwedInv(u)'
  <2>1. events <= events'
    BY <1>2, <1>3 DEF e
  <2>2. callbacks' = callbacks /\ added' = added
    BY <1>2
  <2> QED
    BY <1>4, <1>6, <1>7, <1>10, <2>1, <2>2, LoggingKeeps
<1>12. LoggerInv(t)'
  <2>1. e # 0 /\ e <= e
    BY <1>3
  <2> QED
    BY <1>2, <1>4, <1>6, <2>1 DEF LoggerInv
<1>13. \A s \in Streams : HeadsOf(s, e) = {}
  <2> SUFFICES ASSUME NEW s \in Streams, NEW k \in HeadsOf(s, e) PROVE FALSE
    OBVIOUS
  <2>1. k \in DOMAIN out[s] /\ out[s][k].id = e
    BY DEF HeadsOf
  <2>2. e <= events
    BY <1>1, <2>1 DEF LineInv
  <2> QED
    BY <1>3, <2>2 DEF e
<1>14. OwedInv(t)'
  <2>1. ASSUME NEW s \in owed'[e]
        PROVE  \E i \in Slots : Full(i)' /\ callbacks'[i].udata = s
                                /\ ev'[t].level >= callbacks'[i].level /\ ~Passed(t, i)'
    <3>1. PICK a \in {b \in added : l >= b.level} : s = a.udata
      BY <1>5, <2>1
    <3>2. a \in added /\ l >= a.level /\ a.udata # "NULL"
      BY <1>1, <3>1, LogCTypes DEF LogCAssumption
    <3>3. PICK i \in Slots : callbacks[i] = [fn |-> TRUE, udata |-> a.udata, level |-> a.level]
      BY <1>1, <3>2 DEF SlotsInv
    <3>4. callbacks[i].fn /\ callbacks[i].udata = a.udata /\ callbacks[i].level = a.level
      BY <3>3
    <3>5. ~Passed(t, i)'
      BY <1>4 DEF Passed, Slots, LogCAssumption
    <3> QED
      BY <1>2, <1>4, <3>1, <3>2, <3>4, <3>5 DEF Full
  <2>2. \A d : d = e => \A s \in Streams : HeadsOf(s, d)' = {}
    BY <1>7, <1>13
  <2> QED
    BY <1>4, <2>1, <2>2 DEF OwedInv
<1>15. IdsInv'
  <2>1. \A u \in Loggers : u # t => ev'[u].id # ev'[t].id
    BY <1>4, <1>8, <1>9
  <2> QED
    BY <1>1, <1>4, <2>1 DEF IdsInv, Active
<1>16. LockInv'
  <2> SUFFICES ASSUME lockFn, NEW u \in Loggers, Active(u)'
               PROVE  lockedBy' = u /\ (ev'[u].time => tm' = ev'[u].id)
    BY <1>2 DEF LockInv
  <2>1. u = t
    <3> SUFFICES ASSUME u # t PROVE FALSE
      OBVIOUS
    <3>1. Active(u)
      BY <1>4 DEF Active
    <3> QED
      BY <1>1, <1>2, <3>1 DEF LockInv, LogCAssumption
  <2> QED
    BY <1>2, <1>4, <2>1
<1>17. ASSUME NEW s \in Streams
       PROVE  LineInv(s)' /\ WholeInv(s)'
  <2>1. LineInv(s) /\ WholeInv(s) /\ out' = out
    BY <1>1, <1>2
  <2>2. \A k \in DOMAIN out'[s] : out'[s][k].id <= events'
    <3> TAKE k \in DOMAIN out'[s]
    <3>1. out[s][k].id <= events /\ out[s][k] \in Parts
      BY <1>1, <2>1, LogCTypes, ElementOfSeq DEF LineInv
    <3>2. out[s][k].id \in Nat
      BY <3>1 DEF Parts
    <3> QED
      BY <1>2, <1>3, <2>1, <3>1, <3>2 DEF e
  <2>3. ASSUME NEW d \in 1..MaxEvents, Finished(d)', s \in owed'[d]
        PROVE  HeadsOf(s, d)' # {}
    <3>1. d <= e /\ \A u \in Loggers : ev'[u].id # d
      BY <1>2, <2>3 DEF Finished
    <3>2. d # e /\ d <= events /\ d # 0
      BY <1>3, <1>4, <3>1 DEF e
    <3>3. Finished(d)
      BY <1>4, <1>6, <3>1, <3>2 DEF Finished
    <3>4. s \in owed[d]
      BY <1>5, <2>3, <3>2
    <3> QED
      BY <1>7, <2>1, <3>3, <3>4 DEF LineInv
  <2>4. LineInv(s)'
    BY <1>7, <2>1, <2>2, <2>3 DEF LineInv
  <2>5. \A k : Pending(s, k) => Pending(s, k)'
    BY <1>4, <1>6, <2>1 DEF Pending, Active
  <2>6. \A k : LineWhole(s, k)' <=> LineWhole(s, k)
    BY <2>1 DEF LineWhole
  <2>7. WholeInv(s)'
    BY <1>2, <2>1, <2>5, <2>6 DEF WholeInv
  <2> QED
    BY <2>4, <2>7
<1> QED
  BY <1>11, <1>12, <1>14, <1>15, <1>16, <1>17 DEF LogCInv

\* What is left to show of a step within log_log: of the thread itself, and of the
\* streams.
LEMMA LoggedInv ==
  ASSUME LogCAssumption, LogCInv, LogCTypeOK', NEW t \in Loggers, Active(t), Active(t)',
         ev'[t].id = ev[t].id,
         UNCHANGED <<lockFn, lockedBy, callbacks, added, events, owed>>,
         \A u \in Loggers : u # t => at'[u] = at[u] /\ ev'[u] = ev[u] /\ slot'[u] = slot[u],
         \A e : e # ev[t].id => \A s \in Streams : HeadsOf(s, e)' = HeadsOf(s, e),
         tm' = tm \/ tm' = ev[t].id, ev'[t].time => tm' = ev[t].id \/ (ev[t].time /\ tm' = tm),
         LoggerInv(t)', OwedInv(t)', \A s \in Streams : LineInv(s)' /\ WholeInv(s)'
  PROVE  LogCInv'
<1>1. /\ IdsInv /\ LockInv /\ LogCTypeOK /\ \A u \in Loggers : LoggerInv(u)
  BY DEF LogCInv
<1>2. ~Adding(t) /\ ~Adding(t)'
  BY DEF Adding, Active
<1>3. events <= events'
  BY <1>1 DEF LogCTypeOK
<1>4. \A u \in Loggers : Active(u)' <=> Active(u)
  BY DEF Active
<1>5. \A u \in Loggers : ev'[u].id = ev[u].id
  OBVIOUS
<1>6. \A u \in Loggers : Active(u) /\ u # t => ev[u].id # ev[t].id
  BY <1>1 DEF IdsInv
<1>7. /\ SlotsInv' /\ \A u \in Loggers : AdderInv(u)'
      /\ \A u \in Loggers : u # t => LoggerInv(u)' /\ OwedInv(u)'
  <2>1. callbacks' = callbacks /\ added' = added
    OBVIOUS
  <2>2. \A u \in Loggers : Active(u) /\ u # t => \A s \in Streams :
          HeadsOf(s, ev[u].id)' = HeadsOf(s, ev[u].id) /\ owed'[ev[u].id] = owed[ev[u].id]
    <3> TAKE u \in Loggers
    <3> HAVE Active(u) /\ u # t
    <3> TAKE s \in Streams
    <3>1. HeadsOf(s, ev[u].id)' = HeadsOf(s, ev[u].id)
      <4> DEFINE H(e) == {k \in DOMAIN out'[s] : out'[s][k].id = e /\ out'[s][k].part = "head"}
      <4>1. \A e : e # ev[t].id => H(e) = HeadsOf(s, e)
        BY DEF HeadsOf
      <4>2. ev'[u].id # ev[t].id /\ ev'[u].id = ev[u].id
        BY <1>5, <1>6
      <4>3. HeadsOf(s, ev[u].id)' = H(ev'[u].id)
        BY DEF HeadsOf
      <4> HIDE DEF H
      <4> QED
        BY <4>1, <4>2, <4>3
    <3> QED
      BY <3>1
  <2> QED
    BY <1>2, <1>3, <2>1, <2>2, LoggingKeeps
<1>8. IdsInv'
  BY <1>1, <1>4, <1>5 DEF IdsInv
<1>9. LockInv'
  <2> SUFFICES ASSUME lockFn, NEW u \in Loggers, Active(u)
               PROVE  lockedBy = u /\ (ev'[u].time => tm' = ev'[u].id)
    BY <1>4 DEF LockInv
  <2>1. lockedBy = u /\ lockedBy = t /\ (ev[t].time => tm = ev[t].id)
    BY <1>1 DEF LockInv
  <2> QED
    BY <2>1
<1> QED
  BY <1>7, <1>8, <1>9 DEF LogCInv

\* A head is written to a stream that had none of this message.
LEMMA WriteHeadKeeps ==
  ASSUME LogCAssumption, LogCInv, LogCTypeOK', NEW t \in Loggers, WriteHead(t)
  PROVE  LogCInv'
<1> SUFFICES ASSUME NEW d, d = ev[t].id, NEW f, f = Stream(t), NEW last,
                    last = Len(out[f]) + 1
             PROVE  LogCInv'
  OBVIOUS
<1> DEFINE p == [id |-> d, part |-> "head", time |-> tm']
<1>1. /\ LogCTypeOK /\ SlotsInv /\ IdsInv /\ LockInv
      /\ \A s \in Streams : LineInv(s) /\ WholeInv(s)
      /\ LoggerInv(t) /\ OwedInv(t)
  BY DEF LogCInv
<1>2. /\ ~AtEnd(t) /\ f # "NULL" /\ at[t] = "head" /\ at' = [at EXCEPT ![t] = "tail"]
      /\ tm' = IF ev[t].time THEN tm ELSE d
      /\ ev' = [ev EXCEPT ![t].time = TRUE, ![t].udata = f]
      /\ out' = [out EXCEPT ![f] = Append(@, p)]
      /\ UNCHANGED <<lockFn, lockedBy, callbacks, slot, events, added, owed>>
  BY DEF WriteHead, Goes
<1>3. Active(t) /\ Active(t)' /\ d \in 1..MaxEvents /\ d <= events /\ d # 0
  BY <1>1, <1>2, LogCTypes DEF Active, LoggerInv, LogCTypeOK
<1>4. /\ at'[t] = "tail" /\ ev'[t].id = d /\ ev'[t].time /\ ev'[t].udata = f
      /\ ev'[t].level = ev[t].level /\ slot' = slot
      /\ \A u \in Loggers : u # t => at'[u] = at[u] /\ ev'[u] = ev[u] /\ slot'[u] = slot[u]
  BY <1>1, <1>2, EventType DEF LogCTypeOK
<1>5. /\ slot[t] \in 0..MAX_CALLBACKS
      /\ slot[t] = 0 => f = "stderr"
      /\ slot[t] \in Slots => Full(slot[t]) /\ callbacks[slot[t]].udata = f
      /\ slot[t] # 0 => slot[t] \in Slots
  <2>1. slot[t] \in 0..MAX_CALLBACKS + 1 /\ MAX_CALLBACKS \in Nat
    BY <1>1, LogCTypes DEF LogCAssumption
  <2>2. slot[t] = 0 \/ slot[t] \in Slots
    BY <1>2, <2>1 DEF AtEnd, Slots
  <2>3. slot[t] \in Slots => slot[t] # 0 /\ slot[t] \in 0..MAX_CALLBACKS
    BY <2>1 DEF Slots
  <2> QED
    BY <1>2, <2>1, <2>2, <2>3 DEF AtEnd, Stream, Full
<1>6. f \in Streams
  BY <1>1, <1>2, <1>5, LogCTypes DEF Streams
<1>7. p \in Parts /\ p.id = d /\ p.part = "head" /\ p.time = tm'
  <2>1. tm' \in 0..MaxEvents
    BY DEF LogCTypeOK
  <2> QED
    BY <1>3, <2>1 DEF Parts
<1> HIDE DEF p
<1>8. /\ out'[f] = Append(out[f], p) /\ \A s \in Streams : s # f => out'[s] = out[s]
      /\ out[f] \in Seq(Parts)
  BY <1>1, <1>2, <1>6, LogCTypes DEF LogCTypeOK
<1>9. /\ DOMAIN out[f] = 1..Len(out[f]) /\ Len(out[f]) \in Nat /\ Len(out'[f]) = last
      /\ DOMAIN out'[f] = 1..last /\ out'[f][last] = p
      /\ \A k \in DOMAIN out[f] : out'[f][k] = out[f][k]
      /\ \A e : HeadsOf(f, e)' = HeadsOf(f, e) \cup (IF e = d THEN {last} ELSE {})
  <2>a. PICK a \in Seq(Parts) : a = out[f]
    BY <1>7, <1>8
  <2>b. PICK b : b = out'[f]
    OBVIOUS
  <2>1. a \in Seq(Parts) /\ a = out[f] /\ b = out'[f] /\ b = Append(a, p)
    BY <2>a, <2>b, <1>7, <1>8
  <2>2. p \in Parts
    BY <1>7
  <2>3. /\ DOMAIN a = 1..Len(a) /\ Len(a) \in Nat /\ Len(b) = Len(a) + 1
        /\ DOMAIN b = 1..Len(a) + 1 /\ b[Len(a) + 1] = p
        /\ \A k \in DOMAIN a : b[k] = a[k]
    <3>1. a \in Seq(Parts) /\ b = Append(a, p)
      BY <2>1
    <3>2. Len(b) = Len(a) + 1 /\ DOMAIN b = 1..Len(a) + 1 /\ Len(a) \in Nat
      BY <2>2, <3>1
    <3> QED
      BY <2>2, <3>1, <3>2
  <2>4. ASSUME NEW e PROVE HeadsOf(f, e)' = HeadsOf(f, e) \cup (IF e = d THEN {last} ELSE {})
    <3>1. {k \in DOMAIN b : b[k].id = e /\ b[k].part = "head"}
            = {k \in DOMAIN a : a[k].id = e /\ a[k].part = "head"}
                \cup (IF p.id = e /\ p.part = "head" THEN {Len(a) + 1} ELSE {})
      BY <2>1, <2>2, HeadsAppend
    <3> QED
      BY <1>7, <2>1, <3>1 DEF HeadsOf
  <2> QED
    BY <2>1, <2>3, <2>4
<1>10. \A s \in Streams : s # f => \A e : HeadsOf(s, e)' = HeadsOf(s, e)
  BY <1>8 DEF HeadsOf
<1>11. HeadsOf(f, d) = {}
  <2> SUFFICES ASSUME HeadsOf(f, d) # {} PROVE FALSE
    OBVIOUS
  <2>1. \/ f = "stderr" /\ Passed(t, 0)
        \/ \E i \in Slots : Full(i) /\ callbacks[i].udata = f /\ Passed(t, i)
    BY <1>1, <1>3, <1>6 DEF OwedInv
  <2>2. CASE f = "stderr" /\ Passed(t, 0)
    <3>1. slot[t] \in Slots
      BY <1>2, <1>5, <2>2 DEF Passed
    <3>2. callbacks[slot[t]].udata \in Files \cup {"NULL"} /\ callbacks[slot[t]].udata = f
      BY <1>1, <1>5, <3>1, LogCTypes
    <3> QED
      BY <2>2, <3>2 DEF LogCAssumption
  <2>3. CASE \E i \in Slots : Full(i) /\ callbacks[i].udata = f /\ Passed(t, i)
    <3>1. PICK i \in Slots : Full(i) /\ callbacks[i].udata = f /\ Passed(t, i)
      BY <2>3
    <3>2. i < slot[t] /\ i \in Nat \ {0}
      BY <1>2, <3>1 DEF Passed, Slots
    <3>3. slot[t] \in Slots
      BY <1>5, <3>2
    <3>4. i = slot[t]
      BY <1>1, <1>5, <3>1, <3>3 DEF SlotsInv
    <3> QED
      BY <3>2, <3>4
  <2> QED
    BY <2>1, <2>2, <2>3
<1>12. LoggerInv(t)'
  <2>1. slot[t] <= MAX_CALLBACKS
    BY <1>5 DEF LogCAssumption
  <2>2. Stream(t)' = f
    BY <1>2, <1>5 DEF Stream
  <2>3. slot[t] \in Slots => Full(slot[t])'
    BY <1>2, <1>4, <1>5 DEF Full
  <2> QED
    BY <1>2, <1>3, <1>4, <2>1, <2>2, <2>3 DEF LoggerInv, Active
<1>13. OwedInv(t)'
  <2>1. \A i : Passed(t, i) => Passed(t, i)'
    BY <1>2, <1>4 DEF Passed
  <2>2. \A i : Passed(t, i)' => Passed(t, i) \/ i = slot[t]
    BY <1>4 DEF Passed
  <2>3. Passed(t, slot[t])'
    BY <1>4 DEF Passed
  <2>4. \A i : Full(i)' <=> Full(i)
    BY <1>2 DEF Full
  <2>5. \A s \in Streams, e \in 1..MaxEvents : HeadsOf(s, e) \subseteq HeadsOf(s, e)'
    BY <1>9, <1>10
  <2>6. HeadsOf(f, d) \cup {last} # {} /\ \A e : e = d => HeadsOf(f, e)' # {}
    BY <1>9
  <2>7. /\ \A s \in owed[d] : \E i \in Slots :
             /\ Full(i) /\ callbacks[i].udata = s /\ ev[t].level >= callbacks[i].level
             /\ Passed(t, i) => HeadsOf(s, d) # {}
        /\ \A s \in Streams : HeadsOf(s, d) # {} =>
             \/ s = "stderr" /\ Passed(t, 0)
             \/ \E i \in Slots : Full(i) /\ callbacks[i].udata = s /\ Passed(t, i)
    BY <1>1, <1>3 DEF OwedInv
  <2>8. owed[d] \subseteq Streams
    BY <1>1, <1>3, LogCTypes DEF Streams
  <2>9. \A e : e = d => \A s \in owed[e] : \E i \in Slots :
          /\ Full(i)' /\ callbacks'[i].udata = s /\ ev'[t].level >= callbacks'[i].level
          /\ Passed(t, i)' => HeadsOf(s, e)' # {}
    <3> SUFFICES ASSUME NEW e, e = d, NEW s \in owed[e]
                 PROVE  \E i \in Slots :
                   /\ Full(i)' /\ callbacks'[i].udata = s
                   /\ ev'[t].level >= callbacks'[i].level
                   /\ Passed(t, i)' => HeadsOf(s, e)' # {}
      OBVIOUS
    <3>1. PICK i \in Slots :
             /\ Full(i) /\ callbacks[i].udata = s /\ ev[t].level >= callbacks[i].level
             /\ Passed(t, i) => HeadsOf(s, d) # {}
      BY <2>7
    <3>2. Passed(t, i)' => HeadsOf(s, e)' # {}
      <4>1. s \in Streams
        BY <2>8
      <4>2. CASE i = slot[t]
        BY <1>5, <2>6, <3>1, <4>2
      <4>3. CASE Passed(t, i)
        BY <1>3, <2>5, <3>1, <4>1, <4>3
      <4> QED
        BY <2>2, <4>2, <4>3
    <3> QED
      BY <1>2, <1>4, <2>4, <3>1, <3>2
  <2>10. \A e : e = d => \A s \in Streams : HeadsOf(s, e)' # {} =>
           \/ s = "stderr" /\ Passed(t, 0)'
           \/ \E i \in Slots : Full(i)' /\ callbacks'[i].udata = s /\ Passed(t, i)'
    <3> SUFFICES ASSUME NEW e, e = d, NEW s \in Streams, HeadsOf(s, e)' # {}
                 PROVE  \/ s = "stderr" /\ Passed(t, 0)'
                        \/ \E i \in Slots :
                             Full(i)' /\ callbacks'[i].udata = s /\ Passed(t, i)'
      OBVIOUS
    <3>1. CASE s = f
      BY <1>2, <1>5, <2>3, <2>4, <3>1
    <3>2. CASE s # f
      <4>1. HeadsOf(s, d) # {}
        BY <1>10, <3>2
      <4> QED
        BY <1>2, <2>1, <2>4, <2>7, <4>1
    <3> QED
      BY <3>1, <3>2
  <2> QED
    BY <1>2, <1>4, <2>9, <2>10 DEF OwedInv
<1>14. ASSUME NEW s \in Streams
       PROVE  LineInv(s)' /\ WholeInv(s)'
  <2>1. LineInv(s) /\ WholeInv(s) /\ LineInv(f) /\ WholeInv(f)
    BY <1>1, <1>6
  <2>2. \A e : Finished(e)' => Finished(e) /\ e # d
    <3>1. \A u \in Loggers : ev'[u].id = ev[u].id
      BY <1>4
    <3> QED
      BY <1>2, <3>1 DEF Finished
  <2>3. CASE s # f
    <3>1. LineInv(s)'
      BY <1>2, <1>8, <1>10, <2>1, <2>2, <2>3 DEF LineInv
    <3>2. \A k : Pending(s, k) => Pending(s, k)'
      <4> SUFFICES ASSUME NEW k, Pending(s, k) PROVE Pending(s, k)'
        OBVIOUS
      <4>1. PICK u \in Loggers : at[u] = "tail" /\ ev[u].udata = s /\ ev[u].id = out[s][k].id
        BY DEF Pending
      <4>2. u # t
        BY <1>2, <4>1
      <4>3. at'[u] = "tail" /\ ev'[u].udata = s /\ ev'[u].id = out[s][k].id
        BY <1>4, <4>1, <4>2
      <4> QED
        BY <1>8, <2>3, <4>3 DEF Pending
    <3>3. \A k : LineWhole(s, k)' <=> LineWhole(s, k)
      BY <1>8, <2>3 DEF LineWhole
    <3> QED
      BY <1>2, <1>8, <2>1, <2>3, <3>1, <3>2, <3>3 DEF WholeInv
  <2>4. CASE s = f
    <3>1. \A k \in DOMAIN out'[f] : out'[f][k].id <= events
      <4> TAKE k \in DOMAIN out'[f]
      <4>1. k \in DOMAIN out[f] \/ k = last
        BY <1>9
      <4> QED
        BY <1>3, <1>7, <1>9, <2>1, <4>1 DEF LineInv
    <3>2. \A e \in 1..MaxEvents : \A k, l \in HeadsOf(f, e)' : k = l
      <4> TAKE e \in 1..MaxEvents
      <4>1. CASE e = d
        BY <1>9, <1>11, <4>1
      <4>2. CASE e # d
        BY <1>9, <2>1, <4>2 DEF LineInv
      <4> QED
        BY <4>1, <4>2
    <3>3. \A e \in 1..MaxEvents : Finished(e)' /\ f \in owed'[e] => HeadsOf(f, e)' # {}
      BY <1>2, <1>9, <2>1, <2>2 DEF LineInv
    <3>4. \A g : g = f => LineInv(g)'
      BY <1>2, <3>1, <3>2, <3>3 DEF LineInv
    <3>5. ASSUME lockFn
          PROVE  \A k \in DOMAIN out'[f] : out'[f][k].part = "head" =>
                   out'[f][k].time = out'[f][k].id
                     /\ \A g : g = f => LineWhole(g, k)' \/ Pending(g, k)'
      <4> TAKE k \in DOMAIN out'[f]
      <4> HAVE out'[f][k].part = "head"
      <4>1. CASE k = last
        <5>1. tm' = d
          BY <1>1, <1>2, <1>3, <3>5 DEF LockInv
        <5>2. \A g : g = f => Pending(g, k)'
          BY <1>4, <1>7, <1>9, <4>1 DEF Pending
        <5> QED
          BY <1>7, <1>9, <4>1, <5>1, <5>2
      <4>2. CASE k \in DOMAIN out[f]
        <5>1. out'[f][k] = out[f][k]
          BY <1>9, <4>2
        <5>2. out[f][k].time = out[f][k].id /\ (LineWhole(f, k) \/ Pending(f, k))
          BY <1>2, <2>1, <3>5, <4>2, <5>1 DEF WholeInv
        <5>3. ~Pending(f, k)
          BY <1>1, <1>2, <1>3, <3>5 DEF Pending, LockInv, Active
        <5>4. k < Len(out[f]) /\ out[f][k + 1].id = out[f][k].id /\ out[f][k + 1].part = "tail"
          BY <5>2, <5>3 DEF LineWhole
        <5>5. k + 1 \in DOMAIN out[f] /\ k < last
          BY <1>9, <4>2, <5>4
        <5>6. out'[f][k + 1] = out[f][k + 1]
          BY <1>9, <5>5
        <5>7. \A g : g = f => LineWhole(g, k)'
          BY <1>9, <5>1, <5>4, <5>5, <5>6 DEF LineWhole
        <5> QED
          BY <5>1, <5>2, <5>7
      <4>3. k = last \/ k \in DOMAIN out[f]
        BY <1>9
      <4> QED
        BY <4>1, <4>2, <4>3
    <3>6. \A g : g = f => WholeInv(g)'
      BY <1>2, <3>5 DEF WholeInv
    <3> QED
      BY <2>4, <3>4, <3>6
  <2> QED
    BY <2>3, <2>4
<1>15. \A e : e # d => \A s \in Streams : HeadsOf(s, e)' = HeadsOf(s, e)
  <2> SUFFICES ASSUME NEW e, e # d, NEW s \in Streams PROVE HeadsOf(s, e)' = HeadsOf(s, e)
    OBVIOUS
  <2>1. CASE s = f
    <3>1. HeadsOf(f, e)' = HeadsOf(f, e) \cup {}
      BY <1>9
    <3> QED
      BY <2>1, <3>1
  <2>2. CASE s # f
    BY <1>10, <2>2
  <2> QED
    BY <2>1, <2>2
<1>16. (tm' = d /\ ~ev[t].time) \/ (ev[t].time /\ tm' = tm)
  BY <1>2
<1> QED
  BY <1>2, <1>3, <1>4, <1>12, <1>13, <1>14, <1>15, <1>16, LoggedInv

\* The tail comes directly behind its head.
LEMMA WriteTailKeeps ==
  ASSUME LogCAssumption, LogCInv, LogCTypeOK', NEW t \in Loggers, WriteTail(t)
  PROVE  LogCInv'
<1> SUFFICES ASSUME NEW d, d = ev[t].id, NEW f, f = ev[t].udata, NEW last,
                    last = Len(out[f]) + 1
             PROVE  LogCInv'
  OBVIOUS
<1> DEFINE p == [id |-> d, part |-> "tail", time |-> 0]
<1>1. /\ LogCTypeOK /\ SlotsInv /\ IdsInv /\ LockInv
      /\ \A s \in Streams : LineInv(s) /\ WholeInv(s)
      /\ LoggerInv(t) /\ OwedInv(t)
  BY DEF LogCInv
<1>2. /\ at[t] = "tail" /\ at' = [at EXCEPT ![t] = "head"]
      /\ out' = [out EXCEPT ![f] = Append(@, p)]
      /\ slot' = [slot EXCEPT ![t] = slot[t] + 1]
      /\ UNCHANGED <<lockFn, lockedBy, callbacks, tm, ev, events, added, owed>>
  BY DEF WriteTail, Goes
<1>3. Active(t) /\ Active(t)' /\ d \in 1..MaxEvents /\ d <= events /\ d # 0
  BY <1>1, <1>2, LogCTypes DEF Active, LoggerInv, LogCTypeOK
<1>4. /\ at'[t] = "head" /\ slot'[t] = slot[t] + 1 /\ slot[t] \in Nat
      /\ \A u \in Loggers : u # t => at'[u] = at[u] /\ ev'[u] = ev[u] /\ slot'[u] = slot[u]
  BY <1>1, <1>2, LogCTypes DEF LogCTypeOK
<1>5. f \in Streams
  <2>1. slot[t] \in 0..MAX_CALLBACKS + 1 /\ MAX_CALLBACKS \in Nat /\ slot[t] <= MAX_CALLBACKS
    BY <1>1, <1>2, LogCTypes DEF LogCAssumption, LoggerInv
  <2>2. slot[t] = 0 \/ slot[t] \in Slots
    BY <2>1 DEF Slots
  <2>3. slot[t] \in Slots => f \in Files
    BY <1>1, <1>2, <2>1, LogCTypes DEF LoggerInv, Full, Stream, Slots
  <2> QED
    BY <1>1, <1>2, <2>2, <2>3 DEF LoggerInv, Stream, Streams
<1>6. p \in Parts /\ p.id = d /\ p.part = "tail"
  BY <1>3 DEF Parts, LogCAssumption
<1> HIDE DEF p
<1>7. /\ out'[f] = Append(out[f], p) /\ \A s \in Streams : s # f => out'[s] = out[s]
      /\ out[f] \in Seq(Parts)
  BY <1>1, <1>2, <1>5, LogCTypes DEF LogCTypeOK
<1>8. /\ DOMAIN out[f] = 1..Len(out[f]) /\ Len(out[f]) \in Nat /\ Len(out'[f]) = last
      /\ DOMAIN out'[f] = 1..last /\ out'[f][last] = p
      /\ \A k \in DOMAIN out[f] : out'[f][k] = out[f][k]
      /\ \A e : HeadsOf(f, e)' = HeadsOf(f, e)
  <2>a. PICK a \in Seq(Parts) : a = out[f]
    BY <1>6, <1>7
  <2>b. PICK b : b = out'[f]
    OBVIOUS
  <2>1. a \in Seq(Parts) /\ a = out[f] /\ b = out'[f] /\ b = Append(a, p)
    BY <2>a, <2>b, <1>6, <1>7
  <2>2. p \in Parts
    BY <1>6
  <2>3. /\ DOMAIN a = 1..Len(a) /\ Len(a) \in Nat /\ Len(b) = Len(a) + 1
        /\ DOMAIN b = 1..Len(a) + 1 /\ b[Len(a) + 1] = p
        /\ \A k \in DOMAIN a : b[k] = a[k]
    <3>1. a \in Seq(Parts) /\ b = Append(a, p)
      BY <2>1
    <3>2. Len(b) = Len(a) + 1 /\ DOMAIN b = 1..Len(a) + 1 /\ Len(a) \in Nat
      BY <2>2, <3>1
    <3> QED
      BY <2>2, <3>1, <3>2
  <2>4. ASSUME NEW e PROVE HeadsOf(f, e)' = HeadsOf(f, e)
    <3>1. {k \in DOMAIN b : b[k].id = e /\ b[k].part = "head"}
            = {k \in DOMAIN a : a[k].id = e /\ a[k].part = "head"}
                \cup (IF p.id = e /\ p.part = "head" THEN {Len(a) + 1} ELSE {})
      BY <2>1, <2>2, HeadsAppend
    <3> QED
      BY <1>6, <2>1, <3>1 DEF HeadsOf
  <2> QED
    BY <2>1, <2>3, <2>4
<1>9. \A e : \A s \in Streams : HeadsOf(s, e)' = HeadsOf(s, e)
  <2> TAKE e
  <2> TAKE s \in Streams
  <2>1. CASE s = f
    BY <1>8, <2>1
  <2>2. CASE s # f
    BY <1>7, <2>2 DEF HeadsOf
  <2> QED
    BY <2>1, <2>2
<1>10. LoggerInv(t)'
  BY <1>1, <1>2, <1>3, <1>4 DEF LoggerInv
<1>11. \A i \in Slots \cup {0} : Passed(t, i)' <=> Passed(t, i)
  BY <1>2, <1>4 DEF Passed, Slots
<1>12. OwedInv(t)'
  <2>1. \A i : Full(i)' <=> Full(i)
    BY <1>2 DEF Full
  <2>2. owed[d] \subseteq Streams
    BY <1>1, <1>3, LogCTypes DEF Streams
  <2>3. /\ \A s \in owed[d] : \E i \in Slots :
             /\ Full(i) /\ callbacks[i].udata = s /\ ev[t].level >= callbacks[i].level
             /\ Passed(t, i) => HeadsOf(s, d) # {}
        /\ \A s \in Streams : HeadsOf(s, d) # {} =>
             \/ s = "stderr" /\ Passed(t, 0)
             \/ \E i \in Slots : Full(i) /\ callbacks[i].udata = s /\ Passed(t, i)
    BY <1>1, <1>3 DEF OwedInv
  <2>4. \A s \in owed[d] : \E i \in Slots :
          /\ Full(i)' /\ callbacks'[i].udata = s /\ ev[t].level >= callbacks'[i].level
          /\ Passed(t, i)' => HeadsOf(s, d)' # {}
    BY <1>2, <1>9, <1>11, <2>1, <2>2, <2>3
  <2>5. \A s \in Streams : HeadsOf(s, d)' # {} =>
          \/ s = "stderr" /\ Passed(t, 0)'
          \/ \E i \in Slots : Full(i)' /\ callbacks'[i].udata = s /\ Passed(t, i)'
    BY <1>2, <1>9, <1>11, <2>1, <2>3
  <2> QED
    BY <1>2, <2>4, <2>5 DEF OwedInv
<1>13. ASSUME NEW s \in Streams
       PROVE  LineInv(s)' /\ WholeInv(s)'
  <2>1. LineInv(s) /\ WholeInv(s)
    BY <1>1
  <2>2. \A e : Finished(e)' <=> Finished(e)
    BY <1>2 DEF Finished
  <2>3. \A k \in DOMAIN out'[s] : out'[s][k].id <= events
    <3> TAKE k \in DOMAIN out'[s]
    <3>1. CASE s # f
      BY <1>7, <2>1, <3>1 DEF LineInv
    <3>2. CASE s = f
      <4>1. k \in DOMAIN out[f] \/ k = last
        BY <1>8, <3>2
      <4> QED
        BY <1>3, <1>6, <1>8, <2>1, <3>2, <4>1 DEF LineInv
    <3> QED
      BY <3>1, <3>2
  <2>4. LineInv(s)'
    BY <1>2, <1>9, <2>1, <2>2, <2>3 DEF LineInv
  <2>5. ASSUME lockFn, NEW k \in DOMAIN out'[s], out'[s][k].part = "head"
        PROVE  out'[s][k].time = out'[s][k].id /\ LineWhole(s, k)'
    <3>1. k \in DOMAIN out[s] /\ out'[s][k] = out[s][k]
      <4>1. CASE s # f
        BY <1>7, <2>5, <4>1
      <4>2. CASE s = f
        <5>1. k # last
          BY <1>6, <1>8, <2>5, <4>2
        <5>2. k \in DOMAIN out[f]
          BY <1>8, <2>5, <4>2, <5>1
        <5> QED
          BY <1>8, <4>2, <5>2
      <4> QED
        BY <4>1, <4>2
    <3>2. out[s][k].time = out[s][k].id /\ (LineWhole(s, k) \/ Pending(s, k))
      BY <2>1, <2>5, <3>1 DEF WholeInv
    <3>3. CASE LineWhole(s, k)
      <4>1. k < Len(out[s]) /\ out[s][k + 1].id = out[s][k].id /\ out[s][k + 1].part = "tail"
        BY <3>3 DEF LineWhole
      <4>2. CASE s # f
        BY <1>7, <3>1, <3>2, <4>1, <4>2 DEF LineWhole
      <4>3. CASE s = f
        <5>1. k + 1 \in DOMAIN out[f] /\ k < last
          BY <1>8, <3>1, <4>1, <4>3
        <5>2. out'[f][k + 1] = out[f][k + 1]
          BY <1>8, <5>1
        <5> QED
          BY <1>8, <3>1, <3>2, <4>1, <4>3, <5>1, <5>2 DEF LineWhole
      <4> QED
        BY <4>2, <4>3
    <3>4. CASE Pending(s, k)
      <4>1. PICK u \in Loggers : at[u] = "tail" /\ ev[u].udata = s /\ ev[u].id = out[s][k].id
        BY <3>4 DEF Pending
      <4>2. u = t
        BY <1>1, <1>3, <2>5, <4>1 DEF LockInv, Active
      <4>3. s = f /\ out[s][k].id = d /\ k = Len(out[s])
        BY <3>4, <4>1, <4>2 DEF Pending
      <4>4. k + 1 = last /\ k < last
        BY <1>8, <4>3
      <4> QED
        BY <1>6, <1>8, <3>1, <3>2, <4>3, <4>4 DEF LineWhole
    <3> QED
      BY <3>2, <3>3, <3>4
  <2> QED
    BY <1>2, <2>4, <2>5 DEF WholeInv
<1>14. \A e : e # ev[t].id => \A s \in Streams : HeadsOf(s, e)' = HeadsOf(s, e)
  BY <1>9
<1>15. ev'[t].id = ev[t].id /\ tm' = tm /\ (ev'[t].time => ev[t].time)
  BY <1>2
<1> QED
  BY <1>2, <1>3, <1>4, <1>10, <1>12, <1>13, <1>14, <1>15, LoggedInv

\* A slot whose level the event does not reach is owed nothing.
LEMMA SkipKeeps ==
  ASSUME LogCAssumption, LogCInv, LogCTypeOK', NEW t \in Loggers, Skip(t)
  PROVE  LogCInv'
<1> SUFFICES ASSUME NEW d, d = ev[t].id PROVE LogCInv'
  OBVIOUS
<1>1. /\ LogCTypeOK /\ SlotsInv /\ IdsInv /\ LockInv
      /\ \A s \in Streams : LineInv(s) /\ WholeInv(s)
      /\ LoggerInv(t) /\ OwedInv(t)
  BY DEF LogCInv
<1>2. /\ at[t] = "head" /\ ~Wanted(t) /\ slot' = [slot EXCEPT ![t] = slot[t] + 1]
      /\ UNCHANGED <<lockFn, lockedBy, callbacks, tm, at, ev, out, events, added, owed>>
  BY DEF Skip
<1>3. Active(t) /\ Active(t)' /\ d \in 1..MaxEvents
  BY <1>1, <1>2, LogCTypes DEF Active, LoggerInv, LogCTypeOK
<1>4. /\ slot'[t] = slot[t] + 1 /\ slot[t] \in Nat
      /\ \A u \in Loggers : u # t => slot'[u] = slot[u]
  BY <1>1, <1>2, LogCTypes DEF LogCTypeOK
<1>5. \A s, e : HeadsOf(s, e)' = HeadsOf(s, e)
  BY <1>2 DEF HeadsOf
<1>6. LoggerInv(t)'
  BY <1>1, <1>2 DEF LoggerInv, Active
<1>7. OwedInv(t)'
  <2>1. \A i : Full(i)' <=> Full(i)
    BY <1>2 DEF Full
  <2>2. \A i \in Slots \cup {0} : Passed(t, i) => Passed(t, i)'
    BY <1>2, <1>4 DEF Passed, Slots
  <2>3. \A i \in Slots : Passed(t, i)' => Passed(t, i) \/ i = slot[t]
    BY <1>2, <1>4 DEF Passed, Slots
  <2>4. \A i \in Slots : i = slot[t] => ~(ev[t].level >= callbacks[i].level)
    BY <1>2 DEF Wanted, Slots
  <2>5. /\ \A s \in owed[d] : \E i \in Slots :
             /\ Full(i) /\ callbacks[i].udata = s /\ ev[t].level >= callbacks[i].level
             /\ Passed(t, i) => HeadsOf(s, d) # {}
        /\ \A s \in Streams : HeadsOf(s, d) # {} =>
             \/ s = "stderr" /\ Passed(t, 0)
             \/ \E i \in Slots : Full(i) /\ callbacks[i].udata = s /\ Passed(t, i)
    BY <1>1, <1>3 DEF OwedInv
  <2>6. \A s \in owed[d] : \E i \in Slots :
          /\ Full(i)' /\ callbacks'[i].udata = s /\ ev[t].level >= callbacks'[i].level
          /\ Passed(t, i)' => HeadsOf(s, d)' # {}
    BY <1>2, <1>5, <2>1, <2>3, <2>4, <2>5
  <2>7. \A s \in Streams : HeadsOf(s, d)' # {} =>
          \/ s = "stderr" /\ Passed(t, 0)'
          \/ \E i \in Slots : Full(i)' /\ callbacks'[i].udata = s /\ Passed(t, i)'
    BY <1>2, <1>5, <2>1, <2>2, <2>5
  <2> QED
    BY <1>2, <2>6, <2>7 DEF OwedInv
<1>8. \A s \in Streams : LineInv(s)'
  BY <1>1, <1>2, <1>5 DEF LineInv, Finished
<1>9. \A s \in Streams : WholeInv(s)'
  BY <1>1, <1>2 DEF WholeInv, LineWhole, Pending
<1>10. \A e : e # ev[t].id => \A s \in Streams : HeadsOf(s, e)' = HeadsOf(s, e)
  BY <1>5
<1>11. ev'[t].id = ev[t].id /\ tm' = tm /\ (ev'[t].time => ev[t].time)
       /\ \A u \in Loggers : at'[u] = at[u] /\ ev'[u] = ev[u]
  BY <1>2
<1> QED
  BY <1>2, <1>3, <1>4, <1>6, <1>7, <1>8, <1>9, <1>10, <1>11, LoggedInv

\* At the end every slot that has a stream has been passed.
LEMMA LogReturnKeeps ==
  ASSUME LogCAssumption, LogCInv, LogCTypeOK', NEW t \in Loggers, LogReturn(t)
  PROVE  LogCInv'
<1> SUFFICES ASSUME NEW d, d = ev[t].id PROVE LogCInv'
  OBVIOUS
<1>1. /\ LogCTypeOK /\ SlotsInv /\ IdsInv /\ LockInv
      /\ \A s \in Streams : LineInv(s) /\ WholeInv(s)
      /\ \A u \in Loggers : LoggerInv(u) /\ OwedInv(u) /\ AdderInv(u)
  BY DEF LogCInv
<1>2. /\ at[t] = "head" /\ AtEnd(t) /\ at' = [at EXCEPT ![t] = "idle"]
      /\ ev' = [ev EXCEPT ![t] = NoEvent] /\ slot' = [slot EXCEPT ![t] = 0]
      /\ UNCHANGED <<lockFn, callbacks, tm, out, events, added, owed>>
  BY DEF LogReturn, Goes
<1>3. Active(t) /\ d \in 1..MaxEvents
  BY <1>1, <1>2, LogCTypes DEF Active, LoggerInv, LogCTypeOK
<1>4. /\ at'[t] = "idle" /\ ev'[t] = NoEvent /\ slot'[t] = 0 /\ slot[t] \in Nat
      /\ \A u \in Loggers : u # t => at'[u] = at[u] /\ ev'[u] = ev[u] /\ slot'[u] = slot[u]
  BY <1>1, <1>2, LogCTypes DEF LogCTypeOK
<1>5. \A s, e : HeadsOf(s, e)' = HeadsOf(s, e)
  BY <1>2 DEF HeadsOf
<1>6. ~Adding(t) /\ ~Adding(t)' /\ ~Active(t)' /\ ev'[t].id = 0
  BY <1>2, <1>4 DEF Adding, Active, NoEvent
<1>7. /\ SlotsInv' /\ \A u \in Loggers : AdderInv(u)'
      /\ \A u \in Loggers : u # t => LoggerInv(u)' /\ OwedInv(u)'
  <2>1. events <= events' /\ callbacks' = callbacks /\ added' = added
    BY <1>1, <1>2 DEF LogCTypeOK
  <2>2. \A u \in Loggers : Active(u) /\ u # t => \A s \in Streams :
          HeadsOf(s, ev[u].id)' = HeadsOf(s, ev[u].id) /\ owed'[ev[u].id] = owed[ev[u].id]
    BY <1>2, <1>4 DEF HeadsOf
  <2> QED
    BY <1>4, <1>6, <2>1, <2>2, LoggingKeeps
<1>8. LoggerInv(t)' /\ OwedInv(t)'
  <2>1. 0 <= events' /\ events' \in Nat
    BY <1>1, <1>2 DEF LogCTypeOK
  <2> QED
    BY <1>4, <1>6, <2>1 DEF LoggerInv, OwedInv
<1>9. IdsInv'
  BY <1>1, <1>4, <1>6 DEF IdsInv, Active
<1>10. LockInv'
  <2> SUFFICES ASSUME lockFn, NEW u \in Loggers, Active(u)' PROVE FALSE
    BY <1>2 DEF LockInv
  <2>1. u # t /\ Active(u)
    BY <1>4, <1>6 DEF Active
  <2> QED
    BY <1>1, <1>3, <2>1 DEF LockInv
<1>11. \A i \in Slots : Full(i) => Passed(t, i)
  <2> SUFFICES ASSUME NEW i \in Slots, Full(i) PROVE i < slot[t]
    BY DEF Passed
  <2>1. MAX_CALLBACKS \in Nat /\ i \in Nat
    BY DEF LogCAssumption, Slots
  <2>2. CASE slot[t] \in Slots
    <3>1. ~callbacks[slot[t]].fn /\ callbacks[i].fn
      BY <1>2, <2>2 DEF AtEnd, Full
    <3>2. \A j \in 1..i - 1 : callbacks[j].fn
      BY <1>1, <3>1 DEF SlotsInv
    <3>3. slot[t] # i /\ slot[t] \notin 1..i - 1 /\ slot[t] >= 1
      BY <2>2, <3>1, <3>2 DEF Slots
    <3> QED
      BY <1>4, <2>1, <3>3
  <2>3. CASE slot[t] \notin Slots
    BY <1>2, <1>4, <2>1, <2>3 DEF AtEnd, Slots
  <2> QED
    BY <2>2, <2>3
<1>12. \A s \in owed[d] : HeadsOf(s, d) # {}
  <2> TAKE s \in owed[d]
  <2>1. PICK i \in Slots : Full(i) /\ (Passed(t, i) => HeadsOf(s, d) # {})
    BY <1>1, <1>3 DEF OwedInv
  <2> QED
    BY <1>11, <2>1
<1>13. ASSUME NEW s \in Streams
       PROVE  LineInv(s)' /\ WholeInv(s)'
  <2>1. LineInv(s) /\ WholeInv(s)
    BY <1>1
  <2>2. \A e : Finished(e)' => Finished(e) \/ e = d
    <3> SUFFICES ASSUME NEW e, Finished(e)', e # d PROVE Finished(e)
      OBVIOUS
    <3>1. \A u \in Loggers : u # t => ev[u].id # e
      BY <1>4 DEF Finished
    <3> QED
      BY <1>2, <3>1 DEF Finished
  <2>3. LineInv(s)'
    BY <1>2, <1>5, <1>12, <2>1, <2>2 DEF LineInv
  <2>4. \A k : Pending(s, k) => Pending(s, k)'
    <3> SUFFICES ASSUME NEW k, Pending(s, k) PROVE Pending(s, k)'
      OBVIOUS
    <3>1. PICK u \in Loggers : at[u] = "tail" /\ ev[u].udata = s /\ ev[u].id = out[s][k].id
      BY DEF Pending
    <3>2. u # t
      BY <1>2, <3>1
    <3> QED
      BY <1>2, <1>4, <3>1, <3>2 DEF Pending
  <2>5. \A k : LineWhole(s, k)' <=> LineWhole(s, k)
    BY <1>2 DEF LineWhole
  <2> QED
    BY <1>2, <2>1, <2>3, <2>4, <2>5 DEF WholeInv
<1> QED
  BY <1>7, <1>8, <1>9, <1>10, <1>13 DEF LogCInv

LEMMA LogCStep ==
  ASSUME LogCAssumption, OneAdder, LogCInv, [NextLogC]_logCVars
  PROVE  LogCInv'
<1>1. CASE UNCHANGED logCVars
  <2>1. LogCTypeOK'
    BY <1>1 DEF logCVars, LogCInv, LogCTypeOK
  <2> QED
    BY <1>1, <2>1, SetKeeps DEF logCVars
<1>2. CASE NextLogC
  <2>1. LogCTypeOK'
    BY <1>2, LogCTypeStep
  <2>2. CASE SetLock
    BY <2>1, <2>2, SetLockKeeps
  <2>3. CASE Set
    BY <2>1, <2>3, SetKeeps DEF Set
  <2>4. ASSUME NEW t \in Loggers, NEW l \in LogLevels,
               Log(t, l) \/ \E f \in Files : AddFind(t, f, l)
        PROVE  LogCInv'
    BY <2>1, <2>4, LogKeeps, AddFindKeeps
  <2>5. ASSUME NEW t \in Loggers, UseNull(t)
        PROVE  LogCInv'
    BY <2>1, <2>5, SetKeeps DEF UseNull
  <2>6. ASSUME NEW t \in Loggers,
               \/ AddStore(t) \/ AddReturn(t)
               \/ WriteHead(t) \/ WriteTail(t) \/ Skip(t) \/ LogReturn(t)
        PROVE  LogCInv'
    BY <2>1, <2>6, AddStoreKeeps, AddReturnKeeps, WriteHeadKeeps, WriteTailKeeps, SkipKeeps,
       LogReturnKeeps
  <2> QED
    BY <1>2, <2>2, <2>3, <2>4, <2>5, <2>6 DEF NextLogC
<1> QED
  BY <1>1, <1>2

\* What the invariant says of a message that is finished.
LEMMA LogCInvWhole == LogCAssumption /\ LogCInv => LinesWhole
<1> SUFFICES ASSUME LogCAssumption, LogCInv, NEW e \in 1..MaxEvents, Finished(e)
             PROVE  /\ \A s \in owed[e] : HeadsOf(s, e) # {}
                    /\ \A s \in Streams : Cardinality(HeadsOf(s, e)) <= 1
                    /\ lockFn => /\ \A s \in Streams : \A k \in HeadsOf(s, e) :
                                      LineWhole(s, k) /\ out[s][k].time = e
  BY DEF LinesWhole
<1>1. LogCTypeOK /\ \A s \in Streams : LineInv(s) /\ WholeInv(s)
  BY DEF LogCInv
<1>2. \A s \in owed[e] : HeadsOf(s, e) # {}
  <2>1. owed[e] \subseteq Streams
    BY <1>1, LogCTypes DEF Streams
  <2> QED
    BY <1>1, <2>1 DEF LineInv
<1>3. ASSUME NEW s \in Streams
      PROVE  Cardinality(HeadsOf(s, e)) <= 1
  <2>1. CASE HeadsOf(s, e) = {}
    BY <2>1, FS_EmptySet
  <2>2. CASE HeadsOf(s, e) # {}
    <3>1. PICK k \in HeadsOf(s, e) : TRUE
      BY <2>2
    <3>2. HeadsOf(s, e) = {k}
      BY <1>1, <3>1 DEF LineInv
    <3>3. Cardinality({k}) = 1
      BY FS_Singleton
    <3> QED
      BY <3>2, <3>3
  <2> QED
    BY <2>1, <2>2
<1>4. ASSUME lockFn, NEW s \in Streams, NEW k \in HeadsOf(s, e)
      PROVE  LineWhole(s, k) /\ out[s][k].time = e
  <2>1. k \in DOMAIN out[s] /\ out[s][k].id = e /\ out[s][k].part = "head"
    BY <1>4 DEF HeadsOf
  <2>2. ~Pending(s, k)
    BY <2>1 DEF Pending, Finished
  <2> QED
    BY <1>1, <1>4, <2>1, <2>2 DEF WholeInv
<1> QED
  BY <1>2, <1>3, <1>4

\* A message of log.c whose call has returned is in every stream it was owed to, in
\* none twice, and under a lock in one piece with its own time (LinesWhole), for any
\* threads, levels, streams and slots, when one thread adds the callbacks.
THEOREM MessagesWhole == LogCAssumption /\ OneAdder /\ SpecLogC => []LinesWhole
<1> SUFFICES ASSUME LogCAssumption, OneAdder PROVE SpecLogC => []LinesWhole
  OBVIOUS
<1>1. InitLogC => LogCInv
  BY LogCInit
<1>2. LogCInv /\ [NextLogC]_logCVars => LogCInv'
  BY LogCStep
<1>3. LogCInv => LinesWhole
  BY LogCInvWhole
<1> QED
  BY <1>1, <1>2, <1>3, PTL DEF SpecLogC
-----------------------------------------------------------------------------
(* The benchmark                                                           *)

\* The powers of two of the reference.
LEMMA TwoToFacts ==
  /\ TwoTo[0] = 1
  /\ \A k \in Nat : TwoTo[k] \in Nat \ {0} /\ TwoTo[k + 1] = 2 * TwoTo[k]
<1> DEFINE steps == [i \in Nat |-> [x \in Nat |-> 2 * x]]
           Def(f, k) == IF k = 0 THEN 1 ELSE 2 * f[k - 1]
<1>1. PICK f : Recurs(f, Nat, 1, steps)
  <2>1. 1 \in Nat /\ steps \in [Nat -> [Nat -> Nat]]
    OBVIOUS
  <2> HIDE DEF steps
  <2> QED
    BY <2>1, Recursion
<1>2. f \in [Nat -> Nat] /\ f[0] = 1 /\ \A k \in Nat : f[k + 1] = 2 * f[k]
  BY <1>1 DEF Recurs
<1>3. ASSUME NEW k \in Nat PROVE f[k] = Def(f, k)
  <2>1. CASE k = 0
    BY <1>2, <2>1
  <2>2. CASE k # 0
    <3>1. k - 1 \in Nat /\ (k - 1) + 1 = k
      BY <2>2
    <3>2. f[(k - 1) + 1] = 2 * f[k - 1]
      BY <1>2, <3>1
    <3> QED
      BY <2>2, <3>1, <3>2
  <2> QED
    BY <2>1, <2>2
<1>4. f = [k \in Nat |-> Def(f, k)]
  <2>1. f = [k \in Nat |-> f[k]]
    BY <1>2
  <2> HIDE DEF Def
  <2> QED
    BY <1>3, <2>1
<1>5. TwoTo = CHOOSE g : g = [k \in Nat |-> Def(g, k)]
  BY DEF TwoTo
<1>6. TwoTo = [k \in Nat |-> Def(TwoTo, k)]
  <2> HIDE DEF Def
  <2> QED
    BY <1>4, <1>5
<1>7. ASSUME NEW k \in Nat PROVE TwoTo[k] = Def(TwoTo, k)
  <2> HIDE DEF Def
  <2> QED
    BY <1>6
<1>8. TwoTo[0] = 1
  BY <1>7
<1>9. ASSUME NEW k \in Nat PROVE TwoTo[k + 1] = 2 * TwoTo[k]
  <2>1. k + 1 \in Nat /\ k + 1 # 0 /\ (k + 1) - 1 = k
    OBVIOUS
  <2> QED
    BY <1>7, <2>1
<1> DEFINE Good == {k \in Nat : TwoTo[k] \in Nat \ {0}}
<1>10. 0 \in Good
  BY <1>8
<1>11. ASSUME NEW k \in Nat, k \in Good PROVE k + 1 \in Good
  BY <1>9, <1>11
<1>12. Nat \subseteq Good
  <2> HIDE DEF Good
  <2> QED
    BY <1>10, <1>11, Inductive
<1> QED
  BY <1>8, <1>9, <1>12

\* The values of the inner calls, and how many calls each takes.
Ack(i, v) ==
  CASE i = 0 -> v + 1 [] i = 1 -> v + 2 [] i = 2 -> 2 * v + 3 [] i = 3 -> Value(v)

Cost(i, v) ==
  CASE i = 0 -> 1
    [] i = 1 -> 2 * v + 2
    [] i = 2 -> 2 * v * v + 7 * v + 5
    [] i = 3 -> CallsOf(v)

\* The sum of powers in CallsOf is a multiple of 3.
LEMMA CallsExact ==
  ASSUME NEW k \in Nat
  PROVE  /\ CallsOf(k) \in Nat
         /\ 3 * CallsOf(k) = 128 * TwoTo[k] * TwoTo[k] - 120 * TwoTo[k] + 9 * k + 37
<1> DEFINE E(j) == 128 * TwoTo[j] * TwoTo[j] - 120 * TwoTo[j] + 9 * j + 37
           Good == {j \in Nat : \E c \in Nat : E(j) = 3 * c}
<1>1. 0 \in Good
  <2>1. E(0) = 3 * 15
    BY TwoToFacts
  <2> QED
    BY <2>1
<1>2. ASSUME NEW j \in Nat, j \in Good PROVE j + 1 \in Good
  <2>1. PICK c \in Nat : E(j) = 3 * c
    BY <1>2
  <2>2. PICK p \in Nat \ {0} : p = TwoTo[j]
    BY TwoToFacts
  <2>3. TwoTo[j + 1] = 2 * p
    BY <2>2, TwoToFacts
  <2>4. PICK q \in Nat : q = p * p
    OBVIOUS
  <2>5. E(j) = 128 * q - 120 * p + 9 * j + 37
    <3>1. 128 * p * p = 128 * q
      BY <2>4
    <3> QED
      BY <2>2, <3>1
  <2>6. E(j + 1) = 512 * q - 240 * p + 9 * (j + 1) + 37
    <3>1. 128 * (2 * p) * (2 * p) = 512 * q
      BY <2>4
    <3> QED
      BY <2>3, <3>1
  <2>7. q >= p
    BY <2>4
  <2>8. PICK d \in Nat : d = c + 128 * q - 40 * p + 3
    BY <2>7
  <2>9. E(j + 1) = 3 * d
    BY <2>1, <2>5, <2>6, <2>8
  <2>10. j + 1 \in Nat
    OBVIOUS
  <2> HIDE DEF E
  <2> QED
    BY <2>9, <2>10
<1>3. Nat \subseteq Good
  <2> HIDE DEF Good
  <2> QED
    BY <1>1, <1>2, Inductive
<1>4. PICK c \in Nat : E(k) = 3 * c
  BY <1>3
<1>5. CallsOf(k) = (3 * c) \div 3
  BY <1>4 DEF CallsOf
<1>6. (3 * c) \div 3 = c
  OBVIOUS
<1> QED
  BY <1>4, <1>5, <1>6

\* The recursion of ackermann.
LEMMA AckRecursion ==
  /\ \A v \in Nat : Ack(0, v) = v + 1 /\ Cost(0, v) = 1
  /\ \A i \in 1..3 : Ack(i, 0) = Ack(i - 1, 1) /\ Cost(i, 0) = 1 + Cost(i - 1, 1)
  /\ \A i \in 1..3 : \A v \in Nat :
       /\ Ack(i, v + 1) = Ack(i - 1, Ack(i, v))
       /\ Cost(i, v + 1) = 1 + Cost(i, v) + Cost(i - 1, Ack(i, v))
  /\ \A i \in 0..3 : \A v \in Nat : Ack(i, v) \in Nat /\ Cost(i, v) \in Nat
<1>1. \A v \in Nat : Ack(0, v) = v + 1 /\ Cost(0, v) = 1
  BY DEF Ack, Cost
<1>2. \A v \in Nat : Ack(1, v) = v + 2 /\ Cost(1, v) = 2 * v + 2
  BY DEF Ack, Cost
<1>3. \A v \in Nat : Ack(2, v) = 2 * v + 3 /\ Cost(2, v) = 2 * v * v + 7 * v + 5
  BY DEF Ack, Cost
<1>4. \A v \in Nat : Ack(3, v) = Value(v) /\ Cost(3, v) = CallsOf(v)
  BY DEF Ack, Cost
<1>5. Ack(3, 0) = Ack(2, 1) /\ Cost(3, 0) = 1 + Cost(2, 1)
  <2>1. Value(0) = 5
    BY TwoToFacts DEF Value
  <2>2. CallsOf(0) = 15
    <3>1. 3 * CallsOf(0) = 45 /\ CallsOf(0) \in Nat
      BY CallsExact, TwoToFacts
    <3> QED
      BY <3>1
  <2> QED
    BY <1>3, <1>4, <2>1, <2>2
<1>6. ASSUME NEW v \in Nat
      PROVE  /\ Value(v) \in Nat /\ CallsOf(v) \in Nat
             /\ Value(v + 1) = 2 * Value(v) + 3
             /\ CallsOf(v + 1) = 1 + CallsOf(v) + (2 * Value(v) * Value(v) + 7 * Value(v) + 5)
  <2>1. PICK p \in Nat \ {0} : p = TwoTo[v]
    BY TwoToFacts
  <2>2. TwoTo[v + 1] = 2 * p
    BY <2>1, TwoToFacts
  <2>3. Value(v) = 8 * p - 3 /\ Value(v + 1) = 16 * p - 3
    BY <2>1, <2>2 DEF Value
  <2>4. PICK q \in Nat : q = p * p
    OBVIOUS
  <2>5. CallsOf(v) \in Nat /\ 3 * CallsOf(v) = 128 * q - 120 * p + 9 * v + 37
    <3>1. 128 * p * p = 128 * q
      BY <2>4
    <3>2. CallsOf(v) \in Nat /\ 3 * CallsOf(v) = 128 * p * p - 120 * p + 9 * v + 37
      BY <2>1, CallsExact
    <3> QED
      BY <3>1, <3>2
  <2>6. CallsOf(v + 1) \in Nat /\ 3 * CallsOf(v + 1) = 512 * q - 240 * p + 9 * (v + 1) + 37
    <3>1. 128 * (2 * p) * (2 * p) = 512 * q
      BY <2>4
    <3>2. v + 1 \in Nat
      OBVIOUS
    <3>3. /\ CallsOf(v + 1) \in Nat
          /\ 3 * CallsOf(v + 1) = 128 * (2 * p) * (2 * p) - 120 * (2 * p) + 9 * (v + 1) + 37
      BY <2>2, <3>2, CallsExact
    <3> QED
      BY <3>1, <3>3
  <2>7. 2 * (8 * p - 3) * (8 * p - 3) = 128 * q - 96 * p + 18
    BY <2>4
  <2>8. PICK x \in Nat, y \in Nat : x = CallsOf(v) /\ y = CallsOf(v + 1)
    BY <2>5, <2>6
  <2>9. y = 1 + x + ((128 * q - 96 * p + 18) + 7 * (8 * p - 3) + 5)
    BY <2>5, <2>6, <2>8
  <2> QED
    BY <2>3, <2>7, <2>8, <2>9
<1> HIDE DEF Ack, Cost
<1>7. \A i \in 1..3 : Ack(i, 0) = Ack(i - 1, 1) /\ Cost(i, 0) = 1 + Cost(i - 1, 1)
  <2>1. Ack(1, 0) = Ack(0, 1) /\ Cost(1, 0) = 1 + Cost(0, 1)
    BY <1>1, <1>2
  <2>2. Ack(2, 0) = Ack(1, 1) /\ Cost(2, 0) = 1 + Cost(1, 1)
    BY <1>2, <1>3
  <2>3. \A i \in 1..3 : i = 1 \/ i = 2 \/ i = 3
    OBVIOUS
  <2> QED
    BY <1>5, <2>1, <2>2, <2>3
<1>8. ASSUME NEW i \in 0..3, NEW v \in Nat PROVE Ack(i, v) \in Nat /\ Cost(i, v) \in Nat
  <2>1. i = 0 \/ i = 1 \/ i = 2 \/ i = 3
    OBVIOUS
  <2>2. CASE i \in {0, 1}
    BY <1>1, <1>2, <2>2
  <2>3. CASE i = 2
    <3>1. PICK w \in Nat : w = 2 * v * v
      OBVIOUS
    <3>2. Ack(2, v) = 2 * v + 3 /\ Cost(2, v) = w + 7 * v + 5
      BY <1>3, <3>1
    <3> QED
      BY <2>3, <3>2
  <2>4. CASE i = 3
    BY <1>4, <1>6, <2>4
  <2> QED
    BY <2>1, <2>2, <2>3, <2>4
<1>9. ASSUME NEW i \in 1..3, NEW v \in Nat
      PROVE  /\ Ack(i, v + 1) = Ack(i - 1, Ack(i, v))
             /\ Cost(i, v + 1) = 1 + Cost(i, v) + Cost(i - 1, Ack(i, v))
  <2>1. CASE i = 1
    BY <1>1, <1>2, <2>1
  <2>2. CASE i = 2
    <3>1. PICK w \in Nat : w = 2 * v + 3
      OBVIOUS
    <3>2. Ack(2, v) = w /\ Ack(1, w) = w + 2 /\ Cost(1, w) = 2 * w + 2
      BY <1>2, <1>3, <3>1
    <3>3. Ack(2, v + 1) = 2 * (v + 1) + 3
          /\ Cost(2, v + 1) = 2 * (v + 1) * (v + 1) + 7 * (v + 1) + 5
          /\ Cost(2, v) = 2 * v * v + 7 * v + 5
      BY <1>3
    <3>4. 2 * (v + 1) * (v + 1) = 2 * v * v + 4 * v + 2
      OBVIOUS
    <3> QED
      BY <2>2, <3>1, <3>2, <3>3, <3>4
  <2>3. CASE i = 3
    <3>1. PICK w \in Nat : w = Value(v)
      BY <1>6
    <3>2. Ack(3, v) = w /\ Ack(2, w) = 2 * w + 3 /\ Cost(2, w) = 2 * w * w + 7 * w + 5
      BY <1>3, <1>4, <3>1
    <3>3. Ack(3, v + 1) = Value(v + 1) /\ Cost(3, v + 1) = CallsOf(v + 1)
          /\ Cost(3, v) = CallsOf(v)
      BY <1>4
    <3>4. Value(v + 1) = 2 * w + 3
          /\ CallsOf(v + 1) = 1 + CallsOf(v) + (2 * w * w + 7 * w + 5)
      BY <1>6, <3>1
    <3> QED
      BY <2>3, <3>2, <3>3, <3>4
  <2>4. i = 1 \/ i = 2 \/ i = 3
    OBVIOUS
  <2> QED
    BY <2>1, <2>2, <2>3, <2>4
<1> QED
  BY <1>1, <1>7, <1>8, <1>9

\* What one logging call writes is what the README says.
LEMMA WrittenIsPublished ==
  ASSUME NEW p \in {"c-logger", "log-c", "zf_log", "zlog"}, NEW low \in 0..5
  PROVE  Cardinality(Written(p, low)) = Published(low)
<1>1. low = 0 \/ low = 1 \/ low = 2 \/ low = 3 \/ low = 4 \/ low = 5
  OBVIOUS
<1>2. ASSUME NEW a, NEW b, a # b
      PROVE  /\ Cardinality({a, b}) = 2
             /\ Cardinality({b}) = 1
             /\ Cardinality({}) = 0
  <2>1. IsFiniteSet({b}) /\ Cardinality({b}) = 1 /\ Cardinality({}) = 0
    BY FS_Singleton, FS_EmptySet
  <2>2. Cardinality({b} \cup {a}) = Cardinality({b}) + 1
    BY <1>2, <2>1, FS_AddElement
  <2>3. {b} \cup {a} = {a, b}
    OBVIOUS
  <2> QED
    BY <2>1, <2>2, <2>3
<1>3. Published(low) =
        IF low \in {0, 1} THEN 2 ELSE IF low \in {2, 3} THEN 1 ELSE 0
  BY <1>1 DEF Published
<1>4. CASE p \in {"c-logger", "log-c"}
  <2>1. Written(p, low) = {k \in {1, 3} : low <= k}
    BY <1>4 DEF Written
  <2>2. Written(p, low) =
          IF low \in {0, 1} THEN {1, 3} ELSE IF low \in {2, 3} THEN {3} ELSE {}
    BY <1>1, <2>1
  <2>3. Cardinality({1, 3}) = 2 /\ Cardinality({3}) = 1 /\ Cardinality({}) = 0
    <3>1. 1 # 3
      OBVIOUS
    <3> QED
      BY ONLY <1>2, <3>1, Zenon
  <2> QED
    BY <1>1, <1>3, <2>2, <2>3
<1>5. CASE p = "zf_log"
  <2>1. Written(p, low) = {k \in {2, 4} : low + 1 <= k}
    BY <1>5 DEF Written, ZfLogLevel
  <2>2. Written(p, low) =
          IF low \in {0, 1} THEN {2, 4} ELSE IF low \in {2, 3} THEN {4} ELSE {}
    BY <1>1, <2>1
  <2>3. Cardinality({2, 4}) = 2 /\ Cardinality({4}) = 1 /\ Cardinality({}) = 0
    <3>1. 2 # 4
      OBVIOUS
    <3> QED
      BY ONLY <1>2, <3>1, Zenon
  <2> QED
    BY <1>1, <1>3, <2>2, <2>3
<1>6. CASE p = "zlog"
  <2>1. Written(p, low) =
          {name \in {"info", "warn"} :
             ZlogLevels[ZlogLowest(low)] <= ZlogLevels[name]}
    BY <1>6 DEF Written
  <2>2. ZlogLevels["info"] = 40 /\ ZlogLevels["warn"] = 80
    BY DEF ZlogLevels
  <2>3. /\ low = 0 => ZlogLevels[ZlogLowest(low)] = 20
        /\ low = 1 => ZlogLevels[ZlogLowest(low)] = 40
        /\ low = 2 => ZlogLevels[ZlogLowest(low)] = 60
        /\ low = 3 => ZlogLevels[ZlogLowest(low)] = 80
        /\ low = 4 => ZlogLevels[ZlogLowest(low)] = 100
        /\ low = 5 => ZlogLevels[ZlogLowest(low)] = 120
    BY DEF ZlogLevels, ZlogLowest
  <2>4. Written(p, low) =
          IF low \in {0, 1} THEN {"info", "warn"}
          ELSE IF low \in {2, 3} THEN {"warn"} ELSE {}
    <3>1. PICK least \in Nat : least = ZlogLevels[ZlogLowest(low)]
      BY <1>1, <2>3
    <3>2. "info" \in Written(p, low) <=> least <= 40
      BY <2>1, <2>2, <3>1
    <3>3. "warn" \in Written(p, low) <=> least <= 80
      BY <2>1, <2>2, <3>1
    <3>4. Written(p, low) \subseteq {"info", "warn"}
      BY <2>1
    <3>5. (least <= 40 <=> low \in {0, 1}) /\ (least <= 80 <=> low \in 0..3)
      BY <1>1, <2>3, <3>1
    <3> QED
      BY <1>1, <3>2, <3>3, <3>4, <3>5
  <2>5. /\ Cardinality({"info", "warn"}) = 2
        /\ Cardinality({"warn"}) = 1 /\ Cardinality({}) = 0
    BY <1>2
  <2> QED
    BY <1>1, <1>3, <2>4, <2>5
<1> QED
  BY <1>4, <1>5, <1>6

------------------------------------------------------------------------------
\* The calls that wait, outermost first: v holds the value each is to return
\* and c the number of calls that will have been made when it does; d are made.
Waits(v, c, d) ==
  /\ v \in [0..Len(pending) -> Nat] /\ c \in [0..Len(pending) -> Nat] /\ d \in Nat
  /\ v[Len(pending)] = Ack(m, n)
  /\ c[Len(pending)] = d + Cost(m, n)
  /\ \A i \in 1..Len(pending) :
       /\ v[i - 1] = Ack(pending[i], v[i])
       /\ c[i - 1] = c[i] + Cost(pending[i], v[i])
  /\ v[0] = Value(AckermannN) /\ c[0] = CallsOf(AckermannN)

\* The programs whose messages are counted: slog may drop any.
Counted == program \notin {"control", "slog"}

InCalls == \E v, c, d : Waits(v, c, d) /\ (Counted => logged = Published(logLevel) * d)

\* The inductive invariant of the benchmark.
BenchInv ==
  /\ program \in Programs /\ logLevel \in 0..5
  /\ phase \in {"main", "setup", "timed", "teardown", "join", "exited"}
  /\ m \in 0..3 /\ n \in Nat /\ pending \in Seq(0..2)
  /\ result \in Nat \cup {NULL}
  /\ opened \in BOOLEAN /\ logged \in Nat /\ status \in {0, -1}
  /\ phase \in {"main", "setup"} =>
       m = 3 /\ n = AckermannN /\ pending = << >> /\ logged = 0
  /\ phase = "timed" => InCalls /\ (Counted => opened)
  /\ phase \in {"main", "setup", "timed"} => result = NULL
  /\ result # NULL =>
       /\ result = Value(AckermannN)
       /\ Counted => logged = Published(logLevel) * CallsOf(AckermannN)
  /\ phase = "exited" /\ status = 0 => result # NULL

\* What a call of ackermann logs.
LEMMA LogAdds ==
  ASSUME BenchmarkAssumption, BenchInv, phase = "timed", Logging
  PROVE  /\ logged' \in Nat
         /\ Counted => logged' = logged + Published(logLevel)
<1>1. CASE Counted
  <2>1. program \in {"c-logger", "log-c", "zf_log", "zlog"}
    BY <1>1 DEF BenchInv, Counted, BenchmarkAssumption
  <2>2. opened /\ logLevel \in 0..5 /\ logged \in Nat
    BY <1>1 DEF BenchInv
  <2>3. Cardinality(Written(program, logLevel)) = Published(logLevel)
    BY <2>1, <2>2, WrittenIsPublished
  <2>4. Published(logLevel) \in Nat
    BY DEF Published
  <2> QED
    BY <2>2, <2>3, <2>4 DEF Logging
<1>2. CASE ~Counted
  <2>1. Cardinality(Written(program, logLevel)) \in Nat
    <3>1. program \in {"control", "slog"}
      BY <1>2 DEF Counted
    <3>2. CASE program = "control"
      BY <3>2, FS_EmptySet DEF Written
    <3>3. CASE program = "slog"
      <4>1. IsFiniteSet({2, 4})
        <5>1. IsFiniteSet({4}) /\ {4} \cup {2} = {2, 4}
          BY FS_Singleton
        <5>2. IsFiniteSet({4} \cup {2})
          BY <5>1, FS_AddElement
        <5> QED
          BY <5>1, <5>2
      <4>2. Written(program, logLevel) \subseteq {2, 4}
        BY <3>3 DEF Written
      <4> QED
        BY <4>1, <4>2, FS_Subset, FS_CardinalityType
    <3> QED
      BY <3>1, <3>2, <3>3
  <2>2. logged \in Nat
    BY DEF BenchInv
  <2> QED
    BY <1>2, <2>1, <2>2 DEF Logging
<1> QED
  BY <1>1, <1>2

\* A call of ackermann keeps what the waiting calls are to return, and what they cost.
LEMMA CallsWithin ==
  ASSUME BenchmarkAssumption, BenchInv, phase = "timed", Ackermann
  PROVE  /\ m' \in 0..3 /\ n' \in Nat /\ pending' \in Seq(0..2)
         /\ result' \in Nat \cup {NULL} /\ logged' \in Nat
         /\ phase' \in {"timed", "teardown"}
         /\ phase' = "timed" => InCalls' /\ result' = NULL
         /\ result' # NULL =>
              /\ result' = Value(AckermannN)
              /\ Counted => logged' = Published(logLevel) * CallsOf(AckermannN)
<1> DEFINE L == Len(pending)
           K == Published(logLevel)
<1>1. PICK v, c, d : Waits(v, c, d) /\ (Counted => logged = K * d)
  BY DEF BenchInv, InCalls
<1>2. /\ m \in 0..3 /\ n \in Nat /\ pending \in Seq(0..2) /\ L \in Nat
      /\ result = NULL /\ d \in Nat /\ K \in Nat
  BY <1>1 DEF BenchInv, Waits, Published
<1>3. /\ v \in [0..L -> Nat] /\ c \in [0..L -> Nat]
      /\ v[L] = Ack(m, n) /\ c[L] = d + Cost(m, n)
      /\ \A i \in 1..L : /\ v[i - 1] = Ack(pending[i], v[i])
                         /\ c[i - 1] = c[i] + Cost(pending[i], v[i])
      /\ v[0] = Value(AckermannN) /\ c[0] = CallsOf(AckermannN)
  BY <1>1 DEF Waits
<1>4. logged' \in Nat /\ (Counted => logged' = K * (d + 1))
  <2>1. logged' \in Nat /\ (Counted => logged' = logged + K)
    BY LogAdds DEF Ackermann
  <2>2. K * (d + 1) = K * d + K
    BY <1>2
  <2> QED
    BY <1>1, <2>1, <2>2
<1>5. program' = program /\ logLevel' = logLevel /\ Counted' = Counted
  BY DEF Ackermann, Counted
<1>6. ASSUME NEW w, NEW e, Waits(w, e, d + 1)' PROVE InCalls'
  <2>1. Counted' => logged' = Published(logLevel)' * (d + 1)
    BY <1>4, <1>5 DEF Published
  <2> QED
    BY <1>6, <2>1 DEF InCalls
<1>7. CASE m = 0 /\ Return(n + 1)
  <2>1. v[L] = n + 1 /\ c[L] = d + 1
    BY <1>2, <1>3, <1>7, AckRecursion
  <2>2. CASE pending = << >>
    <3>1. L = 0
      BY <2>2
    <3>2. /\ result' = n + 1 /\ phase' = "teardown"
          /\ m' = m /\ n' = n /\ pending' = pending
      BY <1>7, <2>2 DEF Return
    <3>3. n + 1 = Value(AckermannN) /\ d + 1 = CallsOf(AckermannN) /\ n + 1 \in Nat
      BY <1>2, <1>3, <2>1, <3>1
    <3> QED
      BY <1>2, <1>4, <3>2, <3>3
  <2>3. CASE pending # << >>
    <3>1. /\ m' = pending[L] /\ n' = n + 1 /\ pending' = SubSeq(pending, 1, L - 1)
          /\ result' = result /\ phase' = phase
      BY <1>7, <2>3 DEF Return
    <3>2. L >= 1 /\ pending[L] \in 0..2
      BY <1>2, <2>3
    <3>3. /\ pending' \in Seq(0..2) /\ Len(pending') = L - 1
          /\ \A i \in 1..L - 1 : pending'[i] = pending[i]
      <4>1. L - 1 \in Nat /\ 0 \in Nat /\ L - 1 <= L /\ L = Len(pending)
        BY <1>2, <3>2
      <4>2. pending' = SubSeq(pending, 0 + 1, L - 1)
        BY <3>1
      <4>3. /\ \A k \in 1..L - 1 : pending[k] \in 0..2
            /\ L - 1 \in 0..L
        BY <1>2, <4>1
      <4>4. \A i \in 1..L - 1 : 1 + i - 1 = i
        OBVIOUS
      <4>5. 1 \in 1..(L - 1) + 1 /\ (L - 1) - 1 + 1 = L - 1
        BY <4>1
      <4> QED
        BY <1>2, <3>1, <4>1, <4>3, <4>4, <4>5, SubSeqProperties
    <3>4. PICK w \in [0..L - 1 -> Nat] : \A i \in 0..L - 1 : w[i] = v[i]
      <4>1. [i \in 0..L - 1 |-> v[i]] \in [0..L - 1 -> Nat]
        BY <1>2, <1>3, <3>2
      <4> QED
        BY <4>1
    <3>5. PICK e \in [0..L - 1 -> Nat] : \A i \in 0..L - 1 : e[i] = c[i]
      <4>1. [i \in 0..L - 1 |-> c[i]] \in [0..L - 1 -> Nat]
        BY <1>2, <1>3, <3>2
      <4> QED
        BY <4>1
    <3>6. w[L - 1] = Ack(m', n') /\ e[L - 1] = d + 1 + Cost(m', n')
      <4>1. L - 1 \in 0..L - 1 /\ L \in 1..L
        BY <1>2, <3>2
      <4>2. /\ v[L - 1] = Ack(pending[L], v[L])
            /\ c[L - 1] = c[L] + Cost(pending[L], v[L])
        BY <1>3, <4>1
      <4> QED
        BY <2>1, <3>1, <3>4, <3>5, <4>1, <4>2
    <3>7. w[0] = Value(AckermannN) /\ e[0] = CallsOf(AckermannN)
      <4>1. 0 \in 0..L - 1
        BY <1>2, <3>2
      <4> QED
        BY <1>3, <3>4, <3>5, <4>1
    <3>8. ASSUME NEW i \in 1..L - 1
          PROVE  /\ w[i - 1] = Ack(pending'[i], w[i])
                 /\ e[i - 1] = e[i] + Cost(pending'[i], w[i])
      <4>1. i \in 0..L - 1 /\ i - 1 \in 0..L - 1 /\ i \in 1..L
        BY <1>2, <3>2
      <4>2. w[i] = v[i] /\ w[i - 1] = v[i - 1] /\ e[i] = c[i] /\ e[i - 1] = c[i - 1]
        BY <3>4, <3>5, <4>1
      <4> QED
        BY <1>3, <3>3, <4>1, <4>2
    <3>9. Waits(w, e, d + 1)'
      <4>1. d + 1 \in Nat
        BY <1>2
      <4> QED
        BY <3>3, <3>4, <3>5, <3>6, <3>7, <3>8, <4>1 DEF Waits
    <3>10. InCalls'
      BY <1>6, <3>9
    <3>11. m' \in 0..3 /\ n' \in Nat
      BY <1>2, <3>1, <3>2
    <3> QED
      BY <1>2, <1>4, <3>1, <3>3, <3>10, <3>11
  <2> QED
    BY <2>2, <2>3
<1>8. CASE /\ m > 0 /\ n = 0 /\ m' = m - 1 /\ n' = 1
           /\ UNCHANGED <<pending, result, phase>>
  <2>1. m \in 1..3
    BY <1>2, <1>8
  <2>2. /\ Ack(m - 1, 1) = Ack(m, 0) /\ Cost(m, 0) = 1 + Cost(m - 1, 1)
        /\ Cost(m - 1, 1) \in Nat
    <3>1. m - 1 \in 0..3 /\ 1 \in Nat
      BY <2>1
    <3> QED
      BY <2>1, <3>1, AckRecursion
  <2>3. v[L] = Ack(m', n') /\ c[L] = d + 1 + Cost(m', n')
    BY <1>2, <1>3, <1>8, <2>2
  <2>4. Waits(v, c, d + 1)'
    <3>1. d + 1 \in Nat /\ pending' = pending
      BY <1>2, <1>8
    <3> QED
      BY <1>3, <2>3, <3>1 DEF Waits
  <2>5. InCalls'
    BY <1>6, <2>4
  <2>6. m' \in 0..3 /\ n' \in Nat
    BY <1>8, <2>1
  <2> QED
    BY <1>2, <1>4, <1>8, <2>5, <2>6
<1>9. CASE /\ m > 0 /\ n > 0 /\ pending' = Append(pending, m - 1) /\ n' = n - 1
           /\ UNCHANGED <<m, result, phase>>
  <2>1. m \in 1..3 /\ m - 1 \in 0..2 /\ m - 1 \in 0..3 /\ n - 1 \in Nat
    BY <1>2, <1>9
  <2>2. /\ pending' \in Seq(0..2) /\ Len(pending') = L + 1
        /\ pending'[L + 1] = m - 1
        /\ \A i \in 1..L : pending'[i] = pending[i]
    BY <1>2, <1>9, <2>1
  <2>3. PICK a \in Nat, b \in Nat : a = Ack(m, n - 1) /\ b = Cost(m, n - 1)
    BY <1>2, <2>1, AckRecursion
  <2>4. /\ Ack(m, n) = Ack(m - 1, a)
        /\ Cost(m, n) = 1 + b + Cost(m - 1, a)
        /\ Cost(m - 1, a) \in Nat
    <3>1. (n - 1) + 1 = n
      BY <1>2
    <3>2. /\ Ack(m, (n - 1) + 1) = Ack(m - 1, Ack(m, n - 1))
          /\ Cost(m, (n - 1) + 1) = 1 + Cost(m, n - 1) + Cost(m - 1, Ack(m, n - 1))
      BY <2>1, AckRecursion
    <3> QED
      BY <2>1, <2>3, <3>1, <3>2, AckRecursion
  <2>5. PICK w \in [0..L + 1 -> Nat] :
          w[L + 1] = a /\ \A i \in 0..L : w[i] = v[i]
    <3> DEFINE f == [i \in 0..L + 1 |-> IF i = L + 1 THEN a ELSE v[i]]
    <3>1. f \in [0..L + 1 -> Nat]
      BY <1>2, <1>3
    <3>2. f[L + 1] = a /\ \A i \in 0..L : f[i] = v[i]
      BY <1>2
    <3> QED
      BY <3>1, <3>2
  <2>6. PICK e \in [0..L + 1 -> Nat] :
          e[L + 1] = d + 1 + b /\ \A i \in 0..L : e[i] = c[i]
    <3> DEFINE f == [i \in 0..L + 1 |-> IF i = L + 1 THEN d + 1 + b ELSE c[i]]
    <3>1. f \in [0..L + 1 -> Nat]
      BY <1>2, <1>3
    <3>2. f[L + 1] = d + 1 + b /\ \A i \in 0..L : f[i] = c[i]
      BY <1>2
    <3> QED
      BY <3>1, <3>2
  <2>7. ASSUME NEW i \in 1..L + 1
        PROVE  /\ w[i - 1] = Ack(pending'[i], w[i])
               /\ e[i - 1] = e[i] + Cost(pending'[i], w[i])
    <3>1. CASE i = L + 1
      <4>1. i - 1 = L /\ L \in 0..L
        BY <1>2, <3>1
      <4>2. w[i - 1] = Ack(m, n) /\ e[i - 1] = d + Cost(m, n)
        BY <1>3, <2>5, <2>6, <4>1
      <4>3. w[i] = a /\ e[i] = d + 1 + b /\ pending'[i] = m - 1
        BY <2>2, <2>5, <2>6, <3>1
      <4> QED
        <5>1. PICK x \in Nat : x = Cost(m - 1, a)
          BY <2>4
        <5>2. e[i - 1] = d + (1 + b + x)
          BY <2>4, <4>2, <5>1
        <5>3. d + (1 + b + x) = d + 1 + b + x
          BY <1>2, <2>3
        <5> QED
          BY <2>4, <4>2, <4>3, <5>1, <5>2, <5>3
    <3>2. CASE i # L + 1
      <4>1. i \in 0..L /\ i - 1 \in 0..L /\ i \in 1..L
        BY <1>2, <3>2
      <4>2. w[i] = v[i] /\ w[i - 1] = v[i - 1] /\ e[i] = c[i] /\ e[i - 1] = c[i - 1]
        BY <2>5, <2>6, <4>1
      <4> QED
        BY <1>3, <2>2, <4>1, <4>2
    <3> QED
      BY <3>1, <3>2
  <2>8. w[0] = Value(AckermannN) /\ e[0] = CallsOf(AckermannN)
    <3>1. 0 \in 0..L
      BY <1>2
    <3> QED
      BY <1>3, <2>5, <2>6, <3>1
  <2>9. w[L + 1] = Ack(m', n') /\ e[L + 1] = d + 1 + Cost(m', n')
    BY <1>9, <2>3, <2>5, <2>6
  <2>10. Waits(w, e, d + 1)'
    <3>1. d + 1 \in Nat
      BY <1>2
    <3> QED
      BY <2>2, <2>5, <2>6, <2>7, <2>8, <2>9, <3>1 DEF Waits
  <2>11. InCalls'
    BY <1>6, <2>10
  <2>12. m' \in 0..3 /\ n' \in Nat
    BY <1>2, <1>9, <2>1
  <2> QED
    BY <1>2, <1>4, <1>9, <2>2, <2>11, <2>12
<1> QED
  BY <1>7, <1>8, <1>9 DEF Ackermann

\* The invariant holds at first.
LEMMA BenchInvInit ==
  ASSUME BenchmarkAssumption, AckermannM = 3, InitBenchmark
  PROVE  BenchInv
<1>1. logLevel \in 0..5
  BY DEF InitBenchmark, BenchmarkAssumption
<1>2. AckermannN \in Nat /\ << >> \in Seq(0..2) /\ NULL \notin Nat
  BY DEF BenchmarkAssumption, NULL
<1>3. /\ program \in Programs /\ phase = "main"
      /\ m = 3 /\ n = AckermannN /\ pending = << >>
      /\ result = NULL /\ opened = FALSE /\ logged = 0 /\ status = 0
  BY DEF InitBenchmark
<1>4. m \in 0..3 /\ n \in Nat /\ pending \in Seq(0..2)
  BY <1>2, <1>3
<1> QED
  BY <1>1, <1>3, <1>4 DEF BenchInv

\* Every step keeps it.
LEMMA BenchInvNext ==
  ASSUME BenchmarkAssumption, AckermannM = 3, BenchInv, [NextBenchmark]_benchVars
  PROVE  BenchInv'
<1>1. AckermannN \in Nat /\ NULL \notin Nat /\ NULL = -1
  BY DEF BenchmarkAssumption, NULL
<1>2. CASE ThreadStarts
  BY <1>2 DEF ThreadStarts, BenchInv, Counted
<1>3. CASE ReportFailure
  BY <1>3 DEF ReportFailure, BenchInv, Counted
<1>4. CASE SetUp \/ SetUpFails
  <2>1. /\ phase = "setup" /\ m = 3 /\ n = AckermannN /\ pending = << >> /\ logged = 0
        /\ result = NULL
    BY <1>4 DEF SetUp, SetUpFails, BenchInv
  <2>2. /\ program' = program /\ logLevel' = logLevel /\ m' = m /\ n' = n
        /\ pending' = pending /\ result' = result /\ logged' = logged
        /\ status' = status
    BY <1>4 DEF SetUp, SetUpFails
  <2>3. InCalls'
    <3>1. Value(AckermannN) \in Nat /\ CallsOf(AckermannN) \in Nat
      <4>1. 3 \in 0..3
        OBVIOUS
      <4>2. Ack(3, AckermannN) \in Nat /\ Cost(3, AckermannN) \in Nat
        BY <1>1, <4>1, AckRecursion
      <4> QED
        BY <4>2 DEF Ack, Cost
    <3>2. PICK v \in [0..0 -> Nat], c \in [0..0 -> Nat] :
            v[0] = Value(AckermannN) /\ c[0] = CallsOf(AckermannN)
      <4> DEFINE f == [i \in 0..0 |-> Value(AckermannN)]
                 g == [i \in 0..0 |-> CallsOf(AckermannN)]
      <4>1. f \in [0..0 -> Nat] /\ g \in [0..0 -> Nat]
        BY <3>1
      <4>2. f[0] = Value(AckermannN) /\ g[0] = CallsOf(AckermannN)
        OBVIOUS
      <4> HIDE DEF f, g
      <4> QED
        BY <4>1, <4>2
    <3>3. Len(pending') = 0
      BY <2>1, <2>2
    <3>4. Ack(m', n') = Value(AckermannN) /\ Cost(m', n') = CallsOf(AckermannN)
      BY <2>1, <2>2 DEF Ack, Cost
    <3>5. Waits(v, c, 0)'
      BY <3>1, <3>2, <3>3, <3>4 DEF Waits
    <3>6. logged' = Published(logLevel)' * 0
      <4>1. Published(logLevel') \in Nat
        BY DEF Published
      <4> QED
        BY <2>1, <2>2, <4>1 DEF Published
    <3> QED
      BY <3>5, <3>6 DEF InCalls
  <2>4. CASE SetUp
    BY <2>1, <2>2, <2>3, <2>4 DEF SetUp, BenchInv, Counted, HasFile
  <2>5. CASE SetUpFails
    BY <2>1, <2>2, <2>3, <2>5 DEF SetUpFails, BenchInv, Counted, HasFile
  <2> QED
    BY <1>4, <2>4, <2>5
<1>5. CASE Ackermann
  <2>1. phase = "timed" /\ result = NULL
    BY <1>5 DEF Ackermann, BenchInv
  <2>2. /\ program' = program /\ logLevel' = logLevel /\ opened' = opened
        /\ status' = status
    BY <1>5 DEF Ackermann
  <2> QED
    BY <1>5, <2>1, <2>2, CallsWithin DEF BenchInv, Counted
<1>6. CASE TearDown
  BY <1>6 DEF TearDown, BenchInv, Counted
<1>7. CASE Joined
  BY <1>7 DEF Joined, BenchInv, Counted
<1>8. CASE UNCHANGED benchVars
  BY <1>8 DEF benchVars, BenchInv, Counted, InCalls, Waits
<1> QED
  BY <1>2, <1>3, <1>4, <1>5, <1>6, <1>7, <1>8 DEF NextBenchmark, ThreadRefused, NoResult

\* So it always holds.
LEMMA BenchInvariant ==
  ASSUME BenchmarkAssumption, AckermannM = 3
  PROVE  SpecBenchmark => []BenchInv
<1>1. InitBenchmark => BenchInv
  BY BenchInvInit
<1>2. BenchInv /\ [NextBenchmark]_benchVars => BenchInv'
  BY BenchInvNext
<1> QED
  BY <1>1, <1>2, PTL DEF SpecBenchmark

\* Whatever its setup meets, a program that reports success has computed A(3, n)
\* and, unless it is slog.c, has written the published number of messages: for
\* every n, with ackermann's own recursion (funcs.c) as the stack of its calls.
THEOREM BenchmarkMeasured ==
  ASSUME BenchmarkAssumption, AckermannM = 3
  PROVE  SpecBenchmark => []Measured
<1>1. BenchInv => Measured
  BY DEF BenchInv, Measured, Succeeded, Counted
<1> QED
  BY <1>1, BenchInvariant, PTL

\* The state of the benchmark keeps its types: its thread's result is a number,
\* or there is none.
THEOREM BenchmarkTypes ==
  ASSUME BenchmarkAssumption, AckermannM = 3
  PROVE  SpecBenchmark => []BenchTypeOK
<1>1. BenchInv => BenchTypeOK
  <2>1. Seq(0..2) \subseteq Seq(Nat) /\ 0..3 \subseteq Nat
    OBVIOUS
  <2> QED
    BY <2>1 DEF BenchInv, BenchTypeOK
<1> QED
  BY <1>1, BenchInvariant, PTL
=============================================================================
