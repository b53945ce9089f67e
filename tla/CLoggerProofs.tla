---------------------------- MODULE CLoggerProofs ----------------------------
(***************************************************************************)
(* Proofs about the file logger of c-logger, for any threads, files, clock *)
(* and sequence of failures and crashes.  MutexInv says who holds the      *)
(* mutex and that nobody is past init() before it is done, which needs one *)
(* thread that initialises.  StreamInv builds on it: the stream is closed  *)
(* only in the middle of a call.  FlushInv bounds the times that automatic *)
(* flushing compares.  OrderInv keeps the messages in order, SizeInv ties  *)
(* the size that is cached to the file, and KeptInv says how far a         *)
(* rotation has come and that no file was too large before its last        *)
(* message.                                                                *)
(***************************************************************************)
EXTENDS CLogger, TLAPS, WellFoundedInduction

\* The first initialisation is not raced by another thread's.
OneInitialiser == \A t, u \in Initialisers : t = u

\* Sums of the clock and the interval do not reach 2^64.
ClockFits == \A time \in Times : time + FlushInterval < Modulus

MutexTypes ==
  /\ mutex \in Threads \cup {Null}
  /\ pc \in [Threads -> Inside \cup Outside]
  /\ initialized \in BOOLEAN

BeforeInit == {"idle", "mutexInit", "initialized"}

InitPhase ==
  /\ ~initialized => mutex = Null /\ \A t \in Threads : pc[t] \in BeforeInit
  /\ \A t \in Threads : pc[t] \in {"mutexInit", "initialized"} =>
       t \in Initialisers /\ ~initialized

MutexInv == MutexTypes /\ InitPhase /\ LockExact

LEMMA MutexInit0 == Init => MutexInv
BY CLoggerAssumption
DEF Init, MutexInv, MutexTypes, InitPhase, LockExact, Inside, Outside, BeforeInit

\* A step that leaves the mutex alone and moves one thread, but neither into
\* a call's critical section nor out of it, preserves the invariant.
LEMMA SameSide ==
  ASSUME MutexInv, NEW t \in Threads, NEW where \in Inside \cup Outside,
         Goto(t, where), UNCHANGED <<mutex, initialized>>,
         pc[t] \in Inside <=> where \in Inside,
         where \in BeforeInit => where = "idle",
         ~initialized => where = "idle"
  PROVE  MutexInv'
<1>1. \A u \in Threads : pc'[u] \in Inside <=> pc[u] \in Inside
  BY DEF Goto, MutexInv, MutexTypes
<1>2. MutexTypes'
  BY DEF Goto, MutexInv, MutexTypes
<1>3. InitPhase'
  BY DEF Goto, MutexInv, MutexTypes, InitPhase, BeforeInit
<1> QED
  BY <1>1, <1>2, <1>3 DEF MutexInv, LockExact

\* A thread that takes the free mutex is the only one inside.
LEMMA Locks ==
  ASSUME MutexInv, NEW t \in Threads, NEW where \in Inside,
         pc[t] \in {"initLock", "logLock"}, mutex = Null, mutex' = t,
         Goto(t, where), UNCHANGED initialized
  PROVE  MutexInv'
<1>1. \A u \in Threads : pc[u] \notin Inside
  BY CLoggerAssumption DEF MutexInv, LockExact
<1>2. initialized
  BY DEF MutexInv, InitPhase, BeforeInit
<1>3. where \notin BeforeInit
  BY DEF Inside, BeforeInit
<1>4. MutexTypes'
  BY DEF Goto, MutexInv, MutexTypes, Inside, Outside
<1>5. InitPhase'
  BY <1>2, <1>3 DEF Goto, MutexInv, MutexTypes, InitPhase, BeforeInit
<1>6. LockExact'
  BY <1>1, CLoggerAssumption DEF Goto, MutexInv, MutexTypes, LockExact
<1> QED
  BY <1>4, <1>5, <1>6 DEF MutexInv

\* Every step preserves it, as long as one thread initialises.
LEMMA MutexStep ==
  ASSUME OneInitialiser, MutexInv, [Next]_vars PROVE MutexInv'
<1> USE DEF Inside, Outside
<1>0. MutexTypes /\ InitPhase /\ LockExact
  BY DEF MutexInv
<1>1. ASSUME NEW t \in Threads, InitTest(t) PROVE MutexInv'
  <2>1. CASE initialized
    BY <1>1, <2>1, SameSide DEF InitTest, BeforeInit
  <2>2. CASE ~initialized
    <3>1. Goto(t, "mutexInit") /\ UNCHANGED <<mutex, initialized>> /\ t \in Initialisers
      BY <1>1, <2>2 DEF InitTest
    <3> QED
      BY <3>1, <2>2, <1>0 DEF Goto, MutexInv, MutexTypes, InitPhase, LockExact, BeforeInit
  <2> QED
    BY <2>1, <2>2, <1>0 DEF MutexTypes
<1>2. ASSUME NEW t \in Threads, MutexInit(t) PROVE MutexInv'
  <2>1. ~initialized /\ mutex = Null /\ t \in Initialisers
    BY <1>2, <1>0 DEF MutexInit, InitPhase
  <2> QED
    BY <1>2, <2>1, <1>0
    DEF MutexInit, Goto, MutexInv, MutexTypes, InitPhase, LockExact, BeforeInit
<1>3. ASSUME NEW t \in Threads, SetInitialized(t) PROVE MutexInv'
  <2>1. \A u \in Threads : pc'[u] \in {"idle", "initLock"}
    BY <1>3, <1>0
    DEF SetInitialized, Goto, MutexTypes, InitPhase, BeforeInit, OneInitialiser
  <2>2. mutex' = Null /\ initialized' = TRUE
    BY <1>3, <1>0 DEF SetInitialized, InitPhase
  <2>3. pc' \in [Threads -> Inside \cup Outside]
    BY <1>3, <1>0 DEF SetInitialized, Goto, MutexTypes
  <2> QED
    BY <2>1, <2>2, <2>3, CLoggerAssumption
    DEF MutexInv, MutexTypes, InitPhase, LockExact, BeforeInit
<1>4. ASSUME NEW t \in Threads, InitLock(t) PROVE MutexInv'
  BY <1>4, Locks DEF InitLock
<1>5. ASSUME NEW t \in Threads, LogLock(t) PROVE MutexInv'
  BY <1>5, Locks DEF LogLock
<1>6. ASSUME NEW t \in Threads, Unlock(t) PROVE MutexInv'
  <2>1. mutex = t /\ initialized
    BY <1>6, <1>0 DEF Unlock, LockExact, InitPhase, BeforeInit
  <2> QED
    BY <1>6, <2>1, <1>0, CLoggerAssumption
    DEF Unlock, Goto, MutexInv, MutexTypes, InitPhase, LockExact, BeforeInit
<1>7. ASSUME NEW t \in Threads,
             \/ InitClose(t) \/ InitOpen(t) \/ RotateTest(t) \/ RotateClose(t)
             \/ Remove(t) \/ Rename(t) \/ Reopen(t) \/ Write(t)
      PROVE  MutexInv'
  <2>1. pc[t] \in Inside /\ UNCHANGED <<mutex, initialized>>
    BY <1>7
    DEF InitClose, InitOpen, RotateTest, RotateClose, Remove, Rename, Reopen, Write
  <2>2. \E where \in Inside : Goto(t, where)
    BY <1>7
    DEF InitClose, InitOpen, RotateTest, RotateClose, Remove, Rename, Reopen, Write
  <2>3. initialized
    BY <2>1, <1>0 DEF InitPhase, BeforeInit
  <2> QED
    BY <2>1, <2>2, <2>3, SameSide DEF BeforeInit
<1>8. ASSUME NEW t \in Threads, Log(t) PROVE MutexInv'
  BY <1>8, SameSide DEF Log, BeforeInit
<1>9. ASSUME NEW t \in Threads, FlushRead(t) PROVE MutexInv'
  BY <1>9, SameSide DEF FlushRead, BeforeInit
<1>10. ASSUME NEW t \in Threads, FlushCall(t) PROVE MutexInv'
  BY <1>10, SameSide DEF FlushCall, BeforeInit
<1>11. CASE Crash
  BY <1>11, <1>0, CLoggerAssumption
  DEF Crash, MutexInv, MutexTypes, InitPhase, LockExact, BeforeInit
<1>12. CASE UNCHANGED vars
  BY <1>12, <1>0 DEF vars, MutexInv, MutexTypes, InitPhase, LockExact
<1> QED
  BY <1>1, <1>2, <1>3, <1>4, <1>5, <1>6, <1>7, <1>8, <1>9, <1>10, <1>11, <1>12
  DEF Next, Step

\* The calls that take the mutex exclude each other and give it back on every
\* path (lock and unlock in logger_initFileLogger and logger_log).
THEOREM CallsExclude ==
  ASSUME OneInitialiser
  PROVE  Spec => []LockExact
<1>1. MutexInv /\ [Next]_vars => MutexInv'
  BY MutexStep
<1>2. MutexInv => LockExact
  BY DEF MutexInv
<1> QED
  BY MutexInit0, <1>1, <1>2, PTL DEF Spec

-----------------------------------------------------------------------------

ClosedInside ==
  output = "closed" =>
    /\ mutex \in Threads
    /\ pc[mutex] \in {"initOpen", "remove", "rename", "reopen"}

StreamInv ==
  /\ output \in {"null", "open", "closed"}
  /\ ClosedInside
  /\ \A t \in Threads : pc[t] = "close" => currentFileSize >= MaxFileSize
  /\ \A t \in Threads : pc[t] = "write" => output = "open"
  /\ output = "null" /\ currentFileSize # 0 => "open" \in failed
  /\ StreamsLive

LEMMA StreamInit == Init => StreamInv
BY DEF Init, StreamInv, ClosedInside, StreamsLive

\* A step of a thread outside, or one that keeps the stream, the size and the
\* place of the thread that holds the mutex.
LEMMA StreamKept ==
  ASSUME MutexInv, StreamInv, NEW t \in Threads, NEW where \in Inside \cup Outside,
         Goto(t, where), pc[t] \in Outside \/ pc[t] = "unlock",
         where \notin {"close", "write"},
         UNCHANGED <<output, currentFileSize, failed>>,
         fault' \notin {"fclose", "write"} \/ UNCHANGED fault,
         mutex' = mutex \/ output # "closed"
  PROVE  StreamInv'
<1>1. ClosedInside'
  <2> SUFFICES ASSUME output = "closed"
               PROVE  /\ mutex' \in Threads
                      /\ pc'[mutex'] \in {"initOpen", "remove", "rename", "reopen"}
    BY DEF ClosedInside
  <2>1. mutex' = mutex /\ mutex \in Threads
        /\ pc[mutex] \in {"initOpen", "remove", "rename", "reopen"}
    BY DEF StreamInv, ClosedInside
  <2>2. mutex # t
    BY <2>1 DEF Outside
  <2> QED
    BY <2>1, <2>2 DEF Goto, MutexInv, MutexTypes
<1>2. \A u \in Threads : pc'[u] \in {"close", "write"} => pc[u] = pc'[u]
  BY DEF Goto, MutexInv, MutexTypes
<1> QED
  BY <1>1, <1>2 DEF StreamInv, StreamsLive

\* Only the thread that holds the mutex is inside.
LEMMA Alone ==
  ASSUME MutexInv, NEW t \in Threads, pc[t] \in Inside
  PROVE  mutex = t /\ \A u \in Threads : u # t => pc[u] \notin Inside
BY DEF MutexInv, LockExact

\* Every step preserves it.
LEMMA StreamStep ==
  ASSUME MutexInv, MutexInv', StreamInv, [Next]_vars PROVE StreamInv'
<1> USE DEF Inside, Outside
<1>1. ASSUME NEW t \in Threads,
             \/ InitTest(t) \/ MutexInit(t) \/ SetInitialized(t) \/ Log(t)
             \/ FlushRead(t) \/ FlushCall(t)
      PROVE  StreamInv'
  <2>1. /\ pc[t] \in Outside
        /\ UNCHANGED <<output, currentFileSize, failed>>
        /\ fault' \notin {"fclose", "write"} \/ UNCHANGED fault
    BY <1>1
    DEF InitTest, MutexInit, SetInitialized, Log, FlushRead, FlushCall,
        streamVars, sizeVars
  <2>2. \E where \in Outside : Goto(t, where)
    BY <1>1
    DEF InitTest, MutexInit, SetInitialized, Log, FlushRead, FlushCall
  <2>3. mutex' = mutex
    BY <1>1
    DEF InitTest, MutexInit, SetInitialized, Log, FlushRead, FlushCall,
        MutexInv, InitPhase
  <2> QED
    BY <2>1, <2>2, <2>3, StreamKept
<1>2. ASSUME NEW t \in Threads, InitLock(t) PROVE StreamInv'
  <2>1. output # "closed"
    BY <1>2, CLoggerAssumption DEF InitLock, StreamInv, ClosedInside
  <2> QED
    BY <1>2, <2>1, StreamKept DEF InitLock, streamVars, sizeVars
<1>3. ASSUME NEW t \in Threads, LogLock(t) PROVE StreamInv'
  <2>1. output # "closed"
    BY <1>3, CLoggerAssumption DEF LogLock, StreamInv, ClosedInside
  <2> QED
    BY <1>3, <2>1, StreamKept DEF LogLock, streamVars, sizeVars
<1>4. ASSUME NEW t \in Threads, Unlock(t) PROVE StreamInv'
  <2>1. mutex = t
    BY <1>4, Alone DEF Unlock
  <2>2. output # "closed"
    BY <1>4, <2>1 DEF Unlock, StreamInv, ClosedInside
  <2> QED
    BY <1>4, <2>2, StreamKept DEF Unlock, streamVars, sizeVars
<1>5. ASSUME NEW t \in Threads, InitClose(t) PROVE StreamInv'
  <2>1. mutex = t /\ mutex' = t /\ \A u \in Threads : u # t => pc[u] \notin Inside
    BY <1>5, Alone DEF InitClose
  <2>2. pc' = [pc EXCEPT ![t] = "initOpen"] /\ pc \in [Threads -> Inside \cup Outside]
    BY <1>5 DEF InitClose, Goto, MutexInv, MutexTypes
  <2>3. \A u \in Threads : pc'[u] \notin {"close", "write"}
    BY <2>1, <2>2
  <2>4. /\ UNCHANGED <<currentFileSize, failed, fault>>
        /\ output' = output \/ output' = "closed"
    BY <1>5 DEF InitClose, FClose, sizeVars
  <2> QED
    BY <2>1, <2>2, <2>3, <2>4 DEF StreamInv, ClosedInside, StreamsLive
<1>6. ASSUME NEW t \in Threads, InitOpen(t) PROVE StreamInv'
  <2>1. \A u \in Threads : u # t => pc[u] \notin Inside
    BY <1>6, Alone DEF InitOpen
  <2>2. pc' = [pc EXCEPT ![t] = "unlock"] /\ pc \in [Threads -> Inside \cup Outside]
    BY <1>6 DEF InitOpen, Goto, MutexInv, MutexTypes
  <2>3. \A u \in Threads : pc'[u] \notin {"close", "write"}
    BY <2>1, <2>2
  <2>4. /\ UNCHANGED fault
        /\ failed \subseteq failed'
        /\ output' = "open" \/ (output' = "null" /\ "open" \in failed')
    BY <1>6 DEF InitOpen, OpenAppend, Fails
  <2> QED
    BY <2>3, <2>4 DEF StreamInv, ClosedInside, StreamsLive
<1>7. ASSUME NEW t \in Threads, RotateTest(t) PROVE StreamInv'
  <2>1. mutex = t /\ \A u \in Threads : u # t => pc[u] \notin Inside
    BY <1>7, Alone DEF RotateTest
  <2>2. output # "closed"
    BY <1>7, <2>1 DEF RotateTest, StreamInv, ClosedInside
  <2>3. pc \in [Threads -> Inside \cup Outside]
    BY DEF MutexInv, MutexTypes
  <2>4. UNCHANGED <<output, currentFileSize, failed, fault>>
    BY <1>7 DEF RotateTest, streamVars, sizeVars
  <2>5. /\ pc'[t] = "close" => currentFileSize >= MaxFileSize
        /\ pc'[t] = "write" => output = "open"
        /\ \A u \in Threads : u # t => pc'[u] = pc[u]
    BY <1>7, <2>2, <2>3 DEF RotateTest, Goto, StreamInv
  <2> QED
    BY <2>1, <2>2, <2>4, <2>5 DEF StreamInv, ClosedInside, StreamsLive
<1>8. ASSUME NEW t \in Threads, RotateClose(t) PROVE StreamInv'
  <2>1. mutex = t /\ mutex' = t /\ \A u \in Threads : u # t => pc[u] \notin Inside
    BY <1>8, Alone DEF RotateClose
  <2>2. pc'[t] \in {"reopen", "remove"} /\ \A u \in Threads : u # t => pc'[u] = pc[u]
    BY <1>8 DEF RotateClose, Goto, MutexInv, MutexTypes
  <2>3. \A u \in Threads : pc'[u] \notin {"close", "write"}
    BY <2>1, <2>2
  <2>4. UNCHANGED <<currentFileSize, failed>>
    BY <1>8 DEF RotateClose, sizeVars
  <2>5. CASE output = "open"
    <3>1. output' = "closed" /\ UNCHANGED fault
      BY <1>8, <2>5 DEF RotateClose, FClose
    <3> QED
      BY <3>1, <2>1, <2>2, <2>3, <2>4 DEF StreamInv, ClosedInside, StreamsLive
  <2>6. CASE output # "open"
    <3>1. fault' = "fclose" /\ UNCHANGED output
      BY <1>8, <2>6 DEF RotateClose
    <3>2. output = "null"
      BY <1>8, <2>1, <2>6 DEF RotateClose, StreamInv, ClosedInside
    <3>3. currentFileSize >= MaxFileSize
      BY <1>8 DEF RotateClose, StreamInv
    <3>4. currentFileSize # 0
      BY <3>3, CLoggerAssumption
    <3> QED
      BY <3>1, <3>2, <3>4, <2>3, <2>4 DEF StreamInv, ClosedInside, StreamsLive
  <2> QED
    BY <2>5, <2>6
<1>9. ASSUME NEW t \in Threads, Remove(t) \/ Rename(t) PROVE StreamInv'
  <2>1. mutex = t /\ mutex' = t /\ \A u \in Threads : u # t => pc[u] \notin Inside
    BY <1>9, Alone DEF Remove, Rename
  <2>2. pc'[t] \in {"reopen", "remove", "rename"} /\ \A u \in Threads : u # t => pc'[u] = pc[u]
    BY <1>9 DEF Remove, Rename, Goto, MutexInv, MutexTypes
  <2>3. \A u \in Threads : pc'[u] \notin {"close", "write"}
    BY <2>1, <2>2
  <2>4. UNCHANGED <<output, currentFileSize, fault>> /\ failed \subseteq failed'
    BY <1>9 DEF Remove, Rename, Fails, streamVars, sizeVars
  <2> QED
    BY <2>1, <2>2, <2>3, <2>4 DEF StreamInv, ClosedInside, StreamsLive
<1>10. ASSUME NEW t \in Threads, Reopen(t) PROVE StreamInv'
  <2>1. \A u \in Threads : u # t => pc[u] \notin Inside
    BY <1>10, Alone DEF Reopen
  <2>2. \A u \in Threads : u # t => pc'[u] = pc[u]
    BY <1>10 DEF Reopen, Goto, MutexInv, MutexTypes
  <2>3. UNCHANGED fault /\ failed \subseteq failed'
    BY <1>10 DEF Reopen, Fails
  <2>4. \/ pc'[t] = "write" /\ output' = "open"
        \/ pc'[t] = "unlock" /\ output' = "null" /\ "open" \in failed'
    BY <1>10 DEF Reopen, OpenAppend, Fails, Goto, MutexInv, MutexTypes
  <2> QED
    BY <2>1, <2>2, <2>3, <2>4 DEF StreamInv, ClosedInside, StreamsLive
<1>11. ASSUME NEW t \in Threads, Write(t) PROVE StreamInv'
  <2>1. \A u \in Threads : u # t => pc[u] \notin Inside
    BY <1>11, Alone DEF Write
  <2>2. output = "open"
    BY <1>11 DEF Write, StreamInv
  <2>3. UNCHANGED <<output, fault, failed>>
    BY <1>11, <2>2 DEF Write
  <2>4. \A u \in Threads : pc'[u] \notin {"close", "write"}
    BY <1>11, <2>1 DEF Write, Goto, MutexInv, MutexTypes
  <2> QED
    BY <2>2, <2>3, <2>4 DEF StreamInv, ClosedInside, StreamsLive
<1>12. CASE Crash
  BY <1>12 DEF Crash, StreamInv, ClosedInside, StreamsLive
<1>13. CASE UNCHANGED vars
  BY <1>13
  DEF vars, streamVars, sizeVars, StreamInv, ClosedInside, StreamsLive
<1> QED
  BY <1>1, <1>2, <1>3, <1>4, <1>5, <1>6, <1>7, <1>8, <1>9, <1>10, <1>11, <1>12,
     <1>13 DEF Next, Step

\* Under the mutex no call writes to or closes a stream that is not open, but
\* for the fclose of NULL that follows a failed fopen (rotateLogFiles).
THEOREM StreamsStayLive ==
  ASSUME OneInitialiser
  PROVE  Spec => []StreamsLive
<1>1. Init => MutexInv /\ StreamInv
  BY MutexInit0, StreamInit
<1>2. MutexInv /\ StreamInv /\ [Next]_vars => (MutexInv /\ StreamInv)'
  BY MutexStep, StreamStep
<1>3. StreamInv => StreamsLive
  BY DEF StreamInv
<1> QED
  BY <1>1, <1>2, <1>3, PTL DEF Spec

-----------------------------------------------------------------------------

FlushInv ==
  /\ flushedTime \in Times
  /\ now \in [Threads -> Times]
  /\ FlushedInTime

LEMMA FlushInit == Init => FlushInv
BY CLoggerAssumption DEF Init, FlushInv, FlushedInTime

\* When no flush is due, the message is not before the last flush.
LEMMA NotDue ==
  ASSUME ClockFits, NEW time \in Times, flushedTime \in Times,
         FlushInterval > 0, ~FlushDue(time)
  PROVE  time \in flushedTime..(flushedTime + FlushInterval)
<1> DEFINE diff == time - flushedTime
<1>1. /\ time \in Nat /\ flushedTime \in Nat /\ FlushInterval \in Nat
      /\ Modulus \in Nat \ {0}
      /\ time < Modulus /\ flushedTime + FlushInterval < Modulus
  BY CLoggerAssumption DEF ClockFits
<1>2. diff % Modulus <= FlushInterval
  BY <1>1 DEF FlushDue
<1>3. CASE time >= flushedTime
  <2>1. diff \in 0..(Modulus - 1)
    BY <1>1, <1>3
  <2>2. diff % Modulus = diff
    BY <1>1, <2>1
  <2> QED
    BY <1>1, <1>2, <1>3, <2>2
<1>4. CASE time < flushedTime
  <2>1. diff + Modulus \in 0..(Modulus - 1) /\ diff + Modulus > FlushInterval
    BY <1>1, <1>4
  <2>2. diff % Modulus = diff + Modulus
    BY <1>1, <2>1
  <2> QED
    BY <1>1, <1>2, <2>1, <2>2
<1> QED
  BY <1>1, <1>3, <1>4

\* Every step preserves it.
LEMMA FlushStep ==
  ASSUME ClockFits, FlushInv, [Next]_vars PROVE FlushInv'
<1>1. ASSUME NEW t \in Threads, Write(t) PROVE FlushInv'
  <2>1. CASE output # "open"
    BY <1>1, <2>1 DEF Write, FlushInv, FlushedInTime
  <2>2. CASE output = "open" /\ FlushDue(now[t])
    BY <1>1, <2>2 DEF Write, FlushInv, FlushedInTime
  <2>3. CASE output = "open" /\ ~FlushDue(now[t])
    <3>1. /\ lastTime' = now[t] /\ UNCHANGED <<flushedTime, now>>
      BY <1>1, <2>3 DEF Write
    <3>2. FlushInterval > 0 =>
            now[t] \in flushedTime..(flushedTime + FlushInterval)
      BY <2>3, NotDue DEF FlushInv
    <3> QED
      BY <3>1, <3>2 DEF FlushInv, FlushedInTime
  <2> QED
    BY <2>1, <2>2, <2>3
<1>2. ASSUME NEW t \in Threads, Step(t), ~Write(t) PROVE FlushInv'
  <2>1. /\ UNCHANGED <<flushedTime, lastTime>>
        /\ unflushed' = unflushed \/ unflushed' = 0
    BY <1>2
    DEF Step, InitTest, MutexInit, SetInitialized, InitLock, InitClose, InitOpen,
        Log, LogLock, RotateTest, RotateClose, Remove, Rename, Reopen, Unlock,
        FlushRead, FlushCall, FClose, streamVars, sizeVars
  <2>2. now' \in [Threads -> Times]
    BY <1>2, CLoggerAssumption
    DEF Step, InitTest, MutexInit, SetInitialized, InitLock, InitClose, InitOpen,
        Log, LogLock, RotateTest, RotateClose, Remove, Rename, Reopen, Unlock,
        FlushRead, FlushCall, FlushInv
  <2> QED
    BY <2>1, <2>2 DEF FlushInv, FlushedInTime
<1>3. CASE Crash
  BY <1>3, CLoggerAssumption DEF Crash, FlushInv, FlushedInTime
<1>4. CASE UNCHANGED vars
  BY <1>4 DEF vars, streamVars, sizeVars, FlushInv, FlushedInTime
<1> QED
  BY <1>1, <1>2, <1>3, <1>4 DEF Next

\* With automatic flush no message waits longer than the interval after the
\* last flush, whatever the clock and the threads do (vflog): the unsigned
\* difference makes a flush due when the clock has been set back.
THEOREM FlushedWithinInterval ==
  ASSUME ClockFits
  PROVE  Spec => []FlushedInTime
<1>1. FlushInv /\ [Next]_vars => FlushInv'
  BY FlushStep
<1>2. FlushInv => FlushedInTime
  BY DEF FlushInv
<1> QED
  BY FlushInit, <1>1, <1>2, PTL DEF Spec
-----------------------------------------------------------------------------

Message == [id : Nat, len : Lens]

OrderInv ==
  /\ written \in Nat /\ index \in Int /\ unflushed \in Nat
  /\ DOMAIN disk \subseteq Nat
  /\ \A k \in DOMAIN disk : disk[k] \in Seq(Message)
  /\ \A k \in DOMAIN disk : \A m \in DOMAIN disk[k] : disk[k][m].id <= written
  /\ OrderKept

LEMMA OrderInit == Init => OrderInv
BY DEF Init, OrderInv, OrderKept, Ids

\* Files that are moved without one overtaking another, cut at their end or
\* added empty stay in order.
LEMMA FilesKept ==
  ASSUME OrderInv, NEW from,
         DOMAIN disk' \subseteq Nat,
         \A k \in DOMAIN disk' :
           /\ disk'[k] \in Seq(Message)
           /\ disk'[k] # <<>> => from[k] \in DOMAIN disk
           /\ \A m \in DOMAIN disk'[k] :
                m \in DOMAIN disk[from[k]] /\ disk'[k][m] = disk[from[k]][m],
         \A j, k \in DOMAIN disk' :
           j < k /\ disk'[j] # <<>> /\ disk'[k] # <<>> => from[j] < from[k],
         written' = written, index' \in Int, unflushed' \in Nat
  PROVE  OrderInv'
<1>1. \A k \in DOMAIN disk' : \A m \in DOMAIN disk'[k] :
        /\ from[k] \in DOMAIN disk /\ m \in DOMAIN disk[from[k]]
        /\ disk'[k][m] = disk[from[k]][m]
  BY DEF OrderInv
<1>2. ASSUME NEW j \in DOMAIN disk', NEW k \in DOMAIN disk', j < k,
             NEW m \in Ids(disk'[j]), NEW n \in Ids(disk'[k])
      PROVE  n < m
  <2>1. PICK a \in DOMAIN disk'[j] : m = disk'[j][a].id
    BY DEF Ids
  <2>2. PICK b \in DOMAIN disk'[k] : n = disk'[k][b].id
    BY DEF Ids
  <2>3. m \in Ids(disk[from[j]]) /\ n \in Ids(disk[from[k]])
    BY <1>1, <2>1, <2>2 DEF Ids
  <2>4. disk'[j] # <<>> /\ disk'[k] # <<>>
    BY <2>1, <2>2
  <2>5. from[j] \in DOMAIN disk /\ from[k] \in DOMAIN disk /\ from[j] < from[k]
    BY <1>1, <1>2, <2>1, <2>2, <2>4
  <2> QED
    BY <2>3, <2>5 DEF OrderInv, OrderKept
<1>3. ASSUME NEW k \in DOMAIN disk', NEW m \in DOMAIN disk'[k],
             NEW n \in DOMAIN disk'[k], m < n
      PROVE  disk'[k][m].id < disk'[k][n].id
  BY <1>1, <1>3 DEF OrderInv, OrderKept
<1>4. \A k \in DOMAIN disk' : \A m \in DOMAIN disk'[k] : disk'[k][m].id <= written
  BY <1>1 DEF OrderInv
<1> QED
  BY <1>2, <1>3, <1>4 DEF OrderInv, OrderKept

\* The case of files that stay where they are.
LEMMA FilesStay ==
  ASSUME OrderInv, UNCHANGED <<disk, written>>, index' \in Int, unflushed' \in Nat
  PROVE  OrderInv'
BY DEF OrderInv, OrderKept, Ids

\* fopen with "a" adds an empty file at most.
LEMMA OpenKeepsOrder ==
  ASSUME OrderInv, OpenAppend, UNCHANGED <<written, index, unflushed>>
  PROVE  OrderInv'
<1> DEFINE from == [k \in Nat |-> k]
<1>1. CASE 0 \in DOMAIN disk
  BY <1>1, FilesStay DEF OpenAppend, OrderInv
<1>2. CASE 0 \notin DOMAIN disk
  <2>1. disk' = With(0, <<>>)
    BY <1>2 DEF OpenAppend
  <2>2. /\ DOMAIN disk' = DOMAIN disk \cup {0}
        /\ \A k \in DOMAIN disk : disk'[k] = disk[k]
        /\ disk'[0] = <<>>
    BY <1>2, <2>1 DEF With
  <2>3. index' \in Int /\ unflushed' \in Nat /\ DOMAIN disk' \subseteq Nat
    BY <2>2 DEF OrderInv
  <2>4. \A k \in DOMAIN disk' :
          /\ disk'[k] \in Seq(Message)
          /\ disk'[k] # <<>> => from[k] \in DOMAIN disk
          /\ \A m \in DOMAIN disk'[k] :
               m \in DOMAIN disk[from[k]] /\ disk'[k][m] = disk[from[k]][m]
    BY <1>2, <2>2, <2>3 DEF OrderInv
  <2>5. \A j, k \in DOMAIN disk' : j < k => from[j] < from[k]
    BY <2>3
  <2> HIDE DEF from
  <2> QED
    BY <2>3, <2>4, <2>5, FilesKept
<1> QED
  BY <1>1, <1>2

\* rename moves a file up by one, onto an older one or a free number.
LEMMA MoveKeepsOrder ==
  ASSUME OrderInv, index - 1 \in DOMAIN disk, MoveTo(index - 1, index),
         index' \in Int, UNCHANGED <<written, unflushed>>
  PROVE  OrderInv'
<1> DEFINE from == [k \in Nat |-> IF k = index THEN index - 1 ELSE k]
<1>1. index \in Nat /\ index > 0
  BY DEF OrderInv
<1>2. /\ DOMAIN disk' = (DOMAIN disk \ {index - 1}) \cup {index}
      /\ disk'[index] = disk[index - 1]
      /\ \A k \in DOMAIN disk' : k # index => k \in DOMAIN disk /\ disk'[k] = disk[k]
  BY DEF MoveTo
<1>3. DOMAIN disk' \subseteq Nat /\ unflushed' \in Nat
  BY <1>1, <1>2 DEF OrderInv
<1>4. \A k \in DOMAIN disk' : from[k] \in DOMAIN disk /\ disk'[k] = disk[from[k]]
  BY <1>1, <1>2, <1>3
<1>5. \A k \in DOMAIN disk' :
        /\ disk'[k] \in Seq(Message)
        /\ disk'[k] # <<>> => from[k] \in DOMAIN disk
        /\ \A m \in DOMAIN disk'[k] :
             m \in DOMAIN disk[from[k]] /\ disk'[k][m] = disk[from[k]][m]
  BY <1>4 DEF OrderInv
<1>6. \A j, k \in DOMAIN disk' : j < k => from[j] < from[k]
  <2> SUFFICES ASSUME NEW j \in DOMAIN disk', NEW k \in DOMAIN disk', j < k
               PROVE  from[j] < from[k]
    OBVIOUS
  <2>1. j # index - 1 /\ k # index - 1 /\ j \in Nat /\ k \in Nat
    BY <1>1, <1>2, <1>3
  <2>2. /\ from[j] = IF j = index THEN index - 1 ELSE j
        /\ from[k] = IF k = index THEN index - 1 ELSE k
    BY <2>1
  <2> HIDE DEF from
  <2>3. CASE j = index
    <3>1. k # index
      BY <2>1, <2>3
    <3>2. from[j] = index - 1 /\ from[k] = k
      BY <2>2, <2>3, <3>1
    <3> QED
      BY <1>1, <2>1, <2>3, <3>2
  <2>4. CASE k = index
    <3>1. j # index /\ j < index - 1
      BY <1>1, <2>1, <2>4
    <3>2. from[j] = j /\ from[k] = index - 1
      BY <2>2, <2>4, <3>1
    <3> QED
      BY <3>1, <3>2
  <2>5. CASE j # index /\ k # index
    BY <2>1, <2>2, <2>5, <1>1
  <2> QED
    BY <2>3, <2>4, <2>5
<1> HIDE DEF from
<1> QED
  BY <1>3, <1>5, <1>6, FilesKept

\* The file in the way goes.
LEMMA RemoveKeepsOrder ==
  ASSUME OrderInv, disk' = Without(index), UNCHANGED <<written, index, unflushed>>
  PROVE  OrderInv'
<1> DEFINE from == [k \in Nat |-> k]
<1>1. /\ DOMAIN disk' = DOMAIN disk \ {index}
      /\ \A k \in DOMAIN disk' : disk'[k] = disk[k]
  BY DEF Without
<1>2. index' \in Int /\ unflushed' \in Nat /\ DOMAIN disk' \subseteq Nat
  BY <1>1 DEF OrderInv
<1>3. \A k \in DOMAIN disk' :
        /\ disk'[k] \in Seq(Message)
        /\ disk'[k] # <<>> => from[k] \in DOMAIN disk
        /\ \A m \in DOMAIN disk'[k] :
             m \in DOMAIN disk[from[k]] /\ disk'[k][m] = disk[from[k]][m]
  BY <1>1, <1>2 DEF OrderInv
<1>4. \A j, k \in DOMAIN disk' : j < k => from[j] < from[k]
  BY <1>2
<1> HIDE DEF from
<1> QED
  BY <1>2, <1>3, <1>4, FilesKept

\* A message goes to the end of the newest file.
LEMMA WriteKeepsOrder ==
  ASSUME OrderInv, NEW l \in Lens, written' = written + 1,
         disk' = [disk EXCEPT ![0] = Append(@, [id |-> written', len |-> l])],
         index' = index, unflushed' \in Nat
  PROVE  OrderInv'
<1>0. \A k \in DOMAIN disk : \A m \in DOMAIN disk[k] : disk[k][m].id \in Nat
  <2>1. \A k \in DOMAIN disk : \A m \in DOMAIN disk[k] : disk[k][m] \in Message
    BY DEF OrderInv
  <2> QED
    BY <2>1 DEF Message
<1>1. CASE 0 \notin DOMAIN disk
  <2>1. DOMAIN disk' = DOMAIN disk /\ \A k \in DOMAIN disk : disk'[k] = disk[k]
    BY <1>1
  <2>2. \A k \in DOMAIN disk : \A m \in DOMAIN disk[k] : disk[k][m].id <= written'
    BY <1>0 DEF OrderInv
  <2>3. OrderKept'
    BY <2>1 DEF OrderInv, OrderKept, Ids
  <2> QED
    BY <2>1, <2>2, <2>3 DEF OrderInv
<1>2. CASE 0 \in DOMAIN disk
  <2> DEFINE new == [id |-> written', len |-> l]
  <2>1. /\ DOMAIN disk' = DOMAIN disk
        /\ \A k \in DOMAIN disk : k # 0 => disk'[k] = disk[k]
        /\ disk'[0] = Append(disk[0], new)
    BY <1>2
  <2>2. new \in Message /\ new.id = written + 1
    BY DEF OrderInv, Message
  <2>3. /\ disk'[0] \in Seq(Message)
        /\ DOMAIN disk'[0] = 1..Len(disk[0]) + 1
        /\ DOMAIN disk[0] = 1..Len(disk[0]) /\ Len(disk[0]) \in Nat
        /\ \A m \in 1..Len(disk[0]) : disk'[0][m] = disk[0][m]
        /\ disk'[0][Len(disk[0]) + 1] = new
    BY <1>2, <2>1, <2>2 DEF OrderInv
  <2> HIDE DEF new
  <2>4. \A k \in DOMAIN disk' : disk'[k] \in Seq(Message)
    BY <2>1, <2>3 DEF OrderInv
  <2>6. \A k \in DOMAIN disk' : \A m \in DOMAIN disk'[k] : disk'[k][m].id <= written'
    BY <1>0, <2>1, <2>2, <2>3 DEF OrderInv
  <2>7. ASSUME NEW j \in DOMAIN disk', NEW k \in DOMAIN disk', j < k,
               NEW m \in Ids(disk'[j]), NEW n \in Ids(disk'[k])
        PROVE  n < m
    <3>1. k # 0 /\ disk'[k] = disk[k] /\ k \in DOMAIN disk /\ j \in DOMAIN disk
      BY <2>1, <2>7 DEF OrderInv
    <3>2. n \in Ids(disk[k]) /\ n \in Nat /\ n <= written
      BY <1>0, <3>1, <2>7 DEF Ids, OrderInv
    <3>3. CASE m \in Ids(disk[j])
      BY <2>7, <3>1, <3>2, <3>3 DEF OrderInv, OrderKept
    <3>4. CASE m \notin Ids(disk[j])
      <4>1. m = new.id
        BY <2>1, <2>3, <2>7, <3>1, <3>4 DEF Ids
      <4> QED
        BY <4>1, <2>2, <3>2 DEF OrderInv
    <3> QED
      BY <3>3, <3>4
  <2>8. ASSUME NEW k \in DOMAIN disk', NEW m \in DOMAIN disk'[k],
               NEW n \in DOMAIN disk'[k], m < n
        PROVE  disk'[k][m].id < disk'[k][n].id
    <3>1. CASE k # 0
      BY <2>1, <2>8, <3>1 DEF OrderInv, OrderKept
    <3>2. CASE k = 0 /\ n <= Len(disk[0])
      BY <1>2, <2>3, <2>8, <3>2 DEF OrderInv, OrderKept
    <3>3. CASE k = 0 /\ n = Len(disk[0]) + 1
      <4>1. disk'[k][n].id = written + 1
        BY <2>2, <2>3, <3>3
      <4>2. m \in DOMAIN disk[0] /\ disk'[k][m] = disk[0][m]
        BY <2>3, <2>8, <3>3
      <4> QED
        BY <1>0, <1>2, <4>1, <4>2 DEF OrderInv
    <3> QED
      BY <2>3, <2>8, <3>1, <3>2, <3>3
  <2> QED
    BY <2>1, <2>4, <2>6, <2>7, <2>8 DEF OrderInv, OrderKept
<1> QED
  BY <1>1, <1>2

\* A crash cuts the end of the log file.
LEMMA CrashKeepsOrder == ASSUME OrderInv, Crash PROVE OrderInv'
<1> DEFINE from == [k \in Nat |-> k]
<1>1. CASE 0 \notin DOMAIN disk
  BY <1>1, FilesStay DEF Crash
<1>2. CASE 0 \in DOMAIN disk
  <2> DEFINE left == Len(disk[0]) - unflushed
  <2>1. /\ DOMAIN disk' = DOMAIN disk
        /\ \A k \in DOMAIN disk : k # 0 => disk'[k] = disk[k]
        /\ disk'[0] = SubSeq(disk[0], 1, left)
    BY <1>2 DEF Crash
  <2>2. /\ disk[0] \in Seq(Message) /\ Len(disk[0]) \in Nat
        /\ left \in Int /\ left <= Len(disk[0])
    BY <1>2 DEF OrderInv
  <2>3. /\ disk'[0] \in Seq(Message)
        /\ \A m \in DOMAIN disk'[0] : m \in DOMAIN disk[0] /\ disk'[0][m] = disk[0][m]
    <3>1. CASE left < 1
      BY <2>1, <2>2, <3>1
    <3>2. CASE left >= 1
      BY <2>1, <2>2, <3>2
    <3> QED
      BY <2>2, <3>1, <3>2
  <2>4. index' \in Int /\ unflushed' \in Nat /\ written' = written
        /\ DOMAIN disk' \subseteq Nat
    BY <2>1 DEF Crash, OrderInv
  <2>5. \A k \in DOMAIN disk' :
          /\ disk'[k] \in Seq(Message)
          /\ disk'[k] # <<>> => from[k] \in DOMAIN disk
          /\ \A m \in DOMAIN disk'[k] :
               m \in DOMAIN disk[from[k]] /\ disk'[k][m] = disk[from[k]][m]
    BY <2>1, <2>3, <2>4 DEF OrderInv
  <2>6. \A j, k \in DOMAIN disk' : j < k => from[j] < from[k]
    BY <2>4
  <2> HIDE DEF from
  <2> QED
    BY <2>4, <2>5, <2>6, FilesKept
<1> QED
  BY <1>1, <1>2

\* Every step preserves it, whoever initialises.
LEMMA OrderStep == ASSUME OrderInv, [Next]_vars PROVE OrderInv'
<1>0. index \in Int /\ unflushed \in Nat
  BY DEF OrderInv
<1>1. ASSUME NEW t \in Threads,
             \/ InitTest(t) \/ MutexInit(t) \/ SetInitialized(t) \/ InitLock(t)
             \/ InitClose(t) \/ Log(t) \/ LogLock(t) \/ RotateTest(t) \/ RotateClose(t)
             \/ Unlock(t) \/ FlushRead(t) \/ FlushCall(t)
      PROVE  OrderInv'
  <2>1. UNCHANGED <<disk, written>>
    BY <1>1
    DEF InitTest, MutexInit, SetInitialized, InitLock, InitClose, Log, LogLock,
        RotateTest, RotateClose, Unlock, FlushRead, FlushCall, sizeVars
  <2>2. unflushed' \in Nat
    BY <1>0, <1>1
    DEF InitTest, MutexInit, SetInitialized, InitLock, InitClose, Log, LogLock,
        RotateTest, RotateClose, Unlock, FlushRead, FlushCall, FClose, streamVars
  <2>3. index' \in Int
    BY <1>0, <1>1, CLoggerAssumption
    DEF InitTest, MutexInit, SetInitialized, InitLock, InitClose, Log, LogLock,
        RotateTest, RotateClose, Unlock, FlushRead, FlushCall
  <2> QED
    BY <2>1, <2>2, <2>3, FilesStay
<1>2. ASSUME NEW t \in Threads, InitOpen(t) PROVE OrderInv'
  <2>1. UNCHANGED <<written, index, unflushed>> /\ (OpenAppend \/ UNCHANGED disk)
    BY <1>2 DEF InitOpen
  <2> QED
    BY <1>0, <2>1, OpenKeepsOrder, FilesStay
<1>3. ASSUME NEW t \in Threads, Reopen(t) PROVE OrderInv'
  <2>1. UNCHANGED <<written, index, unflushed>> /\ (OpenAppend \/ UNCHANGED disk)
    BY <1>3 DEF Reopen
  <2> QED
    BY <1>0, <2>1, OpenKeepsOrder, FilesStay
<1>4. ASSUME NEW t \in Threads, Remove(t) PROVE OrderInv'
  <2>1. /\ UNCHANGED <<written, index, unflushed>>
        /\ disk' = Without(index) \/ UNCHANGED disk
    BY <1>4 DEF Remove, sizeVars, streamVars
  <2> QED
    BY <1>0, <2>1, RemoveKeepsOrder, FilesStay
<1>5. ASSUME NEW t \in Threads, Rename(t) PROVE OrderInv'
  <2>1. /\ UNCHANGED <<written, unflushed>> /\ index' \in Int
        /\ \/ index - 1 \in DOMAIN disk /\ MoveTo(index - 1, index)
           \/ UNCHANGED disk
    BY <1>0, <1>5 DEF Rename, sizeVars, streamVars
  <2> QED
    BY <1>0, <2>1, MoveKeepsOrder, FilesStay
<1>6. ASSUME NEW t \in Threads, Write(t) PROVE OrderInv'
  <2>1. CASE output # "open"
    BY <1>0, <1>6, <2>1, FilesStay DEF Write
  <2>2. CASE output = "open"
    <3>1. PICK l \in Lens :
            disk' = [disk EXCEPT ![0] = Append(@, [id |-> written', len |-> l])]
      BY <1>6, <2>2 DEF Write
    <3>2. written' = written + 1 /\ index' = index /\ unflushed' \in Nat
      BY <1>0, <1>6, <2>2 DEF Write
    <3> QED
      BY <3>1, <3>2, WriteKeepsOrder
  <2> QED
    BY <2>1, <2>2
<1>7. CASE Crash
  BY <1>7, CrashKeepsOrder
<1>8. CASE UNCHANGED vars
  BY <1>0, <1>8, FilesStay DEF vars, sizeVars, streamVars
<1> QED
  BY <1>1, <1>2, <1>3, <1>4, <1>5, <1>6, <1>7, <1>8 DEF Next, Step

\* A file with a higher number holds older messages, and a file holds its
\* messages in the order they were written (rotateLogFiles, vflog), whatever
\* fails or crashes, even if several threads initialise and rotate together.
THEOREM OrderPreserved == Spec => []OrderKept
<1>1. OrderInv /\ [Next]_vars => OrderInv'
  BY OrderStep
<1>2. OrderInv => OrderKept
  BY DEF OrderInv
<1> QED
  BY OrderInit, <1>1, <1>2, PTL DEF Spec

-----------------------------------------------------------------------------
(* Types                                                                   *)

Control ==
  /\ fileLogger \in BOOLEAN
  /\ fault \in {"none", "fclose", "fflush", "write"}
  /\ flushedTime \in Times /\ lastTime \in Times
  /\ now \in [Threads -> Times]
  /\ index \in Numbers
  /\ ptr \in [Threads -> {"none", "live", "dead"}]
  /\ msgs \in Nat /\ inits \in Nat /\ crashes \in Nat
  /\ written \in Nat
  /\ failed \subseteq Failable

\* A thread that moves files has files left to move, and while it does, or
\* opens the file, the stream is not open.
Places ==
  /\ \A t \in Threads : pc[t] \in {"remove", "rename"} => index > 0
  /\ \A t \in Threads :
       pc[t] \in {"initOpen", "remove", "rename", "reopen"} => output # "open"

Record == [id : Nat \ {0}, len : Lens]

Files ==
  /\ DOMAIN disk \subseteq Numbers
  /\ \A k \in DOMAIN disk : disk[k] \in Seq(Record)
  /\ output = "open" => 0 \in DOMAIN disk
  /\ unflushed \in Nat
  /\ unflushed > 0 => output = "open" /\ unflushed <= Len(disk[0])
  /\ currentFileSize \in Nat
  /\ removed \subseteq Nat

TypeInv == Control /\ Places /\ Files

LEMMA TypeInit == Init => TypeInv
<1>1. Init => Control
  <2>1. 0 \in Times /\ 0 \in Numbers
    BY CLoggerAssumption DEF Numbers
  <2> SUFFICES ASSUME Init PROVE Control
    OBVIOUS
  <2>2. now \in [Threads -> Times] /\ ptr \in [Threads -> {"none", "live", "dead"}]
    BY <2>1 DEF Init
  <2>3. flushedTime \in Times /\ lastTime \in Times /\ index \in Numbers
    BY <2>1 DEF Init
  <2> QED
    BY <2>2, <2>3 DEF Init, Control
<1>2. Init => Places
  BY DEF Init, Places
<1>3. Init => Files
  BY DEF Init, Files
<1> QED
  BY <1>1, <1>2, <1>3 DEF TypeInv

LEMMA ControlStep ==
  ASSUME StreamInv, Places, Control, [Next]_vars PROVE Control'
<1> USE DEF Control
<1>0. 0 \in Times /\ 0 \in Numbers /\ MaxBackupFiles \in Numbers
  BY CLoggerAssumption DEF Numbers
<1>1. ASSUME NEW t \in Threads,
             \/ InitTest(t) \/ MutexInit(t) \/ SetInitialized(t) \/ InitLock(t)
             \/ LogLock(t) \/ RotateTest(t)
      PROVE  Control'
  <2>1. UNCHANGED <<fileLogger, streamVars, sizeVars, now, index, msgs, crashes, failed>>
    BY <1>1
    DEF InitTest, MutexInit, SetInitialized, InitLock, LogLock, RotateTest, boundVars
  <2>2. inits' \in Nat
    BY <1>1
    DEF InitTest, MutexInit, SetInitialized, InitLock, LogLock, RotateTest, boundVars
  <2> QED
    BY <2>1, <2>2 DEF streamVars, sizeVars
<1>10. ASSUME NEW t \in Threads, Log(t) \/ Unlock(t) PROVE Control'
  <2>1. /\ UNCHANGED <<fileLogger, streamVars, sizeVars, index, inits, crashes, failed>>
        /\ msgs' \in Nat
    BY <1>10 DEF Log, Unlock, boundVars
  <2>2. now' \in [Threads -> Times]
    BY <1>0, <1>10 DEF Log, Unlock
  <2> QED
    BY <2>1, <2>2 DEF streamVars, sizeVars
<1>2. ASSUME NEW t \in Threads, InitClose(t) \/ RotateClose(t) PROVE Control'
  <2>1. /\ UNCHANGED <<fileLogger, sizeVars, now, boundVars, failed>>
        /\ fault' \in {fault, "fclose"}
        /\ index' \in {index, MaxBackupFiles}
    BY <1>2 DEF InitClose, RotateClose
  <2>2. ptr' \in [Threads -> {"none", "live", "dead"}]
    BY <1>2 DEF InitClose, RotateClose, FClose
  <2> QED
    BY <1>0, <2>1, <2>2 DEF sizeVars, boundVars
<1>3. ASSUME NEW t \in Threads, InitOpen(t) \/ Reopen(t) PROVE Control'
  BY <1>3 DEF InitOpen, Reopen, OpenAppend, Fails, boundVars
<1>4. ASSUME NEW t \in Threads, Remove(t) PROVE Control'
  BY <1>4 DEF Remove, Fails, streamVars, sizeVars, boundVars
<1>5. ASSUME NEW t \in Threads, Rename(t) PROVE Control'
  <2>1. index' \in Numbers
    <3>1. index' = index - 1 /\ index > 0
      BY <1>5 DEF Rename, Places
    <3> QED
      BY <3>1, CLoggerAssumption DEF Numbers
  <2> QED
    BY <1>5, <2>1 DEF Rename, Fails, streamVars, sizeVars, boundVars
<1>6. ASSUME NEW t \in Threads, Write(t) PROVE Control'
  BY <1>6 DEF Write, boundVars
<1>7. ASSUME NEW t \in Threads, FlushRead(t) \/ FlushCall(t) PROVE Control'
  <2>1. /\ UNCHANGED <<fileLogger, sizeVars, now, index, boundVars, failed>>
        /\ fault' \in {fault, "fflush"}
    BY <1>7 DEF FlushRead, FlushCall
  <2>2. ptr' \in [Threads -> {"none", "live", "dead"}]
    <3>1. CASE FlushRead(t)
      <4>1. output \in {"null", "open", "closed"}
        BY DEF StreamInv
      <4> QED
        BY <3>1, <4>1 DEF FlushRead
    <3>2. CASE FlushCall(t)
      BY <3>2 DEF FlushCall
    <3> QED
      BY <1>7, <3>1, <3>2
  <2> QED
    BY <2>1, <2>2 DEF sizeVars, boundVars
<1>8. CASE Crash
  <2>1. now' \in [Threads -> Times] /\ ptr' \in [Threads -> {"none", "live", "dead"}]
    BY <1>0, <1>8 DEF Crash
  <2>2. flushedTime' \in Times /\ lastTime' \in Times /\ index' \in Numbers
    BY <1>0, <1>8 DEF Crash
  <2>3. crashes' \in Nat /\ fileLogger' \in BOOLEAN
    <3>1. crashes' = crashes + 1 /\ fileLogger' = FALSE
      BY <1>8, Zenon DEF Crash
    <3>2. crashes' \in Nat
      BY <3>1
    <3> QED
      BY <3>1, <3>2
  <2>4. UNCHANGED <<fault, msgs, inits, written, failed>>
    BY <1>8 DEF Crash
  <2> QED
    BY <2>1, <2>2, <2>3, <2>4
<1>9. CASE UNCHANGED vars
  BY <1>9 DEF vars, streamVars, sizeVars, boundVars
<1> QED
  BY <1>1, <1>2, <1>3, <1>4, <1>5, <1>6, <1>7, <1>8, <1>9, <1>10 DEF Next, Step

\* A step that leaves the index and the stream alone and takes no thread to
\* one of the places.
LEMMA PlacesKept ==
  ASSUME MutexInv, Places, NEW t \in Threads, NEW where,
         Goto(t, where),
         where \notin {"initOpen", "remove", "rename", "reopen"},
         \/ UNCHANGED <<index, output>>
         \/ \A u \in Threads : u # t => pc[u] \notin Inside
  PROVE  Places'
<1>1. pc \in [Threads -> Inside \cup Outside]
  BY DEF MutexInv, MutexTypes
<1>2. \A u \in Threads : pc'[u] = IF u = t THEN where ELSE pc[u]
  BY <1>1 DEF Goto
<1> QED
  BY <1>2 DEF Places, Inside

LEMMA PlacesStep ==
  ASSUME MutexInv, StreamInv, Places, Control, [Next]_vars PROVE Places'
<1> USE DEF Inside, Outside
<1>0. pc \in [Threads -> Inside \cup Outside]
  BY DEF MutexInv, MutexTypes
<1>1. ASSUME NEW t \in Threads,
             \/ InitTest(t) \/ MutexInit(t) \/ SetInitialized(t) \/ InitLock(t)
             \/ LogLock(t) \/ Log(t) \/ Unlock(t) \/ FlushRead(t) \/ FlushCall(t)
      PROVE  Places'
  <2>1. UNCHANGED <<index, output>>
    BY <1>1
    DEF InitTest, MutexInit, SetInitialized, InitLock, LogLock, Log, Unlock,
        FlushRead, FlushCall, streamVars
  <2>2. \E where : /\ Goto(t, where)
                   /\ where \notin {"initOpen", "remove", "rename", "reopen"}
    BY <1>1
    DEF InitTest, MutexInit, SetInitialized, InitLock, LogLock, Log, Unlock,
        FlushRead, FlushCall
  <2> QED
    BY <2>1, <2>2, PlacesKept
<1>2. ASSUME NEW t \in Threads,
             InitOpen(t) \/ RotateTest(t) \/ Write(t)
      PROVE  Places'
  <2>1. \A u \in Threads : u # t => pc[u] \notin Inside
    BY <1>2, Alone DEF InitOpen, RotateTest, Write
  <2>2. \E where : /\ Goto(t, where)
                   /\ where \notin {"initOpen", "remove", "rename", "reopen"}
    BY <1>2 DEF InitOpen, RotateTest, Write
  <2> QED
    BY <2>1, <2>2, PlacesKept
<1>3. ASSUME NEW t \in Threads,
             InitClose(t) \/ RotateClose(t) \/ Remove(t) \/ Rename(t) \/ Reopen(t)
      PROVE  Places'
  <2>1. \A u \in Threads : u # t => pc[u] \notin Inside
    BY <1>3, Alone DEF InitClose, RotateClose, Remove, Rename, Reopen
  <2>2. \A u \in Threads : u # t => pc'[u] = pc[u]
    BY <1>0, <1>3 DEF InitClose, RotateClose, Remove, Rename, Reopen, Goto
  <2>3. /\ pc'[t] \in {"remove", "rename"} => index' > 0
        /\ pc'[t] \in {"initOpen", "remove", "rename", "reopen"} => output' # "open"
    <3>1. CASE InitClose(t)
      BY <1>0, <3>1 DEF InitClose, FClose, Goto
    <3>2. CASE RotateClose(t)
      BY <1>0, <3>2, CLoggerAssumption DEF RotateClose, FClose, Goto
    <3>3. CASE Remove(t)
      BY <1>0, <3>3 DEF Remove, Goto, Places, streamVars
    <3>4. CASE Rename(t)
      BY <1>0, <3>4 DEF Rename, Goto, Places, streamVars, Control, Numbers
    <3>5. CASE Reopen(t)
      BY <1>0, <3>5 DEF Reopen, Goto
    <3> QED
      BY <1>3, <3>1, <3>2, <3>3, <3>4, <3>5
  <2> QED
    BY <2>1, <2>2, <2>3 DEF Places
<1>4. CASE Crash
  BY <1>4 DEF Crash, Places
<1>5. CASE UNCHANGED vars
  BY <1>5 DEF vars, streamVars, Places
<1> QED
  BY <1>1, <1>2, <1>3, <1>4, <1>5 DEF Next, Step

-----------------------------------------------------------------------------
(* Sizes                                                                   *)

LEMMA Lengths ==
  ASSUME CLoggerAssumption, NEW file \in Seq(Message)
  PROVE  Len(file) \in Nat /\ \A n \in 1..Len(file) : file[n].len \in Nat
<1>1. Len(file) \in Nat /\ \A n \in 1..Len(file) : file[n] \in Message
  OBVIOUS
<1>2. \A m \in Message : m.len \in Nat
  BY DEF Message, CLoggerAssumption
<1> QED
  BY <1>1, <1>2

\* A set of natural numbers that is not empty has a least element.
LEMMA Least ==
  ASSUME NEW S, S \subseteq Nat, S # {}
  PROVE  \E n \in S : \A m \in S : n <= m
<1>0. S \in SUBSET Nat
  OBVIOUS
<1>1. PICK n \in S : \A m \in S : <<m, n>> \notin OpToRel(<, Nat)
  BY <1>0, WFMin, NatLessThanWellFounded, Zenon
<1>2. \A m \in S : ~(m < n)
  BY <1>1, Zenon DEF OpToRel
<1> QED
  BY <1>2

\* f[n] is the size of the first n messages.
Sums(file, f) ==
  /\ f \in [0..Len(file) -> Nat]
  /\ f[0] = 0
  /\ \A n \in 1..Len(file) : f[n] = f[n - 1] + file[n].len

\* Two such functions agree as far as the files do.
LEMMA SumsAgree ==
  ASSUME NEW file \in Seq(Message), NEW other \in Seq(Message), NEW f, NEW g,
         Sums(file, f), Sums(other, g),
         NEW N \in Nat, N <= Len(file), N <= Len(other),
         \A n \in 1..N : file[n] = other[n]
  PROVE  \A n \in 0..N : f[n] = g[n]
<1> DEFINE Bad == {n \in 0..N : f[n] # g[n]}
<1>1. SUFFICES ASSUME Bad # {} PROVE FALSE
  OBVIOUS
<1>2. PICK n \in Bad : \A m \in Bad : n <= m
  <2>1. Bad \subseteq Nat
    OBVIOUS
  <2> HIDE DEF Bad
  <2> QED
    BY <1>1, <2>1, Least
<1>3. n # 0 /\ n \in 1..N /\ n - 1 \in 0..N
  BY <1>2 DEF Sums
<1>4. f[n - 1] = g[n - 1]
  BY <1>2, <1>3
<1>5. /\ f[n] = f[n - 1] + file[n].len
      /\ g[n] = g[n - 1] + other[n].len
  BY <1>3 DEF Sums
<1> QED
  BY <1>2, <1>3, <1>4, <1>5

LEMMA SumsExist ==
  ASSUME CLoggerAssumption, NEW file \in Seq(Message)
  PROVE  \E f : Sums(file, f)
<1> DEFINE Upto(n, f) == /\ f \in [0..n -> Nat]
                         /\ f[0] = 0
                         /\ \A m \in 1..n : f[m] = f[m - 1] + file[m].len
           Bad == {n \in 0..Len(file) : ~\E f : Upto(n, f)}
<1>0. Len(file) \in Nat /\ \A n \in 1..Len(file) : file[n].len \in Nat
  BY Lengths
<1>1. SUFFICES ASSUME Bad # {} PROVE FALSE
  <2>1. CASE Bad = {}
    <3>1. Len(file) \in 0..Len(file)
      BY <1>0
    <3> HIDE DEF Upto
    <3>2. PICK f : Upto(Len(file), f)
      BY <2>1, <3>1
    <3> USE DEF Upto
    <3>3. Sums(file, f)
      BY <3>2 DEF Sums
    <3> QED
      BY <3>3
  <2> QED
    BY <2>1
<1>2. PICK n \in Bad : \A m \in Bad : n <= m
  <2>1. Bad \subseteq Nat
    BY <1>0
  <2> HIDE DEF Bad
  <2> QED
    BY <1>1, <2>1, Least
<1>3. n # 0
  <2>1. Upto(0, [m \in 0..0 |-> 0])
    OBVIOUS
  <2> QED
    BY <2>1
<1>4. n \in 1..Len(file) /\ n - 1 \in 0..Len(file)
  BY <1>0, <1>2, <1>3
<1>5. PICK f : Upto(n - 1, f)
  <2>1. ~(n <= n - 1)
    BY <1>4
  <2> HIDE DEF Upto
  <2> QED
    BY <1>2, <1>4, <2>1
<1> DEFINE g == [m \in 0..n |-> IF m = n THEN f[n - 1] + file[n].len ELSE f[m]]
<1>6. f[n - 1] \in Nat
  BY <1>0, <1>4, <1>5
<1>7. Upto(n, g)
  <2>1. g \in [0..n -> Nat]
    BY <1>0, <1>4, <1>5, <1>6
  <2>2. g[0] = 0
    BY <1>4, <1>5
  <2>3. ASSUME NEW m \in 1..n PROVE g[m] = g[m - 1] + file[m].len
    <3>1. m - 1 \in 0..n /\ m - 1 # n /\ m \in 0..n
      BY <1>4
    <3>2. CASE m = n
      BY <3>1, <3>2
    <3>3. CASE m # n
      <4>1. m \in 1..(n - 1)
        BY <1>4, <3>3
      <4> QED
        BY <1>5, <3>1, <3>3, <4>1
    <3> QED
      BY <3>2, <3>3
  <2> QED
    BY <2>1, <2>2, <2>3
<1> QED
  BY <1>7, <1>2

\* Size is the last of the sums.
LEMMA SizeIsSum ==
  ASSUME CLoggerAssumption, NEW file \in Seq(Message), NEW f, Sums(file, f)
  PROVE  Size(file) = f[Len(file)]
<1> DEFINE Added(g) == [n \in 0..Len(file) |-> IF n = 0 THEN 0 ELSE g[n - 1] + file[n].len]
<1> DEFINE h == CHOOSE g : g = Added(g)
<1>0. Len(file) \in Nat /\ \A n \in 1..Len(file) : file[n].len \in Nat
  BY Lengths
<1>1. Size(file) = h[Len(file)]
  BY DEF Size
<1>2. f = Added(f)
  BY <1>0 DEF Sums
<1>3. h = Added(h)
  BY <1>2
<1> DEFINE Bad == {n \in 0..Len(file) : h[n] # f[n]}
<1>4. SUFFICES ASSUME Bad # {} PROVE FALSE
  <2>1. Len(file) \in 0..Len(file)
    BY <1>0
  <2> HIDE DEF h
  <2> QED
    BY <2>1, <1>1
<1>5. PICK n \in Bad : \A m \in Bad : n <= m
  <2>1. Bad \subseteq Nat
    BY <1>0
  <2> HIDE DEF Bad
  <2> QED
    BY <1>4, <2>1, Least
<1> HIDE DEF h
<1>6. n # 0
  BY <1>0, <1>3, <1>5 DEF Sums
<1>7. n \in 1..Len(file) /\ n - 1 \in 0..Len(file) /\ n - 1 \notin Bad
  BY <1>0, <1>5, <1>6
<1>8. h[n] = h[n - 1] + file[n].len
  BY <1>3, <1>7
<1> QED
  BY <1>5, <1>7, <1>8 DEF Sums

LEMMA SizeEmpty == ASSUME CLoggerAssumption PROVE Size(<<>>) = 0
<1>1. <<>> \in Seq(Message) /\ Len(<<>>) = 0
  OBVIOUS
<1> DEFINE f == [n \in 0..0 |-> 0]
<1>2. Sums(<<>>, f) /\ f[0] = 0
  BY <1>1 DEF Sums
<1> HIDE DEF f
<1>3. Size(<<>>) = f[Len(<<>>)]
  BY <1>1, <1>2, SizeIsSum
<1> QED
  BY <1>1, <1>2, <1>3

LEMMA SizeNat ==
  ASSUME CLoggerAssumption, NEW file \in Seq(Message) PROVE Size(file) \in Nat
<1>1. PICK f : Sums(file, f)
  BY SumsExist
<1>2. f[Len(file)] \in Nat
  <2>1. Len(file) \in 0..Len(file)
    OBVIOUS
  <2> QED
    BY <1>1, <2>1 DEF Sums
<1> QED
  BY <1>1, <1>2, SizeIsSum

\* The size of a file to which a message is added.
LEMMA SizeAppend ==
  ASSUME CLoggerAssumption, NEW file \in Seq(Message), NEW m \in Message
  PROVE  Size(Append(file, m)) = Size(file) + m.len
<1> DEFINE all == Append(file, m)
<1>1. /\ all \in Seq(Message) /\ Len(file) \in Nat /\ Len(all) = Len(file) + 1
      /\ \A n \in 1..Len(file) : all[n] = file[n]
      /\ all[Len(file) + 1] = m
  OBVIOUS
<1> HIDE DEF all
<1>2. PICK f : Sums(file, f)
  BY SumsExist
<1>3. PICK g : Sums(all, g)
  BY <1>1, SumsExist
<1>4. g[Len(file)] = f[Len(file)]
  BY <1>1, <1>2, <1>3, SumsAgree
<1>5. g[Len(all)] = g[Len(file)] + m.len
  BY <1>1, <1>3 DEF Sums
<1>6. Size(all) = g[Len(all)] /\ Size(file) = f[Len(file)]
  BY <1>1, <1>2, <1>3, SizeIsSum
<1> QED
  BY <1>4, <1>5, <1>6 DEF all

LEMMA RecordsAreMessages ==
  ASSUME NEW file \in Seq(Record) PROVE file \in Seq(Message)
<1>1. \A m \in Record : m \in Message
  BY DEF Record, Message
<1> QED
  BY <1>1

\* A file with no messages or with one more.
LEMMA RecordFacts ==
  ASSUME CLoggerAssumption, NEW file \in Seq(Record)
  PROVE  /\ Size(file) \in Nat
         /\ \A m \in Record : /\ Append(file, m) \in Seq(Record)
                              /\ Size(Append(file, m)) = Size(file) + m.len
                              /\ m.len \in Nat
<1>1. file \in Seq(Message)
  BY RecordsAreMessages
<1>2. \A m \in Record : m \in Message /\ m.len \in Nat
  BY CLoggerAssumption DEF Record, Message
<1> QED
  BY <1>1, <1>2, SizeNat, SizeAppend

\* The step leaves the files and the stream alone, or empties the buffer.
LEMMA FilesUntouched ==
  ASSUME Files, UNCHANGED <<output, disk, currentFileSize, removed>>,
         unflushed' = unflushed \/ unflushed' = 0
  PROVE  Files'
BY DEF Files

LEMMA OpenKeepsFiles ==
  ASSUME Files, OpenAppend, unflushed' = 0, removed' = removed
  PROVE  Files'
<1>1. CASE 0 \in DOMAIN disk
  <2>1. disk' = disk /\ currentFileSize' = Size(disk[0])
    BY <1>1 DEF OpenAppend
  <2>2. Size(disk[0]) \in Nat
    BY <1>1, CLoggerAssumption, RecordFacts DEF Files
  <2> QED
    BY <1>1, <2>1, <2>2 DEF Files
<1>2. CASE 0 \notin DOMAIN disk
  <2>1. disk' = With(0, <<>>) /\ currentFileSize' = Size(disk'[0])
    BY <1>2 DEF OpenAppend
  <2>2. /\ DOMAIN disk' = DOMAIN disk \cup {0}
        /\ \A k \in DOMAIN disk : disk'[k] = disk[k]
        /\ disk'[0] = <<>>
    BY <1>2, <2>1 DEF With
  <2>3. currentFileSize' = 0
    BY <2>1, <2>2, SizeEmpty, CLoggerAssumption
  <2>4. 0 \in Numbers
    BY CLoggerAssumption DEF Numbers
  <2>5. \A k \in DOMAIN disk' : disk'[k] \in Seq(Record)
    <3>1. <<>> \in Seq(Record)
      OBVIOUS
    <3> QED
      BY <2>2, <3>1 DEF Files
  <2> QED
    BY <2>2, <2>3, <2>4, <2>5 DEF Files
<1> QED
  BY <1>1, <1>2

LEMMA FilesStep ==
  ASSUME MutexInv, StreamInv, Places, Control, Files, [Next]_vars PROVE Files'
<1>0. unflushed = 0 \/ output = "open"
  BY DEF Files
<1>1. ASSUME NEW t \in Threads,
             \/ InitTest(t) \/ MutexInit(t) \/ SetInitialized(t) \/ InitLock(t)
             \/ Log(t) \/ LogLock(t) \/ RotateTest(t)
             \/ Unlock(t) \/ FlushRead(t) \/ FlushCall(t)
      PROVE  Files'
  <2>1. /\ UNCHANGED <<output, disk, currentFileSize, removed>>
        /\ unflushed' = unflushed \/ unflushed' = 0
    BY <1>1
    DEF InitTest, MutexInit, SetInitialized, InitLock, Log, LogLock, RotateTest,
        Unlock, FlushRead, FlushCall, sizeVars, streamVars
  <2> QED
    BY <2>1, FilesUntouched
<1>2. ASSUME NEW t \in Threads, InitClose(t) \/ RotateClose(t) PROVE Files'
  <2>1. UNCHANGED <<disk, currentFileSize, removed>>
    BY <1>2 DEF InitClose, RotateClose, sizeVars
  <2>2. \/ UNCHANGED <<output, unflushed>>
        \/ output' = "closed" /\ unflushed' = 0
    BY <1>2 DEF InitClose, RotateClose, FClose
  <2> QED
    BY <2>1, <2>2 DEF Files
<1>3. ASSUME NEW t \in Threads, InitOpen(t) \/ Reopen(t) PROVE Files'
  <2>1. unflushed = 0 /\ unflushed' = 0 /\ removed' = removed
    BY <1>0, <1>3 DEF InitOpen, Reopen, Places
  <2>2. OpenAppend \/ (output' = "null" /\ UNCHANGED <<disk, currentFileSize>>)
    BY <1>3 DEF InitOpen, Reopen
  <2> QED
    BY <2>1, <2>2, OpenKeepsFiles DEF Files
<1>4. ASSUME NEW t \in Threads, Remove(t) \/ Rename(t) PROVE Files'
  <2>1. UNCHANGED <<output, unflushed, currentFileSize>> /\ output # "open"
    BY <1>4 DEF Remove, Rename, Places, streamVars, sizeVars
  <2>2. index \in Numbers /\ index > 0
    BY <1>4 DEF Remove, Rename, Places, Control
  <2>3. \A k \in DOMAIN disk : Ids(disk[k]) \subseteq Nat
    <3>1. \A k \in DOMAIN disk : \A n \in DOMAIN disk[k] : disk[k][n] \in Record
      BY DEF Files
    <3> QED
      BY <3>1 DEF Ids, Record
  <2>4. CASE UNCHANGED <<disk, removed>>
    BY <2>1, <2>4 DEF Files
  <2>5. CASE /\ index \in DOMAIN disk /\ disk' = Without(index)
             /\ removed' = removed \cup Ids(disk[index])
    <3>1. DOMAIN disk' \subseteq DOMAIN disk /\ \A k \in DOMAIN disk' : disk'[k] = disk[k]
      BY <2>5 DEF Without
    <3> QED
      BY <2>1, <2>3, <2>5, <3>1 DEF Files
  <2>6. CASE index - 1 \in DOMAIN disk /\ MoveTo(index - 1, index)
    <3>1. /\ DOMAIN disk' \subseteq DOMAIN disk \cup {index}
          /\ \A k \in DOMAIN disk' : disk'[k] = disk[k] \/ disk'[k] = disk[index - 1]
          /\ \A k \in DOMAIN disk' : k # index => k \in DOMAIN disk /\ disk'[k] = disk[k]
          /\ disk'[index] = disk[index - 1]
      BY <2>6 DEF MoveTo
    <3>2. removed' \subseteq Nat
      BY <2>3, <2>6 DEF MoveTo, Files
    <3>3. \A k \in DOMAIN disk' : disk'[k] \in Seq(Record)
      BY <2>6, <3>1 DEF Files
    <3> QED
      BY <2>1, <2>2, <3>1, <3>2, <3>3 DEF Files
  <2> QED
    BY <1>4, <2>4, <2>5, <2>6 DEF Remove, Rename
<1>5. ASSUME NEW t \in Threads, Write(t) PROVE Files'
  <2>1. output = "open" /\ 0 \in DOMAIN disk /\ disk[0] \in Seq(Record)
    BY <1>5 DEF Write, StreamInv, Files
  <2>2. PICK l \in Lens :
          /\ disk' = [disk EXCEPT ![0] = Append(@, [id |-> written', len |-> l])]
          /\ currentFileSize' = currentFileSize + l
    BY <1>5, <2>1 DEF Write
  <2>3. /\ written' = written + 1 /\ output' = output /\ removed' = removed
        /\ unflushed' \in {0, unflushed + 1}
    BY <1>5, <2>1 DEF Write
  <2>4. l \in Nat /\ [id |-> written', len |-> l] \in Record
    BY <2>3, CLoggerAssumption DEF Control, Record
  <2> DEFINE new == [id |-> written', len |-> l]
  <2> HIDE DEF new
  <2>5. /\ DOMAIN disk' = DOMAIN disk
        /\ \A k \in DOMAIN disk : k # 0 => disk'[k] = disk[k]
        /\ disk'[0] = Append(disk[0], new)
    BY <2>1, <2>2 DEF new
  <2>6. /\ disk'[0] \in Seq(Record)
        /\ Len(disk'[0]) = Len(disk[0]) + 1 /\ Len(disk[0]) \in Nat
    BY <2>1, <2>4, <2>5 DEF new
  <2>7. currentFileSize' \in Nat
    BY <2>2, <2>4 DEF Files
  <2>8. unflushed' \in Nat /\ unflushed' <= Len(disk'[0])
    BY <2>3, <2>6 DEF Files
  <2> QED
    BY <2>1, <2>3, <2>5, <2>6, <2>7, <2>8 DEF Files
<1>6. CASE Crash
  <2>1. output' = "null" /\ unflushed' = 0 /\ currentFileSize' = 0 /\ removed' = removed
    BY <1>6 DEF Crash
  <2>2. DOMAIN disk' = DOMAIN disk
    BY <1>6 DEF Crash
  <2>3. ASSUME NEW k \in DOMAIN disk' PROVE disk'[k] \in Seq(Record)
    <3>1. disk'[k] = disk[k] \/ disk'[k] = SubSeq(disk[k], 1, Len(disk[k]) - unflushed)
      BY <1>6, <2>2, <2>3 DEF Crash
    <3>2. disk[k] \in Seq(Record) /\ unflushed \in Nat
      BY <2>2, <2>3 DEF Files
    <3>3. Len(disk[k]) - unflushed <= Len(disk[k]) /\ Len(disk[k]) - unflushed \in Int
      BY <3>2
    <3> QED
      BY <3>1, <3>2, <3>3
  <2> QED
    BY <2>1, <2>2, <2>3 DEF Files
<1>7. CASE UNCHANGED vars
  BY <1>7, FilesUntouched DEF vars, sizeVars, streamVars
<1> QED
  BY <1>1, <1>2, <1>3, <1>4, <1>5, <1>6, <1>7 DEF Next, Step

LEMMA TypeStep ==
  ASSUME MutexInv, StreamInv, TypeInv, [Next]_vars PROVE TypeInv'
BY ControlStep, PlacesStep, FilesStep DEF TypeInv

LEMMA TypesFollow ==
  ASSUME MutexInv, StreamInv, TypeInv PROVE TypeOK
<1>1. \A k \in DOMAIN disk : disk[k] \in Seq([id : Nat \ {0}, len : Lens])
  BY DEF TypeInv, Files, Record
<1> QED
  BY <1>1 DEF TypeInv, Control, Places, Files, MutexInv, MutexTypes, StreamInv, TypeOK

\* Every variable keeps its type; the log file is there while the stream is
\* open, and no more is unflushed than it holds (logger.c).
THEOREM TypeCorrect ==
  ASSUME OneInitialiser
  PROVE  Spec => []TypeOK
<1>1. Init => MutexInv /\ StreamInv /\ TypeInv
  BY MutexInit0, StreamInit, TypeInit
<1>2. MutexInv /\ StreamInv /\ TypeInv /\ [Next]_vars => (MutexInv /\ StreamInv /\ TypeInv)'
  BY MutexStep, StreamStep, TypeStep
<1>3. MutexInv /\ StreamInv /\ TypeInv => TypeOK
  BY TypesFollow
<1> QED
  BY <1>1, <1>2, <1>3, PTL DEF Spec

-----------------------------------------------------------------------------
(* The size that decides when to rotate                                    *)

SizeInv == output = "open" => currentFileSize = Size(disk[0])

LEMMA SizeStep ==
  ASSUME StreamInv, Control, Places, Files, SizeInv, [Next]_vars PROVE SizeInv'
<1>1. ASSUME NEW t \in Threads,
             \/ InitTest(t) \/ MutexInit(t) \/ SetInitialized(t) \/ InitLock(t)
             \/ Log(t) \/ LogLock(t) \/ RotateTest(t)
             \/ Unlock(t) \/ FlushRead(t) \/ FlushCall(t)
      PROVE  SizeInv'
  <2>1. UNCHANGED <<output, disk, currentFileSize>>
    BY <1>1
    DEF InitTest, MutexInit, SetInitialized, InitLock, Log, LogLock, RotateTest,
        Unlock, FlushRead, FlushCall, sizeVars, streamVars
  <2> QED
    BY <2>1 DEF SizeInv
<1>2. ASSUME NEW t \in Threads, InitClose(t) \/ RotateClose(t) PROVE SizeInv'
  <2>1. UNCHANGED <<disk, currentFileSize>> /\ output' \in {output, "closed"}
    BY <1>2 DEF InitClose, RotateClose, FClose, sizeVars
  <2> QED
    BY <2>1 DEF SizeInv
<1>3. ASSUME NEW t \in Threads, InitOpen(t) \/ Reopen(t) PROVE SizeInv'
  BY <1>3 DEF InitOpen, Reopen, OpenAppend, SizeInv
<1>4. ASSUME NEW t \in Threads, Remove(t) \/ Rename(t) PROVE SizeInv'
  BY <1>4 DEF Remove, Rename, Places, SizeInv, streamVars
<1>5. ASSUME NEW t \in Threads, Write(t) PROVE SizeInv'
  <2>1. output = "open" /\ 0 \in DOMAIN disk /\ disk[0] \in Seq(Record)
    BY <1>5 DEF Write, StreamInv, Files
  <2>2. PICK l \in Lens :
          /\ disk' = [disk EXCEPT ![0] = Append(@, [id |-> written', len |-> l])]
          /\ currentFileSize' = currentFileSize + l
    BY <1>5, <2>1 DEF Write
  <2>3. [id |-> written + 1, len |-> l] \in Record /\ written' = written + 1
    BY <1>5, <2>1, CLoggerAssumption DEF Write, Control, Record
  <2>4. Size(Append(disk[0], [id |-> written + 1, len |-> l])) = Size(disk[0]) + l
    BY <2>1, <2>3, RecordFacts, CLoggerAssumption
  <2>5. disk'[0] = Append(disk[0], [id |-> written + 1, len |-> l])
    BY <2>1, <2>2, <2>3
  <2> QED
    BY <2>1, <2>2, <2>4, <2>5 DEF SizeInv
<1>6. CASE Crash
  BY <1>6 DEF Crash, SizeInv
<1>7. CASE UNCHANGED vars
  BY <1>7 DEF vars, sizeVars, streamVars, SizeInv
<1> QED
  BY <1>1, <1>2, <1>3, <1>4, <1>5, <1>6, <1>7 DEF Next, Step

\* While the file is open, the size that decides when to rotate is the size of
\* the file (rotateLogFiles, vflog): after a rotation, a failure, a restart and
\* the opening of a file that was there.
THEOREM SizeFollows ==
  ASSUME OneInitialiser
  PROVE  Spec => []SizeRight
<1> DEFINE Inv == MutexInv /\ StreamInv /\ TypeInv /\ SizeInv
<1>1. Init => Inv
  <2>1. Init => SizeInv
    BY DEF Init, SizeInv
  <2> QED
    BY <2>1, MutexInit0, StreamInit, TypeInit
<1>2. Inv /\ [Next]_vars => Inv'
  BY MutexStep, StreamStep, TypeStep, SizeStep DEF TypeInv
<1>3. Inv => SizeRight
  BY DEF SizeInv, SizeRight
<1> HIDE DEF Inv
<1> QED
  BY <1>1, <1>2, <1>3, PTL DEF Spec

-----------------------------------------------------------------------------
(* The files that are kept                                                 *)

\* Before its last message the file was not too large.
InLimit(file) ==
  \A n \in 0..(Len(file) - 1) : Size(SubSeq(file, 1, n)) < MaxFileSize

RemovedOlder ==
  /\ \A m \in removed : m <= written
  /\ \A k \in DOMAIN disk : \A m \in removed, n \in Ids(disk[k]) : m < n

\* The number a file is moved to is free, except for the highest one.
Gap ==
  /\ \A t \in Threads :
       pc[t] \in {"remove", "rename"} /\ index < MaxBackupFiles => index \notin DOMAIN disk
  /\ \A t \in Threads : pc[t] = "reopen" => 0 \notin DOMAIN disk

Small ==
  /\ \A t \in Threads : pc[t] = "write" => currentFileSize < MaxFileSize
  /\ \A k \in DOMAIN disk : InLimit(disk[k])

KeptInv == "rename" \notin failed => RemovedOlder /\ Gap /\ Small

LEMMA LimitFacts ==
  ASSUME CLoggerAssumption, NEW file \in Seq(Record), InLimit(file)
  PROVE  /\ file # <<>> => Size(file) < MaxFileSize + file[Len(file)].len
         /\ \A n \in Nat : n <= Len(file) => InLimit(SubSeq(file, 1, n))
         /\ \A m \in Record :
              Size(file) < MaxFileSize => InLimit(Append(file, m))
<1>1. ASSUME file # <<>> PROVE Size(file) < MaxFileSize + file[Len(file)].len
  <2> DEFINE n == Len(file) - 1
             front == SubSeq(file, 1, n)
             last == file[Len(file)]
  <2>1. n \in 0..(Len(file) - 1) /\ Len(file) \in Nat /\ n \in Nat
    BY <1>1
  <2>2. front \in Seq(Record) /\ last \in Record /\ file = Append(front, last)
    BY <1>1, <2>1
  <2>3. Size(front) < MaxFileSize
    BY <2>1 DEF InLimit
  <2> HIDE DEF n, front, last
  <2>4. Size(file) = Size(front) + last.len /\ Size(front) \in Nat /\ last.len \in Nat
    BY <2>2, RecordFacts
  <2>5. MaxFileSize \in Nat
    BY CLoggerAssumption
  <2> QED
    BY <2>3, <2>4, <2>5 DEF last
<1>2. ASSUME NEW n \in Nat, n <= Len(file) PROVE InLimit(SubSeq(file, 1, n))
  <2>1. Len(SubSeq(file, 1, n)) = n
    BY <1>2
  <2>2. \A m \in 0..(n - 1) :
          /\ SubSeq(SubSeq(file, 1, n), 1, m) = SubSeq(file, 1, m)
          /\ m \in 0..(Len(file) - 1)
    BY <1>2
  <2> QED
    BY <2>1, <2>2 DEF InLimit
<1>3. ASSUME NEW m \in Record, Size(file) < MaxFileSize PROVE InLimit(Append(file, m))
  <2>1. Len(Append(file, m)) = Len(file) + 1 /\ Len(file) \in Nat
    OBVIOUS
  <2>2. ASSUME NEW n \in 0..Len(file)
        PROVE  Size(SubSeq(Append(file, m), 1, n)) < MaxFileSize
    <3>1. SubSeq(Append(file, m), 1, n) = SubSeq(file, 1, n)
      BY <2>1
    <3>2. CASE n = Len(file)
      <4>1. SubSeq(file, 1, n) = file
        BY <3>2
      <4> QED
        BY <1>3, <3>1, <4>1
    <3>3. CASE n # Len(file)
      <4>1. n \in 0..(Len(file) - 1)
        BY <2>1, <3>3
      <4> QED
        BY <3>1, <4>1 DEF InLimit
    <3> QED
      BY <3>2, <3>3
  <2> QED
    BY <2>1, <2>2 DEF InLimit
<1> QED
  BY <1>1, <1>2, <1>3

LEMMA EmptyInLimit == InLimit(<<>>)
BY DEF InLimit

\* The files stay, and so does what the rotation has to do.
LEMMA KeptStays ==
  ASSUME MutexInv, KeptInv, NEW t \in Threads, NEW where, Goto(t, where),
         where \notin {"remove", "rename", "reopen"},
         where = "write" => currentFileSize < MaxFileSize,
         UNCHANGED <<disk, removed, written, currentFileSize>>,
         failed \subseteq failed',
         index' = index \/ \A u \in Threads : u # t => pc[u] \notin Inside
  PROVE  KeptInv'
<1> SUFFICES ASSUME "rename" \notin failed' PROVE (RemovedOlder /\ Gap /\ Small)'
  BY DEF KeptInv
<1>1. RemovedOlder /\ Gap /\ Small
  BY DEF KeptInv
<1>2. \A u \in Threads : pc'[u] = IF u = t THEN where ELSE pc[u]
  BY DEF Goto, MutexInv, MutexTypes
<1>3. RemovedOlder'
  BY <1>1 DEF RemovedOlder, Ids
<1>4. Gap'
  BY <1>1, <1>2 DEF Gap, Inside
<1>5. Small'
  <2>1. \A k \in DOMAIN disk' : InLimit(disk'[k])
    BY <1>1 DEF Small, InLimit
  <2> QED
    BY <1>1, <1>2, <2>1 DEF Small
<1> QED
  BY <1>3, <1>4, <1>5

\* fopen with "a" when the file that was there is in its limit.
LEMMA OpenKeepsKept ==
  ASSUME RemovedOlder, \A k \in DOMAIN disk : InLimit(disk[k]),
         OpenAppend, UNCHANGED <<removed, written>>
  PROVE  /\ RemovedOlder' /\ \A k \in DOMAIN disk' : InLimit(disk'[k])
         /\ 0 \notin DOMAIN disk => currentFileSize' = 0
<1>1. CASE 0 \in DOMAIN disk
  <2>1. disk' = disk
    BY <1>1 DEF OpenAppend
  <2> QED
    BY <1>1, <2>1 DEF RemovedOlder, Ids
<1>2. CASE 0 \notin DOMAIN disk
  <2>1. disk' = With(0, <<>>) /\ currentFileSize' = Size(disk'[0])
    BY <1>2 DEF OpenAppend
  <2>2. /\ DOMAIN disk' = DOMAIN disk \cup {0}
        /\ \A k \in DOMAIN disk : disk'[k] = disk[k]
        /\ disk'[0] = <<>>
    BY <1>2, <2>1 DEF With
  <2>3. currentFileSize' = 0
    BY <2>1, <2>2, SizeEmpty, CLoggerAssumption
  <2>4. Ids(disk'[0]) = {}
    BY <2>2 DEF Ids
  <2>5. \A k \in DOMAIN disk : Ids(disk'[k]) = Ids(disk[k])
    BY <2>2 DEF Ids
  <2>6. RemovedOlder'
    BY <2>2, <2>4, <2>5 DEF RemovedOlder
  <2> QED
    BY <2>2, <2>3, <2>6, EmptyInLimit
<1> QED
  BY <1>1, <1>2

\* A file without a free number above it is the oldest.
LEMMA OldestGoes ==
  ASSUME OrderInv, Files, MaxBackupFiles \in DOMAIN disk, RemovedOlder,
         NEW k \in DOMAIN disk, k # MaxBackupFiles
  PROVE  \A m \in removed \cup Ids(disk[MaxBackupFiles]), n \in Ids(disk[k]) : m < n
<1>1. k < MaxBackupFiles
  BY CLoggerAssumption DEF Files, Numbers
<1> QED
  BY <1>1 DEF OrderInv, OrderKept, RemovedOlder

LEMMA MoveKeeps ==
  ASSUME OrderInv, Files, Control, RemovedOlder, \A k \in DOMAIN disk : InLimit(disk[k]),
         index > 0, index < MaxBackupFiles => index \notin DOMAIN disk,
         index - 1 \in DOMAIN disk, MoveTo(index - 1, index), written' = written
  PROVE  /\ RemovedOlder' /\ \A k \in DOMAIN disk' : InLimit(disk'[k])
         /\ index - 1 \notin DOMAIN disk'
<1>1. index \in Nat /\ index <= MaxBackupFiles
  BY CLoggerAssumption DEF Control, Numbers
<1>2. /\ DOMAIN disk' = (DOMAIN disk \ {index - 1}) \cup {index}
      /\ disk'[index] = disk[index - 1]
      /\ \A k \in DOMAIN disk' : k # index => k \in DOMAIN disk /\ disk'[k] = disk[k]
  BY DEF MoveTo
<1>3. index - 1 # index /\ index - 1 \notin DOMAIN disk'
  BY <1>1, <1>2
<1>4. \A k \in DOMAIN disk' : \E j \in DOMAIN disk : j # index /\ disk'[k] = disk[j]
  BY <1>2, <1>3
<1>5. removed' = removed \cup (IF index \in DOMAIN disk THEN Ids(disk[index]) ELSE {})
  BY DEF MoveTo
<1>6. \A k \in DOMAIN disk : k # index =>
        \A m \in removed', n \in Ids(disk[k]) : m < n
  <2>1. CASE index \in DOMAIN disk
    <3>1. index = MaxBackupFiles
      BY <1>1, <2>1, CLoggerAssumption
    <3> QED
      BY <1>5, <2>1, <3>1, OldestGoes
  <2>2. CASE index \notin DOMAIN disk
    BY <1>5, <2>2 DEF RemovedOlder
  <2> QED
    BY <2>1, <2>2
<1>7. \A m \in removed' : m <= written'
  <2>1. index \in DOMAIN disk => \A m \in Ids(disk[index]) : m <= written
    BY DEF OrderInv, Ids
  <2> QED
    BY <1>5, <2>1 DEF RemovedOlder
<1>8. \A k \in DOMAIN disk' : \A m \in removed', n \in Ids(disk'[k]) : m < n
  <2> SUFFICES ASSUME NEW k \in DOMAIN disk', NEW m \in removed', NEW n \in Ids(disk'[k])
               PROVE  m < n
    OBVIOUS
  <2>1. PICK j \in DOMAIN disk : j # index /\ disk'[k] = disk[j]
    BY <1>4
  <2>2. n \in Ids(disk[j])
    BY <2>1 DEF Ids
  <2> QED
    BY <1>6, <2>1, <2>2
<1>9. \A k \in DOMAIN disk' : InLimit(disk'[k])
  <2> SUFFICES ASSUME NEW k \in DOMAIN disk' PROVE InLimit(disk'[k])
    OBVIOUS
  <2>1. PICK j \in DOMAIN disk : disk'[k] = disk[j]
    BY <1>4
  <2> QED
    BY <2>1 DEF InLimit
<1> QED
  BY <1>3, <1>7, <1>8, <1>9 DEF RemovedOlder

LEMMA KeptStep ==
  ASSUME MaxBackupFiles > 0, MutexInv, StreamInv, TypeInv, OrderInv, SizeInv, KeptInv,
         [Next]_vars
  PROVE  KeptInv'
<1> USE DEF Inside, Outside
<1>0. Control /\ Places /\ Files /\ pc \in [Threads -> Inside \cup Outside]
  BY DEF TypeInv, MutexInv, MutexTypes
<1>1. ASSUME NEW t \in Threads,
             \/ InitTest(t) \/ MutexInit(t) \/ SetInitialized(t) \/ InitLock(t)
             \/ InitClose(t) \/ Log(t) \/ LogLock(t) \/ RotateTest(t)
             \/ Unlock(t) \/ FlushRead(t) \/ FlushCall(t)
      PROVE  KeptInv'
  <2>1. UNCHANGED <<disk, removed, written, currentFileSize, failed, index>>
    BY <1>1
    DEF InitTest, MutexInit, SetInitialized, InitLock, InitClose, Log, LogLock,
        RotateTest, Unlock, FlushRead, FlushCall, sizeVars, streamVars
  <2>2. \E where : /\ Goto(t, where) /\ where \notin {"remove", "rename", "reopen"}
                   /\ where = "write" => ~(currentFileSize >= MaxFileSize)
    BY <1>1
    DEF InitTest, MutexInit, SetInitialized, InitLock, InitClose, Log, LogLock,
        RotateTest, Unlock, FlushRead, FlushCall
  <2>3. currentFileSize \in Nat /\ MaxFileSize \in Nat
    BY <1>0, CLoggerAssumption DEF Files
  <2> QED
    BY <2>1, <2>2, <2>3, KeptStays
<1>2. ASSUME NEW t \in Threads,
             \/ InitOpen(t) \/ RotateClose(t) \/ Remove(t) \/ Rename(t)
             \/ Reopen(t) \/ Write(t),
             "rename" \notin failed'
      PROVE  (RemovedOlder /\ Gap /\ Small)'
  <2>1. \A u \in Threads : u # t => pc[u] \notin Inside
    BY <1>2, Alone DEF InitOpen, RotateClose, Remove, Rename, Reopen, Write
  <2>2. \A u \in Threads : u # t => pc'[u] = pc[u]
    BY <1>0, <1>2 DEF InitOpen, RotateClose, Remove, Rename, Reopen, Write, Goto
  <2>3. failed \subseteq failed'
    BY <1>2 DEF InitOpen, RotateClose, Remove, Rename, Reopen, Write, Fails
  <2>4. RemovedOlder /\ Gap /\ Small
    BY <1>2, <2>3 DEF KeptInv
  <2>5. CASE InitOpen(t)
    <3>1. pc'[t] = "unlock" /\ UNCHANGED <<removed, written>>
      BY <1>0, <2>5 DEF InitOpen, Goto, sizeVars
    <3>2. RemovedOlder' /\ \A k \in DOMAIN disk' : InLimit(disk'[k])
      <4>1. CASE OpenAppend
        BY <2>4, <3>1, <4>1, OpenKeepsKept DEF Small
      <4>2. CASE UNCHANGED disk
        BY <2>4, <3>1, <4>2 DEF Small, RemovedOlder, Ids, InLimit
      <4> QED
        BY <2>5, <4>1, <4>2 DEF InitOpen
    <3> QED
      BY <2>1, <2>2, <3>1, <3>2 DEF Gap, Small
  <2>6. CASE RotateClose(t)
    <3>1. /\ pc'[t] = "remove" /\ index' = MaxBackupFiles
          /\ UNCHANGED <<disk, removed, written, currentFileSize>>
      BY <1>0, <2>6 DEF RotateClose, Goto, sizeVars
    <3>2. RemovedOlder' /\ \A k \in DOMAIN disk' : InLimit(disk'[k])
      BY <2>4, <3>1 DEF Small, RemovedOlder, Ids, InLimit
    <3>3. ~(index' < MaxBackupFiles)
      BY <3>1, CLoggerAssumption
    <3> QED
      BY <2>1, <2>2, <3>1, <3>2, <3>3 DEF Gap, Small
  <2>7. CASE Remove(t)
    <3>1. /\ pc'[t] = "rename" /\ UNCHANGED <<index, written, currentFileSize>>
      BY <1>0, <2>7 DEF Remove, Goto, sizeVars
    <3>2. CASE UNCHANGED <<disk, removed>>
      <4>1. RemovedOlder' /\ \A k \in DOMAIN disk' : InLimit(disk'[k])
        BY <2>4, <3>1, <3>2 DEF Small, RemovedOlder, Ids, InLimit
      <4>2. index < MaxBackupFiles => index \notin DOMAIN disk
        BY <2>4, <2>7 DEF Gap, Remove
      <4> QED
        BY <2>1, <2>2, <3>1, <3>2, <4>1, <4>2 DEF Gap, Small
    <3>3. CASE /\ index \in DOMAIN disk /\ disk' = Without(index)
               /\ removed' = removed \cup Ids(disk[index])
      <4>1. index = MaxBackupFiles
        <5>1. ~(index < MaxBackupFiles)
          BY <2>4, <2>7, <3>3 DEF Gap, Remove
        <5> QED
          BY <1>0, <5>1, CLoggerAssumption DEF Control, Numbers
      <4>2. /\ DOMAIN disk' = DOMAIN disk \ {index}
            /\ \A k \in DOMAIN disk' : disk'[k] = disk[k]
        BY <3>3 DEF Without
      <4>3. \A m \in removed' : m <= written'
        <5>1. \A m \in Ids(disk[index]) : m <= written
          BY <3>3 DEF OrderInv, Ids
        <5> QED
          BY <2>4, <3>1, <3>3, <5>1 DEF RemovedOlder
      <4>4. \A k \in DOMAIN disk' : \A m \in removed', n \in Ids(disk'[k]) : m < n
        <5> SUFFICES ASSUME NEW k \in DOMAIN disk'
                     PROVE  \A m \in removed', n \in Ids(disk'[k]) : m < n
          OBVIOUS
        <5>1. Ids(disk'[k]) = Ids(disk[k]) /\ k \in DOMAIN disk /\ k # MaxBackupFiles
          BY <4>1, <4>2 DEF Ids
        <5> QED
          BY <1>0, <2>4, <3>3, <4>1, <5>1, OldestGoes
      <4>5. \A k \in DOMAIN disk' : InLimit(disk'[k])
        BY <2>4, <4>2 DEF Small, InLimit
      <4>6. index \notin DOMAIN disk'
        BY <4>2
      <4> QED
        BY <2>1, <2>2, <3>1, <4>3, <4>4, <4>5, <4>6 DEF RemovedOlder, Gap, Small
    <3> QED
      BY <2>7, <3>2, <3>3 DEF Remove
  <2>8. CASE Rename(t)
    <3>1. /\ index' = index - 1 /\ index > 0
          /\ pc'[t] \in {"remove", "reopen"} /\ (pc'[t] = "reopen" => ~(index > 1))
          /\ UNCHANGED <<written, currentFileSize>>
      BY <1>0, <2>8 DEF Rename, Goto, sizeVars, Places
    <3>2. index \in Nat
      BY <1>0, CLoggerAssumption DEF Control, Numbers
    <3>3. index < MaxBackupFiles => index \notin DOMAIN disk
      BY <2>4, <2>8 DEF Gap, Rename
    <3>4. /\ RemovedOlder' /\ \A k \in DOMAIN disk' : InLimit(disk'[k])
          /\ index - 1 \notin DOMAIN disk'
      <4>1. CASE index - 1 \in DOMAIN disk /\ MoveTo(index - 1, index)
        BY <1>0, <2>4, <3>1, <3>3, <4>1, MoveKeeps DEF Small
      <4>2. CASE index - 1 \notin DOMAIN disk /\ UNCHANGED <<disk, removed>>
        BY <2>4, <3>1, <4>2 DEF Small, RemovedOlder, Ids, InLimit
      <4> QED
        BY <1>2, <2>8, <4>1, <4>2 DEF Rename, Fails
    <3>5. pc'[t] = "reopen" => 0 \notin DOMAIN disk'
      BY <3>1, <3>2, <3>4
    <3> QED
      BY <2>1, <2>2, <3>1, <3>4, <3>5 DEF Gap, Small
  <2>9. CASE Reopen(t)
    <3>1. UNCHANGED <<removed, written>>
      BY <2>9 DEF Reopen
    <3>2. 0 \notin DOMAIN disk
      BY <2>4, <2>9 DEF Reopen, Gap
    <3>3. CASE OpenAppend /\ pc'[t] = "write"
      <4>1. /\ RemovedOlder' /\ \A k \in DOMAIN disk' : InLimit(disk'[k])
            /\ currentFileSize' = 0
        BY <2>4, <3>1, <3>2, <3>3, OpenKeepsKept DEF Small
      <4>2. 0 < MaxFileSize
        BY CLoggerAssumption
      <4> QED
        BY <2>1, <2>2, <3>3, <4>1, <4>2 DEF Gap, Small
    <3>4. CASE pc'[t] = "unlock" /\ UNCHANGED disk
      <4>1. RemovedOlder' /\ \A k \in DOMAIN disk' : InLimit(disk'[k])
        BY <2>4, <3>1, <3>4 DEF Small, RemovedOlder, Ids, InLimit
      <4> QED
        BY <2>1, <2>2, <3>4, <4>1 DEF Gap, Small
    <3> QED
      BY <1>0, <2>9, <3>3, <3>4 DEF Reopen, Goto
  <2>10. CASE Write(t)
    <3>1. output = "open" /\ 0 \in DOMAIN disk /\ disk[0] \in Seq(Record)
      BY <1>0, <2>10 DEF Write, StreamInv, Files
    <3>2. PICK l \in Lens :
            disk' = [disk EXCEPT ![0] = Append(@, [id |-> written', len |-> l])]
      BY <2>10, <3>1 DEF Write
    <3> DEFINE new == [id |-> written', len |-> l]
    <3>3. /\ new \in Record /\ new.id = written' /\ written' = written + 1
          /\ written \in Nat /\ removed' = removed /\ pc'[t] = "unlock"
      BY <1>0, <2>10, <3>1, CLoggerAssumption DEF Write, Control, Record, Goto
    <3> HIDE DEF new
    <3>4. /\ DOMAIN disk' = DOMAIN disk
          /\ \A k \in DOMAIN disk : k # 0 => disk'[k] = disk[k]
          /\ disk'[0] = Append(disk[0], new)
      BY <3>1, <3>2 DEF new
    <3>5. Size(disk[0]) < MaxFileSize
      BY <2>4, <2>10, <3>1 DEF Write, Small, SizeInv
    <3>6. \A k \in DOMAIN disk' : InLimit(disk'[k])
      <4>1. InLimit(Append(disk[0], new))
        BY <2>4, <3>1, <3>3, <3>5, LimitFacts, CLoggerAssumption DEF Small
      <4> QED
        BY <2>4, <3>4, <4>1 DEF Small
    <3>7. \A k \in DOMAIN disk' : \A n \in Ids(disk'[k]) :
            n = written' \/ n \in Ids(disk[k])
      <4>1. \A n \in DOMAIN Append(disk[0], new) :
              \/ n \in DOMAIN disk[0] /\ Append(disk[0], new)[n] = disk[0][n]
              \/ Append(disk[0], new)[n] = new
        BY <3>1
      <4>2. \A n \in Ids(disk'[0]) : n = written' \/ n \in Ids(disk[0])
        BY <3>3, <3>4, <4>1 DEF Ids
      <4> QED
        BY <3>4, <4>2 DEF Ids
    <3>8. RemovedOlder'
      <4>1. \A m \in removed : m \in Nat
        BY <1>0 DEF Files
      <4> QED
        BY <2>4, <3>3, <3>4, <3>7, <4>1 DEF RemovedOlder
    <3> QED
      BY <2>1, <2>2, <3>3, <3>6, <3>8 DEF Gap, Small
  <2> QED
    BY <1>2, <2>5, <2>6, <2>7, <2>8, <2>9, <2>10
<1>3. CASE Crash /\ "rename" \notin failed'
  <2>1. /\ RemovedOlder /\ Gap /\ Small
        /\ UNCHANGED <<removed, written>> /\ \A t \in Threads : pc'[t] = "idle"
    BY <1>3 DEF Crash, KeptInv
  <2>2. DOMAIN disk' = DOMAIN disk
    BY <1>3 DEF Crash
  <2>3. ASSUME NEW k \in DOMAIN disk'
        PROVE  InLimit(disk'[k]) /\ Ids(disk'[k]) \subseteq Ids(disk[k])
    <3>1. disk'[k] = disk[k] \/ disk'[k] = SubSeq(disk[k], 1, Len(disk[k]) - unflushed)
      BY <1>3, <2>2, <2>3 DEF Crash
    <3>2. disk[k] \in Seq(Record) /\ unflushed \in Nat /\ InLimit(disk[k])
      BY <1>0, <2>1, <2>2, <2>3 DEF Files, Small
    <3>3. CASE disk'[k] = disk[k]
      BY <3>2, <3>3
    <3>4. CASE disk'[k] = SubSeq(disk[k], 1, Len(disk[k]) - unflushed)
      <4> DEFINE n == Len(disk[k]) - unflushed
      <4>1. n \in Int /\ n <= Len(disk[k])
        BY <3>2
      <4>2. CASE n < 0
        <5>1. disk'[k] = <<>>
          BY <3>2, <3>4, <4>1, <4>2
        <5> QED
          BY <5>1, EmptyInLimit DEF Ids
      <4>3. CASE n >= 0
        <5>1. InLimit(disk'[k])
          BY <3>2, <3>4, <4>1, <4>3, LimitFacts, CLoggerAssumption
        <5>2. \A m \in DOMAIN disk'[k] : m \in DOMAIN disk[k] /\ disk'[k][m] = disk[k][m]
          BY <3>2, <3>4, <4>1, <4>3
        <5> QED
          BY <5>1, <5>2 DEF Ids
      <4> QED
        BY <4>1, <4>2, <4>3
    <3> QED
      BY <3>1, <3>3, <3>4
  <2>4. RemovedOlder'
    BY <2>1, <2>2, <2>3 DEF RemovedOlder
  <2> QED
    BY <2>1, <2>3, <2>4 DEF KeptInv, Gap, Small
<1>4. CASE UNCHANGED vars
  <2>1. UNCHANGED <<pc, index, removed, written, failed, disk, currentFileSize>>
    BY <1>4 DEF vars, sizeVars
  <2>2. RemovedOlder' = RemovedOlder /\ Gap' = Gap
    BY <2>1 DEF RemovedOlder, Ids, Gap
  <2>3. Small => Small'
    BY <2>1 DEF Small, InLimit
  <2> QED
    BY <2>1, <2>2, <2>3 DEF KeptInv
<1> QED
  BY <1>1, <1>2, <1>3, <1>4 DEF Next, Step, KeptInv

LEMMA KeptFollows ==
  ASSUME TypeInv, MaxBackupFiles > 0 => KeptInv PROVE NewestKept
<1> SUFFICES ASSUME MaxBackupFiles > 0, "rename" \notin failed, NEW k \in DOMAIN disk
             PROVE  /\ \A m \in removed, n \in Ids(disk[k]) : m < n
                    /\ disk[k] # <<>> =>
                         Size(disk[k]) < MaxFileSize + disk[k][Len(disk[k])].len
  BY DEF NewestKept
<1>1. disk[k] \in Seq(Record) /\ InLimit(disk[k]) /\ RemovedOlder
  BY DEF TypeInv, Files, KeptInv, Small
<1> QED
  BY <1>1, LimitFacts, CLoggerAssumption DEF RemovedOlder

\* As long as there is a number to move the log file to and no rename fails, what
\* a rotation removes is older than all that stays, and a file exceeds the
\* maximum by less than its last message (rotateLogFiles), whatever else fails
\* and crashes.
THEOREM NewestStay ==
  ASSUME OneInitialiser
  PROVE  Spec => []NewestKept
<1> DEFINE Inv == /\ MutexInv /\ StreamInv /\ TypeInv /\ OrderInv /\ SizeInv
                  /\ MaxBackupFiles > 0 => KeptInv
<1>1. Init => Inv
  <2>1. Init => SizeInv /\ KeptInv
    BY DEF Init, SizeInv, KeptInv, RemovedOlder, Gap, Small
  <2> QED
    BY <2>1, MutexInit0, StreamInit, TypeInit, OrderInit
<1>2. Inv /\ [Next]_vars => Inv'
  BY MutexStep, StreamStep, TypeStep, OrderStep, SizeStep, KeptStep DEF TypeInv
<1>3. Inv => NewestKept
  BY KeptFollows
<1> HIDE DEF Inv
<1> QED
  BY <1>1, <1>2, <1>3, PTL DEF Spec
=============================================================================
