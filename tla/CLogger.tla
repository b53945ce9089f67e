------------------------------- MODULE CLogger -------------------------------
(***************************************************************************)
(* The file logger of c-logger (logger.c): threads write messages to one   *)
(* file, which is moved away under a number, oldest highest, once it has   *)
(* reached its maximum size.  One mutex is held by every call but          *)
(* logger_flush, and the mutex itself is made by the first initialisation. *)
(*                                                                         *)
(* A step is one access to shared state outside the mutex or one call on   *)
(* the file system inside it.  The process may crash between any two and   *)
(* start again: the messages the stream had not flushed may be lost.       *)
(*                                                                         *)
(* disk[k] is the file with number k, 0 for the log file itself: the       *)
(* sequence of its messages, numbered in the order they were written.  The *)
(* clock may be set back, so the time of a message is any of Times.        *)
(*                                                                         *)
(* The console logger and the level test, which change none of this state, *)
(* are left out.                                                           *)
(*                                                                         *)
(* A definition marked Mutant is not part of the specification: it is a    *)
(* definition with a bug that a property has to notice.                    *)
(***************************************************************************)
EXTENDS Integers, Sequences, FiniteSets

CONSTANTS
  Threads,        \* threads that log
  Initialisers,   \* those that call logger_initFileLogger
  Lens,           \* lengths of messages
  MaxFileSize,    \* maxFileSize
  MaxBackupFiles, \* maxBackupFiles
  Times,          \* milliseconds since the epoch
  Modulus,        \* 2^64, of unsigned long long
  FlushInterval,  \* s_flushInterval, 0 for no automatic flush
  Failable,       \* calls on the file system that may fail
  MaxMsgs,        \* bound: messages logged
  MaxInits,       \* bound: calls of logger_initFileLogger
  MaxCrashes,     \* bound: crashes
  Null

ASSUME CLoggerAssumption ==
  /\ Initialisers \subseteq Threads
  /\ Lens \subseteq Nat \ {0}
  /\ MaxFileSize \in Nat \ {0}
  /\ MaxBackupFiles \in 0..255
  /\ Modulus \in Nat \ {0} /\ Times \subseteq 0..(Modulus - 1) /\ 0 \in Times
  /\ FlushInterval \in Nat
  /\ Failable \subseteq {"open", "remove", "rename"}
  /\ MaxMsgs \in Nat /\ MaxInits \in Nat /\ MaxCrashes \in Nat
  /\ Null \notin Threads

VARIABLES
  initialized,  \* s_initialized
  mutex,        \* the holder of s_mutex, or Null
  fileLogger,   \* bit kFileLogger of s_logger
  output,       \* s_flog.output: "null", "open" or, after fclose, "closed"
  currentFileSize, flushedTime,   \* of s_flog
  disk,         \* the files, by number
  unflushed,    \* how many messages at the end of disk[0] may be lost
  pc, now,      \* of each thread: where it is, its currentTime
  index,        \* i in rotateLogFiles
  ptr,          \* the stream logger_flush has read: "none", "live" or "dead"
  fault,        \* what a bad stream was used for, or "none"
  msgs, inits, crashes,   \* counted for the bounds
  written,      \* history: the messages written so far
  lastTime,     \* history: currentTime of the last message written
  removed,      \* history: the numbers of messages in files removed
  failed        \* history: the calls that have failed

streamVars == <<output, unflushed, ptr, fault>>
sizeVars == <<currentFileSize, flushedTime, lastTime, written>>
boundVars == <<msgs, inits, crashes>>
vars == <<initialized, mutex, fileLogger, streamVars, sizeVars, disk, pc, now,
          index, boundVars, removed, failed>>

\* getFileSize
Size(file) ==
  LET upTo[n \in 0..Len(file)] == IF n = 0 THEN 0 ELSE upTo[n - 1] + file[n].len
  IN  upTo[Len(file)]

Ids(file) == {file[n].id : n \in DOMAIN file}

With(k, file) == [j \in DOMAIN disk \cup {k} |-> IF j = k THEN file ELSE disk[j]]
Without(k) == [j \in DOMAIN disk \ {k} |-> disk[j]]

Goto(t, where) == pc' = [pc EXCEPT ![t] = where]

Fails(call) ==
  /\ call \in Failable
  /\ failed' = failed \cup {call}

\* What fclose leaves: nothing to flush, and a pointer to a stream that is gone.
FClose ==
  /\ output' = "closed"
  /\ unflushed' = 0
  /\ ptr' = [t \in Threads |-> IF ptr[t] = "live" THEN "dead" ELSE ptr[t]]

Init ==
  /\ initialized = FALSE /\ mutex = Null /\ fileLogger = FALSE
  /\ output = "null" /\ currentFileSize = 0 /\ flushedTime = 0
  /\ disk = <<>> /\ unflushed = 0
  /\ pc = [t \in Threads |-> "idle"]
  /\ now = [t \in Threads |-> 0]
  /\ index = 0
  /\ ptr = [t \in Threads |-> "none"]
  /\ fault = "none"
  /\ msgs = 0 /\ inits = 0 /\ crashes = 0
  /\ written = 0 /\ lastTime = 0 /\ removed = {} /\ failed = {}

-----------------------------------------------------------------------------
(* logger_initFileLogger                                                   *)

\* init() tests s_initialized without the mutex there may not be yet.
InitTest(t) ==
  /\ pc[t] = "idle" /\ t \in Initialisers
  /\ inits < MaxInits
  /\ inits' = inits + 1
  /\ Goto(t, IF initialized THEN "initLock" ELSE "mutexInit")
  /\ UNCHANGED <<initialized, mutex, fileLogger, streamVars, sizeVars, disk,
                 now, index, msgs, crashes, removed, failed>>

\* pthread_mutex_init: whoever held the mutex holds it no longer.
MutexInit(t) ==
  /\ pc[t] = "mutexInit"
  /\ mutex' = Null
  /\ Goto(t, "initialized")
  /\ UNCHANGED <<initialized, fileLogger, streamVars, sizeVars, disk, now,
                 index, boundVars, removed, failed>>

SetInitialized(t) ==
  /\ pc[t] = "initialized"
  /\ initialized' = TRUE
  /\ Goto(t, "initLock")
  /\ UNCHANGED <<mutex, fileLogger, streamVars, sizeVars, disk, now, index,
                 boundVars, removed, failed>>

InitLock(t) ==
  /\ pc[t] = "initLock"
  /\ mutex = Null
  /\ mutex' = t
  /\ Goto(t, "initClose")
  /\ UNCHANGED <<initialized, fileLogger, streamVars, sizeVars, disk, now,
                 index, boundVars, removed, failed>>

\* The file of an earlier initialisation is closed.
InitClose(t) ==
  /\ pc[t] = "initClose"
  /\ IF output = "null" THEN UNCHANGED <<output, unflushed, ptr>> ELSE FClose
  /\ Goto(t, "initOpen")
  /\ UNCHANGED <<initialized, mutex, fileLogger, fault, sizeVars, disk, now,
                 index, boundVars, removed, failed>>

\* fopen with "a" makes the file or opens it at its end, and its size is read.
OpenAppend ==
  /\ output' = "open"
  /\ disk' = IF 0 \in DOMAIN disk THEN disk ELSE With(0, <<>>)
  /\ currentFileSize' = Size(disk'[0])

\* Mutant: a failed fopen leaves the old pointer.
InitOpenKeepsPointer(t) ==
  /\ pc[t] = "initOpen"
  /\ \/ /\ OpenAppend
        /\ fileLogger' = TRUE
        /\ UNCHANGED failed
     \/ /\ Fails("open")
        /\ UNCHANGED <<output, disk, currentFileSize, fileLogger>>
  /\ Goto(t, "unlock")
  /\ UNCHANGED <<initialized, mutex, unflushed, ptr, fault, flushedTime,
                 lastTime, written, now, index, boundVars, removed>>

\* When it fails, what an earlier initialisation has set stays set.
InitOpen(t) ==
  /\ pc[t] = "initOpen"
  /\ \/ /\ OpenAppend
        /\ fileLogger' = TRUE
        /\ UNCHANGED failed
     \/ /\ Fails("open")
        /\ output' = "null"
        /\ UNCHANGED <<disk, currentFileSize, fileLogger>>
  /\ Goto(t, "unlock")
  /\ UNCHANGED <<initialized, mutex, unflushed, ptr, fault, flushedTime,
                 lastTime, written, now, index, boundVars, removed>>

-----------------------------------------------------------------------------
(* logger_log and rotateLogFiles                                           *)

\* A message whose level is enabled takes its time before it waits.
Log(t) ==
  /\ pc[t] = "idle"
  /\ fileLogger /\ initialized
  /\ msgs < MaxMsgs
  /\ msgs' = msgs + 1
  /\ \E time \in Times : now' = [now EXCEPT ![t] = time]
  /\ Goto(t, "logLock")
  /\ UNCHANGED <<initialized, mutex, fileLogger, streamVars, sizeVars, disk,
                 index, inits, crashes, removed, failed>>

LogLock(t) ==
  /\ pc[t] = "logLock"
  /\ mutex = Null
  /\ mutex' = t
  /\ Goto(t, "rotate")
  /\ UNCHANGED <<initialized, fileLogger, streamVars, sizeVars, disk, now,
                 index, boundVars, removed, failed>>

\* The size is compared before the message is written.
RotateTest(t) ==
  /\ pc[t] = "rotate"
  /\ Goto(t, IF currentFileSize >= MaxFileSize THEN "close"
             ELSE IF output = "null" THEN "unlock" ELSE "write")
  /\ UNCHANGED <<initialized, mutex, fileLogger, streamVars, sizeVars, disk,
                 now, index, boundVars, removed, failed>>

\* Mutant: the loop starts one too high.
RotateCloseOneMore(t) ==
  /\ pc[t] = "close"
  /\ IF output = "open"
     THEN FClose /\ UNCHANGED fault
     ELSE fault' = "fclose" /\ UNCHANGED <<output, unflushed, ptr>>
  /\ index' = MaxBackupFiles + 1
  /\ Goto(t, "remove")
  /\ UNCHANGED <<initialized, mutex, fileLogger, sizeVars, disk, now,
                 boundVars, removed, failed>>

\* fclose is called whether or not the stream is open.
RotateClose(t) ==
  /\ pc[t] = "close"
  /\ IF output = "open"
     THEN FClose /\ UNCHANGED fault
     ELSE fault' = "fclose" /\ UNCHANGED <<output, unflushed, ptr>>
  /\ index' = MaxBackupFiles
  /\ Goto(t, IF MaxBackupFiles = 0 THEN "reopen" ELSE "remove")
  /\ UNCHANGED <<initialized, mutex, fileLogger, sizeVars, disk, now,
                 boundVars, removed, failed>>

\* The file that is in the way of the next one goes.
Remove(t) ==
  /\ pc[t] = "remove"
  /\ \/ /\ index \in DOMAIN disk
        /\ removed' = removed \cup Ids(disk[index])
        /\ disk' = Without(index)
        /\ UNCHANGED failed
     \/ /\ index \in DOMAIN disk
        /\ Fails("remove")
        /\ UNCHANGED <<disk, removed>>
     \/ /\ index \notin DOMAIN disk
        /\ UNCHANGED <<disk, removed, failed>>
  /\ Goto(t, "rename")
  /\ UNCHANGED <<initialized, mutex, fileLogger, streamVars, sizeVars, now,
                 index, boundVars>>

\* rename replaces a file that could not be removed.
MoveTo(from, to) ==
  /\ disk' = [k \in (DOMAIN disk \ {from}) \cup {to} |->
                IF k = to THEN disk[from] ELSE disk[k]]
  /\ removed' = removed \cup (IF to \in DOMAIN disk THEN Ids(disk[to]) ELSE {})

\* Mutant: the log file takes a free number and the others stay.
RenameToFree(t) ==
  /\ pc[t] = "rename"
  /\ MoveTo(0, CHOOSE k \in 1..index :
                 /\ k \notin DOMAIN disk \/ k = index
                 /\ \A j \in 1..(k - 1) : j \in DOMAIN disk)
  /\ index' = 0
  /\ Goto(t, "reopen")
  /\ UNCHANGED <<initialized, mutex, fileLogger, streamVars, sizeVars, now,
                 boundVars, failed>>

\* Mutant: a file is not moved onto one that could not be removed.
RenameIfFree(t) ==
  /\ pc[t] = "rename"
  /\ \/ /\ index - 1 \in DOMAIN disk
        /\ index \notin DOMAIN disk
        /\ MoveTo(index - 1, index)
        /\ UNCHANGED failed
     \/ /\ index - 1 \in DOMAIN disk => index \in DOMAIN disk
        /\ UNCHANGED <<disk, removed, failed>>
  /\ index' = index - 1
  /\ Goto(t, IF index > 1 THEN "remove" ELSE "reopen")
  /\ UNCHANGED <<initialized, mutex, fileLogger, streamVars, sizeVars, now,
                 boundVars>>

Rename(t) ==
  /\ pc[t] = "rename"
  /\ \/ /\ index - 1 \in DOMAIN disk
        /\ MoveTo(index - 1, index)
        /\ UNCHANGED failed
     \/ /\ index - 1 \in DOMAIN disk
        /\ Fails("rename")
        /\ UNCHANGED <<disk, removed>>
     \/ /\ index - 1 \notin DOMAIN disk
        /\ UNCHANGED <<disk, removed, failed>>
  /\ index' = index - 1
  /\ Goto(t, IF index > 1 THEN "remove" ELSE "reopen")
  /\ UNCHANGED <<initialized, mutex, fileLogger, streamVars, sizeVars, now,
                 boundVars>>

\* Mutant: the size of the new file is not read.
ReopenKeepsSize(t) ==
  /\ pc[t] = "reopen"
  /\ output' = "open"
  /\ disk' = IF 0 \in DOMAIN disk THEN disk ELSE With(0, <<>>)
  /\ Goto(t, "write")
  /\ UNCHANGED <<initialized, mutex, fileLogger, unflushed, ptr, fault,
                 currentFileSize, flushedTime, lastTime, written, now, index,
                 boundVars, removed, failed>>

Reopen(t) ==
  /\ pc[t] = "reopen"
  /\ \/ /\ OpenAppend
        /\ Goto(t, "write")
        /\ UNCHANGED failed
     \/ /\ Fails("open")
        /\ output' = "null"
        /\ Goto(t, "unlock")
        /\ UNCHANGED <<disk, currentFileSize>>
  /\ UNCHANGED <<initialized, mutex, fileLogger, unflushed, ptr, fault,
                 flushedTime, lastTime, written, now, index, boundVars,
                 removed>>

-----------------------------------------------------------------------------
(* vflog and logger_flush                                                  *)

\* Mutant: the difference of two times is signed.
FlushDueSigned(time) ==
  FlushInterval > 0 /\ time - flushedTime > FlushInterval

\* The difference is unsigned: a time before the last flush is far after it.
FlushDue(time) ==
  FlushInterval > 0 /\ (time - flushedTime) % Modulus > FlushInterval

Write(t) ==
  /\ pc[t] = "write"
  /\ IF output # "open"
     THEN /\ fault' = "write"
          /\ UNCHANGED <<disk, currentFileSize, flushedTime, unflushed,
                         lastTime, written>>
     ELSE /\ written' = written + 1
          /\ \E l \in Lens :
               /\ disk' = [disk EXCEPT ![0] = Append(@, [id |-> written', len |-> l])]
               /\ currentFileSize' = currentFileSize + l
          /\ lastTime' = now[t]
          /\ IF FlushDue(now[t])
             THEN unflushed' = 0 /\ flushedTime' = now[t]
             ELSE unflushed' = unflushed + 1 /\ UNCHANGED flushedTime
          /\ UNCHANGED fault
  /\ Goto(t, "unlock")
  /\ UNCHANGED <<initialized, mutex, fileLogger, output, ptr, now, index,
                 boundVars, removed, failed>>

\* Mutant: a failure returns with the mutex locked.
UnlockUnlessFailed(t) ==
  /\ pc[t] = "unlock"
  /\ mutex' = IF output = "null" THEN mutex ELSE Null
  /\ Goto(t, "idle")
  /\ UNCHANGED <<initialized, fileLogger, streamVars, sizeVars, disk, now,
                 index, boundVars, removed, failed>>

Unlock(t) ==
  /\ pc[t] = "unlock"
  /\ mutex' = Null
  /\ now' = [now EXCEPT ![t] = 0]
  /\ Goto(t, "idle")
  /\ UNCHANGED <<initialized, fileLogger, streamVars, sizeVars, disk, index,
                 boundVars, removed, failed>>

\* logger_flush reads the pointer and uses it, without the mutex.
FlushRead(t) ==
  /\ pc[t] = "idle"
  /\ fileLogger /\ initialized
  /\ ptr' = [ptr EXCEPT ![t] = CASE output = "open"   -> "live"
                                 [] output = "closed" -> "dead"
                                 [] output = "null"   -> "none"]
  /\ Goto(t, "flush")
  /\ UNCHANGED <<initialized, mutex, fileLogger, output, unflushed, fault,
                 sizeVars, disk, now, index, boundVars, removed, failed>>

\* fflush of NULL flushes every stream.
FlushCall(t) ==
  /\ pc[t] = "flush"
  /\ IF ptr[t] = "dead"
     THEN fault' = "fflush" /\ UNCHANGED unflushed
     ELSE unflushed' = 0 /\ UNCHANGED fault
  /\ ptr' = [ptr EXCEPT ![t] = "none"]
  /\ Goto(t, "idle")
  /\ UNCHANGED <<initialized, mutex, fileLogger, output, sizeVars, disk, now,
                 index, boundVars, removed, failed>>

\* The process ends and starts again with the files that are on disk.
Crash ==
  /\ crashes < MaxCrashes
  /\ crashes' = crashes + 1
  /\ disk' = IF 0 \in DOMAIN disk
             THEN [disk EXCEPT ![0] = SubSeq(@, 1, Len(@) - unflushed)]
             ELSE disk
  /\ initialized' = FALSE /\ mutex' = Null /\ fileLogger' = FALSE
  /\ output' = "null" /\ unflushed' = 0
  /\ currentFileSize' = 0 /\ flushedTime' = 0 /\ lastTime' = 0
  /\ pc' = [t \in Threads |-> "idle"]
  /\ now' = [t \in Threads |-> 0]
  /\ ptr' = [t \in Threads |-> "none"]
  /\ index' = 0
  /\ UNCHANGED <<fault, msgs, inits, written, removed, failed>>

Step(t) ==
  \/ InitTest(t) \/ MutexInit(t) \/ SetInitialized(t) \/ InitLock(t)
  \/ InitClose(t) \/ InitOpen(t)
  \/ Log(t) \/ LogLock(t) \/ RotateTest(t) \/ RotateClose(t)
  \/ Remove(t) \/ Rename(t) \/ Reopen(t) \/ Write(t) \/ Unlock(t)
  \/ FlushRead(t) \/ FlushCall(t)

\* Nothing follows the use of a bad stream.
Next ==
  /\ fault = "none"
  /\ \/ \E t \in Threads : Step(t)
     \/ Crash

Spec == Init /\ [][Next]_vars

-----------------------------------------------------------------------------
(* Properties                                                              *)

Inside == {"initClose", "initOpen", "rotate", "close", "remove", "rename",
           "reopen", "write", "unlock"}
Outside == {"idle", "mutexInit", "initialized", "initLock", "logLock", "flush"}

Numbers == 0..MaxBackupFiles

TypeOK ==
  /\ initialized \in BOOLEAN /\ fileLogger \in BOOLEAN
  /\ mutex \in Threads \cup {Null}
  /\ output \in {"null", "open", "closed"}
  /\ fault \in {"none", "fclose", "fflush", "write"}
  /\ DOMAIN disk \subseteq Numbers
  /\ \A k \in DOMAIN disk : disk[k] \in Seq([id : Nat \ {0}, len : Lens])
  /\ output = "open" => 0 \in DOMAIN disk
  /\ unflushed \in Nat
  /\ unflushed > 0 => output = "open" /\ unflushed <= Len(disk[0])
  /\ currentFileSize \in Nat
  /\ flushedTime \in Times /\ lastTime \in Times
  /\ written \in Nat
  /\ pc \in [Threads -> Inside \cup Outside]
  /\ now \in [Threads -> Times]
  /\ index \in Numbers
  /\ (\E t \in Threads : pc[t] \in {"remove", "rename"}) => index > 0
  /\ ptr \in [Threads -> {"none", "live", "dead"}]
  /\ msgs \in Nat /\ inits \in Nat /\ crashes \in Nat
  /\ removed \subseteq Nat
  /\ failed \subseteq Failable

\* With one thread that initialises, every thread inside a call but
\* logger_flush holds the mutex, so the calls exclude each other and none
\* returns with the mutex held, on no path out of an error either.
LockExact == \A t \in Threads : pc[t] \in Inside <=> mutex = t

\* Between calls, while the file is open, the size that decides when to rotate
\* is the size of the file, across rotations, failures, restarts and files
\* that were there before.
SizeRight == mutex = Null /\ output = "open" => currentFileSize = Size(disk[0])

\* A file with a higher number holds older messages, and a file holds its
\* messages in the order they were written, whatever has failed or crashed
\* between two renames.
OrderKept ==
  /\ \A j, k \in DOMAIN disk : j < k =>
       \A m \in Ids(disk[j]), n \in Ids(disk[k]) : n < m
  /\ \A k \in DOMAIN disk : \A m, n \in DOMAIN disk[k] :
       m < n => disk[k][m].id < disk[k][n].id

\* As long as no rename fails, the newest messages are kept in files of limited
\* size: what has been removed is older than all that stays, and a file exceeds
\* the maximum by less than its last message, also after a failed fopen or
\* remove.  Without backup files nothing limits the log file: it is opened again
\* at its end.
NewestKept ==
  MaxBackupFiles > 0 /\ "rename" \notin failed =>
    \A k \in DOMAIN disk :
      /\ \A m \in removed, n \in Ids(disk[k]) : m < n
      /\ disk[k] # <<>> => Size(disk[k]) < MaxFileSize + disk[k][Len(disk[k])].len

\* Under the mutex a stream that is not open is used in one way only: when
\* fopen has failed, the size left from the file that was too large makes the
\* next call close NULL.
StreamsLive == fault \in {"fclose", "write"} => fault = "fclose" /\ "open" \in failed

\* With automatic flush, a message that may still be lost was written no more
\* than the interval after the last flush, though the clock may be set back
\* and threads may write in another order than they took their times.
FlushedInTime ==
  FlushInterval > 0 /\ unflushed > 0 =>
    lastTime \in flushedTime..(flushedTime + FlushInterval)

\* notes.txt calls the logger thread safe: no call uses a stream that another
\* has closed.  logger_flush, which takes no mutex, does.
ThreadSafe == fault = "none"
=============================================================================
