------------------------------ MODULE StaticFile ------------------------------
(***************************************************************************)
(* A log file of zlog that is not rotated by zlog itself (rule.c): its     *)
(* rule keeps a descriptor open, and before each message asks whether the  *)
(* path still leads to the file it opened, because another program may     *)
(* have moved that file away, and another process that logs there may have *)
(* made it again.  The threads share the rule under a read lock only.      *)
(*                                                                         *)
(* A step is one system call, with what is done to the rule before the     *)
(* next one.  Files are named in the order they are made, which stands for *)
(* device and inode.  A descriptor is the lowest number that is free, so a *)
(* number that was closed may soon be somebody else's file.                *)
(*                                                                         *)
(* A definition marked Mutant is not part of the specification: it is a    *)
(* definition with a bug that a property has to notice.                    *)
(***************************************************************************)
EXTENDS Integers, FiniteSets, FiniteSetsExt

CONSTANTS
  Writers,     \* threads that log
  Fds,         \* descriptor numbers
  FsyncPeriod, \* fsync_period of the rule
  Faults,      \* system calls that may fail
  MaxWrites,   \* bound: messages
  MaxMoves,    \* bound: times the log file is moved away
  MaxReloads,  \* bound: times the rule is made anew
  NoEntry

\* Instantiated, so stated as a definition that the module of a run assumes.
StaticFileAssumption ==
  /\ Fds \subseteq Nat \ {0} /\ Fds # {}
  /\ FsyncPeriod \in Nat
  /\ Faults \subseteq {"stat", "open", "restat", "write"}
  /\ {MaxWrites, MaxMoves, MaxReloads} \subseteq Nat
  /\ NoEntry \notin Nat

VARIABLES
  atPath,   \* the file at file_path, or NoEntry
  made,     \* how many files have been made there
  fdTable,  \* what the descriptors of the process are of; 0 is not the log
  rule,     \* static_fd, static_ino, fsync_count
  pc,
  stb,      \* st_ino as a thread found it, NoEntry for ENOENT
  seen,     \* history: the files at the path during a thread's call
  wrote,    \* history: what the call has written to
  raced,    \* history: was the path moved between open and the second stat
  unsynced, \* history: messages in the open file since its last fsync
  writes, moves, reloads   \* counted for the bounds

pathVars == <<atPath, made>>
boundVars == <<writes, moves, reloads>>
fileVars == <<pathVars, fdTable, rule, pc, stb, seen, wrote, raced, unsynced, boundVars>>

\* What is written to: a file, another file of the process, or no file.
NotLog == 0
NoDescriptor == -1

FreeFds == Fds \ DOMAIN fdTable

WithFd(table, fd, file) ==
  [n \in DOMAIN table \cup {fd} |-> IF n = fd THEN file ELSE table[n]]
WithoutFd(table, fd) == [n \in DOMAIN table \ {fd} |-> table[n]]

FileGoto(t, where) == pc' = [pc EXCEPT ![t] = where]

WritersIdle == \A t \in Writers : pc[t] = "idle"

\* The file at the path after an open with O_CREAT, and those who see it there.
Found == IF atPath = NoEntry THEN made + 1 ELSE atPath

PathBecomes(file) ==
  /\ atPath' = file
  /\ seen' = [t \in Writers |-> IF pc[t] = "idle" \/ file = NoEntry THEN seen[t]
                                ELSE seen[t] \cup {file}]

OpenPath ==
  /\ made' = IF atPath = NoEntry THEN made + 1 ELSE made
  /\ PathBecomes(Found)

InitFile ==
  /\ atPath = 1 /\ made = 1
  /\ fdTable = [n \in {Min(Fds)} |-> 1]
  /\ rule = [fd |-> Min(Fds), ino |-> 1, count |-> 0]
  /\ pc = [t \in Writers |-> "idle"]
  /\ stb = [t \in Writers |-> NoEntry]
  /\ seen = [t \in Writers |-> {}]
  /\ wrote = [t \in Writers |-> NoEntry]
  /\ raced = FALSE
  /\ unsynced = 0
  /\ writes = 0 /\ moves = 0 /\ reloads = 0

-----------------------------------------------------------------------------
(* zlog_rule_output_static_file_single                                     *)

CallOutput(t) ==
  /\ pc[t] = "idle"
  /\ writes < MaxWrites
  /\ writes' = writes + 1
  /\ FileGoto(t, "stat")
  /\ seen' = [seen EXCEPT ![t] = {atPath} \ {NoEntry}]
  /\ wrote' = [wrote EXCEPT ![t] = NoEntry]
  /\ UNCHANGED <<pathVars, fdTable, rule, stb, raced, unsynced, moves, reloads>>

\* The call returns -1.
WriteFails(t) == FileGoto(t, "idle")

\* Mutant: a file that is missing is not one that has changed.
MovedUnlessMissing == atPath # NoEntry /\ atPath # rule.ino

\* do_file_reload
Moved == atPath # rule.ino

Stat(t) ==
  /\ pc[t] = "stat"
  /\ \/ /\ stb' = [stb EXCEPT ![t] = atPath]
        /\ FileGoto(t, IF Moved THEN "close" ELSE "write")
     \/ /\ "stat" \in Faults
        /\ WriteFails(t)
        /\ UNCHANGED stb
  /\ UNCHANGED <<pathVars, fdTable, rule, seen, wrote, raced, unsynced, boundVars>>

\* Closing a number that is not open fails, which nobody asks about.
Close(t) ==
  /\ pc[t] = "close"
  /\ fdTable' = WithoutFd(fdTable, rule.fd)
  /\ FileGoto(t, "open")
  /\ UNCHANGED <<pathVars, rule, stb, seen, wrote, raced, unsynced, boundVars>>

Open(t) ==
  LET fd == Min(FreeFds) IN
  /\ pc[t] = "open"
  /\ \/ /\ FreeFds # {}
        /\ OpenPath
        /\ fdTable' = WithFd(fdTable, fd, Found)
        /\ rule' = [rule EXCEPT !.fd = fd]
        /\ raced' = FALSE
        /\ unsynced' = 0
        /\ FileGoto(t, IF stb[t] = NoEntry THEN "restat" ELSE "save")
     \/ /\ "open" \in Faults \/ FreeFds = {}
        /\ rule' = [rule EXCEPT !.fd = -1]
        /\ WriteFails(t)
        /\ UNCHANGED <<pathVars, fdTable, seen, raced, unsynced>>
  /\ UNCHANGED <<stb, wrote, boundVars>>

\* The path was empty: what is there now should be the file just opened.
Restat(t) ==
  /\ pc[t] = "restat"
  /\ \/ /\ atPath # NoEntry
        /\ stb' = [stb EXCEPT ![t] = atPath]
        /\ FileGoto(t, "save")
     \/ /\ atPath = NoEntry \/ "restat" \in Faults
        /\ WriteFails(t)
        /\ UNCHANGED stb
  /\ UNCHANGED <<pathVars, fdTable, rule, seen, wrote, raced, unsynced, boundVars>>

Save(t) ==
  /\ pc[t] = "save"
  /\ rule' = [rule EXCEPT !.ino = stb[t]]
  /\ FileGoto(t, "write")
  /\ UNCHANGED <<pathVars, fdTable, stb, seen, wrote, raced, unsynced, boundVars>>

\* write, to whatever the number is of by now.
WriteFile(t) ==
  /\ pc[t] = "write"
  /\ \/ /\ rule.fd \in DOMAIN fdTable
        /\ wrote' = [wrote EXCEPT ![t] = fdTable[rule.fd]]
        /\ unsynced' = unsynced + 1
        /\ FileGoto(t, IF FsyncPeriod = 0 THEN "idle" ELSE "sync")
     \/ /\ rule.fd \notin DOMAIN fdTable \/ "write" \in Faults
        /\ wrote' = [wrote EXCEPT ![t] =
                       IF rule.fd \in DOMAIN fdTable THEN @ ELSE NoDescriptor]
        /\ WriteFails(t)
        /\ UNCHANGED unsynced
  /\ UNCHANGED <<pathVars, fdTable, rule, stb, seen, raced, boundVars>>

\* fsync, whose failure is reported only, when the count has come to the period.
Sync(t) ==
  LET due == rule.count + 1 >= FsyncPeriod IN
  /\ pc[t] = "sync"
  /\ rule' = [rule EXCEPT !.count = IF due THEN 0 ELSE @ + 1]
  /\ unsynced' = IF due THEN 0 ELSE unsynced
  /\ FileGoto(t, "idle")
  /\ UNCHANGED <<pathVars, fdTable, stb, seen, wrote, raced, boundVars>>

-----------------------------------------------------------------------------
(* Everybody else                                                          *)

\* Another program moves the file away.
Move ==
  /\ atPath # NoEntry
  /\ moves < MaxMoves
  /\ moves' = moves + 1
  /\ PathBecomes(NoEntry)
  /\ raced' = (raced \/ \E t \in Writers : pc[t] = "restat")
  /\ UNCHANGED <<made, fdTable, rule, pc, stb, wrote, unsynced, writes, reloads>>

\* It puts an empty one in its place.
Create ==
  /\ atPath = NoEntry
  /\ OpenPath
  /\ UNCHANGED <<fdTable, rule, pc, stb, wrote, raced, unsynced, boundVars>>

\* The rest of a process opens and closes a file of its own.
OtherOpens ==
  /\ \A n \in DOMAIN fdTable : fdTable[n] # NotLog
  /\ FreeFds # {}
  /\ fdTable' = WithFd(fdTable, Min(FreeFds), NotLog)
  /\ UNCHANGED <<pathVars, rule, pc, stb, seen, wrote, raced, unsynced, boundVars>>

OtherCloses ==
  /\ \E n \in DOMAIN fdTable :
       /\ fdTable[n] = NotLog
       /\ fdTable' = WithoutFd(fdTable, n)
  /\ UNCHANGED <<pathVars, rule, pc, stb, seen, wrote, raced, unsynced, boundVars>>

\* A reload, under the write lock: zlog_rule_new opens the file and takes its
\* inode from the descriptor, then zlog_rule_del closes the old one.
Reload ==
  LET fd == Min(FreeFds) IN
  /\ WritersIdle
  /\ reloads < MaxReloads
  /\ reloads' = reloads + 1
  /\ FreeFds # {}
  /\ OpenPath
  /\ fdTable' = WithFd(WithoutFd(fdTable, rule.fd), fd, Found)
  /\ rule' = [fd |-> fd, ino |-> Found, count |-> 0]
  /\ raced' = FALSE
  /\ unsynced' = 0
  /\ wrote' = [t \in Writers |-> NoEntry]
  /\ UNCHANGED <<pc, stb, writes, moves>>

NextFile ==
  \/ \E t \in Writers :
       \/ CallOutput(t) \/ Stat(t) \/ Close(t) \/ Open(t) \/ Restat(t) \/ Save(t)
       \/ WriteFile(t) \/ Sync(t)
  \/ Move
  \/ Create
  \/ OtherOpens \/ OtherCloses \/ Reload

SpecFile == InitFile /\ [][NextFile]_fileVars

-----------------------------------------------------------------------------
(* Properties                                                              *)

\* The variables have their types.
FileTypeOK ==
  /\ made \in Nat /\ atPath \in 1..made \cup {NoEntry}
  /\ DOMAIN fdTable \subseteq Fds
  /\ \A n \in DOMAIN fdTable : fdTable[n] \in 0..made
  /\ rule.fd \in Fds \cup {-1} /\ rule.ino \in 1..made
  /\ rule.count \in Nat /\ unsynced \in Nat /\ raced \in BOOLEAN
  /\ pc \in [Writers -> {"idle", "stat", "close", "open", "restat", "save", "write", "sync"}]
  /\ stb \in [Writers -> 1..made \cup {NoEntry}]
  /\ seen \in [Writers -> SUBSET (1..made)]
  /\ wrote \in [Writers -> -1..made \cup {NoEntry}]

\* One thread that logs: a message that is written goes to a file that was the
\* log file during the call, unless the file it had just made was moved away and
\* another put in its place before the second stat; the rule leaks no
\* descriptor; and the file in use never has fsync_period messages in it that
\* have not been synced.
FollowsRotation ==
  /\ \A t \in Writers :
       \/ wrote[t] = NoEntry
       \/ wrote[t] \in seen[t]
       \/ raced /\ wrote[t] \in 1..made
  /\ WritersIdle =>
       /\ {n \in DOMAIN fdTable : fdTable[n] # NotLog} \subseteq {rule.fd}
       /\ FsyncPeriod > 0 => unsynced < FsyncPeriod

\* src/notes.txt:236 says of zlog "Thread safe (automatic)": a message is written
\* to a log file, never to a closed descriptor or to another file of the program.
ThreadSafe == \A t \in Writers : wrote[t] \notin {NoDescriptor, NotLog}
=============================================================================
