------------------------------- MODULE Rotater -------------------------------
(***************************************************************************)
(* A log file of zlog that is rotated by size (rule.c, rotater.c): threads *)
(* of several processes append messages to it, and the one that finds it   *)
(* too large moves it away under a number, while the others go on writing. *)
(* One thread at a time rotates: a mutex keeps the threads of a process    *)
(* apart and a record lock on a lock file the processes.  A thread that    *)
(* cannot get the lock does not wait, it leaves the file as it is.         *)
(*                                                                         *)
(* A step is one system call.  A process may crash between any two: the    *)
(* system gives its locks back and the files stay as they are.             *)
(*                                                                         *)
(* A file is named by the order of its creation, so a smaller name is an   *)
(* older file; size[f] is its length.  A directory entry is base, the log  *)
(* file's own path, or a number of arch.                                   *)
(*                                                                         *)
(* A definition marked Mutant is not part of the specification: it is a    *)
(* definition with a bug that a property has to notice.                    *)
(***************************************************************************)
EXTENDS Integers, Sequences, FiniteSets

CONSTANTS
  Threads,    \* threads that write the log file
  Procs,      \* processes
  ProcOf,     \* the process of a thread
  Lens,       \* lengths of messages
  MaxSize,    \* archive_max_size
  MaxCount,   \* archive_max_count, 0 for no limit
  Kinds,      \* mv_type in the configurations used: "roll", "seq"
  Switch,     \* is mv_type changed while there are archives
  Failable,   \* calls that may fail
  MaxMsgs,    \* bound: messages written
  MaxCrashes, \* bound: crashes of a process
  Null

ASSUME RotaterAssumption ==
  /\ ProcOf \in [Threads -> Procs]
  /\ Lens \subseteq Nat \ {0}
  /\ MaxSize \in Nat \ {0} /\ MaxCount \in Nat
  /\ Kinds \subseteq {"roll", "seq"} /\ Kinds # {}
  /\ Switch \in BOOLEAN
  /\ Failable \subseteq {"open", "write", "list", "calloc", "unlink", "rename"}
  /\ MaxMsgs \in Nat /\ MaxCrashes \in Nat
  /\ Null \notin Threads \cup Procs \cup Nat

VARIABLES
  base,     \* the file at base_path, or Null
  arch,     \* the archives: a function from numbers to files
  size,     \* the lengths of the files created so far
  kind,     \* mv_type of the configuration in force
  mutex,    \* lock_mutex of each process: its holder or Null
  flock,    \* the process that holds the record lock, or Null
  pc, len, fd,   \* of each thread: where it is, msg_len, the open file
  files,    \* the numbers a rotating thread found by glob
  pos,      \* the position in that list it has come to
  ret,      \* what its output function returns: 0 or -1
  msgs, crashes,   \* counted for the bounds
  removed,  \* history: the files removed by unlink
  partial   \* history: has a rotation gone by a list that lacked an archive

fileVars == <<base, arch, size, removed>>
lockVars == <<mutex, flock>>
threadVars == <<len, fd, files, pos, ret>>
histVars == <<msgs, crashes, partial>>
vars == <<fileVars, kind, lockVars, pc, threadVars, histVars>>

Created == DOMAIN size
Stored  == {arch[k] : k \in DOMAIN arch}

Goto(t, where) == pc' = [pc EXCEPT ![t] = where]

MayFail(point) == point \in Failable

Init ==
  /\ base = Null
  /\ arch = [k \in {} |-> 0]
  /\ size = <<>> /\ removed = {}
  /\ kind \in Kinds
  /\ mutex = [p \in Procs |-> Null] /\ flock = Null
  /\ pc = [t \in Threads |-> "idle"]
  /\ len = [t \in Threads |-> 0]
  /\ fd = [t \in Threads |-> Null]
  /\ files = [t \in Threads |-> {}]
  /\ pos = [t \in Threads |-> 0]
  /\ ret = [t \in Threads |-> 0]
  /\ msgs = 0 /\ crashes = 0 /\ partial = FALSE

\* The output function returns with what it has put in ret.
Finish(t, r) ==
  /\ ret' = [ret EXCEPT ![t] = r]
  /\ Goto(t, "done")

-----------------------------------------------------------------------------
(* zlog_rule_output_static_file_rotate                                     *)

Open(t) ==
  /\ pc[t] = "idle"
  /\ msgs < MaxMsgs
  /\ msgs' = msgs + 1
  /\ \E l \in Lens : len' = [len EXCEPT ![t] = l]
  /\ \/ /\ Goto(t, "write")
        /\ UNCHANGED ret
        /\ IF base = Null
           THEN /\ size' = Append(size, 0)
                /\ base' = Len(size')
           ELSE UNCHANGED <<base, size>>
        /\ fd' = [fd EXCEPT ![t] = base']
     \/ /\ MayFail("open")
        /\ Finish(t, -1)
        /\ UNCHANGED <<base, size, fd>>
  /\ UNCHANGED <<arch, removed, kind, lockVars, files, pos, crashes, partial>>

\* write and close; a message longer than the limit does not rotate.
Write(t) ==
  /\ pc[t] = "write"
  /\ fd' = [fd EXCEPT ![t] = Null]
  /\ \/ /\ size' = [size EXCEPT ![fd[t]] = @ + len[t]]
        /\ IF len[t] > MaxSize
           THEN Finish(t, 0)
           ELSE Goto(t, "stat") /\ UNCHANGED ret
     \/ /\ MayFail("write")
        /\ Finish(t, -1)
        /\ UNCHANGED size
  /\ UNCHANGED <<base, arch, removed, kind, lockVars, len, files, pos,
                 histVars>>

\* A file that is gone may be in rotation.
Stat(t) ==
  /\ pc[t] = "stat"
  /\ IF base = Null \/ size[base] + len[t] < MaxSize
     THEN Finish(t, 0)
     ELSE Goto(t, "lock") /\ UNCHANGED ret
  /\ UNCHANGED <<fileVars, kind, lockVars, len, fd, files, pos, histVars>>

-----------------------------------------------------------------------------
(* zlog_rotater_rotate                                                     *)

\* Mutant: only the threads of one process are kept apart.
TryLockMutexOnly(t) ==
  /\ pc[t] = "lock"
  /\ IF mutex[ProcOf[t]] = Null
     THEN /\ mutex' = [mutex EXCEPT ![ProcOf[t]] = t]
          /\ flock' = ProcOf[t]
          /\ Goto(t, "restat") /\ UNCHANGED ret
     ELSE UNCHANGED lockVars /\ Finish(t, 0)
  /\ UNCHANGED <<fileVars, kind, len, fd, files, pos, histVars>>

\* zlog_rotater_trylock.
TryLock(t) ==
  /\ pc[t] = "lock"
  /\ IF mutex[ProcOf[t]] = Null /\ flock \in {Null, ProcOf[t]}
     THEN /\ mutex' = [mutex EXCEPT ![ProcOf[t]] = t]
          /\ flock' = ProcOf[t]
          /\ Goto(t, "restat") /\ UNCHANGED ret
     ELSE UNCHANGED lockVars /\ Finish(t, 0)
  /\ UNCHANGED <<fileVars, kind, len, fd, files, pos, histVars>>

\* A thread that holds the lock is done with the files.
Release(t, r) ==
  /\ ret' = [ret EXCEPT ![t] = r]
  /\ Goto(t, "unlock")

\* Mutant: a stat that fails is ignored.
RestatIgnoresMissing(t) ==
  /\ pc[t] = "restat"
  /\ \/ base # Null /\ size[base] + len[t] <= MaxSize /\ Release(t, 0)
     \/ /\ base # Null => size[base] + len[t] > MaxSize
        /\ Goto(t, "list") /\ UNCHANGED ret
  /\ UNCHANGED <<fileVars, kind, lockVars, len, fd, files, pos, histVars>>

\* The file may already have been rotated by another process or thread.
Restat(t) ==
  /\ pc[t] = "restat"
  /\ \/ base = Null /\ Release(t, -1)
     \/ base # Null /\ size[base] + len[t] <= MaxSize /\ Release(t, 0)
     \/ /\ base # Null /\ size[base] + len[t] > MaxSize
        /\ Goto(t, "list") /\ UNCHANGED ret
  /\ UNCHANGED <<fileVars, kind, lockVars, len, fd, files, pos, histVars>>

\* zlog_rotater_add_archive_files.  An archive for which zlog_file_check_new
\* gets no memory is left out of the list, and the rotation goes on; when the
\* list, glob or sortadd fails it does not.  roll_files walks backwards.
List(t) ==
  /\ pc[t] = "list"
  /\ \/ \E found \in SUBSET DOMAIN arch :
          /\ found = DOMAIN arch \/ MayFail("calloc")
          /\ files' = [files EXCEPT ![t] = found]
          /\ pos' = [pos EXCEPT ![t] =
               IF kind = "roll" THEN Cardinality(found) - 1 ELSE 0]
          /\ partial' = (partial \/ found # DOMAIN arch)
          /\ Goto(t, kind)
          /\ UNCHANGED ret
     \/ /\ MayFail("list")
        /\ Release(t, -1)
        /\ UNCHANGED <<files, pos, partial>>
  /\ UNCHANGED <<fileVars, kind, lockVars, len, fd, msgs, crashes>>

\* The number at position i of a sorted list.
At(ns, i) == CHOOSE n \in ns : Cardinality({m \in ns : m < n}) = i

Without(n) == [k \in DOMAIN arch \ {n} |-> arch[k]]

\* The directory after a rename of file f to number n.
With(dir, n, f) == [k \in DOMAIN dir \cup {n} |-> IF k = n THEN f ELSE dir[k]]

Unlink(n) ==
  /\ arch' = Without(n)
  /\ removed' = removed \cup {arch[n]}

\* Mutant: from the front of the list.
MoveUpFromFront(t) ==
  LET front == Cardinality(files[t]) - 1 - pos[t]
      n == At(files[t], front)
  IN /\ pc[t] = "roll" /\ pos[t] >= 0
     /\ IF n \in DOMAIN arch
        THEN arch' = With(Without(n), front + 1, arch[n])
        ELSE UNCHANGED arch
     /\ pos' = [pos EXCEPT ![t] = @ - 1]
     /\ UNCHANGED <<base, size, removed, kind, lockVars, pc, len, fd, files,
                    ret, histVars>>

\* zlog_rotater_roll_files, one archive: unlink it, or rename it to the number
\* after its position in the list.
MoveUp(t) ==
  LET n == At(files[t], pos[t])
  IN /\ pc[t] = "roll" /\ pos[t] >= 0
     /\ \/ /\ IF MaxCount > 0 /\ pos[t] >= MaxCount - 1
              THEN Unlink(n)
              ELSE /\ arch' = With(Without(n), pos[t] + 1, arch[n])
                   /\ UNCHANGED removed
           /\ pos' = [pos EXCEPT ![t] = @ - 1]
           /\ UNCHANGED <<pc, ret>>
        \/ /\ MayFail(IF MaxCount > 0 /\ pos[t] >= MaxCount - 1
                      THEN "unlink" ELSE "rename")
           /\ Release(t, -1)
           /\ UNCHANGED <<arch, removed, pos>>
     /\ UNCHANGED <<base, size, kind, lockVars, len, fd, files, histVars>>

\* Mutant: the list is expired from its newest end.
ExpireNewest(t) ==
  /\ pc[t] = "seq" /\ pos[t] < Cardinality(files[t])
  /\ IF MaxCount > 0 /\ pos[t] >= MaxCount
     THEN Unlink(At(files[t], pos[t]))
     ELSE UNCHANGED <<arch, removed>>
  /\ pos' = [pos EXCEPT ![t] = @ + 1]
  /\ UNCHANGED <<base, size, kind, lockVars, pc, len, fd, files, ret, histVars>>

\* zlog_rotater_seq_files, one archive: the first ones are more than the
\* limit.
Expire(t) ==
  /\ pc[t] = "seq" /\ pos[t] < Cardinality(files[t])
  /\ \/ /\ IF MaxCount > 0 /\ pos[t] < Cardinality(files[t]) - MaxCount
           THEN Unlink(At(files[t], pos[t]))
           ELSE UNCHANGED <<arch, removed>>
        /\ pos' = [pos EXCEPT ![t] = @ + 1]
        /\ UNCHANGED <<pc, ret>>
     \/ /\ MayFail("unlink")
        /\ MaxCount > 0 /\ pos[t] < Cardinality(files[t]) - MaxCount
        /\ Release(t, -1)
        /\ UNCHANGED <<arch, removed, pos>>
  /\ UNCHANGED <<base, size, kind, lockVars, len, fd, files, histVars>>

\* Mutant: the first number that is free.
NextNumberFirstFree(ns) ==
  CHOOSE n \in 0..Cardinality(DOMAIN arch) :
    n \notin DOMAIN arch /\ \A m \in 0..(n - 1) : m \in DOMAIN arch

\* The number seq_files gives the log file: past the list and the last number.
NextNumber(ns) ==
  IF ns = {} THEN 0
  ELSE LET last == At(ns, Cardinality(ns) - 1)
       IN (IF last > Cardinality(ns) - 1 THEN last ELSE Cardinality(ns) - 1) + 1

\* The log file itself.
MoveBase(t) ==
  /\ \/ pc[t] = "roll" /\ pos[t] < 0
     \/ pc[t] = "seq" /\ pos[t] >= Cardinality(files[t])
  /\ LET n == IF pc[t] = "roll" THEN 0 ELSE NextNumber(files[t])
     IN \/ /\ arch' = With(arch, n, base)
           /\ base' = Null
           /\ Release(t, 0)
        \/ /\ MayFail("rename")
           /\ Release(t, -1)
           /\ UNCHANGED <<arch, base>>
  /\ UNCHANGED <<size, removed, kind, lockVars, len, fd, files, pos, histVars>>

\* Mutant: the mutex is given back and the record lock is not.
UnlockMutexOnly(t) ==
  /\ pc[t] = "unlock"
  /\ mutex' = [mutex EXCEPT ![ProcOf[t]] = Null]
  /\ Goto(t, "done")
  /\ UNCHANGED <<fileVars, kind, flock, threadVars, histVars>>

\* zlog_rotater_unlock.
Unlock(t) ==
  /\ pc[t] = "unlock"
  /\ mutex' = [mutex EXCEPT ![ProcOf[t]] = Null]
  /\ flock' = Null
  /\ Goto(t, "done")
  /\ UNCHANGED <<fileVars, kind, threadVars, histVars>>

-----------------------------------------------------------------------------
(* The rest of the world                                                   *)

\* The output function returns to its caller.
Return(t) ==
  /\ pc[t] = "done"
  /\ Goto(t, "idle")
  /\ len' = [len EXCEPT ![t] = 0]
  /\ files' = [files EXCEPT ![t] = {}]
  /\ pos' = [pos EXCEPT ![t] = 0]
  /\ ret' = [ret EXCEPT ![t] = 0]
  /\ UNCHANGED <<fileVars, kind, lockVars, fd, histVars>>

\* A process dies, and is started again.
Crash(p) ==
  LET Dead(t) == ProcOf[t] = p
  IN /\ crashes < MaxCrashes
     /\ crashes' = crashes + 1
     /\ \E t \in Threads : Dead(t) /\ pc[t] # "idle"
     /\ pc' = [t \in Threads |-> IF Dead(t) THEN "idle" ELSE pc[t]]
     /\ len' = [t \in Threads |-> IF Dead(t) THEN 0 ELSE len[t]]
     /\ fd' = [t \in Threads |-> IF Dead(t) THEN Null ELSE fd[t]]
     /\ files' = [t \in Threads |-> IF Dead(t) THEN {} ELSE files[t]]
     /\ pos' = [t \in Threads |-> IF Dead(t) THEN 0 ELSE pos[t]]
     /\ ret' = [t \in Threads |-> IF Dead(t) THEN 0 ELSE ret[t]]
     /\ mutex' = [mutex EXCEPT ![p] = Null]
     /\ flock' = IF flock = p THEN Null ELSE flock
     /\ UNCHANGED <<fileVars, kind, msgs, partial>>

\* The processes reload a configuration whose archive path says the other of
\* #r and #s; a reload waits for the threads that are writing.
Reconfigure ==
  /\ \A t \in Threads : pc[t] = "idle"
  /\ Switch \/ DOMAIN arch = {}
  /\ kind' \in Kinds \ {kind}
  /\ UNCHANGED <<fileVars, lockVars, pc, threadVars, histVars>>

Output(t) ==
  Open(t) \/ Write(t) \/ Stat(t) \/ Return(t)

Rotate(t) ==
  TryLock(t) \/ Restat(t) \/ List(t) \/ MoveUp(t) \/ Expire(t) \/ MoveBase(t)
  \/ Unlock(t)

Next ==
  \/ \E t \in Threads : Output(t) \/ Rotate(t)
  \/ \E p \in Procs : Crash(p)
  \/ Reconfigure

Spec == Init /\ [][Next]_vars

-----------------------------------------------------------------------------
Places == {"idle", "write", "stat", "lock", "restat", "list", "roll", "seq",
           "unlock", "done"}

\* Threads inside of zlog_rotater_rotate that got the lock.
Rotating ==
  {t \in Threads : pc[t] \in {"restat", "list", "roll", "seq", "unlock"}}

\* Every variable holds a value of its kind.
TypeOK ==
  /\ size \in Seq(Nat)
  /\ base \in Created \cup {Null}
  /\ DOMAIN arch \subseteq Nat /\ Stored \subseteq Created
  /\ removed \subseteq Created
  /\ kind \in Kinds
  /\ mutex \in [Procs -> Threads \cup {Null}]
  /\ flock \in Procs \cup {Null}
  /\ pc \in [Threads -> Places]
  /\ len \in [Threads -> Lens \cup {0}]
  /\ fd \in [Threads -> Created \cup {Null}]
  /\ files \in [Threads -> SUBSET Nat]
  /\ pos \in [Threads -> Nat \cup {-1}]
  /\ ret \in [Threads -> {0, -1}]
  /\ partial \in BOOLEAN

\* One thread of all processes rotates at a time, and the locks are held
\* exactly while one does: a lock that stays behind would end rotation without
\* a message, as trylock never waits.
LockExact ==
  /\ \A t, u \in Rotating : t = u
  /\ \A p \in Procs : mutex[p] # Null <=> \E t \in Rotating : ProcOf[t] = p
  /\ \A t \in Rotating : mutex[ProcOf[t]] = t /\ flock = ProcOf[t]
  /\ flock # Null => Rotating # {}

\* While every rotation had all archives in its list, no file disappears but by
\* the unlink that enforces the limit: no rename of a rotation, even one that
\* follows a crash or a failure half way through another, replaces an archive
\* that is still there.  (After a calloc that failed one does: with archives 0
\* and 1, of which only 0 is in the list, rename moves it onto 1.)
NoFileLost ==
  ~partial =>
    Created = removed \cup Stored \cup (IF base = Null THEN {} ELSE {base})

\* The numbers tell the age, also half way through a rotation and after a
\* crash: a rolled archive with a smaller number is newer, one in a sequence is
\* older; the log file is the newest.  Rotations that missed archives may
\* change their order.
NumbersTellAge ==
  ~partial =>
    /\ \A i, j \in DOMAIN arch :
         i < j => IF kind = "roll" THEN arch[i] > arch[j] ELSE arch[i] < arch[j]
    /\ base # Null => \A f \in Stored : f < base

\* The newest archives are kept, as many as the limit says: what it removes is
\* older than everything that stays, and archive_max_count rolled archives stay;
\* of a sequence one more, since it counts before it adds the log file.  An
\* archive that a rotation did not find it does not count.
NewestKept ==
  ~partial =>
    /\ \A f \in removed, g \in Created \ removed : f < g
    /\ MaxCount > 0 =>
         Cardinality(DOMAIN arch) <= IF kind = "roll" THEN MaxCount ELSE MaxCount + 1

\* rotater.c says of ROLLING: "aa.02->aa.03, aa.01->aa.02, aa->aa.01": an
\* archive moves to a larger number or stays.
RollsUp ==
  [][\A i \in DOMAIN arch, j \in DOMAIN arch' : arch[i] = arch'[j] => i <= j]_vars
=============================================================================
