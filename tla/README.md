# Specifications of c-log-test

c-log-test compares five C logging libraries, whose sources it contains, by
running the same computation under each of them. This directory specifies the
programs and the libraries in TLA+: modules that follow the code step by step,
TLC configurations that check them on small instances, and theorems, checked by
TLAPS, that hold for every value of the constants.

Paths below are relative to the root of the repository; `zlog/` stands for
`src/zlog/`, and so on.

## 1. The system

| Part | State | Operations | Works with |
|---|---|---|---|
| Programs and harness (`control.c` ... `zlog.c`, `shared/funcs.c`) | a recursion of `ackermann`, a thread, an exit status | set up the library, compute, log twice per call, tear down | one library each |
| zlog environment (`zlog.c`, `category*.c`, `thread.c`, `record*.c`) | `zlog_env_*`: configuration, categories, records, version, counter, one read-write lock; a thread object per thread | init, fini, reload, get category, set record, level switch, log, MDC | rules of the configuration, rendering, outputs |
| zlog rendering (`event.c`, `spec.c`, `format.c`, `buf.c`, `mdc.c`) | an event with caches and five buffers, all of one thread | make path and text of a message for every rule | clock, process number, allocator |
| zlog file rotation (`rotater.c` with its lock, `rule.c`) | the log file, its archives, a mutex and a record lock | write, test the size, roll or number | other processes at the same file |
| zlog outputs without rotation (`rule.c`) | descriptor, inode and fsync counter of a rule | write, open again when the file was moved | external log rotation |
| zlog configuration (`conf.c`, `rule.c`) | a configuration object while it is built | parse sections, options, formats and rules | environment |
| zlog levels (`level*.c`, `rule.c`) | an array of levels, a bitmap per rule and per category | set, look up, test | configuration, every logging call |
| zlog containers (`zc_hashtable.c`, `zc_arraylist.c`) | chains, arrays | put, get, delete, rehash | everything in zlog |
| c-logger (`c-logger/logger.c`) | the file stream, its size, the flush time, numbered backups, one mutex | init, log, rotate, flush | file system, clock |
| c-logger configuration (`c-logger/loggerconf.c`) | a parsed record | read a file | c-logger |
| log.c (`log-c/log.c`) | level, quiet, lock function, 32 callbacks | set, add callback, log | the program's lock, `localtime` |
| slog (`slog/slog.c`) | the configuration, a recursive mutex, screen and file | init, destroy, set, get, callback, display | the program's callback, which may call slog |
| zf_log time cache (`zf_log/zf_log.c`) | one `struct tm`, its second, an atomic mode word | get, set | clock, other threads |
| zf_log message (`zf_log/zf_log.c`) | a buffer with a position and an end | context, tag, source, text, hex lines | output functions |

The libraries share nothing with one another: each is linked into a program of
its own. `PROJECT.json` has the status of every part and the hazards, each at
its line.

What is hard in this code:

- *zlog environment.* The level of a message is tested before the lock is taken,
  while a reload clears and refills the bitmap in place; thread objects outlive
  the configuration they were made for; a counter is incremented under a read
  lock; every allocation can fail half way through a reload; and `zlog_fini`
  followed by another `zlog_init` is legal.
- *zlog rotation.* Threads and processes append while one of them renames a
  chain of files; a call may fail in the middle, a process may die between two,
  and an archive for which there is no memory is missing from the list.
- *zlog rendering.* Caches live from message to message, buffers lose their
  memory when `realloc` fails and get it back in one function only, and a limit
  cuts the text under a mark.
- *c-logger.* As for rotation, in one process and under a mutex that
  `logger_flush` does not take; sizes and times are cached in unsigned types.
- *zlog static file.* Another program moves the file away, at any moment; the
  threads that notice share the descriptor under a read lock.
- *zlog parts.* A chain must be right after a rehash that ran out of memory, a
  bitmap must agree with a test made elsewhere for every level, the -1 of an
  unknown name included, and an option of a configuration takes effect only on
  what is read after it.
- *zf_log.* A lock-free cache with an announced-readers protocol; a buffer whose
  pointers run ahead of its end, and in which a dump writes over its own line.
- *log.c and slog.* A lock that the program supplies, a static result of
  `localtime`, and a callback that runs under a recursive mutex.
- *Programs.* Five translations of one `LOG_LEVEL`.

## 2. Plan

In order of importance; each step is one specification with its runs and proofs.

| # | Modules | State |
|---|---|---|
| 1 | `ZlogRules`, `ZlogEnv`, `ZlogEnvProperties`; abstract `ZlogService`; proofs `ZlogEnvProofs` | done |
| 2 | `TimeCache`; abstract `TimeSource`; proofs in `ZfLogProofs` | done |
| 3 | `Rotater`; proofs `RotaterProofs` | done: all its properties are proved |
| 4 | `CLogger`; proofs `CLoggerProofs` | done: all its properties are proved |
| 5 | `Buf`, `Render`; proofs `RenderProofs` | done: all its properties are proved |
| 6 | `Benchmark`, `LogC`, `Slog`, checked together by `MCPrograms`; proofs `ProgramProofs` | done: all their properties are proved |
| 7 | `StaticFile`; proofs in `ZlogPartsProofs` | done |
| 8 | `HashTable`, which implements the abstract `Map`; proofs in `ZlogPartsProofs` | done: the refinement is proved |
| 9 | `Message`; proofs in `ZfLogProofs` | done |
| 10 | `Levels`; proofs in `ZlogPartsProofs` | done |
| 11 | `Conf`; proofs in `ZlogPartsProofs` | done |
| 12 | What is defined by recursion (the walks of `HashTable`, the powers of `Benchmark`) as recursive functions, so that it can be proved about | done |

Abstract specifications. `ZlogService` is what the environment promises to
threads that log: one configuration is in force, every category has exactly the
rules it gives, and all categories change together. `TimeSource` is what a
thread expects of a clock's local time: the time of the second it asked about.
`Map` is what the rest of zlog expects of the hash table: a map that owns its
objects, destroys each of them once, and is visited completely.

## 3. Modules

A comment `Mutant` marks a definition that is not part of a specification: it is
the definition below it with a plausible bug, and `PROJECT.json` pairs it with
the property that notices.

**ZlogRules, ZlogEnv, ZlogEnvProperties** (`zlog.c`, `category.c`,
`category_table.c`, `thread.c`, `record*.c`). `readers` and `writer` are
`zlog_env_lock`. A whole operation under the write lock is one step (`ZlogInit`,
`DzlogInit`, `ZlogFini`, `ZlogGetCategory`, `DzlogSetCategory`, `ZlogSetRecord`,
`ZlogLevelSwitch`) since nothing outside the lock reads what it writes; a reload
is one step per write that the unlocked level test can see (`ZlogReload`,
`UpdateClear`, `UpdateFill`, `UpdateFails`, `ReloadCommit`). A logging call is
`ZlogTest` or `VdzlogTest` (without the lock), `ZlogLock` or `VdzlogLock`,
`FetchThread` with every outcome of rebuilding the thread object, `Output`,
`CountLoad` and `CountStore` (one `++` that is not atomic), `Exit` and, if the
counter asked for it, `AutoReload`. `DzlogLock` is the family `dzlog`, which makes its
test under the lock; `PutMdcLock` and `MdcLock` are the four operations on the
diagnostic context. A configuration is a record of rules, buffer size, number
of time formats and reload period; a list of rules is the set of their
positions together with the configuration object they belong to, so that a
dangling list is visible. `counted` and `switched` are history.

**TimeCache** (`time_callback`, `tcache_get`, `tcache_set`). One action per
atomic access to `g_tcache_mode`, and one per plain access to the cached time.
The mode word is two bits and a count, which is exact for fewer than 2^30
threads.

**Rotater** (`zlog_rule_output_*_rotate` and `rotater.c`). One action per system
call: `Open`, `Write`, `Stat`, `TryLock`, `Restat`, `List`, `MoveUp` (rolling),
`Expire` (a sequence), `MoveBase`, `Unlock`, `Return`; `Crash` ends a process,
and `Reconfigure` is a reload that changes the way of numbering. A file is
named by its order of creation, so that age can be compared. Which calls may fail
is the constant `Failable`: opening, writing, `unlink`, `rename`, the making of the
list as a whole (`"list"`: the array, `glob`, `sortadd`; the rotation ends) and the
`calloc` of one entry (`"calloc"`: `rotater.c:147` and `209`; the archive is left out
and the rotation goes on). `partial` is the history of the latter.

**CLogger** (`logger.c`). One action per access outside the mutex or call on
the file system inside it: `InitTest`, `MutexInit`, `SetInitialized`,
`InitLock`, `InitClose`, `InitOpen`; `Log`, `LogLock`, `RotateTest`,
`RotateClose`, `Remove`, `Rename`, `Reopen`, `Write`, `Unlock`; `FlushRead` and
`FlushCall`; `Crash`. `unflushed` counts messages that are still in the stream;
a crash may lose any number of them.

**Buf, Render** (`buf.c`; `event.c`, `spec.c`, `format.c`, the outputs of
`rule.c`). `Buf` has the buffer as a value and `Put` as what all of its writing
functions share, with `PutChecked` for those that test `start`. `Render` writes
the conversions of every rule of a message one by one; `realloc` may fail
wherever it is called. A character is known by the kind, the value and the
position of the text it is of, so that a stale cache shows in the output. A time
and a fraction of a second (`%ms`, `%us`: `ConvertFraction`) read the clock if none
of the message has before; a process number asks for it; the other conversions
have no state of their own (`Plain`).

**Benchmark** (`shared/funcs.c`, six `main`). `ackermann` as a machine with a
stack of the calls that wait; levels are translated as each program does.
**LogC** (`log.c`). `SetLock`, `Set`, `AddFind`, `AddStore`, `AddReturn`, `Log`,
and for each slot `WriteHead`, `UseNull`, `WriteTail`, `Skip`; `LogReturn`. A line
is written in two steps because `localtime`'s result is read between them.
**Slog** (`slog.c`). A stack of calls per thread, as the callback may call slog
again; a step is one access to the configuration, one output or one operation
on the mutex.

**StaticFile** (`zlog_rule_output_static_file_single`, `zlog_rule_new`,
`zlog_rule_del`). One action per system call of a message (`Stat`, `Close`,
`Open`, `Restat`, `Save`, `Write`, `Sync`), with failures; `Move`, `Create`,
`OtherOpens` and `OtherCloses` are what the rest of the machine may do meanwhile,
and `Reload` makes the rule anew. A file is named by its order of creation,
which stands for device and inode, and a descriptor is the lowest free number.

**HashTable, Map** (`zc_hashtable.c`). One action per function: `PutKey` (with its
cases `Replace`, `Insert` and `RehashFails`), `RemoveKey`, `Clean`, and an
iteration in steps (`Begin`, `Advance`). Entries are linked as in the code, so
that a link to a freed entry is visible; `ImplementsMap` reads the contents off
the chains. `Walk` follows pointers for as many steps as there are pointers, which
is the end of any chain without a cycle; that the chains have none is part of
what is proved (`TableInv`).

**Message** (`zf_log.c`). `SetFormat` and `SetOutput` are the setters; `Write`
makes the line of a call, part by part, with every pointer of the code; `output_mem`
makes one line of a dump. A character is known by its part and its place.

**Levels** (`level.c`, `level_list.c`, `zc_arraylist.c`, the bitmaps and the
test of `rule.c` and `category.c`). `Line` is a line of `[levels]`, `Rule` a rule
that matches the category. Bytes are sets of bits; the remainder of a negative
level is C's.

**Conf** (`conf.c`; `zlog_format_new` and `zlog_rule_new` for what they take and
leave). `Source` says where a configuration comes from; `ReadLine` has one
disjunct per kind of line and of error, `ReadPart` is a continued line, `End`
builds what the sections left, and `NoFile` and `BuildWithoutFile` are the other
ways through `zlog_conf_new`. `held` and `discarded` are history.

**MCZlogEnv, MCTimeCache, MCRotater, MCCLogger, MCRender, MCPrograms** give the
constants their values for TLC. `MCPrograms` brings eight specifications
together that share nothing (each names its initial states, steps and types
after itself); its variable `part` says which one a behavior is of, and the
others stay where they start, so that one run checks each of them alone.

## 4. Runs

| Run | Question | Bounds |
|---|---|---|
| `env` | Does the environment stay consistent, and implement `ZlogService`, under every interleaving and every failure but that of a rule list in an update? | 2 threads, 2 categories, 2 levels, 2 configurations, 6 calls, 3 configuration objects |
| `env_live` | Does every call return, on every error path, every failure included? | 2 threads, 1 category, 5 calls |
| `env_rollback` | Does a failed reload leave the old configuration working? *No.* | 1 thread, 5 calls |
| `time_cache` | Is the cache free of races and leaks, right for every thread, and refilled? | 3 threads, 2 seconds, no bound on steps |
| `rotater` | Is no archive lost or misplaced while threads and processes write, fail and crash, but by a rotation whose list lacks one? | 3 threads in 2 processes, limit of 2 archives, 5 messages, 1 crash; every call of `Failable` may fail |
| `rotater_switch` | Do archives move up only? *Not after `#s` becomes `#r`.* | 1 thread, 3 archives, 8 messages |
| `clogger` | Sizes, order, limits, streams and automatic flushing | 2 threads, 2 backups, 4 messages, 2 initialisations, 1 crash, times 0, 1 and 3 |
| `clogger_flush` | Is every stream in use open? *Not in `logger_flush`.* | no failure, no crash |
| `render` | Are buffers kept in bounds, and is what is output this message's whole text? | 2 messages, 2 rules, limits 0, 2 and 7 |
| `programs` | Do the programs count right? Do log.c and slog keep lines, callbacks and order, and does a line of zf_log stay in its buffer and show all? Is the hash table a map, do levels and bitmaps agree, is an accepted configuration usable, is a file that is moved away followed? | 6 programs, 6 levels, `ackermann(3, 1)`; log.c: 2 threads, 2 slots, 2 messages; slog: 2 threads, depth 2, 3 messages, 4 changes; 4 keys that share slots, 4 puts, a table of 1 slot; 1 writer, 3 descriptors, 3 messages, 2 moves, 1 reload; a buffer of 12 bytes, a dump of 0 or 3 bytes; 1 line of `[levels]`, 2 rules; 3 time caches, 1 format, 2 rules |
| `benchmark_count` | Do all programs log the same number of messages? *slog does not.* | `ackermann(3, 1)` |
| `static_file` | Does a message of several threads go to a log file? *Not always.* | 2 threads, 2 messages, 1 move, nothing fails |

The runs in italics are violations; each is a finding in `PROJECT.json` that
quotes the line of documentation it contradicts.

Why the bounds suffice. In `env` six calls reach init, a category, a log call
that passes the unlocked test, a reload that overtakes it, a fini and a second
init; three configuration objects let a thread object or list be older by two.
In `rotater` and `clogger` the number of messages exceeds what the archives
hold, so that the limit is enforced more than once, the second time after a
failure or a crash left a gap. Three threads in `time_cache` give a reader, a
writer and a third that marks the cache stale between them. In `render` the
limits are the smallest that is shorter than the mark, one that cuts within a
conversion, and none; the two rules use every kind of conversion of the model, the
first may fail before anything has read the clock, and the second message finds the caches of the first. The hash table starts with one slot, so
that four puts rehash it twice and its chains have up to four entries; the
buffer of a message is shorter than all its parts together, so that a call is
cut within any of them; two moves of a log file with a third message reach the
window between `open` and the second `stat`; and what may go wrong in a
configuration takes at most one format, two rules and three caches. A second
slot and a second message are what a torn line or a reordering needs. A `Max...`
constant that is called a bound where it is declared limits a counter of calls,
messages or crashes, and appears in guards only.

`CHECK_DEADLOCK FALSE` is set wherever the bounds let a program end; `time_cache`
has no bound and checks for deadlock.

What the properties say, beyond types:

- `UsesFreshThread`, `ServedByCurrentConf`, `BitmapExact`, `RecordsWired`,
  `DefaultAlive`: what survives from one configuration into the next is right
  once nobody is rebuilding. `AutoReloadEarned`: what no step may do.
  `CallsReturn`: no path keeps the lock.
- `NoRace`: the announced readers of zf_log; `ImplementsTimeSource`: each thread
  gets its own second; `Refilled`: a leak would stop the cache for ever with no
  other symptom.
- `NoFileLost`, `NumbersTellAge`, `NewestKept`, `LockExact` of `Rotater`, the first
  three as long as every rotation had all archives in its list (section 7);
  `SizeRight`, `OrderKept`, `NewestKept`, `StreamsLive`, `FlushedInTime`,
  `LockExact` of `CLogger`.
- `InBounds`, `OutputIsWhole`, `CutAtLimit` of `Render`.
- `Measured` of `Benchmark`; `LinesWhole` of `LogC`; `OneOrder` and
  `CallbackPaired` of `Slog`.
- `FollowsRotation` of `StaticFile`: where messages go, which descriptors are
  left, how many messages wait for fsync. `InBuffer` and `LinesExact` of `Message`.
  `LevelsExact` of `Levels`: a bitmap asked before a message is made against the
  decision after it. `ConfUsable` of `Conf`: what is accepted can be used, and
  what is refused leaves nothing open. `ImplementsMap` of `HashTable`.

`Measured` states results in closed form: A(3, n) = 2^(n+3) - 3 (`Value`), computed
with (128 * 4^n - 120 * 2^n + 9n + 37) / 3 calls (`CallsOf`), which is 44698325 at
n = 10, the number README.md publishes. The powers are `TwoTo`, a recursive
function. The proof shows that these forms obey the recursion of `ackermann`.

## 5. Fairness

`env_live` assumes weak fairness of `Continue(t)`, the steps of a thread that is
inside a call: the operating system runs a thread that can run. No call is
assumed to start. Weak fairness is enough because calls are bounded: glibc's
read-write lock prefers readers by default, so with endless logging a writer
might wait for ever, and the property does not claim otherwise. `time_cache`
assumes weak fairness of the steps inside `time_callback`, none of which blocks,
and nothing about starting calls. The other runs assume no fairness.

## 6. Proofs

All theorems hold for every value of the constants that satisfies the `ASSUME`
of the module.

| Module | Theorem | Argument |
|---|---|---|
| `ZlogEnvProofs` | `TypeCorrect` | `TypeInv` = types, `LockInv` (who holds what where), `EnvInv` (which pointers are not NULL). Types alone are not inductive: `Output` reads `env`, which is a configuration only while a reader is inside. |
| | `FreshThreadUsed` | `FreshInv`: a thread object of the current version has the current sizes, and none is of a version to come. Without the second part the next reload could make an old object current. |
| | `ReadersProtected`, `VersionGrows` | action properties from `TypeInv` |
| | `ServedCurrent`, `LevelTestExact` | `CatInv`: during a reload each category is stable, cut or moved, according to `todo` and `filling`. Both assume `"update" \notin Failable`, which `env_rollback` shows to be needed. |
| | `RecordsStayWired`, `DefaultStaysAlive` | `ConfInv`: the record table of the configuration in force, and that of one being loaded, hold what was registered; identities of configurations are never given twice. |
| | `ReloadsEarned` | `CountInv`: the unlocked counter may lose messages, but counts none twice, so it never runs ahead of what was counted. |
| | `ServiceImplemented` | `ServiceSteps`: what a step may change that `ZlogService` sees; `ServedRules`: under `CatInv` a category is served by its list in the configuration in force, found in `fit` or in `fitBack`. Assumes `"update" \notin Failable`. |
| `ZfLogProofs` | `TypeCorrect`, `CacheRaceFree`, `CacheRight`, `ModeWordExact` | `IInv` adds to the properties what a thread knows at each place (`Knows`): a reader that has announced itself and seen a readable word finds the cached time equal to the cached second until it withdraws. Counting readers uses the cardinality of the set of announced threads. |
| | `GivesOwnSecond` | refinement of `TimeSource`: every step maps to a step or a stutter under `IInv` |
| | `LineInBuffer` | `Inside(m)`: the position never passes the area of the end of line; `DumpInv` puts hexadecimal and text columns of a dump, and the end of line, before the end of the buffer. `put_nprintf` is given one byte more than is left and takes it back. |
| | `LinesAreExact` | `Content(m, t)`: the buffer holds as much of the text t as there is room for, which every part that is put keeps for the text with that part behind it; so a line is cut once. `TagMarked`: the marks are where prefix and tag begin and end in that text, cut as it is. `LinesInv` adds what a dump needs: the buffer begins as the first line does up to where the message began (`Header`), and the rows so far show the bytes so far (`DumpShown`); both are needed, since the buffer of the message is used again for every row. A row is written out character by character (`RowChar`), its columns are blocks of it (`ColumnBlock`), and the column of joined texts is their columns joined (`ColumnConcat`). |
| `RotaterProofs` | `OneRotates` | `LockInv`: the locks and the places of the threads agree |
| | `TypeCorrect` | `TypeInv` = types, `AtFiles` (while a thread rotates, the log file is there) and `Listed` (the names it has still to come to in its list are in the directory, since only one thread rotates), also in a list that lacks archives and when the numbering changes. `AtExists`: a finite set of numbers has an element at each position below its cardinality. |
| | `NothingLost`, `AgeInNumbers`, `NewestStay` | `WholeLists`: until a rotation has gone by a list that lacked an archive (`partial`, which stays), `FileInv`. The numbers of rolled archives are 0 to k but for at most one hole, which moves down as `MoveUp` goes through the list (`Holed`, `Rolling`); a rotation that failed or died leaves a hole that the next one starts from. The numbers of a sequence have none (`SeqShape`). Only one rotation is under way, so the list it read is still what is on the disk, but for what it moved itself (`Rolling`, `Expiring`). All assume `~Switch`: `rotater_switch` shows that a change of numbering breaks them. |
| `CLoggerProofs` | `CallsExclude` | `MutexInv`; assumes `OneInitialiser`, since two first initialisations do break the mutex (`logger.c:52`) |
| | `StreamsStayLive` | `StreamInv`: the stream is closed only within a call; same assumption |
| | `FlushedWithinInterval` | `FlushInv`; assumes `ClockFits`: a time plus the interval does not reach 2^64 |
| | `OrderPreserved` | `OrderInv`: the file with number k holds older messages than that with k - 1, whatever gaps there are. No rename reverses two files, so that not even exclusion is needed. |
| | `TypeCorrect`, `SizeFollows` | `TypeInv` (where a thread may be with which stream) and `SizeInv`: while the stream is open the cached size is that of the file, which is a sum by a recursive function. Both assume `OneInitialiser`. |
| | `NewestStay` | `KeptInv`: how far a rotation has come (`Gap`: the number a file moves to is free), that what was removed is older than all that is left, and that no file was too large before its last message (`Small`). Says nothing after a rename that failed, since the next one then overwrites, nor for `MaxBackupFiles = 0`. Assumes `OneInitialiser`. |
| `RenderProofs` | `TypeCorrect`, `NoWriteBeyond`, `WholeIsOutput`, `FullIsMarked` | `TypeInv`: every buffer is sound, its end is that of its memory or the limit, and holds its text. `EventInv`: what the caches of time and process say is what they are asked about. `TextInv`: at each place a buffer holds the text of the conversions before the one in hand, and what that has written and has still to write is its own text; when the limit is reached, the buffer has the beginning of that with the mark. Texts are joined by `FlattenSeq`, a recursive function. |
| `ProgramProofs` | `PairedCalls`, `SameOrder` | `StackInv` (only the last call of a thread runs, the others wait for a callback) and `MutexInv` (the depth of the mutex is the number of calls of its owner that have not released it) make a thread that is between two outputs or two stores *alone*. `PairInv`: callback and context agree, but between the two stores. `OrderInv`: a message on its way to the file is the last one on the screen, or not on it. |
| | `MessagesWhole` | `LogCInv`. `SlotsInv` and `AdderInv`: slots are filled from the first on, a full slot has a stream of its own, and the one being filled is free. `OwedInv`: what a message is owed is in a slot its thread has still to pass, or is written. `LockInv`: with a lock, the time that `localtime` left is that of the message being written; `WholeInv`: a head without a tail is the last part of its stream, and somebody is about to end it. Assumes `OneAdder`: of two threads that add at the same moment one loses its callback (`log.c:118`, which takes no lock). |
| | `BenchmarkMeasured`, `BenchmarkTypes` | `BenchInv`. `Ack` and `Cost`: the value of a call of `ackermann` and the calls it makes in all, itself included; `AckRecursion`: they obey its three equations, of which the one for m = 3 needs that the sum of powers in `CallsOf` is divisible by 3 (`CallsExact`). `Waits`: every call on the stack of those that wait will return its value after as many calls as it costs, so the outermost returns A(3, n) when all are made, and as many calls have been logged as have been made. `WrittenIsPublished`: each of the four counted programs translates every level into as many messages per call as are published. Assumes `AckermannM = 3`, the value in `shared/funcs.h:7`. |
| `ZlogPartsProofs` | `RotationFollowed` | `FileInv(w)`: what the thread knows of path, descriptor and inode at each place, and which descriptors are whose. Assumes one writer, which the run `static_file` shows to be needed. |
| | `LevelsAgree` | `BitmapOfRule`: the bitmap a rule computes holds exactly the levels its test lets pass, also for level -1, whose quotient and remainder are C's; `RoomForAll`: the default levels have made the array large enough for every level a line may set. |
| | `ConfigurationUsable` | `ConfInv`: `CachesInv` (no time cache is given to two patterns, and each has a number below the count), `StageInv` (before the rules there is neither default format nor rotater, from then on there are both, and a period of fsync ends before the next reload) and `held` counts what the parts of the configuration hold open, in whatever order it was built. |
| | `TableInvariant`, `TableIsMap` | `TableInv`: the entries have ranks such that `next` leads to the entry of the same slot with the next lower rank, `prev` to that with the next higher one, and a head is the entry of its slot with the highest (`Linked`), so that a chain has no cycle and holds each entry of its slot once; no two entries have one key or one object, and no object in the table was destroyed. `Entry(k)` is then the only entry with that key, an iteration visits every entry once, and `Rehashed`, a recursive function over the iteration, pushes each into the new table once (the invariant of that loop says which entries are in which table). `TableIsMap`: with that each action maps to one of `Map` or a stutter, where the keys still ahead of an iteration are those of the entries its walk has yet to meet. |

What a recursive function computes for every input needs an induction, whose
library theorems no installed prover can apply, since they take an operator as a
parameter. `SequenceLemmas` has it without one: the set of the numbers at which a
claim fails has a least element (`Least`, from the well-foundedness of < on Nat),
so that a set with 0 and with n + 1 for each n in it holds all of Nat
(`Inductive`), and what is defined by recursion exists (`Recursion`). On these rest the sums of `Size` in `CLogger`, `FlattenSeq`
in `Render` and `Message`, the walks and the rehash of `HashTable` and the powers of
`Benchmark`.

Model-checked only: `TypeOK` of `MCPrograms`, which only collects the types of the
parts, each of which is part of an invariant that is proved. Beyond the prover:
`CallsReturn` and `Refilled` (liveness under fairness).

## 7. Assumptions of the models

- *zlog environment.* `zlog_fini` is called only when no thread is between its
  level test and the lock, and `zlog_level_switch` only when no thread is in
  zlog: the code has no defence against either. A failed `dzlog_init` leaves the
  configuration and tables behind, a failed `dzlog_set_category` loses the
  previous default, the message counter survives fini and init, and the
  diagnostic context survives in the thread object: all as in the code.
- *Rotater.* `zlog_file_check_new` returns NULL for an archive it gets no memory
  for, its caller takes it for a file that does not match, and the rotation goes
  on with a shorter list. Files are then overwritten: with archives 0 and 1, of
  which 1 is not in the list, rolling renames 0 to 1; a sequence whose last
  archive is not in the list gives its number to the log file. So `NoFileLost`,
  `NumbersTellAge` and `NewestKept` hold while `partial` is FALSE; without that
  condition TLC finds each of them violated, and so the theorems have it too.
  `LockExact` and the types do not need it. Failures of `close`, and of
  `stat` other than by a missing file, are not modelled: they end the output
  with the files as they are. Nor are those of `fcntl`: when it cannot lock, that is
  as if another process had the lock; the unlock of a descriptor that is open
  does not fail.
  Nobody else removes files or puts some that match the pattern. A
  sequence keeps one archive more than the limit (`NewestKept` says so). A change
  of numbering with archives present happens in `rotater_switch` only. When
  `stat` fails under the lock (`rotater.c:543`), the message has been written
  but its output reports failure.
- *CLogger.* One thread initialises. The last message may exceed the maximum
  size that logger.h:46 describes; `NewestKept` states the exact bound. After a
  failed `fopen` the next rotation calls `fclose(NULL)`, which `StreamsLive`
  admits and names. With no backups
  (`maxBackupFiles` 0) a file that is too large is opened again at its end and
  grows. A failing size query is not modelled, nor are the console
  logger and the level test.
- *Render.* A fork or a change of the diagnostic context
  happens between messages. `size_real` is kept after a failed `realloc`, where
  `buf.c:156` says "fail, set size_real to -1". `zlog_buf_append`
  does not test `start` as the other writing functions do, so that a buffer
  without memory gets new memory there, of a size computed from the old one. A
  text that is cut by that has another end than the limit gives it, or something
  that was never written behind it: `misfit` is the history of it, and the
  properties about texts say nothing of the rest of such a rule.
  `zlog_category_output` returns the result of its last rule.
  The conversion `%g(...)` is left out since its pattern never parses. A buffer that
  is full makes `zlog_format_gen_msg` report failure, where `format.c:145` says
  "return 0 success, or buf is full"; the rule then puts nothing out, and
  `CutAtLimit` states what is in the buffer.
- *LogC.* A program that sets a lock (`log-c.c`, with one thread, sets none) does
  so before the first message, and one thread adds callbacks. The store of a
  callback may be seen torn (`UseNull`).
- *Slog.* `slog_init` and `slog_destroy` run when no thread is in slog; calls of
  two threads overlap only if `nTdSafe` was asked for. Text is left out.
- *Benchmark.* `NDEBUG` is not defined, as in the makefile. A slog program whose
  file cannot be opened reports success; the others fail.
- *StaticFile.* `fsync` succeeds. A file that was moved away is not moved back, and
  no inode is used again. If the file is moved and made again between `open` and
  the second `stat`, the rule remembers the new inode with the old descriptor
  and keeps writing to the moved file: `raced` marks it, and `FollowsRotation`
  admits it. `zlog_rule_del` closes a descriptor only if it is above 0.
- *HashTable.* Callers keep others away from a table that changes, and change
  none that they iterate over.
- *Message.* Setters are called between messages only: `zf_log_set_output_v` is
  three plain stores. A width of 0 for dumps is left out: the loop of `output_mem`
  would not end. The build has no `ZF_LOG_OPTIMIZE_SIZE`.
- *Levels.* The default levels are set in the order of `level_list.c`, which
  decides how the array grows; only the growth of a list that has the memory it
  asks for is modelled.
- *Conf.* Characters are abstracted to what a line says. As in the code: a last line
  that ends in a backslash is dropped, in strict mode too; a comment is an error
  in a text in memory; a `buffer min` above `buffer max` is accepted here and refused by
  `zlog_buf_new` later; `rule.c:538` tests `path_specs` again where `specs`
  was meant. Allocations fail in `zc_arraylist_add` only.

## 8. Not modelled

- The characters of configuration lines, rules and patterns
  (`zlog_rule_new`, `zlog_spec_new`, `zlog_level_new` up to their results): string
  work in one thread. `Conf`, `Levels`, `ZlogRules` and `Render` start from what a
  line says.
- c-logger's configuration (`loggerconf.c`): key=value lines that end in the
  initialisation `CLogger` models. `loggerconf.c:160` stores an int in an
  unsigned char after a test of its lower bound only.
- Pipe, standard output and error, and syslog: one write without state. `Render`
  has the dynamic file, which is opened and closed for each message.
- The console logger of c-logger, and the colors, dates and tags of slog.
- `zc_profile.c` (zlog's diagnostics), the string conversions of `zc_util.c`,
  syslog priorities of levels, and the makefiles: no property here depends on a
  state of theirs.
