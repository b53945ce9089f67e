------------------------------ MODULE Benchmark ------------------------------
(***************************************************************************)
(* The benchmark itself: the six programs (control.c, c-logger.c, log-c.c, *)
(* slog.c, zf_log.c and zlog.c) and what they share (shared/funcs.c).      *)
(* main makes one thread, which sets a logging library up for the level on *)
(* the command line, computes Ackermann's function with two messages per   *)
(* call, and tears the library down; main joins it and reports.            *)
(*                                                                         *)
(* The recursion of ackermann is a stack of the m of the calls that wait   *)
(* for their inner call.  A message is counted if the library writes it;   *)
(* how the libraries do that is in the other modules.                      *)
(*                                                                         *)
(* A definition marked Mutant is not part of the specification: it is a    *)
(* definition with a bug that a property has to notice.                    *)
(***************************************************************************)
EXTENDS Integers, Sequences, FiniteSets

CONSTANTS
  Programs,             \* the programs that are run
  Levels,               \* LOG_LEVEL
  AckermannM,           \* ACKERMANN_M
  AckermannN,           \* ACKERMANN_N
  SetupMayFail          \* whether a file, or the thread, cannot be made

BenchmarkAssumption ==
  /\ Programs \subseteq {"control", "c-logger", "log-c", "slog", "zf_log", "zlog"}
  /\ Levels \subseteq 0..5
  /\ AckermannM \in Nat /\ AckermannN \in Nat
  /\ SetupMayFail \in BOOLEAN

VARIABLES
  program, logLevel,    \* the program that runs and its argument
  phase,                \* how far it is
  m, n,                 \* of the call of ackermann that runs
  pending,              \* the m of the calls that wait, the outermost first
  result,               \* of the thread: a number or, when it has none, NULL
  opened,               \* whether the library has its file
  logged,               \* messages written to it
  status                \* what the program exits with

benchVars == <<program, logLevel, phase, m, n, pending, result, opened, logged, status>>

NULL == -1

\* The flags _slog_setup passes to slog_init: bit i, for i in 1..7, when i is
\* not below the level.
SlogFlags(level) == {i \in 1..7 : level <= i}

\* The level main of zf_log.c passes on: those of zf_log start at 1.
\* Mutant: it is passed as it is.
ZfLogLevelAsGiven(level) == level
ZfLogLevel(level) == level + 1

\* zlog.conf: the lowest level of the category for each level, and what zlog
\* compares.
ZlogLevels == [debug |-> 20, info |-> 40, notice |-> 60,
               warn |-> 80, error |-> 100, fatal |-> 120]
ZlogLowest(level) == <<"debug", "info", "notice", "warn", "error", "fatal">>[level + 1]

\* The messages of one call of the logging function that are written, by their
\* level or flag.
Written(p, level) ==
  CASE p = "control" -> {}
    [] p \in {"c-logger", "log-c"} -> {k \in {1, 3} : level <= k}
    [] p = "zf_log" -> {k \in {2, 4} : ZfLogLevel(level) <= k}
    [] p = "zlog" -> {name \in {"info", "warn"} :
                        ZlogLevels[ZlogLowest(level)] <= ZlogLevels[name]}
    [] p = "slog" -> {2, 4} \cap SlogFlags(level)

------------------------------------------------------------------------------
InitBenchmark ==
  /\ program \in Programs
  /\ logLevel \in (IF program = "control" THEN {0} ELSE Levels)
  /\ phase = "main"
  /\ m = AckermannM /\ n = AckermannN /\ pending = << >>
  /\ result = NULL
  /\ opened = FALSE
  /\ logged = 0
  /\ status = 0

\* pthread_create
ThreadStarts ==
  /\ phase = "main"
  /\ phase' = "setup"
  /\ UNCHANGED <<program, logLevel, m, n, pending, result, opened, logged, status>>

ReportFailure ==
  /\ phase' = "exited"
  /\ status' = -1
  /\ UNCHANGED <<program, logLevel, m, n, pending, result, opened, logged>>

ThreadRefused == phase = "main" /\ SetupMayFail /\ ReportFailure

\* The thread opens the file of the library, or has the library open it; the
\* control program has none.
HasFile == program # "control"

SetUp ==
  /\ phase = "setup"
  /\ opened' = HasFile
  /\ phase' = "timed"
  /\ UNCHANGED <<program, logLevel, m, n, pending, result, logged, status>>

\* All but slog end the thread, without a result, when that fails.
SetUpFails ==
  /\ phase = "setup" /\ SetupMayFail /\ HasFile
  /\ phase' = IF program = "slog" THEN "timed" ELSE "join"
  /\ UNCHANGED <<program, logLevel, m, n, pending, result, opened, logged, status>>

\* One call of ackermann: it logs, then returns to the call that waits for it,
\* which goes on with the value as its n, or calls itself.  slog opens the file
\* for each message and drops the message when it cannot.
Logging == logged' = logged + (IF opened THEN Cardinality(Written(program, logLevel)) ELSE 0)

Return(v) ==
  IF pending = << >>
    THEN /\ result' = v
         /\ phase' = "teardown"
         /\ UNCHANGED <<m, n, pending>>
    ELSE /\ m' = pending[Len(pending)]
         /\ n' = v
         /\ pending' = SubSeq(pending, 1, Len(pending) - 1)
         /\ UNCHANGED <<result, phase>>

Ackermann ==
  /\ phase = "timed"
  /\ Logging
  /\ \/ m = 0 /\ Return(n + 1)
     \/ m > 0 /\ n = 0 /\ m' = m - 1 /\ n' = 1 /\ UNCHANGED <<pending, result, phase>>
     \/ m > 0 /\ n > 0 /\ pending' = Append(pending, m - 1) /\ n' = n - 1
                       /\ UNCHANGED <<m, result, phase>>
  /\ UNCHANGED <<program, logLevel, opened, status>>

\* log-c closes its stream and zlog finishes; the others leave their streams to
\* exit, which flushes them.
TearDown ==
  /\ phase = "teardown"
  /\ opened' = IF program \in {"log-c", "zlog"} THEN FALSE ELSE opened
  /\ phase' = "join"
  /\ UNCHANGED <<program, logLevel, m, n, pending, result, logged, status>>

Joined ==
  /\ phase = "join" /\ result # NULL
  /\ phase' = "exited"
  /\ opened' = FALSE
  /\ UNCHANGED <<program, logLevel, m, n, pending, result, logged, status>>

NoResult == phase = "join" /\ result = NULL /\ ReportFailure

NextBenchmark == \/ ThreadStarts \/ ThreadRefused \/ SetUp \/ SetUpFails
        \/ Ackermann \/ TearDown \/ Joined \/ NoResult

SpecBenchmark == InitBenchmark /\ [][NextBenchmark]_benchVars

------------------------------------------------------------------------------
BenchTypeOK ==
  /\ program \in Programs /\ logLevel \in 0..5
  /\ phase \in {"main", "setup", "timed", "teardown", "join", "exited"}
  /\ m \in Nat /\ n \in Nat /\ pending \in Seq(Nat)
  /\ result \in Nat \cup {NULL}
  /\ opened \in BOOLEAN /\ logged \in Nat /\ status \in {0, -1}

\* The reference: A(3, n) and the number of calls it takes, in closed form.
\* With n = 10 the second is 44698325, the number the README reports.
TwoTo[k \in Nat] == IF k = 0 THEN 1 ELSE 2 * TwoTo[k - 1]
Value(k) == 8 * TwoTo[k] - 3
CallsOf(k) == (128 * TwoTo[k] * TwoTo[k] - 120 * TwoTo[k] + 9 * k + 37) \div 3

\* How many of the two messages of a call the README has a program write at a
\* level: both when verbose, one when less so, none above.
Published(level) == IF level <= 1 THEN 2 ELSE IF level <= 3 THEN 1 ELSE 0

Succeeded == phase = "exited" /\ status = 0

\* A program that reports success has computed A(3, n) with ackermann's own
\* recursion (funcs.c), whatever its setup met, and if it is not slog.c it has
\* written to its file exactly the published share of two messages per call.
Measured ==
  Succeeded =>
    /\ result = Value(AckermannN)
    /\ program \notin {"control", "slog"} =>
         logged = Published(logLevel) * CallsOf(AckermannN)

\* "All tests output the same number of log messages" (README.md): so does slog.
SameNumberOfMessages ==
  Succeeded /\ program # "control" =>
    logged = Published(logLevel) * CallsOf(AckermannN)
==============================================================================
