----------------------------- MODULE MCPrograms -----------------------------
(***************************************************************************)
(* Instances of the specifications that are small: the benchmark itself    *)
(* with all six programs; log.c and slog with two threads each; how zf_log *)
(* makes a line; and the parts of zlog that other modules take as given,   *)
(* its hash table, its levels, its configuration and its log file that     *)
(* others rotate.  They are never linked into one program, or share        *)
(* nothing: part says which one a behavior is of, and the others stay      *)
(* where they start.                                                       *)
(***************************************************************************)
EXTENDS Slog, StaticFile, Message, Levels, Conf, LogC, Benchmark, HashTable, TLC

CONSTANTS
  t1, t2, f1, f2

VARIABLE part

programVars == <<part, benchVars, logCVars, slogVars, tableVars, fileVars, messageVars,
                 levelVars, confVars>>

ASSUME BenchmarkAssumption /\ LogCAssumption /\ SlogAssumption
ASSUME HashTableAssumption /\ StaticFileAssumption
ASSUME MessageAssumption /\ ConfAssumption
ASSUME LevelsAssumption /\ DefaultLevelsAssumption

\* Both outputs or the screen alone, with and without the heap.
TheOutputs == [nToScreen : {TRUE}, nToFile : BOOLEAN, nUseHeap : BOOLEAN]

\* Two keys of one chain, and two that a rehash sends to different ones.
TheHash == "a" :> 0 @@ "b" :> 1 @@ "c" :> 2 @@ "d" :> 2

\* A failure, nothing, one byte and more than what may be left.
TheMsgSizes == {-1, 0, 1, 4}

\* zlog_level_list_set_default, in its order.
TheDefaultLevels ==
  <<<<"*", 0>>, <<"DEBUG", 20>>, <<"INFO", 40>>, <<"NOTICE", 60>>, <<"WARN", 80>>,
    <<"ERROR", 100>>, <<"FATAL", 120>>, <<"UNKNOWN", 254>>, <<"!", 255>>>>

\* A level at either end of the range, beside it, and in the first byte.
TheLevelLines ==
  {<<"DEBUG", 255>>, <<"TRACE", 15>>, <<"TRACE", -1>>, <<"TRACE", 256>>, <<"TRACE", 0>>,
   <<"DEBUG", 8>>}

TheSelectors == {"=", "!", "*", "."} \X {"*", "DEBUG", "TRACE", "!"}

\* The files of log.c are alike.
FilesAlike == Permutations({f1, f2})

Init ==
  /\ part \in {"benchmark", "log.c", "slog", "table", "file", "message", "levels", "conf"}
  /\ InitBenchmark /\ InitLogC /\ InitSlog /\ InitTable
  /\ InitFile /\ InitMessage /\ InitLevels /\ InitConf
  /\ part # "benchmark" => program = "control"
  /\ part # "conf" => cfgSource = "NO_CFG" /\ ~envStrict

\* The parts that do not run.
Others(name) ==
  /\ part = name
  /\ UNCHANGED part
  /\ name # "benchmark" => UNCHANGED benchVars
  /\ name # "log.c" => UNCHANGED logCVars
  /\ name # "slog" => UNCHANGED slogVars
  /\ name # "table" => UNCHANGED tableVars
  /\ name # "file" => UNCHANGED fileVars
  /\ name # "message" => UNCHANGED messageVars
  /\ name # "levels" => UNCHANGED levelVars
  /\ name # "conf" => UNCHANGED confVars

Next ==
  \/ Others("benchmark") /\ NextBenchmark
  \/ Others("log.c") /\ NextLogC
  \/ Others("slog") /\ NextSlog
  \/ Others("table") /\ NextTable
  \/ Others("file") /\ NextFile
  \/ Others("message") /\ NextMessage
  \/ Others("levels") /\ NextLevels
  \/ Others("conf") /\ NextConf

Spec == Init /\ [][Next]_programVars

\* The run also checks the properties that the parts state of themselves.  Those
\* that do not run have not moved since Init, where their properties hold too.

\* The variables of the part have their types.
TypeOK ==
  CASE part = "benchmark" -> BenchTypeOK
    [] part = "log.c" -> LogCTypeOK
    [] part = "slog" -> SlogTypeOK
    [] part = "table" -> TableTypeOK
    [] part = "file" -> FileTypeOK
    [] part = "message" -> MessageTypeOK
    [] part = "levels" -> LevelsTypeOK
    [] part = "conf" -> ConfTypeOK
=============================================================================
