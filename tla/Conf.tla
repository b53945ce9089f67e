--------------------------------- MODULE Conf ---------------------------------
(***************************************************************************)
(* How zlog reads a configuration (conf.c, with zlog_format_new and        *)
(* zlog_rule_new for what they take and leave): a file with comments and   *)
(* continued lines, a text in memory, or nothing.                          *)
(*                                                                         *)
(* A line is the record of what it says: the section it is for, the name   *)
(* of a section, an option or a format, a number n (the value of an        *)
(* option, or how many time formats its patterns hold), the output of a    *)
(* rule, and whether it is valid.  A time format is an index into the time *)
(* caches of a thread, of which there are time_cache_count.                *)
(*                                                                         *)
(* A definition marked Mutant is not part of the specification: it is a    *)
(* definition with a bug that a property has to notice.                    *)
(***************************************************************************)
EXTENDS Integers, Sequences, SequencesExt, FiniteSets, FiniteSetsExt

CONSTANTS
  FormatNames, \* names for formats
  Periods,     \* values for fsync period and reload conf period
  Outputs,     \* outputs of rules
  MaxCaches,   \* bound: time_cache_count
  MaxFormats,  \* bound: formats
  MaxRules     \* bound: rules

ConfAssumption ==
  /\ Periods \subseteq Nat \ {0}
  /\ Outputs \subseteq {"static", "sync", "rotate", "dynamic", "pipe", "other", "wrong"}
  /\ MaxCaches \in Nat /\ MaxFormats \in Nat /\ MaxRules \in Nat

VARIABLES
  cfgSource,   \* cfg_source: FILE_CFG, IN_MEMORY_CFG or NO_CFG
  envStrict,   \* is ZLOG_STRICT_INIT in the environment
  section,     \* [global:1] [levels:2] [formats:3] [rules:4]
  continued,   \* did the last line of the file end in a backslash
  conf,        \* the zlog_conf_t
  state,       \* reading, ok, or failed
  held,        \* descriptors and pipes that its parts have open
  discarded    \* history: was a line ignored because strict init is off

confVars == <<cfgSource, envStrict, section, continued, conf, state, held, discarded>>

Sections == <<"global", "levels", "formats", "rules">>

\* The outputs whose path or archive path may hold time formats, and those whose
\* rule keeps something open.
WithPath == {"rotate", "dynamic", "other"}
Holding == {"static", "sync", "pipe"}

LinesOf(for, names, ns, outputs, valids) ==
  [for : {for}, name : names, n : ns, output : outputs, valid : valids]

\* The lines that are read.
Lines ==
  LinesOf("section", {Sections[i] : i \in 1..4}, {0}, {""}, {TRUE})
    \cup LinesOf("section", {"wrong"}, {0}, {""}, {FALSE})
    \cup LinesOf("levels", {""}, {0}, {""}, BOOLEAN)
    \cup LinesOf("global", {"no option", "malformed"}, {0}, {""}, {TRUE})
    \cup LinesOf("global", {"strict init", "rotate lock file"}, 0..1, {""}, {TRUE})
    \cup LinesOf("global", {"default format"}, 0..1, {""}, BOOLEAN)
    \cup LinesOf("global", {"fsync period", "reload conf period"}, Periods, {""}, {TRUE})
    \cup LinesOf("formats", FormatNames, 0..1, {""}, BOOLEAN)
    \cup LinesOf("rules", FormatNames \cup {""}, 0..1, Outputs, BOOLEAN)

-----------------------------------------------------------------------------
(* Formats and rules                                                       *)

\* The indices zlog_spec_new gives to n time formats, and what it leaves.  They
\* are not given back when the pattern turns out to be wrong.
Times(c, n) == c.time_cache_count..c.time_cache_count + n - 1
Take(c, n) == [c EXCEPT !.time_cache_count = @ + n]

HasFormat(c, name) == name = "" \/ \E i \in DOMAIN c.formats : c.formats[i].name = name

\* The first format of that name, or 0 for default_format.
FormatOf(c, name) ==
  IF name = "" THEN 0 ELSE Min({i \in DOMAIN c.formats : c.formats[i].name = name})

\* The time formats zlog_rule_new comes to, in the path or the archive path.
PathTimes(c, line) == IF HasFormat(c, line.name) /\ line.output \in WithPath THEN line.n ELSE 0

RuleOf(c, line) ==
  [format |-> FormatOf(c, line.name), times |-> Times(c, PathTimes(c, line)),
   output |-> line.output,
   fsync_period |-> IF line.output = "sync" THEN 0 ELSE c.fsync_period]

\* Mutant: the paths count their time formats in a copy.
AfterRuleOwnCount(c, line) == c

AfterRule(c, line) == Take(c, PathTimes(c, line))

RuleValid(c, line) == line.valid /\ HasFormat(c, line.name) /\ line.output # "wrong"

-----------------------------------------------------------------------------
(* zlog_conf_new                                                           *)

\* A name goes before ZLOG_CONF_PATH, and that before a text in memory.
Source(config, path) ==
  IF config = "name" \/ path THEN "FILE_CFG"
  ELSE IF config = "text" THEN "IN_MEMORY_CFG" ELSE "NO_CFG"

Defaults ==
  [strict_init |-> TRUE, fsync_period |-> 0, reload_conf_period |-> 0,
   lockable |-> TRUE, default_format_line |-> [n |-> 1, valid |-> TRUE],
   formats |-> <<>>, rules |-> <<>>, default_format |-> <<>>, rotater |-> FALSE,
   time_cache_count |-> 0]

InitConf ==
  /\ \E config \in {"", "name", "text"}, path \in BOOLEAN : cfgSource = Source(config, path)
  /\ envStrict \in BOOLEAN
  /\ section = 0
  /\ continued = FALSE
  /\ conf = Defaults
  /\ state = "reading"
  /\ held = 0
  /\ discarded = FALSE

\* What zlog_conf_del closes.
Closed(c) ==
  Cardinality({i \in DOMAIN c.rules : c.rules[i].output \in Holding})
    + (IF c.rotater THEN 1 ELSE 0)

Fail(c) ==
  /\ state' = "failed"
  /\ conf' = Defaults
  /\ held' = held - Closed(c)
  /\ UNCHANGED discarded

Accept(c) ==
  /\ conf' = c
  /\ UNCHANGED <<state, held, discarded>>

\* An error that only strict init makes fatal.
Tolerate(c) ==
  IF c.strict_init THEN Fail(c)
  ELSE /\ conf' = c
       /\ discarded' = TRUE
       /\ UNCHANGED <<state, held>>

-----------------------------------------------------------------------------
(* zlog_conf_parse_line                                                    *)

\* The section is known, and comes after the last one.
InOrder(line) == line.valid /\ \E i \in section + 1..4 : Sections[i] = line.name

\* A rule is made anew by each reload, and would never come to its fsync.
Fsync(c) ==
  IF c.reload_conf_period # 0 /\ c.fsync_period >= c.reload_conf_period THEN 0
  ELSE c.fsync_period

\* The rotater, which opens the lock file, and default_format.
Build(c) ==
  LET line == c.default_format_line
      made == [c EXCEPT !.rotater = TRUE, !.default_format = <<Times(c, line.n)>>]
  IN
  IF c.lockable /\ line.valid
    THEN /\ conf' = Take(made, line.n)
         /\ held' = held + 1
         /\ UNCHANGED <<state, discarded>>
    ELSE Fail(c)  \* the rotater, if it was made, is closed again

Section(line) ==
  /\ line.for = "section"
  /\ section' = IF line.valid THEN CHOOSE i \in 1..4 : Sections[i] = line.name ELSE section
  /\ IF ~InOrder(line) THEN Fail(conf)
     ELSE IF line.name = "rules" THEN Build([conf EXCEPT !.fsync_period = Fsync(conf)])
     ELSE Accept(conf)

Global(line) ==
  LET Set(name, field, value) == line.name = name /\ Accept([conf EXCEPT ![field] = value]) IN
  /\ section = 1
  /\ line.for = "global"
  /\ \/ Set("strict init", "strict_init", line.n = 1 \/ envStrict)
     \/ Set("fsync period", "fsync_period", line.n)
     \/ Set("reload conf period", "reload_conf_period", line.n)
     \/ Set("rotate lock file", "lockable", line.n = 1)
     \/ Set("default format", "default_format_line", [n |-> line.n, valid |-> line.valid])
     \/ line.name = "no option" /\ Tolerate(conf)
     \/ line.name = "malformed" /\ Fail(conf)
  /\ UNCHANGED section

Level(line) ==
  /\ section = 2
  /\ line.for = "levels"
  /\ IF line.valid THEN Accept(conf) ELSE Tolerate(conf)
  /\ UNCHANGED section

\* zlog_format_new
Format(line) ==
  LET c == Take(conf, line.n) IN
  /\ section = 3
  /\ line.for = "formats"
  /\ Len(conf.formats) < MaxFormats
  /\ c.time_cache_count <= MaxCaches
  /\ IF line.valid
       THEN \/ Accept([c EXCEPT !.formats =
                         Append(@, [name |-> line.name, times |-> Times(conf, line.n)])])
            \/ Fail(conf)  \* zc_arraylist_add
       ELSE Tolerate(c)
  /\ UNCHANGED section

\* zlog_rule_new; what it has opened when it fails, it closes.
Rule(line) ==
  LET c == AfterRule(conf, line) IN
  /\ section = 4
  /\ line.for = "rules"
  /\ Len(conf.rules) < MaxRules
  /\ c.time_cache_count <= MaxCaches
  /\ IF RuleValid(conf, line)
       THEN \/ /\ conf' = [c EXCEPT !.rules = Append(@, RuleOf(conf, line))]
               /\ held' = held + IF line.output \in Holding THEN 1 ELSE 0
               /\ UNCHANGED <<state, discarded>>
            \/ Fail(conf)  \* zc_arraylist_add, and zlog_rule_del of the new rule
       ELSE Tolerate(c)
  /\ UNCHANGED section

NotInSection(line) ==
  /\ section = 0
  /\ line.for # "section"
  /\ Fail(conf)
  /\ UNCHANGED section

\* A comment is a wrong line in a text in memory: nothing strips it there.
CommentInMemory ==
  /\ cfgSource = "IN_MEMORY_CFG"
  /\ IF section < 2 THEN Fail(conf) ELSE Tolerate(conf)
  /\ UNCHANGED section

ReadLine ==
  /\ state = "reading"
  /\ cfgSource # "NO_CFG"
  /\ \/ \E line \in Lines :
          Section(line) \/ Global(line) \/ Level(line) \/ Format(line) \/ Rule(line)
            \/ NotInSection(line)
     \/ CommentInMemory
  /\ continued' = FALSE
  /\ UNCHANGED <<cfgSource, envStrict>>

\* The first part of a line, which waits in the buffer for the next.
ReadPart ==
  /\ state = "reading"
  /\ cfgSource = "FILE_CFG"
  /\ continued' = TRUE
  /\ UNCHANGED <<cfgSource, envStrict, section, conf, state, held, discarded>>

\* The end of the text; a part that waits is forgotten.
End ==
  /\ state = "reading"
  /\ cfgSource # "NO_CFG"
  /\ state' = "ok"
  /\ UNCHANGED <<cfgSource, envStrict, section, continued, conf, held, discarded>>

\* lstat or fopen fails.
NoFile ==
  /\ state = "reading" /\ section = 0
  /\ cfgSource = "FILE_CFG"
  /\ Fail(conf)
  /\ UNCHANGED <<cfgSource, envStrict, section, continued>>

\* zlog_conf_build_without_file: all that is logged goes to the screen.
BuildWithoutFile ==
  LET times == Times(conf, 1) IN
  /\ state = "reading"
  /\ cfgSource = "NO_CFG"
  /\ \/ /\ state' = "ok"
        /\ conf' = [Take(conf, 1) EXCEPT
                      !.rotater = TRUE, !.default_format = <<times>>,
                      !.rules = <<[format |-> 0, times |-> {}, output |-> "other",
                                   fsync_period |-> 0]>>]
        /\ held' = held + 1
        /\ UNCHANGED discarded
     \/ Fail(conf)
  /\ UNCHANGED <<cfgSource, envStrict, section, continued>>

NextConf == ReadLine \/ ReadPart \/ End \/ NoFile \/ BuildWithoutFile

SpecConf == InitConf /\ [][NextConf]_confVars

-----------------------------------------------------------------------------
(* Properties                                                              *)

\* The variables have their types.
ConfTypeOK ==
  /\ cfgSource \in {"FILE_CFG", "IN_MEMORY_CFG", "NO_CFG"}
  /\ envStrict \in BOOLEAN /\ continued \in BOOLEAN /\ discarded \in BOOLEAN
  /\ section \in 0..4 /\ state \in {"reading", "ok", "failed"} /\ held \in Nat
  /\ conf.time_cache_count \in Nat
  /\ \A i \in DOMAIN conf.rules : conf.rules[i].format \in 0..Len(conf.formats)

\* The time formats of all patterns: default_format, the formats, the paths.
Patterns ==
  conf.default_format
    \o [i \in DOMAIN conf.formats |-> conf.formats[i].times]
    \o [i \in DOMAIN conf.rules |-> conf.rules[i].times]

\* zlog: a configuration that is accepted can be used.  No two patterns share a
\* time cache and every cache is there; rules have a default format and a
\* rotater; a rule that counts for fsync lives to see it; no line was ignored
\* under ZLOG_STRICT_INIT.  And open is what the rules and the rotater hold,
\* which is nothing after a configuration that failed.
ConfUsable ==
  /\ \A i, j \in DOMAIN Patterns : i # j => Patterns[i] \cap Patterns[j] = {}
  /\ \A i \in DOMAIN Patterns : Patterns[i] \subseteq 0..conf.time_cache_count - 1
  /\ conf.rules # <<>> => conf.rotater /\ conf.default_format # <<>>
  /\ \A i \in DOMAIN conf.rules :
       LET period == conf.rules[i].fsync_period IN
       period = 0 \/ conf.reload_conf_period = 0 \/ period < conf.reload_conf_period
  /\ envStrict => ~discarded
  /\ held = Closed(conf)
=============================================================================
