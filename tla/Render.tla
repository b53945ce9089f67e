-------------------------------- MODULE Render --------------------------------
(***************************************************************************)
(* How a thread of zlog makes the text of a message (event.c, spec.c,      *)
(* format.c and the outputs of rule.c): for every rule the message goes to *)
(* it writes the conversions of the rule's path and then of its format     *)
(* into the thread's buffers, one after the other, and stops at the first  *)
(* that fails.  A conversion with a width is written to a second buffer    *)
(* and copied from there.                                                  *)
(*                                                                         *)
(* The event, the buffers and the caches belong to the thread.  The clock, *)
(* the allocator and, between two messages, a fork or the mapped           *)
(* diagnostic context, are what changes around it.                         *)
(*                                                                         *)
(* A text is known by what it shows: the second of a time, the number of a *)
(* process, the event a user's message belongs to.                         *)
(*                                                                         *)
(* A definition marked Mutant is not part of the specification: it is a    *)
(* definition with a bug that a property has to notice.                    *)
(***************************************************************************)
EXTENDS Buf, FiniteSets

CONSTANTS
  Rules,      \* the rules of a category: a sequence of [path, format]
  Seconds,    \* values of the clock
  Pids,       \* process numbers
  Caches,     \* indexes of time_caches
  MsgLens,    \* lengths of user messages printed with a format
  HexLines,   \* numbers of lines of user messages dumped in hex
  BufMin, BufMaxes,   \* sizes in the configurations used
  PathMax,    \* MAXLEN_PATH + 1
  MarkLen,    \* length of "...\n"
  MaxEvents   \* bound: messages

\* A conversion: what it writes, with its length, the zone and the cache of a
\* time, and its width.
Writes == {"str", "num", "mdc", "msg", "time", "frac", "pid"}
Zones  == {"local", "utc"}
Conversions ==
  [write : Writes, len : Nat, zone : Zones, cache : Caches,
   adjust : BOOLEAN, left : BOOLEAN, min : Nat, max : Nat]

ASSUME RenderAssumption ==
  /\ Rules \in Seq([path : Seq(Conversions), format : Seq(Conversions)])
  /\ Len(Rules) > 0
  /\ Seconds \subseteq Nat \ {0} /\ Pids \subseteq Nat \ {0}
  /\ MsgLens \subseteq Nat /\ HexLines \subseteq Nat \ {0}
  /\ BufMin \in Nat \ {0} /\ PathMax \in Nat \ {0} /\ MarkLen \in Nat
  /\ \A max \in BufMaxes : max \in Nat /\ (max # 0 => max >= BufMin)
  /\ MaxEvents \in Nat

VARIABLES
  clock, pid, mdcSet,   \* around the thread
  event,     \* number, what the user gave, time_stamp.tv_sec, pid
  lastPid, pidStr,      \* of the event, kept from message to message
  tmSec,     \* time_local_sec and time_utc_sec: what the struct tm are for
  caches,    \* time_caches: the second of each and the one its string shows
  bufs,      \* the buffers of the thread
  rule,      \* the rule in hand
  part,      \* "path" or "msg"
  spec,      \* the conversion in hand
  todo,      \* what the conversion has still to write
  rc,        \* the result of the last write
  pc,
  seen,      \* history: the seconds of the clock since the message began
  misfit     \* history: was a text of this rule cut when its buffer, which had
             \* lost its memory, was given new one

aroundVars == <<clock, pid, mdcSet, seen>>
eventVars == <<event, lastPid, pidStr, tmSec, caches>>
placeVars == <<rule, part, spec>>
vars == <<aroundVars, eventVars, bufs, placeVars, todo, rc, pc, misfit>>

SpecsOf(r, p) == IF p = "path" THEN Rules[r].path ELSE Rules[r].format
Specs   == SpecsOf(rule, part)
Current == Specs[spec]

\* A conversion with a width is written to the second buffer first.
Second == [path |-> "prePath", msg |-> "preMsg"]
Target == IF Current.adjust THEN Second[part] ELSE part

Init ==
  /\ clock \in Seconds /\ pid \in Pids /\ mdcSet = FALSE /\ seen = {}
  /\ event = [id |-> 0, hex |-> FALSE, size |-> 0, stamp |-> 0, pid |-> 0]
  /\ lastPid = 0 /\ pidStr = 0
  /\ tmSec = [zone \in Zones |-> 0]
  /\ caches = [i \in Caches |-> [sec |-> 0, shows |-> 0]]
  /\ \E max \in BufMaxes :
       bufs = [path    |-> NewBuf(PathMax, PathMax, 0),
               prePath |-> NewBuf(PathMax, PathMax, 0),
               msg     |-> NewBuf(BufMin, max, MarkLen),
               preMsg  |-> NewBuf(BufMin, max, MarkLen)]
  /\ rule = 1 /\ part = "path" /\ spec = 1 /\ todo = <<>> /\ rc = 0
  /\ pc = "idle" /\ misfit = FALSE

-----------------------------------------------------------------------------
(* Around the thread                                                       *)

Tick ==
  /\ clock' \in Seconds
  /\ seen' = IF pc = "idle" THEN seen ELSE seen \cup {clock'}
  /\ UNCHANGED <<pid, mdcSet, eventVars, bufs, placeVars, todo, rc, pc, misfit>>

\* The thread goes on in the child of a fork.
Fork ==
  /\ pc = "idle"
  /\ pid' \in Pids
  /\ UNCHANGED <<clock, mdcSet, seen, eventVars, bufs, placeVars, todo, rc, pc, misfit>>

PutMdc ==
  /\ pc = "idle"
  /\ mdcSet' \in BOOLEAN
  /\ UNCHANGED <<clock, pid, seen, eventVars, bufs, placeVars, todo, rc, pc, misfit>>

-----------------------------------------------------------------------------
(* zlog_event_set_fmt, zlog_event_set_hex                                  *)

Messages == {[hex |-> FALSE, size |-> n] : n \in MsgLens}
              \cup {[hex |-> TRUE, size |-> n] : n \in HexLines}

\* Mutant: the time of the message before is kept.
SetEventKeepsTime ==
  /\ pc = "idle"
  /\ event.id < MaxEvents
  /\ \E m \in Messages :
       event' = [event EXCEPT !.id = @ + 1, !.hex = m.hex, !.size = m.size,
                              !.pid = 0]
  /\ seen' = {clock}
  /\ rule' = 1 /\ pc' = "start"
  /\ UNCHANGED <<clock, pid, mdcSet, lastPid, pidStr, tmSec, caches, bufs, part,
                 spec, todo, rc, misfit>>

SetEvent ==
  /\ pc = "idle"
  /\ event.id < MaxEvents
  /\ \E m \in Messages :
       event' = [id |-> event.id + 1, hex |-> m.hex, size |-> m.size,
                 stamp |-> 0, pid |-> 0]
  /\ seen' = {clock}
  /\ rule' = 1 /\ pc' = "start"
  /\ UNCHANGED <<clock, pid, mdcSet, lastPid, pidStr, tmSec, caches, bufs, part,
                 spec, todo, rc, misfit>>

-----------------------------------------------------------------------------
(* zlog_rule_gen_path, zlog_format_gen_msg                                 *)

\* A rule with conversions in its path makes the path first.
StartRule ==
  /\ pc = "start"
  /\ part' = IF Rules[rule].path = <<>> THEN "msg" ELSE "path"
  /\ bufs' = [bufs EXCEPT ![part'] = Restart(@)]
  /\ spec' = 1 /\ pc' = "convert" /\ misfit' = FALSE
  /\ UNCHANGED <<aroundVars, eventVars, rule, todo, rc>>

EndPath ==
  /\ pc = "convert" /\ spec > Len(Specs) /\ part = "path"
  /\ part' = "msg" /\ spec' = 1
  /\ bufs' = [bufs EXCEPT !["msg"] = Restart(@)]
  /\ UNCHANGED <<aroundVars, eventVars, rule, todo, rc, pc, misfit>>

EndMsg ==
  /\ pc = "convert" /\ spec > Len(Specs) /\ part = "msg"
  /\ pc' = "output"
  /\ UNCHANGED <<aroundVars, eventVars, bufs, placeVars, todo, rc, misfit>>

-----------------------------------------------------------------------------
(* The write functions of spec.c                                           *)

\* A text to write, and whether the function that writes it tests start.
Piece(text, checked) == [text |-> text, checked |-> checked]

\* A head and, for every line of 16 bytes, a newline, its number and the bytes.
HexLine(id, n) ==
  <<Piece(Text("newline", 0, 1), FALSE),
    Piece(Padded(Text("lineno", n, 1), 2), TRUE),
    Piece(Text("bytes", id, 2), TRUE)>>

HexDump(id, lines) ==
  <<Piece(Text("head", 0, 1), FALSE)>>
    \o FlattenSeq([n \in 1..lines |-> HexLine(id, n)])

\* What the conversions without state of their own write; an unknown key of
\* the diagnostic context writes nothing and is no failure.
Plain(s) ==
  CASE s.write = "str" -> <<Piece(Text("str", 0, s.len), FALSE)>>
    [] s.write = "num" -> <<Piece(Padded(Text("line", event.id, 1), s.len), TRUE)>>
    [] s.write = "mdc" -> IF mdcSet
                          THEN <<Piece(Text("mdc", 0, s.len), FALSE)>> ELSE <<>>
    [] s.write = "msg" -> IF event.hex
                          THEN HexDump(event.id, event.size)
                          ELSE <<Piece(Text("user", event.id, event.size), TRUE)>>

\* The conversion in hand begins to write pieces into its buffer.
WriteInto(pieces) ==
  /\ todo' = pieces /\ rc' = 0
  /\ bufs' = IF Current.adjust
             THEN [bufs EXCEPT ![Target] = Restart(@)] ELSE bufs
  /\ pc' = "write"

ConvertPlain ==
  /\ pc = "convert" /\ spec <= Len(Specs)
  /\ Current.write \notin {"time", "frac", "pid"}
  /\ WriteInto(Plain(Current))
  /\ UNCHANGED <<aroundVars, eventVars, placeVars, misfit>>

\* Mutant: a struct tm is filled once for each message.
ConvertTimeStale ==
  /\ pc = "convert" /\ spec <= Len(Specs)
  /\ Current.write = "time"
  /\ LET sec  == IF event.stamp = 0 THEN clock ELSE event.stamp
         tm   == IF event.stamp = 0 \/ tmSec[Current.zone] = 0
                 THEN sec ELSE tmSec[Current.zone]
         c    == caches[Current.cache]
         made == IF c.sec = sec THEN c ELSE [sec |-> sec, shows |-> tm]
     IN  /\ event' = [event EXCEPT !.stamp = sec]
         /\ tmSec' = [tmSec EXCEPT ![Current.zone] = tm]
         /\ caches' = [caches EXCEPT ![Current.cache] = made]
         /\ WriteInto(<<Piece(Text(Current.zone, made.shows, Current.len), FALSE)>>)
  /\ UNCHANGED <<aroundVars, lastPid, pidStr, placeVars, misfit>>

\* The first time of a message reads the clock; the struct tm of a zone and
\* the string of a conversion are made again when they are of another second.
ConvertTime ==
  /\ pc = "convert" /\ spec <= Len(Specs)
  /\ Current.write = "time"
  /\ LET sec  == IF event.stamp = 0 THEN clock ELSE event.stamp
         c    == caches[Current.cache]
         made == IF c.sec = sec THEN c ELSE [sec |-> sec, shows |-> sec]
     IN  /\ event' = [event EXCEPT !.stamp = sec]
         /\ tmSec' = [tmSec EXCEPT ![Current.zone] = sec]
         /\ caches' = [caches EXCEPT ![Current.cache] = made]
         /\ WriteInto(<<Piece(Text(Current.zone, made.shows, Current.len), FALSE)>>)
  /\ UNCHANGED <<aroundVars, lastPid, pidStr, placeVars, misfit>>

\* Milliseconds and microseconds, of the same reading of the clock.
ConvertFraction ==
  /\ pc = "convert" /\ spec <= Len(Specs)
  /\ Current.write = "frac"
  /\ event' = [event EXCEPT !.stamp = IF @ = 0 THEN clock ELSE @]
  /\ WriteInto(<<Piece(Padded(Text("frac", event'.stamp, 1), Current.len), TRUE)>>)
  /\ UNCHANGED <<aroundVars, lastPid, pidStr, tmSec, caches, placeVars, misfit>>

\* The first pid of a message asks for it; its string is made again after a
\* fork.
ConvertPid ==
  /\ pc = "convert" /\ spec <= Len(Specs)
  /\ Current.write = "pid"
  /\ event' = [event EXCEPT !.pid = IF @ = 0 THEN pid ELSE @]
  /\ lastPid' = event'.pid
  /\ pidStr' = IF event'.pid = lastPid THEN pidStr ELSE event'.pid
  /\ WriteInto(<<Piece(Text("pid", pidStr', Current.len), FALSE)>>)
  /\ UNCHANGED <<aroundVars, tmSec, caches, placeVars, misfit>>

\* The next piece; the first that does not fit is the last.
Write ==
  /\ pc = "write" /\ todo # <<>>
  /\ \E memory \in BOOLEAN :
       LET piece == Head(todo)
           b     == bufs[Target]
           r     == IF piece.checked THEN PutChecked(b, piece.text, memory)
                                     ELSE Put(b, piece.text, memory)
       IN  /\ bufs' = [bufs EXCEPT ![Target] = r.buf]
           /\ rc' = r.rc
           /\ todo' = IF r.rc = 0 THEN Tail(todo) ELSE <<>>
           /\ misfit' = (misfit \/ (~b.start /\ r.rc = 1))
  /\ UNCHANGED <<aroundVars, eventVars, placeVars, pc>>

\* vsnprintf cannot convert the user's arguments.
ConversionFails ==
  /\ pc = "write" /\ todo # <<>>
  /\ Current.write = "msg" /\ ~event.hex
  /\ rc' = -1 /\ todo' = <<>>
  /\ UNCHANGED <<aroundVars, eventVars, bufs, placeVars, pc, misfit>>

\* zlog_spec_gen_msg_direct, zlog_spec_gen_path_direct.
Direct ==
  /\ pc = "write" /\ todo = <<>> /\ ~Current.adjust
  /\ IF rc = 0 THEN spec' = spec + 1 /\ pc' = "convert"
               ELSE UNCHANGED spec /\ pc' = "failed"
  /\ UNCHANGED <<aroundVars, eventVars, bufs, rule, part, todo, rc, misfit>>

\* zlog_spec_gen_msg_reformat, zlog_spec_gen_path_reformat: what did fit the
\* second buffer is adjusted to its width and copied.
Reformat ==
  /\ pc = "write" /\ todo = <<>> /\ Current.adjust
  /\ IF rc < 0
     THEN pc' = "failed" /\ UNCHANGED <<bufs, rc, spec>>
     ELSE \E memory \in BOOLEAN :
            LET text == Adjusted(bufs[Target].text, Current.left,
                                 Current.min, Current.max)
                r    == PutChecked(bufs[part], text, memory)
            IN  /\ bufs' = [bufs EXCEPT ![part] = r.buf]
                /\ rc' = r.rc
                /\ IF r.rc = 0 THEN spec' = spec + 1 /\ pc' = "convert"
                               ELSE UNCHANGED spec /\ pc' = "failed"
  /\ UNCHANGED <<aroundVars, eventVars, rule, part, todo, misfit>>

-----------------------------------------------------------------------------
(* The outputs of rule.c, zlog_category_output                             *)

NextRule ==
  /\ IF rule < Len(Rules) THEN rule' = rule + 1 /\ pc' = "start"
                          ELSE UNCHANGED rule /\ pc' = "idle"
  /\ UNCHANGED <<aroundVars, eventVars, bufs, part, spec, todo, rc, misfit>>

\* The text is written, or writing it fails.
Output == pc = "output" /\ NextRule

\* Nothing is written for this rule.
GiveUp == pc = "failed" /\ NextRule

Next ==
  \/ Tick \/ Fork \/ PutMdc
  \/ SetEvent \/ StartRule \/ EndPath \/ EndMsg
  \/ ConvertPlain \/ ConvertTime \/ ConvertFraction \/ ConvertPid
  \/ Write \/ ConversionFails \/ Direct \/ Reformat
  \/ Output \/ GiveUp

Spec == Init /\ [][Next]_vars

-----------------------------------------------------------------------------
(* Properties                                                              *)

BufNames == {"path", "prePath", "msg", "preMsg"}

TypeOK ==
  /\ clock \in Seconds /\ pid \in Pids /\ mdcSet \in BOOLEAN
  /\ seen \subseteq Seconds
  /\ event.id \in 0..MaxEvents /\ event.stamp \in Seconds \cup {0}
  /\ event.pid \in Pids \cup {0}
  /\ lastPid \in Pids \cup {0} /\ pidStr = lastPid
  /\ \A zone \in Zones : tmSec[zone] \in Seconds \cup {0}
  /\ \A i \in Caches : caches[i].sec \in Seconds \cup {0}
  /\ \A n \in BufNames : ~bufs[n].start => bufs[n].text = <<>>
  /\ rule \in 1..Len(Rules) /\ part \in {"path", "msg"}
  /\ pc \in {"convert", "write"} => spec \in 1..(Len(Specs) + 1)
  /\ rc \in {-1, 0, 1}
  /\ pc \in {"idle", "start", "convert", "write", "output", "failed"}
  /\ misfit \in BOOLEAN

\* No write leaves the memory of a buffer, the zero at its end included, and
\* no buffer grows beyond the limit, whatever realloc does in between.
InBounds ==
  \A n \in BufNames :
    /\ bufs[n].start => Len(bufs[n].text) < bufs[n].real
    /\ bufs[n].max # 0 => bufs[n].real <= bufs[n].max

\* What a buffer of this size and mark keeps of a text.
Kept(s, max, mark) ==
  IF max = 0 \/ Len(s) < max THEN s
  ELSE SubSeq(s, 1, max - 1 - Smaller(mark, max - 1))
         \o Mark(Smaller(mark, max - 1))

Joined(pieces) == FlattenSeq([n \in DOMAIN pieces |-> pieces[n].text])

\* The text of a conversion, from the message's one instant and the process,
\* and what its width makes of it.
Shown(s) ==
  CASE s.write = "time" -> Text(s.zone, event.stamp, s.len)
    [] s.write = "frac" -> Padded(Text("frac", event.stamp, 1), s.len)
    [] s.write = "pid"  -> Text("pid", pid, s.len)
    [] OTHER            -> Joined(Plain(s))

Expected(s) ==
  LET b == bufs[Second[part]] IN
  IF s.adjust THEN Adjusted(Kept(Shown(s), b.max, b.mark), s.left, s.min, s.max)
              ELSE Shown(s)

Ideal(specs) == FlattenSeq([n \in DOMAIN specs |-> Expected(specs[n])])

\* A message that is output is the text of all conversions, in their order;
\* its times are all of one second of the clock since it began, and its
\* process is the one that runs, whatever the caches held from messages before
\* and whatever failed in them.  Except when a buffer got new memory in between:
\* then it is marked as cut, whether it had to be cut or not.
OutputIsWhole ==
  pc = "output" =>
    /\ ~misfit => bufs["msg"].text = Ideal(Rules[rule].format)
    /\ event.stamp \in seen \cup {0}

\* A buffer that is full holds the beginning of the text with the mark over
\* its end, and is as long as the limit allows.
CutAtLimit ==
  pc = "failed" /\ rc = 1 /\ ~misfit =>
    LET b == bufs[part] IN
      b.text = Kept(Ideal(SubSeq(Specs, 1, spec)), b.max, b.mark)
=============================================================================
