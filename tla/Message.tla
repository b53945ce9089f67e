------------------------------- MODULE Message -------------------------------
(***************************************************************************)
(* How zf_log makes a line (zf_log.c): the parts the mask asks for are put *)
(* one after the other into a buffer on the stack, each cut where the area *)
(* of the end of line begins, and a dump of memory reuses the place of the *)
(* message for each of its lines.                                          *)
(*                                                                         *)
(* A character is its part and its place in it.  A buffer is a function of *)
(* the positions that have been written, from 0, so that a position that   *)
(* was never written, or lies outside, is seen in its domain.              *)
(*                                                                         *)
(* A definition marked Mutant is not part of the specification: it is a    *)
(* definition with a bug that a property has to notice.                    *)
(***************************************************************************)
EXTENDS Integers, Sequences, SequencesExt, FiniteSets, FiniteSetsExt

CONSTANTS
  BUF_SZ,     \* ZF_LOG_BUF_SZ
  EOL_SZ,     \* ZF_LOG_EOL_SZ, with the zero of ZF_LOG_EOL
  ZF_LOG_MEM_WIDTH,
  CtxSize,    \* size of what put_ctx makes
  Sizes,      \* sizes of prefix, tag and source location
  MsgSizes,   \* results of vsnprintf, -1 for a failure
  MemSizes,   \* sizes of the memory to dump
  MemWidths,  \* values for zf_log_set_mem_width
  OutputLevels, \* values for zf_log_set_output_level, and levels of calls
  MaxCalls    \* bound: calls

MessageAssumption ==
  /\ BUF_SZ \in Nat /\ EOL_SZ \in Nat /\ EOL_SZ >= 2 /\ EOL_SZ < BUF_SZ
  /\ ZF_LOG_MEM_WIDTH \in Nat \ {0} /\ CtxSize \in Nat
  /\ Sizes \cup MemSizes \subseteq Nat
  /\ MsgSizes \subseteq Nat \cup {-1}
  /\ MemWidths \subseteq Nat \ {0}
  /\ OutputLevels \subseteq Int /\ MaxCalls \in Nat

VARIABLES
  format,   \* _zf_log_global_format: mem_width; with the tag prefix
  output,   \* _zf_log_global_output: mask
  outputLvl,
  call,     \* the arguments of the call, with the specification it goes to
  msg,      \* zf_log_message: buf, p, tag_b, tag_e, msg_b
  mem,      \* how much of the memory is dumped; -1 is no dump going on
  lines,    \* history: what the callback was given by the call
  text,     \* history: the whole line, were the buffer as long as it takes
  ncalls      \* counted for MaxCalls

messageVars == <<format, output, outputLvl, call, msg, mem, lines, text, ncalls>>

PUT_STD == {"ctx", "tag", "src", "msg"}
ZeroByte == <<"zero", 0>>
Unset == <<"unset", 0>>
Eol == <<"eol", 0>>
Blank == <<"blank", 0>>

Part(name, size) == [i \in 1..size |-> <<name, i>>]
CSTR(name) == <<<<name, 0>>>>

\* msg->e, as buffer_callback sets it.
BufEnd == BUF_SZ - EOL_SZ

Fresh == [buf |-> <<>>, p |-> 0, tag_b |-> -1, tag_e |-> -1, msg_b |-> -1]

\* Characters written to a buffer from a position on.
Poke(buf, from, s) ==
  LET written == from..from + Len(s) - 1 IN
  [i \in DOMAIN buf \cup written |-> IF i \in written THEN s[i - from + 1] ELSE buf[i]]

-----------------------------------------------------------------------------
(* The put functions: what they write, and where they leave p.             *)

\* Mutant: the text is not cut.
PutUncut(m, s) == [m EXCEPT !.buf = Poke(@, m.p, s), !.p = @ + Len(s)]

\* put_stringn, and PUT_CSTR_CHECKED.
Put(m, s) ==
  LET cut == SubSeq(s, 1, Min({Len(s), BufEnd - m.p})) IN
  [m EXCEPT !.buf = Poke(@, m.p, cut), !.p = @ + Len(cut)]

\* put_string, and the loops of PUT_TAG, copy the zero too while there is room.
PutString(m, s) == [Put(m, s) EXCEPT !.buf = Put(m, s \o <<ZeroByte>>).buf]

nprintf_size(m) == BufEnd - m.p + 1

\* vsnprintf, and put_nprintf on its result.
PutPrintf(m, n, s) ==
  IF n < 0 THEN m
  ELSE [m EXCEPT
         !.buf = Poke(@, m.p, Append(SubSeq(s, 1, Min({n, nprintf_size(m) - 1})), ZeroByte)),
         !.p = IF n < BufEnd - m.p THEN @ + n ELSE BufEnd]

put_ctx(m) == Put(m, Part("ctx", CtxSize))

\* PUT_TAG: PREFIX.TAG and a delimiter, each delimiter only where it is due.
put_tag(m, prefix, tag) ==
  LET m1 == IF prefix = 0 THEN m ELSE PutString(m, Part("prefix", prefix))
      m2 == IF tag # 0 /\ m1.p # m.p THEN Put(m1, CSTR("dot")) ELSE m1
      m3 == IF tag = 0 THEN m2 ELSE PutString(m2, Part("tag", tag))
      m4 == IF m3.p # m.p THEN Put(m3, CSTR("delimiter")) ELSE m3
  IN [m4 EXCEPT !.tag_b = m.p, !.tag_e = m3.p]

\* function@file:line
put_src(m, size) ==
  LET m1 == Put(PutString(m, Part("function", size)), CSTR("at"))
      m2 == Put(PutString(m1, Part("filename", size)), CSTR("colon"))
  IN Put(Put(m2, Part("fileline", size)), CSTR("delimiter"))

put_msg(m, n) == [PutPrintf(m, n, Part("msg", n)) EXCEPT !.msg_b = m.p]

-----------------------------------------------------------------------------
(* The settings                                                            *)

NoCall == mem = -1

\* Between calls, and before the last one of the bound.
MaySet == NoCall /\ ncalls < MaxCalls

SetFormat ==
  /\ MaySet
  /\ \/ \E w \in MemWidths : format' = [format EXCEPT !.mem_width = w]  \* zf_log_set_mem_width
     \/ \E n \in Sizes : format' = [format EXCEPT !.prefix = n]  \* zf_log_set_tag_prefix
  /\ UNCHANGED <<output, outputLvl, call, msg, mem, lines, text, ncalls>>

zf_log_set_output_v ==
  /\ MaySet
  /\ \E mask \in SUBSET PUT_STD : output' = mask
  /\ UNCHANGED <<format, outputLvl, call, msg, mem, lines, text, ncalls>>

zf_log_set_output_level ==
  /\ MaySet
  /\ outputLvl' \in OutputLevels
  /\ UNCHANGED <<format, output, call, msg, mem, lines, text, ncalls>>

-----------------------------------------------------------------------------
(* A call                                                                  *)

ZF_LOG_ON(lvl) == lvl >= outputLvl

\* The mask of the global specification, or of _zf_log_stderr_spec.
Mask(c) == IF c.log = "global" THEN output ELSE PUT_STD

\* The callback writes the end of line at p and takes what is before it.
Taken(m) == Poke(m.buf, m.p, <<Eol>>)
LineOf(m) ==
  [i \in 1..m.p + 1 |-> IF i - 1 \in DOMAIN Taken(m) THEN Taken(m)[i - 1] ELSE Unset]

\* Where the columns of a dump begin and end.
AsciiB(m) == m.msg_b + 2 * format.mem_width + 2
AsciiE(m) == AsciiB(m) + format.mem_width

\* output_mem does something.
Dumped(c, m) ==
  /\ c.mem > 0
  /\ "msg" \in Mask(c)
  /\ AsciiE(m) <= BufEnd

\* PREFIX.TAG, and all that a call asks for, without a buffer.
Tagged(c) ==
  Part("prefix", format.prefix)
    \o (IF format.prefix # 0 /\ c.tag # 0 THEN CSTR("dot") ELSE <<>>)
    \o Part("tag", c.tag)

TextOf(c) ==
  LET If(asked, s) == IF asked THEN s ELSE <<>> IN
  If("ctx" \in Mask(c), Part("ctx", CtxSize))
    \o If("tag" \in Mask(c), Tagged(c) \o If(Tagged(c) # <<>>, CSTR("delimiter")))
    \o If("src" \in Mask(c) /\ c.src # -1,
          Part("function", c.src) \o CSTR("at") \o Part("filename", c.src)
            \o CSTR("colon") \o Part("fileline", c.src) \o CSTR("delimiter"))
    \o If("msg" \in Mask(c) /\ c.n # -1, Part("msg", c.n))

\* _zf_log_write_imp up to the dump, for a call whose level is on.
WriteMessage(c) ==
  LET put == Mask(c)
      m1 == IF "ctx" \in put THEN put_ctx(Fresh) ELSE Fresh
      m2 == IF "tag" \in put THEN put_tag(m1, format.prefix, c.tag) ELSE m1
      m3 == IF "src" \in put /\ c.src # -1 THEN put_src(m2, c.src) ELSE m2
      m4 == IF "msg" \in put THEN put_msg(m3, c.n) ELSE m3
  IN
  /\ NoCall
  /\ ncalls < MaxCalls
  /\ ncalls' = ncalls + 1
  /\ ZF_LOG_ON(c.lvl)
  /\ call' = c
  /\ msg' = [m4 EXCEPT !.buf = Taken(m4)]
  /\ lines' = <<LineOf(m4)>>
  /\ text' = TextOf(c)
  /\ mem' = IF Dumped(c, m4) THEN 0 ELSE -1
  /\ UNCHANGED <<format, output, outputLvl>>

Hex(i) == <<"hex", i>>
Ascii(i) == <<"ascii", i>>

\* Mutant: the rest of the hexadecimal column is not blanked.
DumpWithoutPadding(first, n, b) ==
  LET hex == [k \in 1..2 * n |-> Hex(first + (k - 1) \div 2)]
      ascii == [k \in 1..n |-> Ascii(first + k - 1)]
  IN Poke(Poke(b, msg.msg_b, hex), AsciiB(msg), ascii)

\* The columns of n bytes from the byte first on.
Dump(first, n, b) ==
  LET hex == [k \in 1..AsciiB(msg) - msg.msg_b |->
               IF k <= 2 * n THEN Hex(first + (k - 1) \div 2) ELSE Blank]
      ascii == [k \in 1..n |-> Ascii(first + k - 1)]
  IN Poke(Poke(b, msg.msg_b, hex), AsciiB(msg), ascii)

\* A turn of the loop of output_mem.
output_mem ==
  LET n == Min({format.mem_width, call.mem - mem})
      m == [msg EXCEPT !.buf = Dump(mem, n, @), !.p = AsciiB(msg) + n]
  IN
  /\ ~NoCall
  /\ msg' = [m EXCEPT !.buf = Taken(m)]
  /\ lines' = Append(lines, LineOf(m))
  /\ mem' = IF mem + n = call.mem THEN -1 ELSE mem + n
  /\ UNCHANGED <<format, output, outputLvl, call, text, ncalls>>

\* What the eight functions _zf_log_write... hand on.
Calls == [log : {"global", "stderr"}, lvl : OutputLevels, tag : Sizes, src : Sizes \cup {-1},
          n : MsgSizes, mem : MemSizes]

InitMessage ==
  /\ format = [mem_width |-> ZF_LOG_MEM_WIDTH, prefix |-> 0]
  /\ output = PUT_STD
  /\ outputLvl = 0
  /\ call = CHOOSE c \in Calls : TRUE
  /\ msg = Fresh
  /\ mem = -1 /\ lines = <<>> /\ text = <<>> /\ ncalls = 0

NextMessage ==
  \/ SetFormat \/ zf_log_set_output_v \/ zf_log_set_output_level
  \/ \E c \in Calls : WriteMessage(c)
  \/ output_mem

SpecMessage == InitMessage /\ [][NextMessage]_messageVars

-----------------------------------------------------------------------------
(* Properties                                                              *)

\* The variables have their types.
MessageTypeOK ==
  /\ format \in [mem_width : MemWidths \cup {ZF_LOG_MEM_WIDTH}, prefix : Sizes \cup {0}]
  /\ output \subseteq PUT_STD /\ outputLvl \in OutputLevels \cup {0}
  /\ call \in Calls /\ mem \in -1..call.mem /\ ncalls \in 0..MaxCalls
  /\ msg.p \in Nat /\ DOMAIN msg.buf \subseteq Nat

\* Nothing is written outside the buffer.
InBuffer == DOMAIN msg.buf \subseteq 0..BUF_SZ - 1

\* The line of the message is the text asked for, cut at one place at most and
\* as late as the buffer allows, and has its end.
CutOnce == lines # <<>> =>
  Head(lines) = SubSeq(text, 1, Min({Len(text), BufEnd})) \o <<Eol>>

\* tag_b and tag_e are where the prefix and the tag are in the line.
TagFound == msg.tag_b # -1 =>
  {i \in DOMAIN Head(lines) : Head(lines)[i][1] \in {"prefix", "dot", "tag"}}
    = msg.tag_b + 1..msg.tag_e

\* What is dumped so far: the characters after the header of each line.
Rows == [k \in 1..Len(lines) - 1 |-> SubSeq(lines[k + 1], msg.msg_b + 1, Len(lines[k + 1]))]

\* The characters of a kind in a text, in their order.
Column(s, kind) ==
  FlattenSeq([k \in DOMAIN s |-> IF s[k][1] = kind THEN <<s[k]>> ELSE <<>>])

\* How many bytes have been.
Shown == IF NoCall THEN call.mem ELSE mem

\* The lines of a dump repeat the header of the message and show every byte
\* once, in order, in both columns, with nothing else left over from the
\* message or from a longer line before.
DumpExact == Len(lines) > 1 =>
  LET all == FlattenSeq(Rows) IN
  /\ \A k \in 2..Len(lines) :
       SubSeq(lines[k], 1, msg.msg_b) = SubSeq(Head(lines), 1, msg.msg_b)
  /\ Column(all, "hex") = [k \in 1..2 * Shown |-> Hex((k - 1) \div 2)]
  /\ Column(all, "ascii") = [k \in 1..Shown |-> Ascii(k - 1)]
  /\ \A i \in DOMAIN all : all[i][1] \in {"hex", "blank", "ascii", "eol"}

\* zf_log: a line stays in its buffer (zf_log.c:897 lets vsnprintf write one
\* byte more), is cut at one place, has its tag between tag_b and tag_e, and a
\* dump of memory shows all of it.
LinesExact == InBuffer /\ CutOnce /\ TagFound /\ DumpExact
=============================================================================
