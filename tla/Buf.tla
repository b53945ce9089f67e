--------------------------------- MODULE Buf ---------------------------------
(***************************************************************************)
(* The expanding buffers of zlog (buf.c), in which a thread makes one      *)
(* message or path.  A buffer starts with a size, grows by realloc up to a *)
(* limit and, at the limit, keeps what fits and puts a mark at its end.    *)
(*                                                                         *)
(* Every function that adds text computes the characters it would add and  *)
(* puts as many of them as fit, so Put models the part they share; one     *)
(* byte of size_real is kept for the zero that ends a string.  When realloc*)
(* fails the memory is freed and start becomes NULL, which most of the     *)
(* functions test, but zlog_buf_append does not: realloc of NULL gives it  *)
(* a new one, of the size it computes from size_real, which has stayed.    *)
(*                                                                         *)
(* A definition marked Mutant is not part of the specification: it is a    *)
(* definition with a bug that a property has to notice.                    *)
(***************************************************************************)
EXTENDS Integers, Sequences, SequencesExt

\* A character: the k-th of a text of some kind.
Char(kind, val, k) == [of |-> kind, val |-> val, at |-> k]
Text(kind, val, n) == [k \in 1..n |-> Char(kind, val, k)]
Blank(n) == [k \in 1..n |-> Char("blank", 0, 0)]
Mark(n)  == Text("mark", 0, n)

Smaller(a, b) == IF a < b THEN a ELSE b

\* size_max 0 means no limit, mark is truncate_str_len.
NewBuf(min, max, mark) ==
  [max |-> max, mark |-> mark, real |-> min, start |-> TRUE, text |-> <<>>]

\* What is left before end, one byte before the end of the memory.
Room(b) == IF b.start THEN b.real - 1 - Len(b.text) ELSE 0

\* zlog_buf_restart
Restart(b) == [b EXCEPT !.text = <<>>]

\* Mutant: the end of the mark is kept when it does not fit.
TruncateMarkEnd(b) ==
  LET n    == Smaller(b.mark, Len(b.text))
      kept == SubSeq(b.text, 1, Len(b.text) - n)
  IN  [b EXCEPT !.text = kept \o SubSeq(Mark(b.mark), b.mark - n + 1, b.mark)]

\* zlog_buf_truncate overwrites the end with as much of the mark as fits.
Truncate(b) ==
  LET n    == Smaller(b.mark, Len(b.text))
      kept == SubSeq(b.text, 1, Len(b.text) - n)
  IN  [b EXCEPT !.text = kept \o Mark(n)]

\* zlog_buf_resize: the size it asks for, and whether that is all it needs.
AtLimit(b) == b.max # 0 /\ b.real >= b.max

\* Mutant: the limit is not applied to the new size.
NewSizeUnlimited(b, increment) ==
  IF b.max = 0 THEN b.real + (3 * increment) \div 2 ELSE b.real + increment

NewSize(b, increment) ==
  IF b.max = 0 THEN b.real + (3 * increment) \div 2
               ELSE Smaller(b.real + increment, b.max)

Limited(b, increment) == b.max # 0 /\ b.real + increment > b.max

\* Mutant: the new memory is not kept when there was none.
ResizedStaysFreed(b, increment) ==
  IF AtLimit(b) THEN b ELSE [b EXCEPT !.real = NewSize(b, increment)]

Resized(b, increment) ==
  IF AtLimit(b) THEN b
  ELSE [b EXCEPT !.real = NewSize(b, increment), !.start = TRUE]

Freed(b) == [b EXCEPT !.start = FALSE, !.text = <<>>]

\* Adding text s: the buffer afterwards and what the function returns, 0, 1
\* when the buffer is full, -1 when there is no memory.
Fit(b, s) == [b EXCEPT !.text = @ \o s]

\* As many characters as there is room for.  With the memory of a new start there
\* may be room for more than s has, which are then what lies behind it.
Taken(s, n) == [k \in 1..n |-> IF k <= Len(s) THEN s[k] ELSE Char("stray", 0, k)]

Cut(b, s) == Truncate(Fit(b, Taken(s, Room(b))))

\* zlog_buf_append.
Put(b, s, memory) ==
  LET increment == Len(s) - Room(b)
      r         == Resized(b, increment)
  IN  IF increment <= 0 THEN [buf |-> Fit(b, s), rc |-> 0]
      ELSE IF ~AtLimit(b) /\ ~memory THEN [buf |-> Freed(b), rc |-> -1]
      ELSE IF AtLimit(b) \/ Limited(b, increment)
           THEN [buf |-> Cut(r, s), rc |-> 1]
           ELSE [buf |-> Fit(r, s), rc |-> 0]

\* zlog_buf_vprintf, the three that print numbers and zlog_buf_adjust_append
\* refuse a buffer that has lost its memory.
PutChecked(b, s, memory) ==
  IF b.start THEN Put(b, s, memory) ELSE [buf |-> b, rc |-> -1]

\* A number is padded with zeros to a width.
Padded(digits, width) ==
  Blank(IF width > Len(digits) THEN width - Len(digits) ELSE 0) \o digits

\* Mutant: a text is filled to its width before it is cut to its maximum.
AdjustedFirst(s, left, inWidth, outWidth) ==
  LET blanks == Blank(IF inWidth > Len(s) THEN inWidth - Len(s) ELSE 0)
      filled == IF left THEN s \o blanks ELSE blanks \o s
  IN  IF outWidth = 0 \/ Len(filled) < outWidth
      THEN filled ELSE SubSeq(filled, 1, outWidth)

\* zlog_buf_adjust_append: at most outWidth of the text, filled to inWidth.
Adjusted(s, left, inWidth, outWidth) ==
  LET source == IF outWidth = 0 \/ Len(s) < outWidth
                THEN s ELSE SubSeq(s, 1, outWidth)
      blanks == Blank(IF inWidth > Len(source) THEN inWidth - Len(source) ELSE 0)
  IN  IF left THEN source \o blanks ELSE blanks \o source
=============================================================================
