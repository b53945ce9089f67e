---------------------------- MODULE RenderProofs ----------------------------
(***************************************************************************)
(* What Render promises, proved for any rules, sizes of buffers, clocks    *)
(* and processes: a message that is put out is the whole text of its       *)
(* conversions, a buffer that is full holds the beginning of it with the   *)
(* mark, and no buffer is written outside its memory.                      *)
(*                                                                         *)
(* First what each function of Buf does to a buffer; then the invariant of *)
(* the thread: as long as its rule is not misfit, a buffer holds the text  *)
(* of the conversions before the one in hand, and what that has written so *)
(* far and has still to write is its own text.                             *)
(***************************************************************************)
EXTENDS Render, SequenceLemmas

-----------------------------------------------------------------------------
(* The buffers                                                             *)

Kinds == {"blank", "mark", "stray", "str", "line", "mdc", "user", "head", "newline",
          "lineno", "bytes", "local", "utc", "frac", "pid"}
Chars == [of : Kinds, val : Nat, at : Nat]
Strs  == Seq(Chars)
Bufs  == [max : Nat, mark : Nat, real : Nat, start : BOOLEAN, text : Strs]

\* The memory has room for the text and a zero, within the limit.  A buffer that
\* has lost its memory was not as large as it may become.
Sound(b) ==
  /\ b \in Bufs /\ b.real > 0
  /\ b.start => Len(b.text) < b.real
  /\ b.max # 0 => b.real <= b.max
  /\ ~b.start => b.text = <<>> /\ ~AtLimit(b)

LEMMA CharType ==
  ASSUME NEW kind \in Kinds, NEW val \in Nat, NEW k \in Nat
  PROVE  Char(kind, val, k) \in Chars
BY DEF Char, Chars

LEMMA TextType ==
  ASSUME NEW kind \in Kinds, NEW val \in Nat, NEW n \in Nat
  PROVE  Text(kind, val, n) \in Strs /\ Len(Text(kind, val, n)) = n
<1>1. \A k \in 1..n : k \in Nat
  OBVIOUS
<1>2. \A k \in 1..n : Char(kind, val, k) \in Chars
  BY <1>1, CharType
<1> DEFINE s == [k \in 1..n |-> Char(kind, val, k)]
<1>3. s \in Seq(Chars) /\ Len(s) = n
  BY <1>2
<1> QED
  BY <1>3 DEF Text, Strs

LEMMA MarkType ==
  ASSUME NEW n \in Nat PROVE Mark(n) \in Strs /\ Len(Mark(n)) = n
<1>1. "mark" \in Kinds /\ 0 \in Nat
  BY DEF Kinds
<1> QED
  BY <1>1, TextType DEF Mark

LEMMA BlankType ==
  ASSUME NEW n \in Nat PROVE Blank(n) \in Strs /\ Len(Blank(n)) = n
<1>1. Char("blank", 0, 0) \in Chars
  BY DEF Char, Chars, Kinds
<1> QED
  BY <1>1 DEF Blank, Strs

LEMMA SmallerType ==
  ASSUME NEW a \in Nat, NEW b \in Nat
  PROVE  Smaller(a, b) \in Nat /\ Smaller(a, b) <= a /\ Smaller(a, b) <= b
BY DEF Smaller

\* Sequences that agree so far have the same beginning.
LEMMA SameBeginning ==
  ASSUME NEW S, NEW s \in Seq(S), NEW t \in Seq(S), NEW n \in Nat,
         n <= Len(s), n <= Len(t), \A i \in 1..n : s[i] = t[i]
  PROVE  SubSeq(s, 1, n) = SubSeq(t, 1, n) /\ SubSeq(s, 1, n) \in Seq(S)
         /\ Len(SubSeq(s, 1, n)) = n
OBVIOUS

LEMMA TakenType ==
  ASSUME NEW s \in Strs, NEW n \in Nat
  PROVE  /\ Taken(s, n) \in Strs /\ Len(Taken(s, n)) = n
         /\ \A i \in 1..n : i <= Len(s) => Taken(s, n)[i] = s[i]
<1>1. "stray" \in Kinds /\ 0 \in Nat
  BY DEF Kinds
<1>2. ASSUME NEW k \in 1..n
      PROVE  (IF k <= Len(s) THEN s[k] ELSE Char("stray", 0, k)) \in Chars
  <2>1. Char("stray", 0, k) \in Chars
    BY <1>1, CharType
  <2> QED
    BY <2>1 DEF Strs
<1> QED
  BY <1>2 DEF Taken, Strs

\* What is cut is Kept of the text, and of any that goes on after it.
LEMMA CutFacts ==
  ASSUME NEW c \in Bufs, c.start, c.real = c.max, Len(c.text) < c.real,
         NEW s \in Strs
  PROVE  /\ Sound(Cut(c, s))
         /\ Cut(c, s).max = c.max /\ Cut(c, s).mark = c.mark
         /\ Room(c) < Len(s) => \A rest \in Strs :
              Cut(c, s).text = Kept((c.text \o s) \o rest, c.max, c.mark)
<1> DEFINE t == Taken(s, Room(c))
           y == c.text \o t
           n == Smaller(c.mark, Len(y))
<1>1. /\ c.text \in Strs /\ c.max \in Nat /\ c.mark \in Nat /\ Len(c.text) \in Nat
      /\ c.max > 0 /\ Room(c) = c.max - 1 - Len(c.text) /\ Room(c) \in Nat
  BY DEF Bufs, Strs, Room
<1>2. t \in Strs /\ Len(t) = Room(c) /\ \A i \in 1..Room(c) : i <= Len(s) => t[i] = s[i]
  BY <1>1, TakenType
<1> HIDE DEF t
<1>3. y \in Strs /\ Len(y) = c.max - 1
  <2>1. c.text \in Seq(Chars) /\ t \in Seq(Chars)
    BY <1>1, <1>2 DEF Strs
  <2>2. c.text \o t \in Seq(Chars) /\ Len(c.text \o t) = Len(c.text) + Len(t)
    BY <2>1
  <2> QED
    BY <1>1, <1>2, <2>2 DEF Strs
<1>4. /\ n \in Nat /\ n <= c.max - 1 /\ n = Smaller(c.mark, c.max - 1)
      /\ c.max - 1 \in Nat /\ c.max - 1 - n \in Nat /\ c.max - 1 - n <= Len(y)
  <2>1. c.max - 1 \in Nat
    BY <1>1
  <2>2. n = Smaller(c.mark, c.max - 1)
    BY <1>3
  <2> HIDE DEF n
  <2>3. n \in Nat /\ n <= c.max - 1
    BY <1>1, <2>1, <2>2, SmallerType
  <2> QED
    BY <1>3, <2>1, <2>2, <2>3
<1>5. Fit(c, t) = [c EXCEPT !.text = y]
  BY DEF Fit
<1>6. Cut(c, s) = [c EXCEPT !.text = SubSeq(y, 1, c.max - 1 - n) \o Mark(n)]
  <2>1. Fit(c, t).text = y /\ Fit(c, t).mark = c.mark
    BY <1>5 DEF Bufs
  <2>2. Truncate(Fit(c, t))
          = [Fit(c, t) EXCEPT !.text = SubSeq(y, 1, Len(y) - n) \o Mark(n)]
    BY <2>1 DEF Truncate
  <2> QED
    BY <1>3, <1>5, <2>2 DEF Cut, t, Bufs
<1> HIDE DEF y, n
<1>7. SubSeq(y, 1, c.max - 1 - n) \in Strs /\ Len(SubSeq(y, 1, c.max - 1 - n)) = c.max - 1 - n
  BY <1>3, <1>4 DEF Strs
<1> DEFINE z == SubSeq(y, 1, c.max - 1 - n) \o Mark(n)
<1>8. z \in Strs /\ Len(z) = c.max - 1
  <2> DEFINE a == SubSeq(y, 1, c.max - 1 - n)
  <2>1. a \in Seq(Chars) /\ Len(a) = c.max - 1 - n
    BY <1>7 DEF Strs
  <2>2. Mark(n) \in Seq(Chars) /\ Len(Mark(n)) = n
    BY <1>4, MarkType DEF Strs
  <2> HIDE DEF a
  <2>3. a \o Mark(n) \in Seq(Chars) /\ Len(a \o Mark(n)) = Len(a) + Len(Mark(n))
    BY <2>1, <2>2
  <2>4. Len(a) + Len(Mark(n)) = c.max - 1
    BY <1>1, <1>4, <2>1, <2>2
  <2> QED
    BY <2>3, <2>4 DEF a, Strs
<1>9. Sound(Cut(c, s)) /\ Cut(c, s).max = c.max /\ Cut(c, s).mark = c.mark
  <2>1. Cut(c, s) = [c EXCEPT !.text = z]
    BY <1>6
  <2> HIDE DEF z
  <2>2. Len(z) < c.real
    BY <1>1, <1>8
  <2> QED
    BY <1>1, <1>8, <2>1, <2>2 DEF Sound, Bufs
<1>10. ASSUME Room(c) < Len(s), NEW rest \in Strs
       PROVE  Cut(c, s).text = Kept((c.text \o s) \o rest, c.max, c.mark)
  <2> DEFINE x == (c.text \o s) \o rest
  <2>1. x \in Strs /\ Len(x) >= c.max /\ Len(x) \in Nat
    BY <1>1, <1>10 DEF Strs
  <2>2. \A i \in 1..(c.max - 1) : x[i] = y[i]
    <3>1. c.text \in Seq(Chars) /\ s \in Seq(Chars) /\ rest \in Seq(Chars) /\ t \in Seq(Chars)
      BY <1>1, <1>2 DEF Strs
    <3>2. TAKE i \in 1..(c.max - 1)
    <3>3. CASE i <= Len(c.text)
      BY <1>1, <3>1, <3>3 DEF y
    <3>4. CASE i > Len(c.text)
      <4>1. i - Len(c.text) \in 1..Room(c) /\ i - Len(c.text) <= Len(s)
        BY <1>1, <1>10, <3>4
      <4>2. x[i] = s[i - Len(c.text)]
        BY <1>1, <3>1, <3>4, <4>1
      <4>3. y[i] = t[i - Len(c.text)]
        BY <1>1, <1>2, <3>1, <3>4, <4>1 DEF y
      <4> QED
        BY <1>2, <4>1, <4>2, <4>3
    <3>5. i <= Len(c.text) \/ i > Len(c.text)
      BY <1>1
    <3> HIDE DEF x
    <3> QED
      BY <3>3, <3>4, <3>5
  <2>3. SubSeq(x, 1, c.max - 1 - n) = SubSeq(y, 1, c.max - 1 - n)
    <3> HIDE DEF x
    <3>1. /\ c.max - 1 - n <= Len(x)
          /\ \A i \in 1..(c.max - 1 - n) : y[i] = x[i]
      BY <1>1, <1>4, <2>1, <2>2
    <3> QED
      BY <1>3, <1>4, <2>1, <3>1, SameBeginning DEF Strs
  <2>4. Kept(x, c.max, c.mark) = z
    <3> HIDE DEF x
    <3>1. c.max # 0 /\ ~(Len(x) < c.max)
      BY <1>1, <2>1
    <3>2. Kept(x, c.max, c.mark) = SubSeq(x, 1, c.max - 1 - n) \o Mark(n)
      BY <1>4, <3>1, Zenon DEF Kept
    <3> QED
      BY <2>3, <3>2
  <2>5. Cut(c, s).text = z
    BY <1>6 DEF Bufs
  <2> QED
    BY <2>4, <2>5
<1> QED
  BY <1>9, <1>10

LEMMA HalfMore == \A k \in Nat : (3 * k) \div 2 \in Nat /\ (3 * k) \div 2 >= k
OBVIOUS

LEMMA PutFacts ==
  ASSUME NEW b, Sound(b), NEW s \in Strs, NEW memory \in BOOLEAN
  PROVE  LET r == Put(b, s, memory) IN
         /\ Sound(r.buf) /\ r.buf.max = b.max /\ r.buf.mark = b.mark
         /\ r.rc \in {-1, 0, 1}
         /\ r.rc = 0 => r.buf.text = b.text \o s
         /\ r.rc = 1 /\ b.start => \A rest \in Strs :
              r.buf.text = Kept((b.text \o s) \o rest, b.max, b.mark)
<1> DEFINE r == Put(b, s, memory)
           increment == Len(s) - Room(b)
           grown == Resized(b, increment)
           both == b.text \o s
<1> SUFFICES /\ Sound(r.buf) /\ r.buf.max = b.max /\ r.buf.mark = b.mark
             /\ r.rc \in {-1, 0, 1}
             /\ r.rc = 0 => r.buf.text = b.text \o s
             /\ r.rc = 1 /\ b.start => \A rest \in Strs :
                  r.buf.text = Kept((b.text \o s) \o rest, b.max, b.mark)
  OBVIOUS
<1> USE DEF Strs
<1>1. /\ b \in Bufs /\ b.text \in Seq(Chars) /\ Len(b.text) \in Nat /\ Len(s) \in Nat
      /\ b.max \in Nat /\ b.mark \in Nat /\ b.real \in Nat /\ b.start \in BOOLEAN
  BY DEF Sound, Bufs
<1>2. /\ b.start => Room(b) = b.real - 1 - Len(b.text) /\ Room(b) \in Nat
      /\ ~b.start => Room(b) = 0 /\ Len(b.text) = 0
  BY <1>1 DEF Sound, Room
<1>20. Room(b) \in Nat /\ increment \in Int
  BY <1>1, <1>2
<1>21. both \in Seq(Chars) /\ Len(both) = Len(b.text) + Len(s)
  BY <1>1
<1> HIDE DEF both
<1>3. CASE increment <= 0
  <2>1. r = [buf |-> Fit(b, s), rc |-> 0]
    BY <1>3 DEF Put
  <2>3. Fit(b, s) = [b EXCEPT !.text = both]
    BY DEF Fit, both
  <2>4. b.start => Len(both) < b.real
    BY <1>1, <1>2, <1>3, <1>21
  <2>5. ~b.start => both = <<>>
    BY <1>1, <1>2, <1>3, <1>21
  <2>6. Sound(Fit(b, s))
    BY <1>1, <1>21, <2>3, <2>4, <2>5 DEF Sound, Bufs, AtLimit
  <2>7. Fit(b, s).max = b.max /\ Fit(b, s).mark = b.mark /\ Fit(b, s).text = both
    BY <1>1, <2>3 DEF Bufs
  <2>8. r.buf = Fit(b, s) /\ r.rc = 0
    BY <2>1
  <2> HIDE DEF r
  <2> QED
    BY <2>6, <2>7, <2>8 DEF both
<1>4. CASE increment > 0 /\ ~AtLimit(b) /\ ~memory
  <2>1. r = [buf |-> Freed(b), rc |-> -1]
    BY <1>1, <1>20, <1>4 DEF Put
  <2>2. <<>> \in Seq(Chars)
    OBVIOUS
  <2>3. Sound(Freed(b)) /\ Freed(b).max = b.max /\ Freed(b).mark = b.mark
    BY <1>1, <1>4, <2>2 DEF Freed, Sound, Bufs, AtLimit
  <2>4. r.buf = Freed(b) /\ r.rc = -1
    BY <2>1
  <2> HIDE DEF r
  <2> QED
    BY <2>3, <2>4
<1>5. CASE increment > 0 /\ AtLimit(b)
  <2>1. r = [buf |-> Cut(b, s), rc |-> 1]
    BY <1>1, <1>20, <1>5 DEF Put, Resized
  <2>2. b.start /\ b.real = b.max /\ Len(b.text) < b.real /\ Room(b) < Len(s)
    BY <1>1, <1>2, <1>5 DEF Sound, AtLimit
  <2>3. r.buf = Cut(b, s) /\ r.rc = 1
    BY <2>1
  <2> HIDE DEF r
  <2> QED
    BY <1>1, <2>2, <2>3, CutFacts
<1>6. CASE increment > 0 /\ ~AtLimit(b) /\ memory /\ Limited(b, increment)
  <2>1. r = [buf |-> Cut(grown, s), rc |-> 1]
    BY <1>1, <1>20, <1>6 DEF Put
  <2>2. grown = [b EXCEPT !.real = b.max, !.start = TRUE]
    <3>1. NewSize(b, increment) = b.max
      <4>1. b.max # 0 /\ ~(b.real + increment < b.max)
        BY <1>1, <1>20, <1>6 DEF Limited
      <4> HIDE DEF increment
      <4> QED
        BY <4>1 DEF NewSize, Smaller
    <3> HIDE DEF increment
    <3> QED
      BY <1>6, <3>1 DEF Resized
  <2>3. /\ grown \in Bufs /\ grown.start /\ grown.real = grown.max
        /\ grown.text = b.text /\ grown.max = b.max /\ grown.mark = b.mark
    BY <1>1, <2>2 DEF Bufs
  <2>30. b.max > b.real
    BY <1>1, <1>6 DEF AtLimit, Limited
  <2>4. Len(grown.text) < grown.real
    <3> HIDE DEF grown, increment
    <3> QED
      BY <1>1, <2>3, <2>30 DEF Sound
  <2>5. b.start => Room(grown) < Len(s)
    <3>1. b.real + increment > b.max
      BY <1>6 DEF Limited
    <3>2. Room(grown) = b.max - 1 - Len(b.text)
      BY <2>3, Zenon DEF Room
    <3> HIDE DEF grown
    <3> QED
      BY <1>1, <1>2, <3>1, <3>2, SMTT(30)
  <2>6. r.buf = Cut(grown, s) /\ r.rc = 1
    BY <2>1
  <2> HIDE DEF grown, r, increment
  <2> QED
    BY <2>3, <2>4, <2>5, <2>6, CutFacts
<1>7. CASE increment > 0 /\ ~AtLimit(b) /\ memory /\ ~Limited(b, increment)
  <2>1. r = [buf |-> Fit(grown, s), rc |-> 0]
    BY <1>1, <1>20, <1>7 DEF Put
  <2>3. Fit(grown, s)
          = [b EXCEPT !.real = NewSize(b, increment), !.start = TRUE, !.text = both]
    BY <1>1, <1>7 DEF Fit, Resized, Bufs, both
  <2>4. /\ NewSize(b, increment) \in Nat /\ NewSize(b, increment) >= b.real + increment
        /\ b.max # 0 => NewSize(b, increment) <= b.max
    <3>1. increment \in Nat /\ increment > 0
      BY <1>20, <1>7
    <3>2. b.max # 0 => b.real + increment <= b.max
      BY <1>1, <1>7, <1>20 DEF Limited
    <3> HIDE DEF increment
    <3>3. CASE b.max = 0
      <4> DEFINE half == (3 * increment) \div 2
      <4>1. half \in Nat /\ half >= increment
        BY <3>1, HalfMore
      <4>2. NewSize(b, increment) = b.real + half
        BY <3>3 DEF NewSize
      <4> HIDE DEF half
      <4> QED
        BY <1>1, <3>1, <3>3, <4>1, <4>2
    <3>4. CASE b.max # 0
      <4>1. NewSize(b, increment) = b.real + increment
        BY <1>1, <3>1, <3>2, <3>4 DEF NewSize, Smaller
      <4> QED
        BY <1>1, <3>1, <3>2, <4>1
    <3> QED
      BY <3>3, <3>4
  <2>5. Len(both) < b.real + increment /\ increment > 0
    BY <1>1, <1>2, <1>7, <1>21 DEF Sound
  <2> DEFINE size == NewSize(b, increment)
  <2>6. size \in Nat /\ size > 0 /\ Len(both) < size /\ (b.max # 0 => size <= b.max)
    <3> HIDE DEF increment
    <3> QED
      BY <1>1, <1>20, <1>21, <2>4, <2>5
  <2>7. Fit(grown, s) = [b EXCEPT !.real = size, !.start = TRUE, !.text = both]
    BY <2>3
  <2> HIDE DEF grown, increment, size
  <2>8. Sound(Fit(grown, s))
    BY <1>1, <1>21, <2>6, <2>7 DEF Sound, Bufs
  <2>9. /\ Fit(grown, s).max = b.max /\ Fit(grown, s).mark = b.mark
        /\ Fit(grown, s).text = both
    BY <1>1, <2>7 DEF Bufs
  <2>10. r.buf = Fit(grown, s) /\ r.rc = 0
    BY <2>1
  <2> HIDE DEF r
  <2> QED
    BY <2>8, <2>9, <2>10 DEF both
<1>8. increment <= 0 \/ increment > 0
  BY <1>20
<1> HIDE DEF r, increment
<1> QED
  BY <1>3, <1>4, <1>5, <1>6, <1>7, <1>8

LEMMA PutCheckedFacts ==
  ASSUME NEW b, Sound(b), NEW s \in Strs, NEW memory \in BOOLEAN
  PROVE  LET r == PutChecked(b, s, memory) IN
         /\ Sound(r.buf) /\ r.buf.max = b.max /\ r.buf.mark = b.mark
         /\ r.rc \in {-1, 0, 1}
         /\ r.rc # -1 => b.start
         /\ r.rc = 0 => r.buf.text = b.text \o s
         /\ r.rc = 1 => \A rest \in Strs :
              r.buf.text = Kept((b.text \o s) \o rest, b.max, b.mark)
<1>1. b.start \in BOOLEAN
  BY DEF Sound, Bufs
<1>2. CASE b.start
  BY <1>2, PutFacts DEF PutChecked
<1>3. CASE ~b.start
  BY <1>3 DEF PutChecked
<1> QED
  BY <1>1, <1>2, <1>3

\* What a write makes of a buffer that has memory, whether it tests start or not.
Written(b, s, r) ==
  /\ Sound(r.buf) /\ r.buf.max = b.max /\ r.buf.mark = b.mark
  /\ r.rc \in {-1, 0, 1}
  /\ r.rc = 0 => r.buf.text = b.text \o s
  /\ r.rc = 1 /\ b.start => \A rest \in Strs :
       r.buf.text = Kept((b.text \o s) \o rest, b.max, b.mark)

LEMMA WrittenFacts ==
  ASSUME NEW b, Sound(b), NEW s \in Strs, NEW memory \in BOOLEAN
  PROVE  Written(b, s, PutChecked(b, s, memory)) /\ Written(b, s, Put(b, s, memory))
<1>1. Written(b, s, PutChecked(b, s, memory))
  BY PutCheckedFacts DEF Written
<1>2. Written(b, s, Put(b, s, memory))
  BY PutFacts DEF Written
<1> QED
  BY <1>1, <1>2

\* A text that is not cut is what is kept of it.
LEMMA WholeIsKept ==
  ASSUME NEW b, Sound(b)
  PROVE  Kept(b.text, b.max, b.mark) = b.text
<1>1. b \in Bufs /\ Len(b.text) \in Nat /\ b.start \in BOOLEAN
  BY DEF Sound, Bufs, Strs
<1>2. b.max # 0 => Len(b.text) < b.max
  <2>1. CASE b.start
    BY <1>1, <2>1 DEF Sound, Bufs
  <2>2. CASE ~b.start
    BY <1>1, <2>2 DEF Sound, Bufs
  <2> QED
    BY <1>1, <2>1, <2>2
<1> QED
  BY <1>2, Zenon DEF Kept

LEMMA RestartSound ==
  ASSUME NEW b, Sound(b)
  PROVE  /\ Sound(Restart(b)) /\ Restart(b).text = <<>>
         /\ Restart(b).max = b.max /\ Restart(b).mark = b.mark
<1>1. <<>> \in Strs /\ Len(<<>>) = 0
  BY DEF Strs
<1> QED
  BY <1>1 DEF Sound, Bufs, Restart, AtLimit

LEMMA AdjustedType ==
  ASSUME NEW s \in Strs, NEW left \in BOOLEAN, NEW in \in Nat, NEW out \in Nat
  PROVE  Adjusted(s, left, in, out) \in Strs
<1> DEFINE source == IF out = 0 \/ Len(s) < out THEN s ELSE SubSeq(s, 1, out)
           n == IF in > Len(source) THEN in - Len(source) ELSE 0
<1> USE DEF Strs
<1>1. source \in Seq(Chars)
  <2>1. CASE out = 0 \/ Len(s) < out
    BY <2>1
  <2>2. CASE ~(out = 0 \/ Len(s) < out)
    <3>1. out <= Len(s)
      BY <2>2
    <3>2. SubSeq(s, 1, out) \in Seq(Chars)
      BY <3>1
    <3> QED
      BY <2>2, <3>2
  <2> QED
    BY <2>1, <2>2
<1> HIDE DEF source
<1>2. n \in Nat
  BY <1>1
<1> HIDE DEF n
<1>3. Blank(n) \in Seq(Chars)
  BY <1>2, BlankType
<1>4. Adjusted(s, left, in, out) = IF left THEN source \o Blank(n) ELSE Blank(n) \o source
  BY DEF Adjusted, source, n
<1>5. source \o Blank(n) \in Seq(Chars) /\ Blank(n) \o source \in Seq(Chars)
  BY <1>1, <1>3
<1> QED
  BY <1>4, <1>5

LEMMA PaddedType ==
  ASSUME NEW s \in Strs, NEW width \in Nat
  PROVE  Padded(s, width) \in Strs
<1> DEFINE n == IF width > Len(s) THEN width - Len(s) ELSE 0
<1>1. n \in Nat
  BY DEF Strs
<1> HIDE DEF n
<1>2. Blank(n) \in Strs
  BY <1>1, BlankType
<1>3. Blank(n) \o s \in Strs
  BY <1>2 DEF Strs
<1> QED
  BY <1>3 DEF Padded, n

LEMMA KeptType ==
  ASSUME NEW s \in Strs, NEW max \in Nat, NEW mark \in Nat
  PROVE  Kept(s, max, mark) \in Strs
<1>1. CASE max = 0 \/ Len(s) < max
  BY <1>1 DEF Kept
<1>2. CASE ~(max = 0 \/ Len(s) < max)
  <2> DEFINE n == Smaller(mark, max - 1)
  <2>1. Len(s) \in Nat /\ max - 1 \in Nat /\ max - 1 <= Len(s)
    BY <1>2 DEF Strs
  <2>2. n \in Nat /\ n <= max - 1
    BY <2>1, SmallerType
  <2> HIDE DEF n
  <2>3. SubSeq(s, 1, max - 1 - n) \in Seq(Chars) /\ Mark(n) \in Seq(Chars)
    BY <2>1, <2>2, MarkType, SMTT(30) DEF Strs
  <2>4. SubSeq(s, 1, max - 1 - n) \o Mark(n) \in Seq(Chars)
    BY <2>3
  <2> QED
    BY <1>2, <2>4 DEF Kept, n, Strs
<1> QED
  BY <1>1, <1>2
-----------------------------------------------------------------------------
(* What a conversion writes                                                *)

Pieces == [text : Strs, checked : BOOLEAN]

LEMMA PieceType ==
  ASSUME NEW text \in Strs, NEW checked \in BOOLEAN
  PROVE  Piece(text, checked) \in Pieces /\ Piece(text, checked).text = text
BY DEF Piece, Pieces

LEMMA PieceText == \A piece \in Pieces : piece.text \in Seq(Chars)
BY DEF Pieces, Strs

\* One, two and three things are sequences of them.
LEMMA FewType ==
  ASSUME NEW S, NEW a \in S, NEW b \in S, NEW c \in S
  PROVE  <<a>> \in Seq(S) /\ <<a, b, c>> \in Seq(S)
OBVIOUS

LEMMA JoinedType ==
  ASSUME NEW pieces \in Seq(Pieces) PROVE Joined(pieces) \in Strs
<1> DEFINE texts == [n \in DOMAIN pieces |-> pieces[n].text]
<1>1. \A n \in 1..Len(pieces) : pieces[n].text \in Seq(Chars)
  BY PieceText
<1>2. texts \in Seq(Seq(Chars))
  BY <1>1
<1> QED
  BY <1>2, FlattenType DEF Joined, Strs

LEMMA JoinedNone == Joined(<<>>) = <<>>
<1>1. [n \in DOMAIN <<>> |-> <<>>[n].text] = <<>>
  OBVIOUS
<1> QED
  BY <1>1, FlattenNone DEF Joined

LEMMA JoinedHead ==
  ASSUME NEW pieces \in Seq(Pieces), pieces # <<>>
  PROVE  Joined(pieces) = Head(pieces).text \o Joined(Tail(pieces))
<1> DEFINE texts == [n \in DOMAIN pieces |-> pieces[n].text]
           others == [n \in DOMAIN Tail(pieces) |-> Tail(pieces)[n].text]
<1>1. /\ Len(pieces) \in Nat \ {0} /\ Tail(pieces) \in Seq(Pieces)
      /\ Len(Tail(pieces)) = Len(pieces) - 1 /\ Head(pieces) = pieces[1]
      /\ DOMAIN pieces = 1..Len(pieces) /\ DOMAIN Tail(pieces) = 1..Len(pieces) - 1
      /\ \A n \in 1..Len(pieces) - 1 : Tail(pieces)[n] = pieces[n + 1]
      /\ 1 \in 1..Len(pieces)
  OBVIOUS
<1>2. \A n \in 1..Len(pieces) : pieces[n].text \in Seq(Chars)
  BY PieceText
<1>3. texts \in Seq(Seq(Chars)) /\ Len(texts) = Len(pieces) /\ texts # <<>>
  BY <1>1, <1>2
<1>4. Head(texts) = Head(pieces).text
  BY <1>1, <1>3
<1>5. Tail(texts) = others
  <2>1. \A n \in 1..Len(pieces) - 1 : texts[n + 1] = pieces[n + 1].text
    BY <1>1
  <2>2. \A n \in 1..Len(pieces) - 1 : others[n] = pieces[n + 1].text
    BY <1>1
  <2>3. others \in Seq(Seq(Chars)) /\ Len(others) = Len(pieces) - 1
    <3>1. \A n \in 1..Len(pieces) - 1 : Tail(pieces)[n].text \in Seq(Chars)
      <4>1. \A n \in 1..Len(pieces) - 1 : n + 1 \in 1..Len(pieces)
        BY <1>1
      <4> QED
        BY <1>1, <1>2, <4>1
    <3> QED
      BY <1>1, <3>1
  <2>4. /\ Tail(texts) \in Seq(Seq(Chars)) /\ Len(Tail(texts)) = Len(pieces) - 1
        /\ \A n \in 1..Len(pieces) - 1 : Tail(texts)[n] = texts[n + 1]
    BY <1>1, <1>3
  <2> HIDE DEF texts, others
  <2>5. \A n \in 1..Len(Tail(texts)) : Tail(texts)[n] = others[n]
    BY <2>1, <2>2, <2>4
  <2> QED
    BY <2>3, <2>4, <2>5, SeqEqual
<1> HIDE DEF texts, others
<1>6. FlattenSeq(texts) = Head(texts) \o FlattenSeq(Tail(texts))
  BY <1>3, FlattenHead
<1>7. Joined(pieces) = FlattenSeq(texts) /\ Joined(Tail(pieces)) = FlattenSeq(others)
  BY DEF Joined, texts, others
<1> QED
  BY <1>4, <1>5, <1>6, <1>7

LEMMA JoinedOne ==
  ASSUME NEW piece \in Pieces PROVE Joined(<<piece>>) = piece.text
<1>1. /\ <<piece>> \in Seq(Pieces) /\ <<piece>> # <<>> /\ Head(<<piece>>) = piece
      /\ Tail(<<piece>>) = <<>>
  OBVIOUS
<1>2. Joined(<<piece>>) = piece.text \o Joined(<<>>)
  BY <1>1, JoinedHead
<1>3. piece.text \in Seq(Chars)
  BY DEF Pieces, Strs
<1> QED
  BY <1>2, <1>3, JoinedNone, ConcatEmptySeq

LEMMA HexLineType ==
  ASSUME NEW id \in Nat, NEW n \in Nat PROVE HexLine(id, n) \in Seq(Pieces)
<1>1. {"newline", "lineno", "bytes"} \subseteq Kinds /\ 0 \in Nat /\ 1 \in Nat /\ 2 \in Nat
  BY DEF Kinds
<1>2. /\ Text("newline", 0, 1) \in Strs /\ Text("bytes", id, 2) \in Strs
      /\ Text("lineno", n, 1) \in Strs
  BY <1>1, TextType
<1>3. Padded(Text("lineno", n, 1), 2) \in Strs
  BY <1>2, <1>1, PaddedType
<1>4. /\ Piece(Text("newline", 0, 1), FALSE) \in Pieces
      /\ Piece(Padded(Text("lineno", n, 1), 2), TRUE) \in Pieces
      /\ Piece(Text("bytes", id, 2), TRUE) \in Pieces
  BY <1>2, <1>3, PieceType
<1> QED
  BY <1>4, FewType DEF HexLine

LEMMA HexDumpType ==
  ASSUME NEW id \in Nat, NEW lines \in Nat PROVE HexDump(id, lines) \in Seq(Pieces)
<1>1. "head" \in Kinds /\ 0 \in Nat /\ 1 \in Nat
  BY DEF Kinds
<1>2. <<Piece(Text("head", 0, 1), FALSE)>> \in Seq(Pieces)
  <2>1. Text("head", 0, 1) \in Strs
    BY <1>1, TextType
  <2>2. Piece(Text("head", 0, 1), FALSE) \in Pieces
    BY <2>1, PieceType
  <2> QED
    BY <2>2, FewType
<1>3. \A n \in 1..lines : HexLine(id, n) \in Seq(Pieces)
  <2>1. \A n \in 1..lines : n \in Nat
    OBVIOUS
  <2> QED
    BY <2>1, HexLineType
<1> DEFINE all == [n \in 1..lines |-> HexLine(id, n)]
<1>4. all \in Seq(Seq(Pieces))
  BY <1>3
<1> HIDE DEF all
<1>5. FlattenSeq(all) \in Seq(Pieces)
  BY <1>4, FlattenType
<1>6. <<Piece(Text("head", 0, 1), FALSE)>> \o FlattenSeq(all) \in Seq(Pieces)
  BY <1>2, <1>5, ConcatProperties
<1> QED
  BY <1>6 DEF HexDump, all
-----------------------------------------------------------------------------
(* The invariant                                                           *)

Events == [id : 0..MaxEvents, hex : BOOLEAN, size : Nat, stamp : Seconds \cup {0},
           pid : Pids \cup {0}]

TypeInv ==
  /\ clock \in Seconds /\ pid \in Pids /\ mdcSet \in BOOLEAN /\ seen \subseteq Seconds
  /\ event \in Events
  /\ lastPid \in Pids \cup {0} /\ pidStr \in Pids \cup {0}
  /\ tmSec \in [Zones -> Seconds \cup {0}]
  /\ caches \in [Caches -> [sec : Seconds \cup {0}, shows : Seconds \cup {0}]]
  /\ bufs \in [BufNames -> Bufs] /\ \A n \in BufNames : Sound(bufs[n])
  /\ rule \in 1..Len(Rules) /\ part \in {"path", "msg"} /\ spec \in Nat
  /\ pc = "convert" => spec \in 1..(Len(Specs) + 1)
  /\ pc \in {"write", "failed"} => spec \in 1..Len(Specs)
  /\ todo \in Seq(Pieces) /\ rc \in {-1, 0, 1}
  /\ pc \in {"idle", "start", "convert", "write", "output", "failed"}
  /\ misfit \in BOOLEAN

\* What the thread knows of the time and of its process.
EventInv ==
  /\ pidStr = lastPid
  /\ event.pid # 0 => event.pid = lastPid
  /\ \A i \in Caches : caches[i].shows = caches[i].sec
  /\ pc # "idle" => /\ event.pid \in {0, pid} /\ clock \in seen
                    /\ event.stamp \in seen \cup {0}

\* The text of the first n conversions.
Before(n) == [i \in 1..n |-> Expected(Specs[i])]
Prefix(n) == FlattenSeq(Before(n))

\* No time has been written without the clock having been read.
NoTime(n) ==
  event.stamp = 0 => \A i \in 1..n : Specs[i].write \notin {"time", "frac"}

\* The text that is in the buffer of the conversion when it begins to write.
Base == IF Current.adjust THEN <<>> ELSE Prefix(spec - 1)

\* The buffer and what is still to be written make the text.
Writing ==
  /\ Current.adjust => bufs[part].text = Prefix(spec - 1)
  /\ rc = 0 => Base \o Shown(Current) = bufs[Target].text \o Joined(todo)
  /\ rc = 1 => /\ todo = <<>>
               /\ bufs[Target].text
                    = Kept(Base \o Shown(Current), bufs[Target].max, bufs[Target].mark)

TextInv ==
  /\ pc = "convert" => /\ NoTime(spec - 1)
                       /\ ~misfit => bufs[part].text = Prefix(spec - 1)
  /\ pc = "write" => /\ NoTime(spec)
                     /\ todo # <<>> => rc = 0
                     /\ ~misfit => Writing
  /\ pc = "output" => /\ part = "msg"
                      /\ ~misfit => bufs["msg"].text = Prefix(Len(Specs))
  /\ pc = "failed" /\ rc = 1 /\ ~misfit =>
       bufs[part].text = Kept(Prefix(spec), bufs[part].max, bufs[part].mark)

Inv == TypeInv /\ EventInv /\ TextInv

-----------------------------------------------------------------------------
(* The text of conversions                                                 *)

LEMMA SpecsType ==
  ASSUME RenderAssumption, TypeInv
  PROVE  /\ Specs \in Seq(Conversions) /\ Len(Specs) \in Nat
         /\ \A i \in 1..Len(Specs) : Specs[i] \in Conversions
         /\ part \in BufNames /\ Second[part] \in BufNames /\ Second[part] # part
<1>1. Rules[rule] \in [path : Seq(Conversions), format : Seq(Conversions)]
  BY ElementOfSeq DEF RenderAssumption, TypeInv
<1>2. Specs \in Seq(Conversions)
  BY <1>1 DEF Specs, SpecsOf
<1>3. part \in BufNames /\ Second[part] \in BufNames /\ Second[part] # part
  BY DEF TypeInv, BufNames, Second
<1> HIDE DEF Specs
<1> QED
  BY <1>2, <1>3

LEMMA PlainType ==
  ASSUME TypeInv, RenderAssumption, NEW s \in Conversions,
         s.write \notin {"time", "frac", "pid"}
  PROVE  Plain(s) \in Seq(Pieces)
<1>1. /\ event.id \in Nat /\ event.size \in Nat /\ event.hex \in BOOLEAN
      /\ mdcSet \in BOOLEAN
  BY DEF TypeInv, Events, RenderAssumption
<1>2. s.len \in Nat /\ s.write \in Writes
  BY DEF Conversions
<1>3. {"str", "line", "mdc", "user"} \subseteq Kinds /\ 0 \in Nat /\ 1 \in Nat
  BY DEF Kinds
<1>4. /\ Text("str", 0, s.len) \in Strs /\ Text("line", event.id, 1) \in Strs
      /\ Text("mdc", 0, s.len) \in Strs /\ Text("user", event.id, event.size) \in Strs
  BY <1>1, <1>2, <1>3, TextType
<1>5. Padded(Text("line", event.id, 1), s.len) \in Strs
  BY <1>2, <1>4, PaddedType
<1>6. /\ Piece(Text("str", 0, s.len), FALSE) \in Pieces
      /\ Piece(Padded(Text("line", event.id, 1), s.len), TRUE) \in Pieces
      /\ Piece(Text("mdc", 0, s.len), FALSE) \in Pieces
      /\ Piece(Text("user", event.id, event.size), TRUE) \in Pieces
  BY <1>4, <1>5, PieceType
<1>7. /\ <<Piece(Text("str", 0, s.len), FALSE)>> \in Seq(Pieces)
      /\ <<Piece(Padded(Text("line", event.id, 1), s.len), TRUE)>> \in Seq(Pieces)
      /\ <<Piece(Text("mdc", 0, s.len), FALSE)>> \in Seq(Pieces)
      /\ <<Piece(Text("user", event.id, event.size), TRUE)>> \in Seq(Pieces)
      /\ <<>> \in Seq(Pieces)
  BY <1>6, FewType, EmptySeq
<1>8. HexDump(event.id, event.size) \in Seq(Pieces)
  BY <1>1, HexDumpType
<1>9. CASE s.write = "str"
  BY <1>7, <1>9 DEF Plain
<1>10. CASE s.write = "num"
  BY <1>7, <1>10 DEF Plain
<1>11. CASE s.write = "mdc"
  BY <1>7, <1>11 DEF Plain
<1>12. CASE s.write = "msg"
  BY <1>7, <1>8, <1>12 DEF Plain
<1> QED
  BY <1>2, <1>9, <1>10, <1>11, <1>12 DEF Writes

LEMMA ShownType ==
  ASSUME TypeInv, RenderAssumption, NEW s \in Conversions
  PROVE  Shown(s) \in Strs
<1>1. /\ event.stamp \in Nat /\ pid \in Nat /\ s.len \in Nat /\ s.write \in Writes
      /\ s.zone \in Kinds /\ "frac" \in Kinds /\ "pid" \in Kinds
  <2>1. event.stamp \in Nat
    <3>1. event.stamp \in Seconds \cup {0}
      BY DEF TypeInv, Events
    <3>2. Seconds \subseteq Nat /\ 0 \in Nat
      BY DEF RenderAssumption
    <3> QED
      BY <3>1, <3>2, Zenon
  <2>2. pid \in Nat
    BY DEF TypeInv, RenderAssumption
  <2>3. s.len \in Nat /\ s.write \in Writes /\ s.zone \in Zones
    BY DEF Conversions
  <2>4. Zones \subseteq Kinds /\ "frac" \in Kinds /\ "pid" \in Kinds
    BY DEF Zones, Kinds
  <2> QED
    BY <2>1, <2>2, <2>3, <2>4
<1>2. CASE s.write = "time"
  <2>1. Text(s.zone, event.stamp, s.len) \in Strs
    BY <1>1, TextType
  <2> QED
    BY <1>2, <2>1 DEF Shown
<1>3. CASE s.write = "pid"
  <2>1. Text("pid", pid, s.len) \in Strs
    BY <1>1, TextType
  <2> QED
    BY <1>3, <2>1 DEF Shown
<1>30. CASE s.write = "frac"
  <2>1. Text("frac", event.stamp, 1) \in Strs
    BY <1>1, TextType
  <2>2. Padded(Text("frac", event.stamp, 1), s.len) \in Strs
    BY <1>1, <2>1, PaddedType
  <2> QED
    BY <1>30, <2>2 DEF Shown
<1>4. CASE s.write \notin {"time", "frac", "pid"}
  <2>1. Joined(Plain(s)) \in Strs
    BY <1>4, PlainType, JoinedType
  <2> QED
    BY <1>4, <2>1 DEF Shown
<1> QED
  BY <1>2, <1>3, <1>30, <1>4

LEMMA ExpectedType ==
  ASSUME TypeInv, RenderAssumption, NEW s \in Conversions
  PROVE  Expected(s) \in Strs
<1> DEFINE b == bufs[Second[part]]
<1>1. b.max \in Nat /\ b.mark \in Nat
  <2>1. b \in Bufs
    BY SpecsType DEF TypeInv
  <2> QED
    BY <2>1 DEF Bufs
<1>2. s.adjust \in BOOLEAN /\ s.left \in BOOLEAN /\ s.min \in Nat /\ s.max \in Nat
  BY DEF Conversions
<1>3. Shown(s) \in Strs
  BY ShownType
<1>4. Kept(Shown(s), b.max, b.mark) \in Strs
  BY <1>1, <1>3, KeptType
<1>5. Adjusted(Kept(Shown(s), b.max, b.mark), s.left, s.min, s.max) \in Strs
  BY <1>2, <1>4, AdjustedType
<1> QED
  BY <1>3, <1>5 DEF Expected

\* The text of n conversions is that of one less, and the n-th.
LEMMA PrefixFacts ==
  ASSUME TypeInv, RenderAssumption
  PROVE  /\ Prefix(0) = <<>>
         /\ \A n \in 0..Len(Specs) : Prefix(n) \in Strs
         /\ \A n \in 1..Len(Specs) : Prefix(n) = Prefix(n - 1) \o Expected(Specs[n])
<1>1. Before(0) = <<>>
  BY DEF Before
<1>2. \A i \in 1..Len(Specs) : Expected(Specs[i]) \in Seq(Chars)
  BY SpecsType, ExpectedType DEF Strs
<1>3. ASSUME NEW n \in 0..Len(Specs)
      PROVE  /\ Before(n) \in Seq(Seq(Chars)) /\ Len(Before(n)) = n
             /\ \A i \in 1..n : Before(n)[i] = Expected(Specs[i])
  <2>1. n \in Nat /\ \A i \in 1..n : i \in 1..Len(Specs)
    BY SpecsType
  <2>2. \A i \in 1..n : Expected(Specs[i]) \in Seq(Chars)
    BY <1>2, <2>1
  <2> QED
    BY <2>1, <2>2 DEF Before
<1>4. ASSUME NEW n \in 1..Len(Specs)
      PROVE  Prefix(n) = Prefix(n - 1) \o Expected(Specs[n])
  <2>1. n \in 0..Len(Specs) /\ n - 1 \in 0..Len(Specs) /\ n = (n - 1) + 1 /\ n \in 1..n
        /\ \A i \in 1..(n - 1) : i \in 1..n
    BY SpecsType
  <2>2. /\ Before(n) \in Seq(Seq(Chars)) /\ Before(n - 1) \in Seq(Seq(Chars))
        /\ Len(Before(n)) = Len(Before(n - 1)) + 1 /\ Len(Before(n)) = n
        /\ Before(n)[n] = Expected(Specs[n])
    BY <1>3, <2>1
  <2>3. \A i \in 1..Len(Before(n - 1)) : Before(n)[i] = Before(n - 1)[i]
    BY <1>3, <2>1
  <2>4. FlattenSeq(Before(n)) = FlattenSeq(Before(n - 1)) \o Before(n)[n]
    BY <2>2, <2>3, FlattenOneMore
  <2> QED
    BY <2>2, <2>4 DEF Prefix
<1> QED
  BY <1>1, <1>3, <1>4, FlattenNone, FlattenType DEF Prefix, Strs

\* Ideal, of the first n conversions and of all of a format.
LEMMA PrefixIsIdeal ==
  ASSUME TypeInv, RenderAssumption, NEW n \in 0..Len(Specs)
  PROVE  Ideal(SubSeq(Specs, 1, n)) = Prefix(n)
<1> DEFINE some == SubSeq(Specs, 1, n)
<1>1. /\ some \in Seq(Conversions) /\ Len(some) = n /\ n \in Nat
      /\ \A i \in 1..n : some[i] = Specs[i]
  <2> HIDE DEF Specs
  <2> QED
    BY SpecsType
<1> HIDE DEF some
<1>2. DOMAIN some = 1..n
  BY <1>1
<1>3. [i \in DOMAIN some |-> Expected(some[i])] = Before(n)
  BY <1>1, <1>2 DEF Before
<1> QED
  BY <1>3 DEF Ideal, Prefix, some

LEMMA WholeIsIdeal ==
  ASSUME TypeInv, RenderAssumption
  PROVE  Ideal(Specs) = Prefix(Len(Specs))
<1>1. DOMAIN Specs = 1..Len(Specs)
  BY SpecsType
<1>2. [i \in DOMAIN Specs |-> Expected(Specs[i])] = Before(Len(Specs))
  BY <1>1 DEF Before
<1> QED
  BY <1>2 DEF Ideal, Prefix

\* A step that changes none of what the text of a rule is made from, except
\* perhaps the time.
SameText ==
  /\ mdcSet' = mdcSet /\ pid' = pid /\ part' = part /\ rule' = rule
  /\ event'.id = event.id /\ event'.hex = event.hex /\ event'.size = event.size
  /\ \A n \in BufNames : bufs'[n].max = bufs[n].max /\ bufs'[n].mark = bufs[n].mark

TimeKept(s) == s.write \in {"time", "frac"} => event'.stamp = event.stamp

LEMMA SpecsKept == ASSUME SameText PROVE Specs' = Specs
BY DEF SameText, Specs, SpecsOf

LEMMA TextKept ==
  ASSUME TypeInv, RenderAssumption, SameText, NEW i \in 1..Len(Specs), TimeKept(Specs[i])
  PROVE  Shown(Specs[i])' = Shown(Specs[i]) /\ Expected(Specs[i])' = Expected(Specs[i])
<1> DEFINE s == Specs[i]
           kept(b) == Adjusted(Kept(Shown(s), b.max, b.mark), s.left, s.min, s.max)
<1>1. (Specs[i])' = s
  BY SpecsKept
<1>2. Plain(s)' = Plain(s)
  BY <1>1 DEF SameText, Plain
<1>3. Shown(s)' = Shown(s)
  BY <1>1, <1>2 DEF SameText, Shown, TimeKept, Joined
<1>4. Second[part] \in BufNames /\ part' = part
  BY SpecsType DEF SameText
<1>5. Expected(s)' = Expected(s)
  BY <1>1, <1>3, <1>4 DEF SameText, Expected
<1> QED
  BY <1>3, <1>5

LEMMA PrefixKept ==
  ASSUME TypeInv, RenderAssumption, SameText, NEW n \in 0..Len(Specs),
         \A i \in 1..n : TimeKept(Specs[i])
  PROVE  Prefix(n)' = Prefix(n)
<1>1. \A i \in 1..n : i \in 1..Len(Specs)
  BY SpecsType
<1>2. \A i \in 1..n : Expected(Specs[i])' = Expected(Specs[i])
  BY <1>1, TextKept
<1>3. Before(n)' = Before(n)
  BY <1>2 DEF Before
<1> QED
  BY <1>3 DEF Prefix

-----------------------------------------------------------------------------
(* The steps                                                               *)

LEMMA InitInv == RenderAssumption /\ Init => Inv
<1> SUFFICES ASSUME RenderAssumption, Init PROVE Inv
  OBVIOUS
<1>1. ASSUME NEW n \in BufNames
      PROVE  Sound(bufs[n]) /\ bufs[n] \in Bufs
  <2>1. ASSUME NEW min \in Nat \ {0}, NEW max \in Nat, max # 0 => max >= min,
               NEW mark \in Nat
        PROVE  Sound(NewBuf(min, max, mark)) /\ NewBuf(min, max, mark) \in Bufs
    <3>1. <<>> \in Strs /\ Len(<<>>) = 0
      BY DEF Strs
    <3> DEFINE b == NewBuf(min, max, mark)
    <3>2. /\ b \in Bufs /\ b.real = min /\ b.text = <<>> /\ b.start = TRUE /\ b.max = max
      BY <3>1 DEF NewBuf, Bufs
    <3> HIDE DEF b
    <3>3. Len(b.text) = 0 /\ b.real > 0 /\ (b.max # 0 => b.real <= b.max)
      BY <2>1, <3>1, <3>2
    <3>4. Len(b.text) < b.real
      BY <2>1, <3>2, <3>3
    <3>5. Sound(b)
      BY <3>2, <3>3, <3>4 DEF Sound
    <3> QED
      BY <3>2, <3>5 DEF b
  <2>2. /\ PathMax \in Nat \ {0} /\ BufMin \in Nat \ {0} /\ MarkLen \in Nat /\ 0 \in Nat
        /\ \A max \in BufMaxes : max \in Nat /\ (max # 0 => max >= BufMin)
    BY DEF RenderAssumption
  <2>3. /\ Sound(NewBuf(PathMax, PathMax, 0)) /\ NewBuf(PathMax, PathMax, 0) \in Bufs
        /\ \A max \in BufMaxes : Sound(NewBuf(BufMin, max, MarkLen))
                                 /\ NewBuf(BufMin, max, MarkLen) \in Bufs
    <3> HIDE DEF Bufs
    <3>1. /\ Sound(NewBuf(PathMax, PathMax, 0)) /\ NewBuf(PathMax, PathMax, 0) \in Bufs
      <4>1. PathMax \in Nat /\ PathMax >= PathMax
        BY <2>2
      <4> QED
        BY <2>1, <2>2, <4>1
    <3>2. ASSUME NEW max \in BufMaxes
          PROVE  Sound(NewBuf(BufMin, max, MarkLen)) /\ NewBuf(BufMin, max, MarkLen) \in Bufs
      <4>1. max \in Nat /\ (max # 0 => max >= BufMin)
        BY <2>2
      <4> QED
        BY <2>1, <2>2, <4>1
    <3> QED
      BY <3>1, <3>2
  <2>4. PICK max \in BufMaxes :
           bufs = [path    |-> NewBuf(PathMax, PathMax, 0),
                   prePath |-> NewBuf(PathMax, PathMax, 0),
                   msg     |-> NewBuf(BufMin, max, MarkLen),
                   preMsg  |-> NewBuf(BufMin, max, MarkLen)]
    BY DEF Init
  <2> QED
    BY <2>3, <2>4 DEF BufNames
<1>2. bufs \in [BufNames -> Bufs]
  <2>1. PICK max \in BufMaxes :
           bufs = [path    |-> NewBuf(PathMax, PathMax, 0),
                   prePath |-> NewBuf(PathMax, PathMax, 0),
                   msg     |-> NewBuf(BufMin, max, MarkLen),
                   preMsg  |-> NewBuf(BufMin, max, MarkLen)]
    BY DEF Init
  <2>2. bufs = [n \in BufNames |-> bufs[n]]
    BY <2>1 DEF BufNames
  <2> QED
    BY <1>1, <2>2
<1>3. event \in Events
  <2>1. 0 \in 0..MaxEvents
    BY DEF RenderAssumption
  <2> QED
    BY <2>1 DEF Init, Events
<1>4. caches \in [Caches -> [sec : Seconds \cup {0}, shows : Seconds \cup {0}]]
  BY DEF Init
<1>5. rule \in 1..Len(Rules)
  <2>1. Len(Rules) \in Nat \ {0}
    BY LenProperties DEF RenderAssumption
  <2> QED
    BY <2>1 DEF Init
<1>6. TypeInv
  <2>1. <<>> \in Seq(Pieces)
    BY EmptySeq
  <2> QED
    BY <1>1, <1>2, <1>3, <1>4, <1>5, <2>1 DEF Init, TypeInv
<1>7. EventInv
  BY DEF Init, EventInv
<1>8. TextInv
  BY DEF Init, TextInv
<1> QED
  BY <1>6, <1>7, <1>8 DEF Inv

\* What another buffer is put in the place of one does.
LEMMA BufsType ==
  ASSUME TypeInv, NEW STATE n, n \in BufNames, NEW STATE b, Sound(b),
         bufs' = [bufs EXCEPT ![n] = b]
  PROVE  /\ bufs' \in [BufNames -> Bufs] /\ \A m \in BufNames : Sound(bufs'[m])
         /\ bufs'[n] = b /\ \A m \in BufNames \ {n} : bufs'[m] = bufs[m]
<1>1. b \in Bufs
  BY DEF Sound
<1> QED
  BY <1>1 DEF TypeInv

LEMMA TickInv == ASSUME Inv, RenderAssumption, Tick PROVE Inv'
<1>1. SameText
  BY DEF Tick, SameText, eventVars, placeVars
<1>2. TypeInv'
  BY SpecsKept, <1>1 DEF Inv, TypeInv, Tick, eventVars, placeVars
<1>3. EventInv'
  BY DEF Inv, EventInv, Tick, eventVars
<1>4. \A n \in 0..Len(Specs) : Prefix(n)' = Prefix(n)
  BY <1>1, PrefixKept DEF TimeKept, Tick, Inv, eventVars
<1>5. TextInv'
  <2> USE DEF Tick, eventVars, placeVars
  <2>1. ASSUME pc = "convert" PROVE spec - 1 \in 0..Len(Specs)
    BY <2>1, SpecsType DEF Inv, TypeInv
  <2>2. ASSUME pc \in {"write", "failed"}
        PROVE  spec - 1 \in 0..Len(Specs) /\ spec \in 0..Len(Specs) /\ spec \in 1..Len(Specs)
    BY <2>2, SpecsType DEF Inv, TypeInv
  <2>3. Len(Specs) \in 0..Len(Specs)
    BY SpecsType DEF Inv
  <2>4. ASSUME pc = "write", Writing PROVE Writing'
    <3>1. Shown(Current)' = Shown(Current)
      BY <1>1, <2>2, <2>4, TextKept DEF TimeKept, Inv, Current
    <3>2. Prefix(spec - 1)' = Prefix(spec - 1)
      BY <1>4, <2>2, <2>4
    <3> QED
      BY <1>1, <2>4, <3>1, <3>2, SpecsKept DEF Writing, Base, Current, Target
  <2> QED
    BY <1>1, <1>4, <2>1, <2>2, <2>3, <2>4, SpecsKept DEF Inv, TextInv, NoTime
<1> QED
  BY <1>2, <1>3, <1>5 DEF Inv

LEMMA ForkInv == ASSUME Inv, RenderAssumption, Fork PROVE Inv'
BY DEF Fork, Inv, TypeInv, EventInv, TextInv, eventVars, placeVars, Specs, SpecsOf

LEMMA PutMdcInv == ASSUME Inv, RenderAssumption, PutMdc PROVE Inv'
BY DEF PutMdc, Inv, TypeInv, EventInv, TextInv, eventVars, placeVars, Specs, SpecsOf

LEMMA SetEventInv == ASSUME Inv, RenderAssumption, SetEvent PROVE Inv'
<1> USE DEF SetEvent
<1>1. PICK m \in Messages :
        event' = [id |-> event.id + 1, hex |-> m.hex, size |-> m.size,
                  stamp |-> 0, pid |-> 0]
  OBVIOUS
<1>2. m.hex \in BOOLEAN /\ m.size \in Nat
  <2>1. MsgLens \subseteq Nat /\ HexLines \subseteq Nat
    BY DEF RenderAssumption
  <2>2. CASE m \in {[hex |-> FALSE, size |-> n] : n \in MsgLens}
    <3>1. PICK n \in MsgLens : m = [hex |-> FALSE, size |-> n]
      BY <2>2
    <3> QED
      BY <2>1, <3>1
  <2>3. CASE m \in {[hex |-> TRUE, size |-> n] : n \in HexLines}
    <3>1. PICK n \in HexLines : m = [hex |-> TRUE, size |-> n]
      BY <2>3
    <3> QED
      BY <2>1, <3>1
  <2> QED
    BY <2>2, <2>3 DEF Messages
<1>3. event.id + 1 \in 0..MaxEvents
  <2>1. event.id \in 0..MaxEvents /\ MaxEvents \in Nat
    BY DEF Inv, TypeInv, Events, RenderAssumption
  <2> QED
    BY <2>1
<1>4. event' \in Events
  BY <1>1, <1>2, <1>3 DEF Events
<1>5. 1 \in 1..Len(Rules)
  <2>1. Len(Rules) \in Nat \ {0}
    BY LenProperties DEF RenderAssumption
  <2> QED
    BY <2>1
<1>6. TypeInv'
  BY <1>4, <1>5 DEF Inv, TypeInv
<1>7. EventInv'
  BY <1>1 DEF Inv, EventInv
<1>8. TextInv'
  BY DEF TextInv
<1> QED
  BY <1>6, <1>7, <1>8 DEF Inv

LEMMA StartRuleInv == ASSUME Inv, RenderAssumption, StartRule PROVE Inv'
<1> USE DEF StartRule, aroundVars, eventVars
<1>1. part' \in {"path", "msg"} /\ part' \in BufNames
  BY DEF BufNames
<1>2. Sound(Restart(bufs[part'])) /\ Restart(bufs[part']).text = <<>>
  BY <1>1, RestartSound DEF Inv, TypeInv
<1>3. /\ bufs' \in [BufNames -> Bufs] /\ \A m \in BufNames : Sound(bufs'[m])
      /\ bufs'[part'].text = <<>>
  <2>1. Restart(bufs[part']) \in Bufs
    BY <1>2 DEF Sound
  <2> QED
    BY <1>1, <1>2, <2>1 DEF Inv, TypeInv
<1>4. Len(Specs)' \in Nat
  <2>1. Rules[rule] \in [path : Seq(Conversions), format : Seq(Conversions)]
    BY ElementOfSeq DEF RenderAssumption, Inv, TypeInv
  <2>2. Specs' \in Seq(Conversions)
    BY <2>1 DEF Specs, SpecsOf
  <2> HIDE DEF Specs
  <2> QED
    BY <2>2
<1>5. TypeInv'
  <2>1. 1 \in 1..(Len(Specs)' + 1)
    BY <1>4
  <2> QED
    BY <1>1, <1>3, <2>1 DEF Inv, TypeInv
<1>6. EventInv'
  BY DEF Inv, EventInv
<1>7. Prefix(0)' = <<>>
  <2>1. [i \in 1..0 |-> Expected(Specs[i])'] = <<>>
    OBVIOUS
  <2> QED
    BY <2>1, FlattenNone DEF Prefix, Before
<1>8. TextInv'
  BY <1>3, <1>7 DEF TextInv, NoTime
<1> QED
  BY <1>5, <1>6, <1>8 DEF Inv

LEMMA EndPathInv == ASSUME Inv, RenderAssumption, EndPath PROVE Inv'
<1> USE DEF EndPath, aroundVars, eventVars
<1>1. "msg" \in BufNames
  BY DEF BufNames
<1>2. Sound(Restart(bufs["msg"])) /\ Restart(bufs["msg"]).text = <<>>
  BY <1>1, RestartSound DEF Inv, TypeInv
<1>3. /\ bufs' \in [BufNames -> Bufs] /\ \A m \in BufNames : Sound(bufs'[m])
      /\ bufs'["msg"].text = <<>>
  BY <1>1, <1>2, BufsType DEF Inv
<1>4. Len(Specs)' \in Nat
  <2>1. Rules[rule] \in [path : Seq(Conversions), format : Seq(Conversions)]
    BY ElementOfSeq DEF RenderAssumption, Inv, TypeInv
  <2>2. Specs' \in Seq(Conversions)
    BY <2>1 DEF Specs, SpecsOf
  <2> HIDE DEF Specs
  <2> QED
    BY <2>2
<1>5. TypeInv'
  <2>1. 1 \in 1..(Len(Specs)' + 1)
    BY <1>4
  <2> QED
    BY <1>3, <2>1 DEF Inv, TypeInv
<1>6. EventInv'
  BY DEF Inv, EventInv
<1>7. Prefix(0)' = <<>>
  <2>1. [i \in 1..0 |-> Expected(Specs[i])'] = <<>>
    OBVIOUS
  <2> QED
    BY <2>1, FlattenNone DEF Prefix, Before
<1>8. TextInv'
  BY <1>3, <1>7 DEF TextInv, NoTime
<1> QED
  BY <1>5, <1>6, <1>8 DEF Inv

LEMMA EndMsgInv == ASSUME Inv, RenderAssumption, EndMsg PROVE Inv'
<1> USE DEF EndMsg, aroundVars, eventVars, placeVars
<1>1. SameText
  BY DEF SameText
<1>2. TypeInv'
  BY SpecsKept, <1>1 DEF Inv, TypeInv
<1>3. EventInv'
  BY DEF Inv, EventInv
<1>4. spec - 1 = Len(Specs) /\ Len(Specs) \in 0..Len(Specs)
  <2>1. spec \in 1..(Len(Specs) + 1) /\ spec > Len(Specs)
    BY DEF Inv, TypeInv
  <2>2. Len(Specs) \in Nat
    BY SpecsType DEF Inv
  <2> QED
    BY <2>1, <2>2
<1>5. Prefix(Len(Specs))' = Prefix(spec - 1)
  <2>1. \A n \in 0..Len(Specs) : Prefix(n)' = Prefix(n)
    BY <1>1, PrefixKept DEF TimeKept, Inv
  <2> QED
    BY <1>1, <1>4, <2>1, SpecsKept
<1>6. TextInv'
  BY <1>5 DEF Inv, TextInv
<1> QED
  BY <1>2, <1>3, <1>6 DEF Inv

LEMMA NextRuleInv ==
  ASSUME Inv, RenderAssumption, NextRule, pc # "idle" PROVE Inv'
<1> USE DEF NextRule, aroundVars, eventVars
<1>1. rule' \in 1..Len(Rules) /\ pc' \in {"start", "idle"}
  <2>1. rule \in 1..Len(Rules) /\ Len(Rules) \in Nat
    BY LenProperties DEF Inv, TypeInv, RenderAssumption
  <2> QED
    BY <2>1
<1>2. TypeInv'
  BY <1>1 DEF Inv, TypeInv
<1>3. EventInv'
  BY <1>1 DEF Inv, EventInv
<1>4. TextInv'
  BY <1>1 DEF TextInv
<1> QED
  BY <1>2, <1>3, <1>4 DEF Inv

\* A conversion begins to write: into a buffer that holds the text of those
\* before it, or into an empty one.
LEMMA WriteIntoFacts ==
  ASSUME Inv, RenderAssumption, NEW STATE pieces, WriteInto(pieces),
         pc = "convert", spec <= Len(Specs)
  PROVE  /\ spec \in 1..Len(Specs) /\ spec - 1 \in 0..Len(Specs) /\ spec \in 0..Len(Specs)
         /\ Current \in Conversions /\ Target \in BufNames
         /\ bufs' \in [BufNames -> Bufs] /\ \A n \in BufNames : Sound(bufs'[n])
         /\ \A n \in BufNames : bufs'[n].max = bufs[n].max /\ bufs'[n].mark = bufs[n].mark
         /\ bufs'[part] = bufs[part]
         /\ bufs'[Target].text = IF Current.adjust THEN <<>> ELSE bufs[part].text
<1>1. spec \in 1..Len(Specs) /\ spec - 1 \in 0..Len(Specs) /\ spec \in 0..Len(Specs)
  BY SpecsType DEF Inv, TypeInv
<1>2. Current \in Conversions
  BY <1>1, SpecsType DEF Inv, Current
<1>3. /\ Target \in BufNames
      /\ (Current.adjust => Target # part) /\ (~Current.adjust => Target = part)
  BY SpecsType DEF Inv, Target
<1>4. CASE ~Current.adjust
  BY <1>1, <1>2, <1>3, <1>4 DEF WriteInto, Inv, TypeInv
<1>5. CASE Current.adjust
  <2> DEFINE b == Restart(bufs[Target])
  <2>1. /\ Sound(b) /\ b.text = <<>> /\ b.max = bufs[Target].max
        /\ b.mark = bufs[Target].mark
    BY <1>3, RestartSound DEF Inv, TypeInv
  <2>2. bufs' = [bufs EXCEPT ![Target] = b]
    BY <1>5 DEF WriteInto
  <2> HIDE DEF b
  <2>3. /\ bufs' \in [BufNames -> Bufs] /\ \A m \in BufNames : Sound(bufs'[m])
        /\ bufs'[Target] = b /\ \A m \in BufNames \ {Target} : bufs'[m] = bufs[m]
    BY <1>3, <2>1, <2>2, BufsType DEF Inv
  <2>4. bufs'[part] = bufs[part]
    BY <1>3, <1>5, <2>3, SpecsType DEF Inv
  <2> QED
    BY <1>1, <1>2, <1>3, <1>5, <2>1, <2>3, <2>4
<1> QED
  BY <1>4, <1>5

LEMMA ConvertText ==
  ASSUME Inv, RenderAssumption, NEW STATE pieces, WriteInto(pieces),
         pc = "convert", spec <= Len(Specs), SameText, spec' = spec, misfit' = misfit,
         Joined(pieces) = Shown(Current)', NoTime(spec)',
         \A i \in 1..(spec - 1) : TimeKept(Specs[i])
  PROVE  TextInv'
<1>1. pc' = "write" /\ todo' = pieces /\ rc' = 0
  BY DEF WriteInto
<1>2. Prefix(spec - 1)' = Prefix(spec - 1)
  <2>1. ASSUME NEW n \in 0..Len(Specs), n = spec - 1 PROVE Prefix(n)' = Prefix(n)
    BY <2>1, PrefixKept DEF Inv
  <2> QED
    BY <2>1, WriteIntoFacts
<1>3. Current' = Current /\ Target' = Target /\ part' = part
  BY SpecsKept DEF Current, Target, SameText
<1>4. ASSUME ~misfit' PROVE Writing'
  <2>1. bufs[part].text = Prefix(spec - 1)
    BY <1>4 DEF Inv, TextInv
  <2>2. bufs'[part] = bufs[part]
    BY WriteIntoFacts
  <2>3. Base' = bufs'[Target].text
    BY <1>2, <1>3, <2>1, WriteIntoFacts DEF Base
  <2>4. Joined(todo)' = Shown(Current)'
    BY <1>1 DEF Joined
  <2> QED
    BY <1>1, <1>2, <1>3, <2>1, <2>2, <2>3, <2>4 DEF Writing
<1> QED
  BY <1>1, <1>4 DEF TextInv

LEMMA ConvertPlainInv == ASSUME Inv, RenderAssumption, ConvertPlain PROVE Inv'
<1> USE DEF ConvertPlain, aroundVars, eventVars, placeVars
<1> DEFINE pieces == Plain(Current)
<1>1. WriteInto(pieces) /\ pc = "convert" /\ spec <= Len(Specs)
  OBVIOUS
<1>2. pieces \in Seq(Pieces)
  BY <1>1, WriteIntoFacts, PlainType DEF Inv
<1> HIDE DEF pieces
<1>3. SameText
  BY <1>1, WriteIntoFacts DEF SameText
<1>4. TypeInv'
  BY <1>1, <1>2, <1>3, SpecsKept, WriteIntoFacts DEF Inv, TypeInv, WriteInto
<1>5. EventInv'
  BY DEF Inv, EventInv, WriteInto
<1>6. Joined(pieces) = Shown(Current)'
  <2>1. Shown(Current) = Joined(pieces)
    BY DEF Shown, pieces
  <2>2. ASSUME NEW i \in 1..Len(Specs), i = spec PROVE Shown(Specs[i])' = Shown(Specs[i])
    BY <1>3, TextKept DEF Inv, TimeKept
  <2>3. Shown(Current)' = Shown(Current)
    <3>1. spec \in 1..Len(Specs) /\ spec' = spec
      BY <1>1, WriteIntoFacts
    <3> QED
      BY <2>2, <3>1 DEF Current
  <2> QED
    BY <2>1, <2>3
<1>7. NoTime(spec)'
  <2>1. /\ NoTime(spec - 1) /\ spec \in 1..Len(Specs)
      /\ Specs[spec].write \notin {"time", "frac"}
    BY <1>1, WriteIntoFacts DEF Inv, TextInv, Current
  <2>2. \A i \in 1..spec : i = spec \/ i \in 1..(spec - 1)
    BY <2>1
  <2> QED
    BY <1>3, <2>1, <2>2, SpecsKept DEF NoTime
<1>8. \A i \in 1..(spec - 1) : TimeKept(Specs[i])
  BY DEF TimeKept
<1>9. TextInv'
  BY <1>1, <1>3, <1>6, <1>7, <1>8, ConvertText
<1> QED
  BY <1>4, <1>5, <1>9 DEF Inv

LEMMA ConvertTimeInv == ASSUME Inv, RenderAssumption, ConvertTime PROVE Inv'
<1> USE DEF aroundVars, eventVars, placeVars
<1> DEFINE sec  == IF event.stamp = 0 THEN clock ELSE event.stamp
           made == IF caches[Current.cache].sec = sec THEN caches[Current.cache]
                   ELSE [sec |-> sec, shows |-> sec]
           pieces == <<Piece(Text(Current.zone, made.shows, Current.len), FALSE)>>
<1>1. /\ WriteInto(pieces) /\ pc = "convert" /\ spec <= Len(Specs)
      /\ Current.write = "time" /\ event' = [event EXCEPT !.stamp = sec]
      /\ tmSec' = [tmSec EXCEPT ![Current.zone] = sec]
      /\ caches' = [caches EXCEPT ![Current.cache] = made]
      /\ UNCHANGED <<aroundVars, lastPid, pidStr, placeVars, misfit>>
  BY DEF ConvertTime
<1>2. /\ Current \in Conversions /\ Current.zone \in Zones /\ Current.cache \in Caches
      /\ Current.len \in Nat
  BY <1>1, WriteIntoFacts DEF Conversions
<1>3. sec \in Seconds /\ sec \in seen /\ sec # 0 /\ sec \in Nat
  <2>1. clock \in Seconds /\ clock \in seen
    BY <1>1 DEF Inv, TypeInv, EventInv
  <2>2. event.stamp \in Seconds \cup {0} /\ event.stamp \in seen \cup {0}
    BY <1>1 DEF Inv, TypeInv, EventInv, Events
  <2>3. sec \in Seconds /\ sec \in seen
    BY <2>1, <2>2
  <2>4. Seconds \subseteq Nat \ {0}
    BY DEF RenderAssumption
  <2> HIDE DEF sec
  <2> QED
    BY <2>3, <2>4, Zenon
<1>30. event.stamp # 0 => sec = event.stamp
  OBVIOUS
<1> HIDE DEF sec
<1>4. /\ made.sec = sec /\ made.shows = sec
      /\ made \in [sec : Seconds \cup {0}, shows : Seconds \cup {0}]
  <2>1. /\ caches[Current.cache] \in [sec : Seconds \cup {0}, shows : Seconds \cup {0}]
        /\ caches[Current.cache].shows = caches[Current.cache].sec
    BY <1>2 DEF Inv, TypeInv, EventInv
  <2> QED
    BY <1>3, <2>1
<1> HIDE DEF made
<1> DEFINE text == Text(Current.zone, sec, Current.len)
<1>5. text \in Strs
  <2>1. Zones \subseteq Kinds
    BY DEF Zones, Kinds
  <2> QED
    BY <1>2, <1>3, <2>1, TextType
<1>6. pieces = <<Piece(text, FALSE)>>
  BY <1>4
<1> HIDE DEF text, pieces
<1>7. Piece(text, FALSE) \in Pieces /\ Piece(text, FALSE).text = text
  BY <1>5, PieceType
<1>8. pieces \in Seq(Pieces) /\ Joined(pieces) = text
  BY <1>6, <1>7, FewType, JoinedOne
<1>9. event' \in Events /\ event'.stamp = sec /\ event'.pid = event.pid
      /\ event'.id = event.id /\ event'.hex = event.hex /\ event'.size = event.size
  <2>1. event \in Events
    BY DEF Inv, TypeInv
  <2> QED
    BY <1>1, <1>3, <2>1 DEF Events
<1>10. SameText
  BY <1>1, <1>9, WriteIntoFacts DEF SameText
<1>11. TypeInv'
  <2>1. tmSec' \in [Zones -> Seconds \cup {0}]
    BY <1>1, <1>2, <1>3 DEF Inv, TypeInv
  <2>2. caches' \in [Caches -> [sec : Seconds \cup {0}, shows : Seconds \cup {0}]]
    BY <1>1, <1>2, <1>4 DEF Inv, TypeInv
  <2> QED
    BY <1>1, <1>8, <1>9, <1>10, <2>1, <2>2, SpecsKept, WriteIntoFacts
       DEF Inv, TypeInv, WriteInto
<1>12. EventInv'
  <2>1. \A i \in Caches : caches'[i].shows = caches'[i].sec
    BY <1>1, <1>2, <1>4 DEF Inv, TypeInv, EventInv
  <2> QED
    BY <1>1, <1>3, <1>9, <2>1 DEF Inv, EventInv
<1>13. Joined(pieces) = Shown(Current)'
  <2>1. Current' = Current
    BY <1>1, <1>10, SpecsKept DEF Current
  <2> QED
    BY <1>1, <1>8, <1>9, <2>1 DEF Shown, text
<1>14. NoTime(spec)'
  BY <1>3, <1>9 DEF NoTime
<1>15. \A i \in 1..(spec - 1) : TimeKept(Specs[i])
  <2>1. NoTime(spec - 1)
    BY <1>1 DEF Inv, TextInv
  <2> QED
    BY <1>9, <1>30, <2>1 DEF TimeKept, NoTime
<1>16. TextInv'
  BY <1>1, <1>10, <1>13, <1>14, <1>15, ConvertText
<1> QED
  BY <1>11, <1>12, <1>16 DEF Inv

LEMMA ConvertFractionInv == ASSUME Inv, RenderAssumption, ConvertFraction PROVE Inv'
<1> USE DEF aroundVars, eventVars, placeVars
<1> DEFINE sec == IF event.stamp = 0 THEN clock ELSE event.stamp
           text == Padded(Text("frac", sec, 1), Current.len)
           one == <<Piece(text, TRUE)>>
<1>1. /\ WriteInto(<<Piece(Padded(Text("frac", event'.stamp, 1), Current.len), TRUE)>>)
      /\ pc = "convert" /\ spec <= Len(Specs)
      /\ Current.write = "frac" /\ event' = [event EXCEPT !.stamp = sec]
      /\ UNCHANGED <<aroundVars, lastPid, pidStr, tmSec, caches, placeVars, misfit>>
  BY DEF ConvertFraction
<1>2. Current.len \in Nat
  BY <1>1, WriteIntoFacts DEF Conversions
<1>3. sec \in Seconds /\ sec \in seen /\ sec # 0 /\ sec \in Nat
  <2>1. clock \in Seconds /\ clock \in seen
    BY <1>1 DEF Inv, TypeInv, EventInv
  <2>2. event.stamp \in Seconds \cup {0} /\ event.stamp \in seen \cup {0}
    BY <1>1 DEF Inv, TypeInv, EventInv, Events
  <2>3. sec \in Seconds /\ sec \in seen
    BY <2>1, <2>2
  <2>4. Seconds \subseteq Nat \ {0}
    BY DEF RenderAssumption
  <2> HIDE DEF sec
  <2> QED
    BY <2>3, <2>4, Zenon
<1>4. event.stamp # 0 => sec = event.stamp
  OBVIOUS
<1> HIDE DEF sec
<1>5. event' \in Events /\ event'.stamp = sec /\ event'.pid = event.pid
      /\ event'.id = event.id /\ event'.hex = event.hex /\ event'.size = event.size
  <2>1. event \in Events
    BY DEF Inv, TypeInv
  <2> QED
    BY <1>1, <1>3, <2>1 DEF Events
<1>6. text \in Strs
  <2>1. "frac" \in Kinds /\ 1 \in Nat
    BY DEF Kinds
  <2>2. Text("frac", sec, 1) \in Strs
    BY <1>3, <2>1, TextType
  <2> QED
    BY <1>2, <2>2, PaddedType
<1>7. WriteInto(one)
  BY <1>1, <1>5
<1> HIDE DEF text
<1>8. Piece(text, TRUE) \in Pieces /\ Piece(text, TRUE).text = text
  BY <1>6, PieceType
<1>9. one \in Seq(Pieces) /\ Joined(one) = text
  BY <1>8, FewType, JoinedOne
<1> HIDE DEF one
<1>10. SameText
  BY <1>1, <1>5, <1>7, WriteIntoFacts DEF SameText
<1>11. TypeInv'
  BY <1>1, <1>5, <1>7, <1>9, <1>10, SpecsKept, WriteIntoFacts
     DEF Inv, TypeInv, WriteInto
<1>12. EventInv'
  BY <1>1, <1>3, <1>5, <1>7 DEF Inv, EventInv
<1>13. Joined(one) = Shown(Current)'
  <2>1. Current' = Current
    BY <1>1, <1>10, SpecsKept DEF Current
  <2> QED
    BY <1>1, <1>5, <1>9, <2>1 DEF Shown, text
<1>14. NoTime(spec)'
  BY <1>3, <1>5 DEF NoTime
<1>15. \A i \in 1..(spec - 1) : TimeKept(Specs[i])
  <2>1. NoTime(spec - 1)
    BY <1>1 DEF Inv, TextInv
  <2> QED
    BY <1>4, <1>5, <2>1 DEF TimeKept, NoTime
<1>16. TextInv'
  BY <1>1, <1>7, <1>10, <1>13, <1>14, <1>15, ConvertText
<1> QED
  BY <1>11, <1>12, <1>16 DEF Inv

LEMMA ConvertPidInv == ASSUME Inv, RenderAssumption, ConvertPid PROVE Inv'
<1> USE DEF aroundVars, eventVars, placeVars
<1> DEFINE pieces == <<Piece(Text("pid", pidStr', Current.len), FALSE)>>
           text == Text("pid", pid, Current.len)
<1>1. /\ WriteInto(pieces) /\ pc = "convert" /\ spec <= Len(Specs)
      /\ Current.write = "pid"
      /\ event' = [event EXCEPT !.pid = IF @ = 0 THEN pid ELSE @]
      /\ lastPid' = event'.pid
      /\ pidStr' = IF event'.pid = lastPid THEN pidStr ELSE event'.pid
      /\ UNCHANGED <<aroundVars, tmSec, caches, placeVars, misfit>>
  BY DEF ConvertPid
<1>2. /\ event' = [event EXCEPT !.pid = pid] /\ pid \in Pids
  <2>1. event.pid \in {0, pid} /\ pid \in Pids
    BY <1>1 DEF Inv, EventInv, TypeInv
  <2> QED
    BY <1>1, <2>1
<1>3. /\ event' \in Events /\ event'.stamp = event.stamp /\ event'.pid = pid
      /\ event'.id = event.id /\ event'.hex = event.hex /\ event'.size = event.size
  <2>1. event \in Events
    BY DEF Inv, TypeInv
  <2> QED
    BY <1>2, <2>1 DEF Events
<1>4. lastPid' = pid /\ pidStr' = pid
  BY <1>1, <1>3 DEF Inv, EventInv
<1>5. text \in Strs
  <2>1. WriteInto(<<Piece(text, FALSE)>>)
    BY <1>1, <1>4
  <2> HIDE DEF text
  <2>2. Current.len \in Nat
    BY <1>1, <2>1, WriteIntoFacts DEF Conversions
  <2>3. "pid" \in Kinds /\ pid \in Nat
    BY <1>2 DEF Kinds, RenderAssumption
  <2> USE DEF text
  <2> QED
    BY <2>2, <2>3, TextType
<1> DEFINE one == <<Piece(text, FALSE)>>
<1>6. WriteInto(one)
  BY <1>1, <1>4
<1> HIDE DEF text
<1>7. Piece(text, FALSE) \in Pieces /\ Piece(text, FALSE).text = text
  BY <1>5, PieceType
<1>8. one \in Seq(Pieces) /\ Joined(one) = text
  BY <1>7, FewType, JoinedOne
<1> HIDE DEF one
<1>10. SameText
  BY <1>1, <1>3, <1>6, WriteIntoFacts DEF SameText
<1>11. TypeInv'
  BY <1>1, <1>2, <1>3, <1>4, <1>6, <1>8, <1>10, SpecsKept, WriteIntoFacts
     DEF Inv, TypeInv, WriteInto
<1>12. EventInv'
  BY <1>1, <1>3, <1>4, <1>6 DEF Inv, EventInv
<1>13. Joined(one) = Shown(Current)'
  <2>1. Current' = Current
    BY <1>1, <1>10, SpecsKept DEF Current
  <2> QED
    BY <1>1, <1>8, <2>1 DEF Shown, text
<1>14. NoTime(spec)'
  <2>1. /\ NoTime(spec - 1) /\ spec \in 1..Len(Specs)
      /\ Specs[spec].write \notin {"time", "frac"}
    BY <1>1, <1>6, WriteIntoFacts DEF Inv, TextInv, Current
  <2>2. \A i \in 1..spec : i = spec \/ i \in 1..(spec - 1)
    BY <2>1
  <2> QED
    BY <1>1, <1>3, <1>10, <2>1, <2>2, SpecsKept DEF NoTime
<1>15. \A i \in 1..(spec - 1) : TimeKept(Specs[i])
  BY <1>3 DEF TimeKept
<1>16. TextInv'
  BY <1>1, <1>6, <1>10, <1>13, <1>14, <1>15, ConvertText
<1> QED
  BY <1>11, <1>12, <1>16 DEF Inv

\* A step of a conversion that writes: the text its rule is to give stays, and
\* the buffers are others only in what they hold.
LEMMA WriteFacts ==
  ASSUME Inv, RenderAssumption, pc = "write", SameText,
         event' = event, spec' = spec
  PROVE  /\ spec \in 1..Len(Specs) /\ spec - 1 \in 0..Len(Specs) /\ spec \in 0..Len(Specs)
         /\ Current \in Conversions /\ Target \in BufNames
         /\ Current' = Current /\ Target' = Target
         /\ Shown(Current)' = Shown(Current) /\ Shown(Current) \in Seq(Chars)
         /\ Prefix(spec - 1) \in Seq(Chars) /\ Prefix(spec - 1)' = Prefix(spec - 1)
         /\ Prefix(spec) = Prefix(spec - 1) \o Expected(Current)
         /\ Prefix(spec)' = Prefix(spec)
         /\ Base \in Seq(Chars) /\ Base' = Base
         /\ NoTime(spec)
<1>1. spec \in 1..Len(Specs) /\ spec - 1 \in 0..Len(Specs) /\ spec \in 0..Len(Specs)
  BY SpecsType DEF Inv, TypeInv
<1>2. Current \in Conversions /\ Target \in BufNames
  BY <1>1, SpecsType DEF Inv, Current, Target
<1>3. Current' = Current /\ Target' = Target
  BY SpecsKept DEF Current, Target, SameText
<1>4. Shown(Current)' = Shown(Current) /\ Shown(Current) \in Seq(Chars)
  <2>1. ASSUME NEW i \in 1..Len(Specs), i = spec PROVE Shown(Specs[i])' = Shown(Specs[i])
    BY TextKept DEF Inv, TimeKept
  <2>2. Shown(Current)' = Shown(Current)
    BY <1>1, <2>1 DEF Current
  <2> QED
    BY <1>2, <2>2, ShownType DEF Inv, Strs
<1>5. \A n \in 0..Len(Specs) : Prefix(n)' = Prefix(n)
  BY PrefixKept DEF TimeKept, Inv
<1>6. Prefix(spec - 1) \in Seq(Chars) /\ Prefix(spec) = Prefix(spec - 1) \o Expected(Current)
  BY <1>1, PrefixFacts DEF Inv, Current, Strs
<1>7. Prefix(spec - 1)' = Prefix(spec - 1) /\ Prefix(spec)' = Prefix(spec)
  BY <1>1, <1>5
<1>8. Base \in Seq(Chars) /\ Base' = Base
  BY <1>3, <1>6, <1>7, EmptySeq DEF Base
<1>9. NoTime(spec)
  BY DEF Inv, TextInv
<1> QED
  BY <1>1, <1>2, <1>3, <1>4, <1>6, <1>7, <1>8, <1>9

LEMMA WriteInv == ASSUME Inv, RenderAssumption, Write PROVE Inv'
<1> USE DEF aroundVars, eventVars, placeVars
<1> DEFINE piece == Head(todo)
           b == bufs[Target]
<1>1. PICK memory \in BOOLEAN :
        LET r == IF piece.checked THEN PutChecked(b, piece.text, memory)
                                  ELSE Put(b, piece.text, memory)
        IN  /\ bufs' = [bufs EXCEPT ![Target] = r.buf]
            /\ rc' = r.rc
            /\ todo' = IF r.rc = 0 THEN Tail(todo) ELSE <<>>
            /\ misfit' = (misfit \/ (~b.start /\ r.rc = 1))
  BY DEF Write
<1> DEFINE r == IF piece.checked THEN PutChecked(b, piece.text, memory)
                                 ELSE Put(b, piece.text, memory)
<1>2. /\ bufs' = [bufs EXCEPT ![Target] = r.buf] /\ rc' = r.rc
      /\ todo' = IF r.rc = 0 THEN Tail(todo) ELSE <<>>
      /\ misfit' = (misfit \/ (~b.start /\ r.rc = 1))
  BY <1>1
<1>3. /\ pc = "write" /\ todo # <<>>
      /\ UNCHANGED <<aroundVars, eventVars, placeVars, pc>>
  BY DEF Write
<1>4. /\ piece \in Pieces /\ Tail(todo) \in Seq(Pieces)
      /\ Joined(todo) = piece.text \o Joined(Tail(todo))
  BY <1>3, HeadTailProperties, JoinedHead DEF Inv, TypeInv
<1>5. Target \in BufNames /\ spec \in 1..Len(Specs)
  BY <1>3, SpecsType DEF Inv, TypeInv, Target
<1>6. Sound(b) /\ b.start \in BOOLEAN /\ misfit \in BOOLEAN
  BY <1>5 DEF Inv, TypeInv, Sound, Bufs
<1>7. piece.text \in Strs /\ piece.checked \in BOOLEAN
  BY <1>4 DEF Pieces
<1> HIDE DEF piece, b
<1>70. Written(b, piece.text, r)
  <2>1. /\ Written(b, piece.text, PutChecked(b, piece.text, memory))
        /\ Written(b, piece.text, Put(b, piece.text, memory))
    BY <1>6, <1>7, WrittenFacts
  <2>2. CASE piece.checked
    BY <2>1, <2>2, Zenon
  <2>3. CASE ~piece.checked
    BY <2>1, <2>3, Zenon
  <2> QED
    BY <2>2, <2>3
<1> HIDE DEF r
<1>8. /\ Sound(r.buf) /\ r.buf.max = b.max /\ r.buf.mark = b.mark
      /\ r.rc \in {-1, 0, 1}
      /\ r.rc = 0 => r.buf.text = b.text \o piece.text
      /\ r.rc = 1 /\ b.start => \A rest \in Strs :
           r.buf.text = Kept((b.text \o piece.text) \o rest, b.max, b.mark)
  BY <1>70, Zenon DEF Written
<1>9. /\ bufs' \in [BufNames -> Bufs] /\ \A m \in BufNames : Sound(bufs'[m])
      /\ bufs'[Target] = r.buf /\ \A m \in BufNames \ {Target} : bufs'[m] = bufs[m]
  BY <1>2, <1>5, <1>8, BufsType DEF Inv
<1>10. SameText
  <2>1. \A n \in BufNames : bufs'[n].max = bufs[n].max /\ bufs'[n].mark = bufs[n].mark
    BY <1>8, <1>9 DEF b
  <2> QED
    BY <1>3, <2>1 DEF SameText
<1>11. TypeInv'
  <2>1. todo' \in Seq(Pieces)
    BY <1>2, <1>4, EmptySeq
  <2>2. misfit' \in BOOLEAN /\ rc' \in {-1, 0, 1}
    BY <1>2, <1>8
  <2> QED
    BY <1>3, <1>9, <1>10, <2>1, <2>2, SpecsKept DEF Inv, TypeInv
<1>12. EventInv'
  BY <1>3 DEF Inv, EventInv
<1>13. todo' # <<>> => rc' = 0
  BY <1>2
<1>14. NoTime(spec)'
  BY <1>3, <1>10, WriteFacts, SpecsKept DEF NoTime
<1>15. ASSUME ~misfit' PROVE Writing'
  <2>1. ~misfit /\ (r.rc = 1 => b.start)
    BY <1>2, <1>6, <1>8, <1>15
  <2>2. /\ Current.adjust => bufs[part].text = Prefix(spec - 1)
        /\ Base \o Shown(Current) = b.text \o Joined(todo)
    BY <1>3, <2>1 DEF Inv, TextInv, Writing, b
  <2>3. /\ b.text \in Seq(Chars) /\ piece.text \in Seq(Chars)
        /\ Joined(Tail(todo)) \in Seq(Chars)
    BY <1>4, <1>6, <1>7, JoinedType DEF Sound, Bufs, Strs
  <2>4. Base \o Shown(Current) = (b.text \o piece.text) \o Joined(Tail(todo))
    <3>1. b.text \o (piece.text \o Joined(Tail(todo)))
            = (b.text \o piece.text) \o Joined(Tail(todo))
      <4>1. ASSUME NEW x \in Seq(Chars), NEW y \in Seq(Chars), NEW z \in Seq(Chars)
            PROVE  x \o (y \o z) = (x \o y) \o z
        BY ONLY JoinAssociative
      <4> QED
        BY <2>3, <4>1, ZenonT(30)
    <3> QED
      BY <1>4, <2>2, <3>1
  <2>5. (Current.adjust => bufs[part].text = Prefix(spec - 1))'
    <3>1. Current.adjust => Target # part /\ part \in BufNames
      BY SpecsType DEF Inv, Target
    <3> QED
      BY <1>3, <1>9, <1>10, <2>2, <3>1, WriteFacts
  <2>6. (rc = 0 => Base \o Shown(Current) = bufs[Target].text \o Joined(todo))'
    <3> SUFFICES ASSUME rc' = 0
                 PROVE  (Base \o Shown(Current) = bufs[Target].text \o Joined(todo))'
      OBVIOUS
    <3>1. todo' = Tail(todo) /\ r.buf.text = b.text \o piece.text
      BY <1>2, <1>8
    <3>2. Joined(todo)' = Joined(Tail(todo))
      BY <3>1 DEF Joined
    <3> QED
      BY <1>3, <1>9, <1>10, <2>4, <3>1, <3>2, WriteFacts
  <2>7. (rc = 1 => /\ todo = <<>>
                   /\ bufs[Target].text
                        = Kept(Base \o Shown(Current), bufs[Target].max,
                               bufs[Target].mark))'
    <3> SUFFICES ASSUME rc' = 1
                 PROVE  /\ todo' = <<>>
                        /\ bufs'[Target'].text
                             = Kept(Base' \o Shown(Current)', bufs'[Target'].max,
                                    bufs'[Target'].mark)
      BY DEF Kept
    <3>1. todo' = <<>> /\ r.rc = 1
      BY <1>2
    <3>2. Joined(Tail(todo)) \in Strs
      BY <2>3 DEF Strs
    <3>3. r.buf.text = Kept(Base \o Shown(Current), b.max, b.mark)
      BY <1>8, <2>1, <2>4, <3>1, <3>2
    <3>4. bufs'[Target'] = r.buf
      BY <1>3, <1>9, <1>10, WriteFacts
    <3>5. Base' = Base /\ Shown(Current)' = Shown(Current)
      BY <1>3, <1>10, WriteFacts
    <3> QED
      BY <1>8, <3>1, <3>3, <3>4, <3>5
  <2> QED
    BY <2>5, <2>6, <2>7 DEF Writing
<1>16. TextInv'
  BY <1>3, <1>13, <1>14, <1>15 DEF TextInv
<1> QED
  BY <1>11, <1>12, <1>16 DEF Inv

LEMMA ConversionFailsInv == ASSUME Inv, RenderAssumption, ConversionFails PROVE Inv'
<1> USE DEF ConversionFails, aroundVars, eventVars, placeVars
<1>1. SameText
  BY DEF SameText
<1>2. TypeInv'
  BY <1>1, SpecsKept, EmptySeq DEF Inv, TypeInv
<1>3. EventInv'
  BY DEF Inv, EventInv
<1>4. NoTime(spec)'
  BY <1>1, WriteFacts, SpecsKept DEF NoTime
<1>5. ASSUME ~misfit PROVE Writing'
  <2>1. Writing
    BY <1>5 DEF Inv, TextInv
  <2>2. rc' = -1 /\ bufs' = bufs /\ part' = part
    OBVIOUS
  <2> QED
    BY <1>1, <2>1, <2>2, WriteFacts DEF Writing
<1>6. TextInv'
  BY <1>4, <1>5 DEF TextInv
<1> QED
  BY <1>2, <1>3, <1>6 DEF Inv

\* What a conversion comes to: the text up to it, or as much of it as is kept.
LEMMA ConversionEnds ==
  ASSUME Inv, RenderAssumption, pc = "write", SameText, event' = event, misfit' = misfit,
         UNCHANGED <<aroundVars, eventVars, rule, part, todo>>,
         bufs' \in [BufNames -> Bufs], \A m \in BufNames : Sound(bufs'[m]),
         rc' \in {-1, 0, 1},
         IF rc' = 0 THEN spec' = spec + 1 /\ pc' = "convert"
                    ELSE spec' = spec /\ pc' = "failed",
         ~misfit /\ rc' = 0 => bufs'[part].text = Prefix(spec),
         ~misfit /\ rc' = 1 =>
           bufs'[part].text = Kept(Prefix(spec), bufs[part].max, bufs[part].mark)
  PROVE  Inv'
<1> USE DEF aroundVars, eventVars
<1>1. spec \in 1..Len(Specs) /\ Len(Specs) \in Nat /\ spec \in 0..Len(Specs) /\ Specs' = Specs
  BY SpecsType, SpecsKept DEF Inv, TypeInv
<1>2. part \in BufNames
  BY SpecsType DEF Inv
<1>3. EventInv'
  BY DEF Inv, EventInv
<1>4. \A n \in 0..Len(Specs) : Prefix(n)' = Prefix(n)
  BY PrefixKept DEF TimeKept, Inv
<1>5. CASE rc' = 0
  <2>1. spec' = spec + 1 /\ pc' = "convert" /\ spec' - 1 = spec
    BY <1>1, <1>5
  <2>2. TypeInv'
    <3>1. spec' \in 1..(Len(Specs) + 1) /\ spec' \in Nat
      BY <1>1, <2>1
    <3> QED
      BY <1>1, <2>1, <3>1 DEF Inv, TypeInv
  <2>3. NoTime(spec - 1)'
    <3>1. NoTime(spec) /\ event'.stamp = event.stamp
      BY DEF Inv, TextInv
    <3> QED
      BY <1>1, <2>1, <3>1 DEF NoTime
  <2>4. ~misfit => (bufs[part].text = Prefix(spec - 1))'
    <3>1. ASSUME NEW n \in 0..Len(Specs), n = spec PROVE Prefix(n)' = Prefix(n)
      BY <1>4
    <3>2. Prefix(spec - 1)' = Prefix(spec)
      BY <1>1, <2>1, <3>1
    <3> QED
      BY <1>5, <3>2 DEF SameText
  <2>5. TextInv'
    BY <2>1, <2>3, <2>4 DEF TextInv
  <2> QED
    BY <1>3, <2>2, <2>5 DEF Inv
<1>6. CASE rc' # 0
  <2>1. spec' = spec /\ pc' = "failed"
    BY <1>6
  <2>2. TypeInv'
    BY <1>1, <2>1 DEF Inv, TypeInv
  <2>3. Prefix(spec)' = Prefix(spec)
    BY <1>1, <1>4, <2>1
  <2>4. rc' = 1 /\ ~misfit' =>
          (bufs[part].text = Kept(Prefix(spec), bufs[part].max, bufs[part].mark))'
    BY <1>2, <2>3 DEF SameText, Kept
  <2>5. TextInv'
    BY <2>1, <2>4 DEF TextInv
  <2> QED
    BY <1>3, <2>2, <2>5 DEF Inv
<1> QED
  BY <1>5, <1>6

LEMMA DirectInv == ASSUME Inv, RenderAssumption, Direct PROVE Inv'
<1> USE DEF aroundVars, eventVars
<1>1. /\ pc = "write" /\ todo = <<>> /\ ~Current.adjust
      /\ IF rc = 0 THEN spec' = spec + 1 /\ pc' = "convert"
                   ELSE spec' = spec /\ pc' = "failed"
      /\ UNCHANGED <<aroundVars, eventVars, bufs, rule, part, todo, rc, misfit>>
  BY DEF Direct
<1>2. SameText
  BY <1>1 DEF SameText
<1>3. /\ spec \in 1..Len(Specs) /\ spec - 1 \in 0..Len(Specs)
      /\ Current \in Conversions /\ Target = part /\ Target \in BufNames
  BY <1>1, SpecsType, SMTT(30) DEF Inv, TypeInv, Current, Target
<1>4. Prefix(spec) = Prefix(spec - 1) \o Expected(Current)
  BY <1>3, PrefixFacts DEF Inv, Current
<1>5. Base \o Shown(Current) = Prefix(spec)
  BY <1>1, <1>4 DEF Base, Expected
<1>6. ~misfit /\ rc = 0 => bufs[part].text = Prefix(spec)
  <2> SUFFICES ASSUME ~misfit, rc = 0 PROVE bufs[part].text = Prefix(spec)
    OBVIOUS
  <2>1. Base \o Shown(Current) = bufs[part].text \o <<>>
    BY <1>1, <1>3, JoinedNone DEF Inv, TextInv, Writing
  <2>2. bufs[part].text \in Seq(Chars)
    BY <1>3 DEF Inv, TypeInv, Sound, Bufs, Strs
  <2> QED
    BY <1>5, <2>1, <2>2, ConcatEmptySeq
<1>7. ~misfit /\ rc = 1 =>
        bufs[part].text = Kept(Prefix(spec), bufs[part].max, bufs[part].mark)
  BY <1>1, <1>3, <1>5 DEF Inv, TextInv, Writing
<1>8. /\ bufs' \in [BufNames -> Bufs] /\ \A m \in BufNames : Sound(bufs'[m])
      /\ rc' = rc /\ rc' \in {-1, 0, 1} /\ bufs' = bufs /\ event' = event
      /\ misfit' = misfit
  BY <1>1 DEF Inv, TypeInv
<1> QED
  BY <1>1, <1>2, <1>6, <1>7, <1>8, ConversionEnds

LEMMA ReformatInv == ASSUME Inv, RenderAssumption, Reformat PROVE Inv'
<1> USE DEF aroundVars, eventVars
<1>1. /\ pc = "write" /\ todo = <<>> /\ Current.adjust
      /\ UNCHANGED <<aroundVars, eventVars, rule, part, todo, misfit>>
  BY DEF Reformat
<1>2. CASE rc < 0
  <2>1. pc' = "failed" /\ UNCHANGED <<bufs, rc, spec>>
    BY <1>2 DEF Reformat
  <2>2. SameText
    BY <1>1, <2>1 DEF SameText
  <2>3. /\ bufs' \in [BufNames -> Bufs] /\ \A m \in BufNames : Sound(bufs'[m])
        /\ rc' \in {-1, 0, 1} /\ rc' # 0 /\ rc' # 1
    <3>1. bufs \in [BufNames -> Bufs] /\ \A m \in BufNames : Sound(bufs[m])
      BY DEF Inv, TypeInv
    <3>2. rc \in {-1, 0, 1}
      BY DEF Inv, TypeInv
    <3>3. rc' \in {-1, 0, 1} /\ rc' # 0 /\ rc' # 1
      BY <1>2, <2>1, <3>2
    <3> QED
      BY <2>1, <3>1, <3>3
  <2> QED
    BY <1>1, <2>1, <2>2, <2>3, ConversionEnds
<1>3. CASE ~(rc < 0)
  <2> DEFINE text == Adjusted(bufs[Target].text, Current.left, Current.min, Current.max)
             b == bufs[part]
  <2>1. PICK memory \in BOOLEAN :
          LET r == PutChecked(b, text, memory)
          IN  /\ bufs' = [bufs EXCEPT ![part] = r.buf]
              /\ rc' = r.rc
              /\ IF r.rc = 0 THEN spec' = spec + 1 /\ pc' = "convert"
                             ELSE UNCHANGED spec /\ pc' = "failed"
    BY <1>3 DEF Reformat
  <2> DEFINE r == PutChecked(b, text, memory)
  <2>2. /\ bufs' = [bufs EXCEPT ![part] = r.buf] /\ rc' = r.rc
        /\ IF r.rc = 0 THEN spec' = spec + 1 /\ pc' = "convert"
                       ELSE spec' = spec /\ pc' = "failed"
    BY <2>1
  <2>3. /\ spec \in 1..Len(Specs) /\ spec - 1 \in 0..Len(Specs)
        /\ Current \in Conversions /\ Target = Second[part] /\ Target \in BufNames
        /\ part \in BufNames /\ rc \in {0, 1}
    BY <1>1, <1>3, SpecsType, SMTT(30) DEF Inv, TypeInv, Current, Target
  <2>4. /\ Sound(b) /\ Sound(bufs[Target]) /\ bufs[Target].text \in Strs
        /\ b.text \in Seq(Chars)
    BY <2>3 DEF Inv, TypeInv, Sound, Bufs, Strs
  <2>5. text \in Strs
    <3>1. /\ Current.left \in BOOLEAN /\ Current.min \in Nat /\ Current.max \in Nat
      BY <2>3 DEF Conversions
    <3> QED
      BY <2>4, <3>1, AdjustedType
  <2>6. Prefix(spec) = Prefix(spec - 1) \o Expected(Current)
    BY <2>3, PrefixFacts DEF Inv, Current
  <2>7. ASSUME ~misfit
        PROVE  text = Expected(Current) /\ b.text = Prefix(spec - 1)
    <3>1. Writing
      BY <1>1, <2>7 DEF Inv, TextInv
    <3>2. Shown(Current) \in Seq(Chars)
      BY <2>3, ShownType DEF Inv, Strs
    <3>3. Base \o Shown(Current) = Shown(Current)
      BY <1>1, <3>2, ConcatEmptySeq DEF Base
    <3>4. bufs[Target].text = Kept(Shown(Current), bufs[Target].max, bufs[Target].mark)
      <4>1. CASE rc = 0
        <5>1. Shown(Current) = bufs[Target].text \o <<>>
          BY <1>1, <3>1, <3>3, <4>1, JoinedNone DEF Writing
        <5>2. Shown(Current) = bufs[Target].text
          BY <2>4, <5>1, ConcatEmptySeq DEF Strs
        <5> QED
          BY <2>4, <5>2, WholeIsKept
      <4>2. CASE rc = 1
        BY <3>1, <3>3, <4>2 DEF Writing
      <4> QED
        BY <2>3, <4>1, <4>2
    <3>5. Expected(Current) = text
      BY <1>1, <2>3, <3>4, Zenon DEF Expected
    <3> QED
      BY <1>1, <3>1, <3>5 DEF Writing
  <2> HIDE DEF text, b
  <2>8. /\ Sound(r.buf) /\ r.buf.max = b.max /\ r.buf.mark = b.mark
        /\ r.rc \in {-1, 0, 1}
        /\ r.rc = 0 => r.buf.text = b.text \o text
        /\ r.rc = 1 => \A rest \in Strs :
             r.buf.text = Kept((b.text \o text) \o rest, b.max, b.mark)
    BY <2>4, <2>5, PutCheckedFacts
  <2> HIDE DEF r
  <2>9. /\ bufs' \in [BufNames -> Bufs] /\ \A m \in BufNames : Sound(bufs'[m])
        /\ bufs'[part] = r.buf /\ \A m \in BufNames \ {part} : bufs'[m] = bufs[m]
    BY <2>2, <2>3, <2>8, BufsType DEF Inv
  <2>10. SameText
    <3>1. \A n \in BufNames : bufs'[n].max = bufs[n].max /\ bufs'[n].mark = bufs[n].mark
      BY <2>8, <2>9 DEF b
    <3> QED
      BY <1>1, <3>1 DEF SameText
  <2>11. ~misfit /\ rc' = 0 => bufs'[part].text = Prefix(spec)
    BY <2>2, <2>6, <2>7, <2>8, <2>9
  <2>12. ~misfit /\ rc' = 1 =>
           bufs'[part].text = Kept(Prefix(spec), bufs[part].max, bufs[part].mark)
    <3>1. <<>> \in Strs
      BY EmptySeq DEF Strs
    <3>2. (b.text \o text) \o <<>> = b.text \o text
      <4>1. text \in Seq(Chars)
        BY <2>5 DEF Strs
      <4>2. b.text \o text \in Seq(Chars)
        BY <2>4, <4>1, ConcatProperties
      <4> QED
        BY <4>2, ConcatEmptySeq
    <3>3. r.rc = 1 => r.buf.text = Kept(b.text \o text, b.max, b.mark)
      BY <2>8, <3>1, <3>2
    <3> QED
      BY <2>2, <2>6, <2>7, <2>9, <3>3 DEF b
  <2>13. rc' \in {-1, 0, 1}
    BY <2>2, <2>8
  <2> QED
    BY <1>1, <2>2, <2>9, <2>10, <2>11, <2>12, <2>13, ConversionEnds
<1> QED
  BY <1>2, <1>3

LEMMA NextInv == RenderAssumption /\ Inv /\ [Next]_vars => Inv'
<1> SUFFICES ASSUME RenderAssumption, Inv, [Next]_vars PROVE Inv'
  OBVIOUS
<1>1. CASE Tick
  BY <1>1, TickInv
<1>2. CASE Fork
  BY <1>2, ForkInv
<1>3. CASE PutMdc
  BY <1>3, PutMdcInv
<1>4. CASE SetEvent
  BY <1>4, SetEventInv
<1>5. CASE StartRule
  BY <1>5, StartRuleInv
<1>6. CASE EndPath
  BY <1>6, EndPathInv
<1>7. CASE EndMsg
  BY <1>7, EndMsgInv
<1>8. CASE ConvertPlain
  BY <1>8, ConvertPlainInv
<1>9. CASE ConvertTime
  BY <1>9, ConvertTimeInv
<1>90. CASE ConvertFraction
  BY <1>90, ConvertFractionInv
<1>10. CASE ConvertPid
  BY <1>10, ConvertPidInv
<1>11. CASE Write
  BY <1>11, WriteInv
<1>12. CASE ConversionFails
  BY <1>12, ConversionFailsInv
<1>13. CASE Direct
  BY <1>13, DirectInv
<1>14. CASE Reformat
  BY <1>14, ReformatInv
<1>15. CASE Output
  BY <1>15, NextRuleInv DEF Output
<1>16. CASE GiveUp
  BY <1>16, NextRuleInv DEF GiveUp
<1>17. CASE UNCHANGED vars
  <2> USE <1>17 DEF vars, aroundVars, eventVars, placeVars
  <2>1. SameText
    BY DEF SameText
  <2>2. TypeInv' /\ EventInv'
    BY <2>1, SpecsKept DEF Inv, TypeInv, EventInv
  <2>3. \A n \in 0..Len(Specs) : Prefix(n)' = Prefix(n)
    BY <2>1, PrefixKept DEF TimeKept, Inv
  <2>4. pc = "convert" => spec - 1 \in 0..Len(Specs)
    BY SpecsType DEF Inv, TypeInv
  <2>5. pc = "failed" => spec \in 0..Len(Specs)
    BY SpecsType DEF Inv, TypeInv
  <2>6. Len(Specs) \in 0..Len(Specs)
    BY SpecsType DEF Inv
  <2>7. ASSUME pc = "write", Writing PROVE Writing'
    BY <2>1, <2>7, WriteFacts DEF Writing
  <2> QED
    BY <2>1, <2>2, <2>3, <2>4, <2>5, <2>6, <2>7, SpecsKept DEF Inv, TextInv, NoTime
<1> QED
  BY <1>1, <1>2, <1>3, <1>4, <1>5, <1>6, <1>7, <1>8, <1>9, <1>10, <1>11, <1>12,
     <1>13, <1>14, <1>15, <1>16, <1>17, <1>90 DEF Next

LEMMA InvHolds == Spec => []Inv
BY InitInv, NextInv, RenderAssumption, PTL DEF Spec

-----------------------------------------------------------------------------
(* What it gives                                                           *)

\* The thread's state keeps its type: in particular the string of the process is
\* that of the process it was last made for, and a buffer without memory is empty.
THEOREM TypeCorrect == Spec => []TypeOK
<1>1. ASSUME Inv PROVE TypeOK
  <2>1. event \in Events
    BY <1>1 DEF Inv, TypeInv
  <2>2. \A n \in BufNames : ~bufs[n].start => bufs[n].text = <<>>
    BY <1>1 DEF Inv, TypeInv, Sound
  <2>3. pc \in {"convert", "write"} => spec \in 1..(Len(Specs) + 1)
    BY <1>1, SpecsType, RenderAssumption DEF Inv, TypeInv
  <2> QED
    BY <1>1, <2>1, <2>2, <2>3 DEF Inv, TypeInv, EventInv, TypeOK, Events
<1> QED
  BY <1>1, InvHolds, PTL

\* Whatever is written and whatever realloc does, the text of a buffer and its
\* zero are inside its memory, which is not larger than the limit.
THEOREM NoWriteBeyond == Spec => []InBounds
<1>1. ASSUME Inv PROVE InBounds
  BY <1>1 DEF Inv, TypeInv, Sound, InBounds
<1> QED
  BY <1>1, InvHolds, PTL

\* A message that is put out is the text of all conversions of its format.
THEOREM WholeIsOutput == Spec => []OutputIsWhole
<1>1. ASSUME Inv PROVE OutputIsWhole
  <2> SUFFICES ASSUME pc = "output"
               PROVE  /\ ~misfit => bufs["msg"].text = Ideal(Rules[rule].format)
                      /\ event.stamp \in seen \cup {0}
    BY DEF OutputIsWhole
  <2>1. part = "msg" /\ (~misfit => bufs["msg"].text = Prefix(Len(Specs)))
    BY <1>1 DEF Inv, TextInv
  <2>2. Specs = Rules[rule].format
    BY <2>1 DEF Specs, SpecsOf
  <2>3. Prefix(Len(Specs)) = Ideal(Specs)
    BY <1>1, RenderAssumption, WholeIsIdeal DEF Inv
  <2> QED
    BY <1>1, <2>1, <2>2, <2>3 DEF Inv, EventInv
<1> QED
  BY <1>1, InvHolds, PTL

\* A buffer that is full has the beginning of the text and the mark.
THEOREM FullIsMarked == Spec => []CutAtLimit
<1>1. ASSUME Inv PROVE CutAtLimit
  <2> SUFFICES ASSUME pc = "failed", rc = 1, ~misfit
               PROVE  bufs[part].text = Kept(Ideal(SubSeq(Specs, 1, spec)),
                                             bufs[part].max, bufs[part].mark)
    BY DEF CutAtLimit
  <2>1. spec \in 0..Len(Specs)
    BY <1>1, SpecsType, RenderAssumption DEF Inv, TypeInv
  <2>2. Ideal(SubSeq(Specs, 1, spec)) = Prefix(spec)
    BY <1>1, <2>1, RenderAssumption, PrefixIsIdeal DEF Inv
  <2> QED
    BY <1>1, <2>2 DEF Inv, TextInv
<1> QED
  BY <1>1, InvHolds, PTL

=============================================================================
