--------------------------- MODULE SequenceLemmas ---------------------------
(***************************************************************************)
(* What the proofs about recursive definitions share.  FlattenSeq joins a  *)
(* sequence of sequences and is defined by a recursive function.  A claim  *)
(* about all natural numbers is proved by its least counterexample, or of  *)
(* the set of the numbers that it holds for.                               *)
(***************************************************************************)
EXTENDS Integers, Sequences, SequencesExt, SequenceTheorems, TLAPS, WellFoundedInduction

\* A set of natural numbers that is not empty has a least element.
LEMMA Least ==
  ASSUME NEW S, S \subseteq Nat, S # {}
  PROVE  \E n \in S : \A m \in S : n <= m
<1>0. S \in SUBSET Nat
  OBVIOUS
<1>1. PICK n \in S : \A m \in S : <<m, n>> \notin OpToRel(<, Nat)
  BY <1>0, WFMin, NatLessThanWellFounded, Zenon
<1>2. \A m \in S : ~(m < n)
  BY <1>1, Zenon DEF OpToRel
<1> QED
  BY <1>2

\* f[n] is what the first n texts give.
Joins(texts, S, f) ==
  /\ f \in [0..Len(texts) -> Seq(S)]
  /\ f[0] = <<>>
  /\ \A n \in 1..Len(texts) : f[n] = f[n - 1] \o texts[n]

\* There is such a function for every sequence of texts.
LEMMA JoinsExist ==
  ASSUME NEW S, NEW texts \in Seq(Seq(S))
  PROVE  \E f : Joins(texts, S, f)
<1> DEFINE Upto(n, f) == /\ f \in [0..n -> Seq(S)]
                         /\ f[0] = <<>>
                         /\ \A m \in 1..n : f[m] = f[m - 1] \o texts[m]
           Bad == {n \in 0..Len(texts) : ~\E f : Upto(n, f)}
<1>0. Len(texts) \in Nat /\ \A n \in 1..Len(texts) : texts[n] \in Seq(S)
  OBVIOUS
<1>1. SUFFICES ASSUME Bad # {} PROVE FALSE
  <2>1. CASE Bad = {}
    <3>1. Len(texts) \in 0..Len(texts)
      BY <1>0
    <3> HIDE DEF Upto
    <3>2. PICK f : Upto(Len(texts), f)
      BY <2>1, <3>1
    <3> USE DEF Upto
    <3>3. Joins(texts, S, f)
      BY <3>2 DEF Joins
    <3> QED
      BY <3>3
  <2> QED
    BY <2>1
<1>2. PICK n \in Bad : \A m \in Bad : n <= m
  <2>1. Bad \subseteq Nat
    <3> HIDE DEF Upto
    <3> QED
      BY <1>0
  <2> HIDE DEF Bad
  <2> QED
    BY <1>1, <2>1, Least
<1>3. n # 0
  <2>1. <<>> \in Seq(S)
    OBVIOUS
  <2>2. Upto(0, [m \in 0..0 |-> <<>>])
    BY <2>1
  <2> QED
    BY <2>2
<1>4. n \in 1..Len(texts) /\ n - 1 \in 0..Len(texts)
  BY <1>0, <1>2, <1>3
<1>5. PICK f : Upto(n - 1, f)
  <2>1. ~(n <= n - 1)
    BY <1>4
  <2> HIDE DEF Upto
  <2> QED
    BY <1>2, <1>4, <2>1
<1> DEFINE g == [m \in 0..n |-> IF m = n THEN f[n - 1] \o texts[n] ELSE f[m]]
<1>6. f[n - 1] \in Seq(S) /\ f[n - 1] \o texts[n] \in Seq(S)
  BY <1>0, <1>4, <1>5
<1>7. Upto(n, g)
  <2>1. g \in [0..n -> Seq(S)]
    BY <1>0, <1>4, <1>5, <1>6
  <2>2. g[0] = <<>>
    BY <1>4, <1>5
  <2>3. ASSUME NEW m \in 1..n PROVE g[m] = g[m - 1] \o texts[m]
    <3>1. m - 1 \in 0..n /\ m - 1 # n /\ m \in 0..n
      BY <1>4
    <3>2. CASE m = n
      BY <3>1, <3>2
    <3>3. CASE m # n
      <4>1. m \in 1..(n - 1)
        BY <1>4, <3>3
      <4> QED
        BY <1>5, <3>1, <3>3, <4>1
    <3> QED
      BY <3>2, <3>3
  <2> QED
    BY <2>1, <2>2, <2>3
<1> QED
  BY <1>7, <1>2

\* FlattenSeq is the last of them.
LEMMA FlattenIsLast ==
  ASSUME NEW S, NEW texts \in Seq(Seq(S)), NEW f, Joins(texts, S, f)
  PROVE  FlattenSeq(texts) = f[Len(texts)]
<1> DEFINE Joined1(g) == [i \in 1..Len(texts) |->
                            IF i = 1 THEN texts[i] ELSE g[i - 1] \o texts[i]]
<1> DEFINE h == CHOOSE g : g = Joined1(g)
<1>0. Len(texts) \in Nat /\ \A n \in 1..Len(texts) : texts[n] \in Seq(S)
  OBVIOUS
<1>1. CASE Len(texts) = 0
  BY <1>1 DEF FlattenSeq, Joins
<1>2. CASE Len(texts) # 0
  <2>1. FlattenSeq(texts) = h[Len(texts)]
    BY <1>2 DEF FlattenSeq
  <2>2. f[1] = texts[1]
    <3>1. 1 \in 1..Len(texts) /\ 1 - 1 = 0
      BY <1>0, <1>2
    <3>2. f[1] = f[0] \o texts[1] /\ f[0] = <<>> /\ texts[1] \in Seq(S)
      BY <1>0, <3>1 DEF Joins
    <3> QED
      BY <3>2, ConcatEmptySeq
  <2> DEFINE k == [i \in 1..Len(texts) |-> f[i]]
  <2>3. k = Joined1(k)
    <3>1. ASSUME NEW i \in 1..Len(texts), i # 1 PROVE k[i] = k[i - 1] \o texts[i]
      <4>1. i - 1 \in 1..Len(texts)
        BY <1>0, <3>1
      <4> QED
        BY <4>1 DEF Joins
    <3> QED
      BY <2>2, <3>1
  <2>4. h = Joined1(h)
    BY <2>3
  <2> HIDE DEF h
  <2> DEFINE Bad == {n \in 1..Len(texts) : h[n] # f[n]}
  <2>5. SUFFICES ASSUME Bad # {} PROVE FALSE
    BY <1>0, <1>2, <2>1
  <2>6. PICK n \in Bad : \A m \in Bad : n <= m
    <3>1. Bad \subseteq Nat
      BY <1>0
    <3> HIDE DEF Bad
    <3> QED
      BY <2>5, <3>1, Least
  <2>7. n # 1
    BY <2>2, <2>4, <2>6
  <2>8. n \in 1..Len(texts) /\ n - 1 \in 1..Len(texts) /\ n - 1 \notin Bad
    BY <1>0, <2>6, <2>7
  <2>9. h[n] = h[n - 1] \o texts[n]
    BY <2>4, <2>7, <2>8
  <2> QED
    BY <2>6, <2>8, <2>9 DEF Joins
<1> QED
  BY <1>1, <1>2

\* FlattenSeq joins texts into a text.
LEMMA FlattenType ==
  ASSUME NEW S, NEW texts \in Seq(Seq(S)) PROVE FlattenSeq(texts) \in Seq(S)
<1>1. PICK f : Joins(texts, S, f)
  BY JoinsExist
<1>2. Len(texts) \in 0..Len(texts)
  OBVIOUS
<1> QED
  BY <1>1, <1>2, FlattenIsLast DEF Joins

LEMMA FlattenNone == FlattenSeq(<<>>) = <<>>
BY DEF FlattenSeq

\* The first n texts, of those up to and including the n-th.
LEMMA FlattenOneMore ==
  ASSUME NEW S, NEW texts \in Seq(Seq(S)), NEW more \in Seq(Seq(S)),
         Len(more) = Len(texts) + 1, \A n \in 1..Len(texts) : more[n] = texts[n]
  PROVE  FlattenSeq(more) = FlattenSeq(texts) \o more[Len(more)]
<1>1. PICK f : Joins(texts, S, f)
  BY JoinsExist
<1>2. Len(texts) \in Nat /\ more[Len(more)] \in Seq(S)
  OBVIOUS
<1>3. f[Len(texts)] \in Seq(S)
  BY <1>1, <1>2 DEF Joins
<1> DEFINE g == [n \in 0..Len(more) |->
                   IF n = Len(more) THEN f[Len(texts)] \o more[n] ELSE f[n]]
<1>4. Joins(more, S, g)
  <2>1. g \in [0..Len(more) -> Seq(S)]
    BY <1>1, <1>2, <1>3 DEF Joins
  <2>2. g[0] = <<>>
    BY <1>1, <1>2 DEF Joins
  <2>3. ASSUME NEW n \in 1..Len(more) PROVE g[n] = g[n - 1] \o more[n]
    <3>1. n - 1 \in 0..Len(more) /\ n - 1 # Len(more)
      BY <1>2
    <3>2. CASE n = Len(more)
      <4>1. n - 1 = Len(texts)
        BY <1>2, <3>2
      <4>2. g[n - 1] = f[n - 1]
        BY <3>1
      <4>3. g[n] = f[Len(texts)] \o more[n]
        <5>1. n \in 0..Len(more)
          BY <1>2
        <5> QED
          BY <3>2, <5>1
      <4> HIDE DEF g
      <4> QED
        BY <4>1, <4>2, <4>3
    <3>3. CASE n # Len(more)
      <4>1. n \in 1..Len(texts)
        BY <1>2, <3>3
      <4>2. more[n] = texts[n]
        BY <4>1
      <4>3. f[n] = f[n - 1] \o texts[n]
        BY <1>1, <4>1 DEF Joins
      <4>4. g[n - 1] = f[n - 1]
        BY <3>1
      <4>5. g[n] = f[n]
        BY <3>3
      <4> HIDE DEF g
      <4> QED
        BY <4>2, <4>3, <4>4, <4>5
    <3> QED
      BY <3>2, <3>3
  <2> QED
    BY <2>1, <2>2, <2>3 DEF Joins
<1>5. g[Len(more)] = f[Len(texts)] \o more[Len(more)]
  <2>1. Len(more) \in 0..Len(more)
    BY <1>2
  <2> QED
    BY <2>1
<1> HIDE DEF g
<1> QED
  BY <1>1, <1>4, <1>5, FlattenIsLast

\* Texts may be joined in any order.
LEMMA JoinAssociative ==
  \A S : \A r, s, t \in Seq(S) : r \o (s \o t) = (r \o s) \o t
<1> TAKE S
<1> TAKE r, s, t \in Seq(S)
<1> QED
  OBVIOUS

\* The first text, and the others.
LEMMA FlattenHead ==
  ASSUME NEW S, NEW texts \in Seq(Seq(S)), texts # <<>>
  PROVE  FlattenSeq(texts) = Head(texts) \o FlattenSeq(Tail(texts))
<1>0. /\ Len(texts) \in Nat \ {0} /\ Tail(texts) \in Seq(Seq(S))
      /\ Len(Tail(texts)) = Len(texts) - 1 /\ Head(texts) = texts[1]
      /\ \A n \in 1..Len(texts) : texts[n] \in Seq(S)
      /\ \A n \in 1..Len(texts) - 1 : Tail(texts)[n] = texts[n + 1]
  OBVIOUS
<1>00. /\ Len(texts) \in Nat /\ 1 \in 1..Len(texts) /\ 1 - 1 = 0
       /\ texts[1] \in Seq(S)
  BY <1>0
<1>1. PICK f : Joins(texts, S, f)
  BY JoinsExist
<1>2. PICK g : Joins(Tail(texts), S, g)
  BY <1>0, JoinsExist
<1> DEFINE Bad == {n \in 0..Len(texts) - 1 : f[n + 1] # texts[1] \o g[n]}
<1>3. SUFFICES ASSUME Bad # {} PROVE FALSE
  <2>1. Len(texts) - 1 \in 0..Len(texts) - 1 /\ (Len(texts) - 1) + 1 = Len(texts)
    BY <1>0
  <2>2. FlattenSeq(texts) = f[Len(texts)]
    BY <1>1, FlattenIsLast
  <2>3. FlattenSeq(Tail(texts)) = g[Len(texts) - 1]
    BY <1>0, <1>2, FlattenIsLast
  <2> QED
    BY <1>0, <2>1, <2>2, <2>3
<1>4. PICK n \in Bad : \A m \in Bad : n <= m
  <2>1. Bad \subseteq Nat
    <3>1. \A n \in 0..Len(texts) - 1 : n \in Nat
      BY <1>00
    <3> QED
      BY <3>1, Zenon
  <2> HIDE DEF Bad
  <2> QED
    BY <1>3, <2>1, Least
<1>5. n # 0
  <2>1. f[1] = f[0] \o texts[1] /\ f[0] = <<>> /\ g[0] = <<>> /\ texts[1] \in Seq(S)
    BY <1>00, <1>1, <1>2 DEF Joins
  <2>2. f[0 + 1] = texts[1] \o g[0]
    BY <2>1, ConcatEmptySeq
  <2> QED
    BY <1>4, <2>2
<1>6. n \in 1..Len(texts) - 1 /\ n - 1 \in 0..Len(texts) - 1 /\ n - 1 \notin Bad
  <2>1. n \in 1..Len(texts) - 1 /\ n - 1 \in 0..Len(texts) - 1 /\ ~(n <= n - 1)
    BY <1>00, <1>4, <1>5
  <2> HIDE DEF Bad
  <2> QED
    BY <1>4, <2>1
<1>7. f[n] = texts[1] \o g[n - 1]
  <2>1. (n - 1) + 1 = n
    BY <1>6
  <2> QED
    BY <1>6, <2>1
<1>8. f[n + 1] = f[n] \o texts[n + 1]
  <2>1. n + 1 \in 1..Len(texts) /\ (n + 1) - 1 = n
    BY <1>0, <1>6
  <2>2. \A i \in 1..Len(texts) : f[i] = f[i - 1] \o texts[i]
    BY <1>1 DEF Joins
  <2> QED
    BY ONLY <2>1, <2>2
<1>9. g[n] = g[n - 1] \o texts[n + 1]
  BY <1>0, <1>2, <1>6 DEF Joins
<1>10. g[n - 1] \in Seq(S) /\ texts[n + 1] \in Seq(S) /\ texts[1] \in Seq(S)
  <2>1. n + 1 \in 1..Len(texts) /\ n - 1 \in 0..Len(Tail(texts))
    BY <1>0, <1>6
  <2> QED
    BY <1>0, <1>00, <1>2, <2>1 DEF Joins
<1>11. texts[1] \o (g[n - 1] \o texts[n + 1]) = (texts[1] \o g[n - 1]) \o texts[n + 1]
  <2>1. ASSUME NEW r \in Seq(S), NEW s \in Seq(S), NEW t \in Seq(S)
        PROVE  r \o (s \o t) = (r \o s) \o t
    BY ONLY JoinAssociative
  <2> QED
    BY <1>10, <2>1
<1> QED
  BY <1>4, <1>7, <1>8, <1>9, <1>11

\* All of two sequences of texts.
LEMMA FlattenConcat ==
  ASSUME NEW S, NEW texts \in Seq(Seq(S)), NEW more \in Seq(Seq(S))
  PROVE  FlattenSeq(texts \o more) = FlattenSeq(texts) \o FlattenSeq(more)
<1> DEFINE n == Len(texts)
           k == Len(more)
           both == texts \o more
<1>1. PICK f : Joins(texts, S, f)
  BY JoinsExist
<1>2. PICK g : Joins(more, S, g)
  BY JoinsExist
<1>3. /\ n \in Nat /\ k \in Nat /\ both \in Seq(Seq(S)) /\ Len(both) = n + k
      /\ \A i \in 1..n : both[i] = texts[i]
      /\ \A i \in n + 1..n + k : both[i] = more[i - n]
      /\ \A i \in 1..k : more[i] \in Seq(S)
  OBVIOUS
<1> HIDE DEF n, k, both
<1>4. /\ f \in [0..n -> Seq(S)] /\ f[0] = <<>>
      /\ \A i \in 1..n : f[i] = f[i - 1] \o texts[i]
  BY <1>1 DEF Joins, n
<1>5. /\ g \in [0..k -> Seq(S)] /\ g[0] = <<>>
      /\ \A i \in 1..k : g[i] = g[i - 1] \o more[i]
  BY <1>2 DEF Joins, k
<1> DEFINE h == [i \in 0..n + k |-> IF i <= n THEN f[i] ELSE f[n] \o g[i - n]]
<1>6. n \in 0..n /\ f[n] \in Seq(S) /\ f[n] \o <<>> = f[n]
  BY <1>3, <1>4
<1>7. h \in [0..n + k -> Seq(S)]
  <2>1. ASSUME NEW i \in 0..n + k PROVE h[i] \in Seq(S)
    <3>1. CASE i <= n
      BY <1>3, <1>4, <3>1
    <3>2. CASE ~(i <= n)
      <4>1. i - n \in 0..k
        BY <1>3, <3>2
      <4>2. g[i - n] \in Seq(S)
        BY <1>5, <4>1
      <4> QED
        BY <1>6, <3>2, <4>2
    <3> QED
      BY <3>1, <3>2
  <2> QED
    BY <2>1
<1>8. h[0] = <<>>
  BY <1>3, <1>4
<1>9. ASSUME NEW i \in 1..n + k PROVE h[i] = h[i - 1] \o both[i]
  <2>1. CASE i <= n
    <3>1. i \in 1..n /\ i - 1 \in 0..n + k /\ i - 1 <= n /\ i \in 0..n + k
      BY <1>3, <2>1
    <3>2. h[i] = f[i] /\ h[i - 1] = f[i - 1]
      BY <3>1, <2>1
    <3> HIDE DEF h
    <3> QED
      BY <1>3, <1>4, <3>1, <3>2
  <2>2. CASE i = n + 1
    <3>0. n \in Nat /\ k \in Nat /\ n + 1 <= n + k
      BY <1>3, <2>2
    <3>1. i - n = 1 /\ i - 1 = n /\ 1 \in 1..k /\ ~(i <= n) /\ i \in 0..n + k
          /\ i - 1 \in 0..n + k /\ i - 1 <= n /\ i \in n + 1..n + k /\ 1 - 1 = 0
      BY ONLY <2>2, <3>0
    <3>2. h[i] = f[n] \o g[1] /\ h[i - 1] = f[n]
      BY <3>1
    <3> HIDE DEF h
    <3>3. g[1] = <<>> \o more[1] /\ more[1] \in Seq(S) /\ both[i] = more[1]
      <4>1. g[1] = g[1 - 1] \o more[1] /\ g[1 - 1] = g[0]
        BY <1>5, <3>1
      <4>2. more[1] \in Seq(S)
        BY <1>3, <3>1
      <4>3. both[i] = more[i - n]
        BY <1>3, <3>1
      <4> QED
        BY <1>5, <3>1, <4>1, <4>2, <4>3
    <3>4. g[1] = more[1]
      BY <3>3, ConcatEmptySeq
    <3> QED
      BY <3>2, <3>3, <3>4
  <2>3. CASE i > n + 1
    <3> DEFINE j == i - n
    <3>1. /\ j \in 1..k /\ j - 1 \in 0..k /\ ~(i <= n) /\ ~(i - 1 <= n)
          /\ i - 1 \in 0..n + k /\ i \in n + 1..n + k /\ (i - 1) - n = j - 1
          /\ i \in 0..n + k
      BY <1>3, <2>3
    <3>2. h[i] = f[n] \o g[j] /\ h[i - 1] = f[n] \o g[j - 1]
      BY <3>1
    <3>3. both[i] = more[j]
      BY <1>3, <3>1
    <3> HIDE DEF h, j
    <3>4. g[j] = g[j - 1] \o more[j] /\ g[j - 1] \in Seq(S) /\ more[j] \in Seq(S)
      BY <1>3, <1>5, <3>1
    <3>5. ASSUME NEW r \in Seq(S), NEW s \in Seq(S), NEW t \in Seq(S)
          PROVE  r \o (s \o t) = (r \o s) \o t
      BY ONLY JoinAssociative
    <3>6. f[n] \o (g[j - 1] \o more[j]) = (f[n] \o g[j - 1]) \o more[j]
      BY <1>6, <3>4, <3>5
    <3> QED
      BY <3>2, <3>3, <3>4, <3>6
  <2>4. i <= n \/ i = n + 1 \/ i > n + 1
    BY <1>3
  <2> QED
    BY <2>1, <2>2, <2>3, <2>4, Zenon
<1>10. Joins(both, S, h)
  BY <1>3, <1>7, <1>8, <1>9 DEF Joins
<1>11. h[n + k] = f[n] \o g[k]
  <2>1. CASE k = 0
    BY <1>3, <1>5, <1>6, <2>1
  <2>2. CASE k # 0
    <3>1. n + k \in 0..n + k /\ ~(n + k <= n) /\ (n + k) - n = k
      BY <1>3, <2>2
    <3> QED
      BY <3>1
  <2> QED
    BY <2>1, <2>2
<1> HIDE DEF h
<1>12. FlattenSeq(both) = h[n + k] /\ FlattenSeq(texts) = f[n] /\ FlattenSeq(more) = g[k]
  BY <1>1, <1>2, <1>3, <1>10, FlattenIsLast DEF n, k
<1> QED
  BY <1>11, <1>12 DEF both

\* The texts one after the other, with their lengths, and with one element more.
LEMMA ConcatFacts ==
  ASSUME NEW S, NEW s \in Seq(S), NEW t \in Seq(S), NEW n \in Nat, NEW l \in Nat,
         Len(s) = n, Len(t) = l
  PROVE  /\ s \o t \in Seq(S) /\ Len(s \o t) = n + l
         /\ \A k \in 1..n : (s \o t)[k] = s[k]
         /\ \A k \in n + 1..n + l : (s \o t)[k] = t[k - n]
OBVIOUS

\* A single text; and two sequences that agree everywhere are the same.
LEMMA ConcatOne ==
  ASSUME NEW S, NEW s \in Seq(S), NEW n \in Nat, Len(s) = n, NEW e \in S
  PROVE  /\ s \o <<e>> \in Seq(S) /\ Len(s \o <<e>>) = n + 1
         /\ (\A i \in 1..n : (s \o <<e>>)[i] = s[i]) /\ (s \o <<e>>)[n + 1] = e
OBVIOUS

LEMMA SameSequence ==
  ASSUME NEW S, NEW s \in Seq(S), NEW t \in Seq(S), NEW n \in Nat,
         Len(s) = n, Len(t) = n, \A k \in 1..n : s[k] = t[k]
  PROVE  s = t
OBVIOUS

\* A part of a text, and the next element.
LEMMA OneMoreOf ==
  ASSUME NEW S, NEW s \in Seq(S), NEW a \in Nat, NEW n \in 1..Len(s), a + 1 <= n
  PROVE  SubSeq(s, a + 1, n) = SubSeq(s, a + 1, n - 1) \o <<s[n]>>
<1>1. PICK N \in Nat : N = Len(s)
  OBVIOUS
<1>2. PICK x : x = SubSeq(s, a + 1, n)
  OBVIOUS
<1>3. PICK y : y = SubSeq(s, a + 1, n - 1)
  OBVIOUS
<1>4. n \in 1..N /\ n \in Nat /\ n - a \in Nat /\ n - 1 - a \in Nat /\ s[n] \in S
  BY <1>1
<1>5. x \in Seq(S) /\ Len(x) = n - a /\ \A k \in 1..n - a : x[k] = s[a + k]
  BY <1>1, <1>2, <1>4, SubSeqProperties
<1>6. y \in Seq(S) /\ Len(y) = n - 1 - a /\ \A k \in 1..n - 1 - a : y[k] = s[a + k]
  BY <1>1, <1>3, <1>4, SubSeqProperties
<1>7. /\ y \o <<s[n]>> \in Seq(S) /\ Len(y \o <<s[n]>>) = n - 1 - a + 1
      /\ \A k \in 1..n - 1 - a : (y \o <<s[n]>>)[k] = y[k]
      /\ \A k \in n - 1 - a + 1..n - 1 - a + 1 : (y \o <<s[n]>>)[k] = <<s[n]>>[k - (n - 1 - a)]
  <2>1. <<s[n]>> \in Seq(S) /\ Len(<<s[n]>>) = 1
    BY <1>4
  <2> QED
    BY <1>4, <1>6, <2>1, ConcatFacts
<1>8. ASSUME NEW k \in 1..n - a PROVE x[k] = (y \o <<s[n]>>)[k]
  <2>1. CASE k <= n - 1 - a
    <3>1. k \in 1..n - 1 - a
      BY <1>4, <2>1
    <3>2. (y \o <<s[n]>>)[k] = y[k]
      BY <1>7, <3>1
    <3>3. y[k] = s[a + k]
      BY <1>6, <3>1
    <3> QED
      BY <1>5, <3>2, <3>3
  <2>2. CASE k > n - 1 - a
    <3>1. k = n - a /\ a + k = n
      BY <1>4, <2>2
    <3> QED
      BY <1>4, <1>5, <1>7, <3>1
  <2>3. k \in Int /\ n \in Int /\ a \in Int
    BY <1>4
  <2>4. k <= n - 1 - a \/ k > n - 1 - a
    BY <2>3
  <2> QED
    BY <2>1, <2>2, <2>4
<1>9. Len(y \o <<s[n]>>) = n - a
  BY <1>4, <1>7
<1>10. x = y \o <<s[n]>>
  BY <1>4, <1>5, <1>7, <1>8, <1>9, SameSequence
<1> QED
  BY <1>2, <1>3, <1>10

\* A set with 0, and with n + 1 if with n, has all natural numbers.
LEMMA Inductive ==
  ASSUME NEW S, 0 \in S, \A n \in Nat : n \in S => n + 1 \in S
  PROVE  Nat \subseteq S
<1> SUFFICES ASSUME Nat \ S # {} PROVE FALSE
  OBVIOUS
<1>1. PICK n \in Nat \ S : \A m \in Nat \ S : n <= m
  BY Least
<1>2. n # 0 /\ n - 1 \in Nat
  OBVIOUS
<1>3. n - 1 \in S
  BY <1>1, <1>2
<1>4. (n - 1) + 1 \in S
  BY <1>2, <1>3
<1> QED
  BY <1>4

\* f is what the steps give from x on, the first n times.
Stepped(f, n, X, x, steps) ==
  /\ f \in [0..n -> X]
  /\ f[0] = x
  /\ \A i \in 0..n - 1 : f[i + 1] = steps[i][f[i]]

\* f is what the steps give from x on.
Recurs(f, X, x, steps) ==
  /\ f \in [Nat -> X]
  /\ f[0] = x
  /\ \A n \in Nat : f[n + 1] = steps[n][f[n]]

\* What is defined by recursion over the natural numbers exists.
LEMMA Recursion ==
  ASSUME NEW X, NEW x \in X, NEW steps \in [Nat -> [X -> X]]
  PROVE  \E f : Recurs(f, X, x, steps)
<1> DEFINE Good == {n \in Nat : \E f : Stepped(f, n, X, x, steps)}
           Same == {i \in Nat : \A n, m \in Nat : \A f, g :
                      /\ i <= n /\ i <= m
                      /\ Stepped(f, n, X, x, steps) /\ Stepped(g, m, X, x, steps)
                      => f[i] = g[i]}
<1>1. 0 \in Good
  <2>1. Stepped([i \in 0..0 |-> x], 0, X, x, steps)
    BY DEF Stepped
  <2> QED
    BY <2>1
<1>2. ASSUME NEW n \in Nat, n \in Good PROVE n + 1 \in Good
  <2>1. PICK f : Stepped(f, n, X, x, steps)
    BY <1>2
  <2> DEFINE g == [i \in 0..n + 1 |-> IF i = n + 1 THEN steps[n][f[n]] ELSE f[i]]
  <2>2. steps[n][f[n]] \in X
    BY <2>1 DEF Stepped
  <2>3. g \in [0..n + 1 -> X]
    BY <2>1, <2>2 DEF Stepped
  <2>4. g[0] = x
    BY <2>1 DEF Stepped
  <2>5. ASSUME NEW i \in 0..n PROVE g[i + 1] = steps[i][g[i]]
    <3>1. CASE i = n
      BY <3>1
    <3>2. CASE i # n
      <4>1. /\ i \in 0..n - 1 /\ i + 1 \in 0..n + 1 /\ i \in 0..n + 1
            /\ i + 1 # n + 1 /\ i # n + 1
        BY <3>2
      <4>2. f[i + 1] = steps[i][f[i]]
        BY <2>1, <4>1 DEF Stepped
      <4> QED
        BY <4>1, <4>2
    <3> QED
      BY <3>1, <3>2
  <2>6. (n + 1) - 1 = n
    OBVIOUS
  <2> HIDE DEF g
  <2>7. Stepped(g, n + 1, X, x, steps)
    BY <2>3, <2>4, <2>5, <2>6 DEF Stepped
  <2> QED
    BY <2>7
<1>3. 0 \in Same
  BY DEF Stepped
<1>4. ASSUME NEW i \in Nat, i \in Same PROVE i + 1 \in Same
  <2> SUFFICES ASSUME NEW n \in Nat, NEW m \in Nat, NEW f, NEW g, i + 1 <= n, i + 1 <= m,
                      Stepped(f, n, X, x, steps), Stepped(g, m, X, x, steps)
               PROVE  f[i + 1] = g[i + 1]
    OBVIOUS
  <2>1. i <= n /\ i <= m /\ i \in 0..n - 1 /\ i \in 0..m - 1
    OBVIOUS
  <2>2. f[i] = g[i]
    BY <1>4, <2>1
  <2> QED
    BY <2>1, <2>2 DEF Stepped
<1>5. Nat \subseteq Good
  <2> HIDE DEF Good
  <2> QED
    BY <1>1, <1>2, Inductive
<1>6. Nat \subseteq Same
  <2> HIDE DEF Same
  <2> QED
    BY <1>3, <1>4, Inductive
<1> DEFINE upto == [n \in Nat |-> CHOOSE f : Stepped(f, n, X, x, steps)]
           all == [n \in Nat |-> upto[n][n]]
<1>7. ASSUME NEW n \in Nat PROVE Stepped(upto[n], n, X, x, steps)
  BY <1>5
<1>8. all \in [Nat -> X]
  <2>1. ASSUME NEW n \in Nat PROVE upto[n][n] \in X
    <3> HIDE DEF upto
    <3> QED
      BY <1>7 DEF Stepped
  <2> QED
    BY <2>1
<1>9. all[0] = x
  <2> HIDE DEF upto
  <2> QED
    BY <1>7 DEF Stepped
<1>10. ASSUME NEW n \in Nat PROVE all[n + 1] = steps[n][all[n]]
  <2> HIDE DEF upto
  <2>1. Stepped(upto[n], n, X, x, steps) /\ Stepped(upto[n + 1], n + 1, X, x, steps)
    BY <1>7
  <2>2. upto[n + 1][n + 1] = steps[n][upto[n + 1][n]]
    BY <2>1 DEF Stepped
  <2>3. upto[n + 1][n] = upto[n][n]
    <3>1. PICK f : f = upto[n]
      OBVIOUS
    <3>2. PICK g : g = upto[n + 1]
      OBVIOUS
    <3>3. n \in Same /\ n + 1 \in Nat /\ n <= n /\ n <= n + 1
      BY <1>6
    <3>4. g[n] = f[n]
      BY <2>1, <3>1, <3>2, <3>3
    <3> QED
      BY <3>1, <3>2, <3>4
  <2> QED
    BY <2>2, <2>3
<1> HIDE DEF all
<1>11. Recurs(all, X, x, steps)
  BY <1>8, <1>9, <1>10 DEF Recurs
<1> QED
  BY <1>11
=============================================================================
