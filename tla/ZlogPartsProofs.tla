--------------------------- MODULE ZlogPartsProofs ---------------------------
(***************************************************************************)
(* Proofs about four parts of zlog that keep state of their own.           *)
(*                                                                         *)
(* The levels, for any lines of [levels], with any numbers in them, and    *)
(* any rules.  Of the default levels they take DefaultLevelsAssumption,    *)
(* which TLC computes.                                                     *)
(*                                                                         *)
(* The log file that others rotate, for one thread that logs, any          *)
(* descriptors and period of fsync, and any number of messages, moves,     *)
(* reloads and faults.  With two threads what is proved here is false, as  *)
(* ThreadSafe is.                                                          *)
(*                                                                         *)
(* The configuration, for any lines, formats, rules, periods and outputs,  *)
(* and any number of time formats in a pattern.                            *)
(*                                                                         *)
(* The hash table, which implements Map for any keys, any hash of them,    *)
(* any initial size and any number of puts.                                *)
(***************************************************************************)
EXTENDS Levels, StaticFile, Conf, HashTable, FiniteSetTheorems, SequenceLemmas

-----------------------------------------------------------------------------
(* Levels                                                                  *)

LEMMA MaxOfTwo ==
  ASSUME NEW a \in Int, NEW b \in Int
  PROVE  Max({a, b}) = IF a >= b THEN a ELSE b
BY DEF Max

\* A set of natural numbers that is not empty has its minimum.
LEMMA MinExists ==
  ASSUME NEW S \in SUBSET Nat, S # {}
  PROVE  Min(S) \in S /\ \A x \in S : Min(S) <= x
<1>1. PICK x \in S : \A y \in S : x =< y
  BY Least
<1> QED
  BY <1>1 DEF Min

LEMMA Below256 ==
  ASSUME NEW n \in Nat, n >= 256
  PROVE  Numbers \subseteq 0..n - 1 /\ \A idx \in Numbers : ~(idx > n - 1)
BY DEF Numbers

\* What a list with room for all levels gives.
LEMMA Room ==
  ASSUME NEW list, RoomForAll(list)
  PROVE  /\ Numbers \subseteq DOMAIN list.array
         /\ \A idx \in Numbers : ~(idx > list.size - 1)
         /\ list.len = 256 /\ list.inside = TRUE
         /\ list.array \in [DOMAIN list.array -> Names \cup {None}]
<1>1. list.size \in Nat /\ list.size >= 256 /\ list.len = 256 /\ list.inside = TRUE
  BY DEF RoomForAll
<1>2. list.array \in [0..list.size - 1 -> Names \cup {None}]
  BY DEF RoomForAll
<1>3. Numbers \subseteq 0..list.size - 1 /\ \A idx \in Numbers : ~(idx > list.size - 1)
  BY <1>1, Below256
<1> QED
  BY <1>1, <1>2, <1>3

\* A name put into it at a level.
LEMMA SetInside ==
  ASSUME NEW list, RoomForAll(list), NEW idx \in Numbers, NEW name \in Names
  PROVE  /\ RoomForAll(ListSet(list, idx, name))
         /\ ListSet(list, idx, name).array =
              [i \in DOMAIN list.array |-> IF i = idx THEN name ELSE list.array[i]]
<1> DEFINE array == [i \in DOMAIN list.array |-> IF i = idx THEN name ELSE list.array[i]]
<1>1. Max({256, idx + 1}) = 256
  BY MaxOfTwo DEF Numbers
<1>2. Max({list.len, idx + 1}) = 256
  BY <1>1, Room, Zenon
<1>3. ~(idx > list.size - 1) /\ idx \in DOMAIN list.array /\ list.inside = TRUE
  BY Room
<1>4. list.array \in [DOMAIN list.array -> Names \cup {None}]
  BY Room
<1>5. array \in [DOMAIN list.array -> Names \cup {None}]
  BY <1>4
<1>6. ListSet(list, idx, name) =
        [list EXCEPT !.array = array, !.len = 256, !.inside = TRUE]
  <2>1. ListSet(list, idx, name) =
          [list EXCEPT !.array = array, !.len = Max({list.len, idx + 1}),
                       !.inside = list.inside /\ idx \in DOMAIN list.array]
    BY <1>3 DEF ListSet, RoomForAll
  <2> QED
    BY <2>1, <1>2, <1>3
<1> HIDE DEF array
<1>7. DOMAIN list.array = 0..list.size - 1
  BY DEF RoomForAll
<1> DEFINE new == [list EXCEPT !.array = array, !.len = 256, !.inside = TRUE]
<1>8. /\ new \in [size : Nat, len : {256}, array : [0..list.size - 1 -> Names \cup {None}],
                 inside : {TRUE}]
      /\ new.size = list.size /\ new.array = array
  <2>1. list \in [size : Nat, len : {256}, inside : {TRUE},
                  array : [0..list.size - 1 -> Names \cup {None}]]
    BY DEF RoomForAll
  <2>2. array \in [0..list.size - 1 -> Names \cup {None}]
    BY <1>5, <1>7
  <2> HIDE DEF array
  <2>3. DOMAIN list = {"size", "len", "array", "inside"}
    BY <2>1
  <2> QED
    BY ONLY <2>1, <2>2, <2>3
<1> HIDE DEF new
<1>9. RoomForAll(new)
  BY <1>8 DEF RoomForAll
<1> QED
  BY <1>6, <1>8, <1>9 DEF new, array

-----------------------------------------------------------------------------
(* The bitmap of a rule                                                    *)

\* The byte and the bit of a level.
LEMMA Divided ==
  ASSUME NEW l \in Numbers
  PROVE  /\ l \div 8 \in 0..31
         /\ l % 8 \in Byte
         /\ l = (8 * (l \div 8)) + (l % 8)
BY DEF Numbers, Byte

\* The same as C computes them.
LEMMA Truncated ==
  ASSUME NEW l \in Numbers
  PROVE  Quot(l, 8) = l \div 8 /\ Rem(l, 8) = l % 8
BY Divided DEF Quot, Rem, Numbers, Byte

LEMMA TruncatedUnknown == Quot(-1, 8) = 0 /\ Rem(-1, 8) = -1
BY DEF Quot, Rem

\* Levels compare as their bytes do, and within a byte as their bits do.
LEMMA ByteOrder ==
  ASSUME NEW q \in Nat, NEW r \in 0..7, NEW own \in Nat, NEW rest \in -1..7,
         rest = -1 => own = 0
  PROVE  /\ 8 * q + r = 8 * own + rest <=> q = own /\ r = rest
         /\ 8 * q + r >= 8 * own + rest <=> q > own \/ (q = own /\ r >= rest)
<1>1. CASE q < own
  <2>1. q + 1 =< own /\ rest >= 0
    BY <1>1
  <2>2. 8 * q + 8 =< 8 * own
    BY <2>1
  <2> QED
    BY <1>1, <2>1, <2>2
<1>2. CASE q = own
  BY <1>2
<1>3. CASE q > own
  <2>1. 8 * own + 8 =< 8 * q
    BY <1>3
  <2> QED
    BY <1>3, <2>1
<1> QED
  BY <1>1, <1>2, <1>3

\* A level is in the bitmap of a rule exactly when the rule puts it out, whether
\* the level of the rule is known or -1.
LEMMA BitmapOfRule ==
  ASSUME NEW cmp \in {"=", "!", "*", "."}, NEW level \in Numbers \cup {-1},
         NEW l \in Numbers
  PROVE  7 - (l % 8) \in LevelBitmap(cmp, level)[l \div 8]
           <=> RuleOutput([cmp |-> cmp, level |-> level], l)
<1> DEFINE q == l \div 8
           r == l % 8
           own == Quot(level, 8)
           rest == Rem(level, 8)
<1>1. q \in 0..31 /\ r \in 0..7 /\ l = 8 * q + r
  BY Divided DEF Byte
<1>2. \/ own \in 0..31 /\ rest \in 0..7 /\ level = 8 * own + rest
      \/ own = 0 /\ rest = -1 /\ level = -1
  BY Divided, Truncated, TruncatedUnknown DEF Byte
<1>0. /\ l = level <=> q = own /\ r = rest
      /\ l >= level <=> q > own \/ (q = own /\ r >= rest)
  <2>1. q \in Nat /\ r \in 0..7 /\ own \in Nat /\ rest \in -1..7 /\ (rest = -1 => own = 0)
    BY <1>1, <1>2
  <2>2. l = 8 * q + r /\ level = 8 * own + rest
    BY <1>1, <1>2
  <2> HIDE DEF q, r, own, rest
  <2> QED
    BY <2>1, <2>2, ByteOrder
<1>3. CASE cmp = "="
  <2>1. LevelBitmap(cmp, level)[q] = IF q = own THEN Bit(level) \cap Byte ELSE {}
    BY <1>1, <1>2, <1>3 DEF LevelBitmap, Bytes
  <2>2. RuleOutput([cmp |-> cmp, level |-> level], l) <=> l = level
    BY <1>3 DEF RuleOutput
  <2>3. 7 - r \in Bit(level) \cap Byte <=> r = rest
    <3>1. Bit(level) = {7 - rest}
      BY DEF Bit, rest
    <3>2. 7 - r = 7 - rest <=> r = rest
      BY <1>1, <1>2
    <3>3. 7 - r \in Byte
      BY <1>1 DEF Byte
    <3> QED
      BY <3>1, <3>2, <3>3
  <2>4. l = level <=> q = own /\ r = rest
    BY <1>0
  <2> QED
    BY <2>1, <2>2, <2>3, <2>4 DEF q, r
<1>4. CASE cmp = "!"
  <2>1. LevelBitmap(cmp, level)[q] = IF q = own THEN Byte \ Bit(level) ELSE Byte
    BY <1>1, <1>2, <1>4 DEF LevelBitmap, Bytes
  <2>2. RuleOutput([cmp |-> cmp, level |-> level], l) <=> l # level
    BY <1>4 DEF RuleOutput
  <2>3. 7 - r \in Byte \ Bit(level) <=> r # rest
    BY <1>1, <1>2 DEF Bit, Byte, rest
  <2>4. 7 - r \in Byte
    BY <1>1 DEF Byte
  <2>5. l # level <=> (q = own => r # rest)
    BY <1>0
  <2> QED
    BY <2>1, <2>2, <2>3, <2>4, <2>5 DEF q, r
<1>5. CASE cmp = "*"
  BY <1>1, <1>5 DEF LevelBitmap, RuleOutput, Bytes, Byte
<1>6. CASE cmp = "."
  <2>1. LevelBitmap(cmp, level)[q] =
          IF q < own THEN {} ELSE IF q = own THEN From(level) \cap Byte ELSE Byte
    BY <1>1, <1>6 DEF LevelBitmap
  <2>2. RuleOutput([cmp |-> cmp, level |-> level], l) <=> l >= level
    BY <1>6 DEF RuleOutput
  <2>3. 7 - r \in From(level) \cap Byte <=> r >= rest
    BY <1>1, <1>2 DEF From, Byte
  <2>4. l >= level <=> q > own \/ (q = own /\ r >= rest)
    BY <1>0
  <2>5. 7 - r \in Byte
    BY <1>1 DEF Byte
  <2>6. q \in Int /\ own \in Int
    BY <1>1, <1>2
  <2>7. CASE q < own
    BY <2>1, <2>2, <2>4, <2>6, <2>7 DEF q, r
  <2>8. CASE q = own
    BY <2>1, <2>2, <2>3, <2>4, <2>5, <2>6, <2>8 DEF q, r
  <2>9. CASE q > own
    BY <2>1, <2>2, <2>4, <2>5, <2>6, <2>9 DEF q, r
  <2> QED
    BY <2>6, <2>7, <2>8, <2>9
<1> QED
  BY <1>3, <1>4, <1>5, <1>6

-----------------------------------------------------------------------------
(* The invariant                                                           *)

NamesInv ==
  /\ DOMAIN defined \subseteq Numbers /\ 254 \in DOMAIN defined
  /\ \A l \in Numbers :
       IF l \in DOMAIN defined
         THEN levels.array[l] = defined[l] /\ levels.array[l] # None
         ELSE levels.array[l] = None

\* A category has no bits but those of its rules, and all of those.
BitmapInv ==
  /\ bitmap \in [0..31 -> SUBSET (0..7)]
  /\ fit \in Seq([cmp : {"=", "!", "*", "."}, level : Numbers \cup {-1}])
  /\ \A l \in Numbers :
       7 - (l % 8) \in bitmap[l \div 8] <=> \E i \in 1..Len(fit) : RuleOutput(fit[i], l)

LevelsInv == RoomForAll(levels) /\ NamesInv /\ BitmapInv

\* Nothing has happened before the list is made.
NothingMade ==
  levels = NoList /\ bitmap = Bytes({}) /\ fit = <<>> /\ defined = DefaultNames

MadeInv == NothingMade \/ LevelsInv

LEMMA MakeLevelsGives ==
  ASSUME DefaultLevelsAssumption, NothingMade, MakeLevels
  PROVE  LevelsInv'
<1>1. bitmap' = Bytes({}) /\ fit' = <<>> /\ defined' = DefaultNames
  BY DEF NothingMade, MakeLevels
<1>2. RoomForAll(levels)'
  BY DEF MakeLevels, DefaultLevelsAssumption
<1>3. NamesInv'
  BY <1>1 DEF MakeLevels, DefaultLevelsAssumption, NamesInv
<1>4. BitmapInv'
  BY <1>1, Divided DEF BitmapInv, Bytes
<1> QED
  BY <1>2, <1>3, <1>4 DEF LevelsInv

\* Nothing grows: the default levels have made the room.
LEMMA LineKeeps ==
  ASSUME LevelsAssumption, DefaultLevelsAssumption, LevelsInv,
         NEW line \in LevelLines, LevelLine(line)
  PROVE  LevelsInv'
<1>1. CASE LevelValid(line)
  <2> DEFINE idx == line[2]
  <2>1. idx \in 0..255 /\ idx \in Numbers /\ line[1] # None /\ line[1] \in Names
    BY <1>1 DEF LevelValid, LevelsAssumption, Numbers, Names
  <2>2. levels' = ListSet(levels, idx, line[1])
    BY <1>1 DEF LevelLine, LevelSet
  <2>7. RoomForAll(levels)'
    BY <2>1, <2>2, SetInside DEF LevelsInv
  <2>8. levels'.array = [i \in DOMAIN levels.array |->
                           IF i = idx THEN line[1] ELSE levels.array[i]]
    BY <2>1, <2>2, SetInside DEF LevelsInv
  <2>9. defined' = [l \in DOMAIN defined \cup {idx} |->
                      IF l = idx THEN line[1] ELSE defined[l]]
    BY <1>1 DEF LevelLine
  <2>10. Numbers \subseteq DOMAIN levels.array
    BY Room DEF LevelsInv
  <2>11. NamesInv'
    BY <2>1, <2>8, <2>9, <2>10 DEF LevelsInv, NamesInv
  <2>12. BitmapInv'
    BY DEF LevelsInv, BitmapInv, LevelLine
  <2> QED
    BY <2>7, <2>11, <2>12 DEF LevelsInv
<1>2. CASE ~LevelValid(line)
  <2>1. UNCHANGED <<levels, bitmap, fit, defined>>
    BY <1>2 DEF LevelLine
  <2> QED
    BY <2>1 DEF LevelsInv, NamesInv, BitmapInv
<1> QED
  BY <1>1, <1>2

\* A name is that of a level, or has the number -1.
LEMMA AtoiType ==
  ASSUME RoomForAll(levels), NEW name
  PROVE  LevelAtoi(name) \in Numbers \cup {-1}
<1> DEFINE found == {i \in 0..levels.len - 1 : ListGet(levels, i) = name}
<1>1. found \in SUBSET Nat /\ found \subseteq Numbers
  <2>1. \A i \in 0..255 : i \in Nat /\ i \in Numbers
    BY DEF Numbers
  <2>2. levels.len - 1 = 255
    <3>1. levels.len = 256
      BY Room
    <3> QED
      BY <3>1
  <2> QED
    BY <2>1, <2>2
<1>2. CASE found = {}
  BY <1>2 DEF LevelAtoi
<1>3. CASE found # {}
  <2>1. LevelAtoi(name) = Min(found)
    BY <1>3 DEF LevelAtoi
  <2> QED
    BY <1>1, <1>3, <2>1, MinExists
<1> QED
  BY <1>2, <1>3

LEMMA RuleKeeps ==
  ASSUME LevelsInv, NEW cmp \in {"=", "!", "*", "."}, NEW name, AddRule(cmp, name)
  PROVE  LevelsInv'
<1> DEFINE level == LevelAtoi(name)
           added == [cmp |-> cmp, level |-> level]
<1>1. level \in Numbers \cup {-1}
  BY AtoiType DEF LevelsInv
<1>2. fit' = Append(fit, added) /\ bitmap' = Overlap(bitmap, LevelBitmap(cmp, level))
  BY DEF AddRule
<1> HIDE DEF level
<1>3. RoomForAll(levels)' /\ NamesInv'
  BY DEF AddRule, LevelsInv, NamesInv
<1>4. fit \in Seq([cmp : {"=", "!", "*", "."}, level : Numbers \cup {-1}])
  BY DEF LevelsInv, BitmapInv
<1>5. /\ fit' \in Seq([cmp : {"=", "!", "*", "."}, level : Numbers \cup {-1}])
      /\ Len(fit') = Len(fit) + 1 /\ fit'[Len(fit) + 1] = added
      /\ \A i \in 1..Len(fit) : fit'[i] = fit[i]
  BY <1>1, <1>2, <1>4
<1>6. ASSUME NEW l \in Numbers
      PROVE  7 - (l % 8) \in bitmap'[l \div 8]
               <=> \E i \in 1..Len(fit') : RuleOutput(fit'[i], l)
  <2>1. bitmap'[l \div 8] = bitmap[l \div 8] \cup LevelBitmap(cmp, level)[l \div 8]
    BY <1>2, Divided DEF Overlap
  <2>2. 7 - (l % 8) \in LevelBitmap(cmp, level)[l \div 8] <=> RuleOutput(added, l)
    BY <1>1, BitmapOfRule
  <2>3. 7 - (l % 8) \in bitmap[l \div 8] <=> \E i \in 1..Len(fit) : RuleOutput(fit[i], l)
    BY DEF LevelsInv, BitmapInv
  <2>4. (\E i \in 1..Len(fit') : RuleOutput(fit'[i], l))
          <=> (\E i \in 1..Len(fit) : RuleOutput(fit[i], l)) \/ RuleOutput(added, l)
    <3>1. 1..Len(fit') = 1..Len(fit) \cup {Len(fit) + 1}
      BY <1>4, <1>5
    <3> QED
      BY <3>1, <1>5, Zenon
  <2> QED
    BY <2>1, <2>2, <2>3, <2>4
<1>7. bitmap' \in [0..31 -> SUBSET (0..7)]
  <2>1. \A i \in 0..31 : LevelBitmap(cmp, level)[i] \subseteq 0..7
    <3>1. CASE cmp = "="
      BY <3>1 DEF LevelBitmap, Bytes, Byte
    <3>2. CASE cmp = "!"
      BY <3>2 DEF LevelBitmap, Bytes, Byte
    <3>3. CASE cmp = "*"
      BY <3>3 DEF LevelBitmap, Bytes, Byte
    <3>4. CASE cmp = "."
      BY <3>4 DEF LevelBitmap, Byte
    <3> QED
      BY <3>1, <3>2, <3>3, <3>4
  <2> QED
    BY <1>2, <2>1 DEF Overlap, LevelsInv, BitmapInv
<1> QED
  BY <1>3, <1>5, <1>6, <1>7 DEF LevelsInv, BitmapInv

LEMMA LevelsStep ==
  ASSUME LevelsAssumption, DefaultLevelsAssumption, MadeInv, [NextLevels]_levelVars
  PROVE  MadeInv'
<1>1. CASE UNCHANGED levelVars
  BY <1>1 DEF levelVars, MadeInv, NothingMade, LevelsInv, NamesInv, BitmapInv
<1>2. CASE MakeLevels
  <2>1. CASE NothingMade
    BY <1>2, <2>1, MakeLevelsGives DEF MadeInv
  <2>2. CASE LevelsInv
    <3>1. levels.len = 256
      BY <2>2, Room DEF LevelsInv
    <3>2. NoList.len = 0
      BY DEF NoList, ListNew
    <3> QED
      BY <1>2, <3>1, <3>2 DEF MakeLevels
  <2> QED
    BY <2>1, <2>2 DEF MadeInv
<1>3. ASSUME NEW line \in LevelLines, LevelLine(line)
      PROVE  MadeInv'
  <2>1. LevelsInv
    BY <1>3 DEF MadeInv, NothingMade, LevelLine
  <2> QED
    BY <1>3, <2>1, LineKeeps DEF MadeInv
<1>4. ASSUME NEW s \in Selectors, AddRule(s[1], s[2])
      PROVE  MadeInv'
  <2>1. LevelsInv
    BY <1>4 DEF MadeInv, NothingMade, AddRule
  <2>2. s[1] \in {"=", "!", "*", "."}
    BY DEF LevelsAssumption
  <2> QED
    BY <1>4, <2>1, <2>2, RuleKeeps DEF MadeInv
<1> QED
  BY <1>1, <1>2, <1>3, <1>4 DEF NextLevels

LEMMA LevelsInvGives ==
  ASSUME LevelsInv
  PROVE  LevelsExact
<1>1. levels.inside
  BY Room DEF LevelsInv
<1>2. \A l \in Numbers : LevelGet(l) = defined[IF l \in DOMAIN defined THEN l ELSE 254]
  <2>1. ASSUME NEW l \in Numbers
        PROVE  ListGet(levels, l) = levels.array[l]
    <3>1. ~(l >= 256)
      BY DEF Numbers
    <3>2. levels.len = 256
      BY Room DEF LevelsInv
    <3> QED
      BY <3>1, <3>2 DEF ListGet
  <2>2. 254 \in Numbers
    BY DEF Numbers
  <2> QED
    BY <2>1, <2>2 DEF LevelsInv, NamesInv, LevelGet
<1>3. \A l \in Numbers : Needless(l) <=> \A i \in DOMAIN fit : ~RuleOutput(fit[i], l)
  <2>1. DOMAIN fit = 1..Len(fit)
    BY DEF LevelsInv, BitmapInv
  <2> QED
    BY <2>1, Zenon DEF LevelsInv, BitmapInv, Needless
<1> QED
  BY <1>1, <1>2, <1>3 DEF LevelsExact

\* Every level has the name last given to it, or that of level 254, in an array
\* that is not written outside (zc_arraylist_set, zlog_level_list_get); and the
\* bitmap zlog_category_needless_level asks before a message is made agrees with
\* what zlog_rule_output decides after it.
THEOREM LevelsAgree ==
  ASSUME LevelsAssumption, DefaultLevelsAssumption
  PROVE  SpecLevels => []LevelsExact
<1>1. InitLevels => MadeInv
  BY DEF InitLevels, MadeInv, NothingMade
<1>2. MadeInv /\ [NextLevels]_levelVars => MadeInv'
  BY LevelsStep
<1>3. MadeInv => LevelsExact
  BY LevelsInvGives DEF MadeInv, NothingMade, LevelsExact
<1> QED
  BY <1>1, <1>2, <1>3, PTL DEF SpecLevels

-----------------------------------------------------------------------------
(* StaticFile                                                              *)

\* The file the path leads to, if any, is the last that was made; a file that was
\* moved away does not come back.
PathInv ==
  /\ made \in Nat \ {0}
  /\ atPath \in {made, NoEntry}
  /\ rule.ino \in 1..made

\* The only descriptor of a log file is the rule's, between calls of close and
\* open there is none.
FdInv(t) ==
  /\ DOMAIN fdTable \subseteq Fds
  /\ \A n \in DOMAIN fdTable : n # rule.fd => fdTable[n] = NotLog
  /\ pc[t] = "open" => \A n \in DOMAIN fdTable : fdTable[n] = NotLog
  /\ pc[t] # "open" /\ rule.fd # -1 =>
       rule.fd \in DOMAIN fdTable /\ fdTable[rule.fd] \in 1..made
  /\ rule.fd \notin Fds => rule.fd = -1

\* When the rule is not on the file whose inode it has saved, it will find out.
RuleInv(t) ==
  /\ rule.fd = -1 => rule.ino # atPath /\ pc[t] \in {"idle", "stat", "close", "open"}
  /\ pc[t] \in {"close", "open", "restat"} => rule.ino # atPath
  /\ pc[t] \in {"idle", "stat", "write", "sync"} /\ rule.fd # -1 =>
       fdTable[rule.fd] = rule.ino \/ rule.ino # atPath \/ raced
  /\ pc[t] = "save" =>
       /\ stb[t] \in 1..made
       /\ fdTable[rule.fd] = stb[t] \/ stb[t] # atPath \/ raced
  /\ pc[t] \in {"close", "open"} => stb[t] \in 1..made \cup {NoEntry}
  /\ pc[t] = "restat" => fdTable[rule.fd] = atPath \/ raced

\* What a call has seen at the path, what it is about to write to and has.
SeenInv(t) ==
  /\ seen[t] \subseteq 1..made
  /\ pc[t] # "idle" => atPath = NoEntry \/ atPath \in seen[t]
  /\ pc[t] \in {"restat", "save", "write"} => fdTable[rule.fd] \in seen[t] \/ raced
  /\ pc[t] \notin {"idle", "sync"} => wrote[t] = NoEntry
  /\ \/ wrote[t] = NoEntry
     \/ wrote[t] \in seen[t]
     \/ raced /\ wrote[t] \in 1..made

\* The count of the rule is never behind the messages that wait for fsync.
SyncInv(t) ==
  /\ rule.count \in Nat /\ unsynced \in Nat
  /\ FsyncPeriod > 0 =>
       /\ rule.count < FsyncPeriod
       /\ unsynced =< IF pc[t] = "sync" THEN rule.count + 1 ELSE rule.count
  /\ FsyncPeriod = 0 => pc[t] # "sync"

Typed(t) ==
  /\ rule \in [fd : Int, ino : Nat, count : Nat]
  /\ pc \in [{t} -> {"idle", "stat", "close", "open", "restat", "save", "write", "sync"}]
  /\ stb \in [{t} -> Nat \cup {NoEntry}]
  /\ seen \in [{t} -> SUBSET Nat]
  /\ wrote \in [{t} -> Nat \cup {NoEntry}]
  /\ raced \in BOOLEAN

FileInv(t) == PathInv /\ FdInv(t) /\ RuleInv(t) /\ SeenInv(t) /\ SyncInv(t) /\ Typed(t)

LEMMA FileInit ==
  ASSUME StaticFileAssumption, NEW w, Writers = {w}, InitFile
  PROVE  FileInv(w)
<1>1. Min(Fds) \in Fds /\ Min(Fds) \in Nat /\ Min(Fds) # -1
  <2>1. Fds \in SUBSET Nat /\ Fds # {} /\ -1 \notin Nat
    BY DEF StaticFileAssumption
  <2> QED
    BY <2>1, MinExists
<1>2. PathInv /\ FdInv(w)
  BY <1>1 DEF InitFile, PathInv, FdInv, NotLog
<1>3. RuleInv(w) /\ SeenInv(w)
  BY <1>1 DEF InitFile, RuleInv, SeenInv
<1>4. SyncInv(w)
  BY DEF InitFile, SyncInv, StaticFileAssumption
<1>5. Typed(w)
  <2>1. rule \in [fd : Int, ino : Nat, count : Nat]
    BY <1>1 DEF InitFile
  <2> QED
    BY <2>1 DEF InitFile, Typed
<1> QED
  BY <1>2, <1>3, <1>4, <1>5 DEF FileInv

-----------------------------------------------------------------------------
(* The call                                                                *)

LEMMA CallKeeps ==
  ASSUME StaticFileAssumption, NEW w, Writers = {w}, FileInv(w), CallOutput(w)
  PROVE  FileInv(w)'
<1>1. PathInv'
  BY DEF CallOutput, FileInv, pathVars, PathInv
<1>2. FdInv(w)'
  BY DEF CallOutput, FileInv, FileGoto, pathVars, FdInv
<1>3. RuleInv(w)'
  BY DEF CallOutput, FileInv, FileGoto, pathVars, RuleInv
<1>4. SeenInv(w)'
  BY DEF CallOutput, FileInv, FileGoto, pathVars, PathInv, SeenInv, Typed
<1>5. SyncInv(w)'
  BY DEF CallOutput, FileInv, FileGoto, SyncInv
<1>6. Typed(w)'
  BY DEF CallOutput, FileInv, FileGoto, PathInv, Typed
<1> QED
  BY <1>1, <1>2, <1>3, <1>4, <1>5, <1>6 DEF FileInv

LEMMA StatKeeps ==
  ASSUME StaticFileAssumption, NEW w, Writers = {w}, FileInv(w), Stat(w)
  PROVE  FileInv(w)'
<1>1. PathInv'
  BY DEF Stat, FileInv, pathVars, PathInv
<1>2. FdInv(w)'
  BY DEF Stat, WriteFails, FileInv, FileGoto, pathVars, FdInv, Typed
<1>3. RuleInv(w)'
  BY DEF Stat, WriteFails, Moved, FileInv, FileGoto, pathVars, PathInv, RuleInv, Typed
<1>4. SeenInv(w)'
  BY DEF Stat, WriteFails, Moved, FileInv, StaticFileAssumption, FileGoto, pathVars,
     RuleInv, SeenInv,
     Typed
<1>5. SyncInv(w)'
  BY DEF Stat, WriteFails, FileInv, FileGoto, SyncInv, Typed
<1>6. Typed(w)'
  BY DEF Stat, WriteFails, FileInv, FileGoto, PathInv, Typed
<1> QED
  BY <1>1, <1>2, <1>3, <1>4, <1>5, <1>6 DEF FileInv

LEMMA CloseKeeps ==
  ASSUME StaticFileAssumption, NEW w, Writers = {w}, FileInv(w), Close(w)
  PROVE  FileInv(w)'
<1>1. PathInv'
  BY DEF Close, FileInv, pathVars, PathInv
<1>2. FdInv(w)'
  BY DEF Close, WithoutFd, FileInv, FileGoto, FdInv, Typed
<1>3. RuleInv(w)'
  BY DEF Close, FileInv, FileGoto, pathVars, RuleInv
<1>4. SeenInv(w)'
  BY DEF Close, FileInv, FileGoto, pathVars, SeenInv
<1>5. SyncInv(w)'
  BY DEF Close, FileInv, FileGoto, SyncInv
<1>6. Typed(w)'
  BY DEF Close, FileInv, FileGoto, Typed
<1> QED
  BY <1>1, <1>2, <1>3, <1>4, <1>5, <1>6 DEF FileInv

LEMMA OpenKeeps ==
  ASSUME StaticFileAssumption, NEW w, Writers = {w}, FileInv(w), Open(w)
  PROVE  FileInv(w)'
<1>1. FreeFds # {} => Min(FreeFds) \in Fds /\ Min(FreeFds) \notin DOMAIN fdTable
  BY MinExists DEF FreeFds, StaticFileAssumption
<1>2. Found \in Nat
  BY DEF Found, FileInv, PathInv
<1>3. Fds \subseteq Int
  BY DEF StaticFileAssumption
<1>4. FreeFds # {} => Min(FreeFds) \in Int
  BY <1>1, <1>3
<1>5. rule' \in [fd : Int, ino : Nat, count : Nat]
  BY <1>4 DEF Open, FileInv, Typed
<1>6. seen' \in [{w} -> SUBSET Nat]
  BY <1>2 DEF Open, OpenPath, PathBecomes, FileInv, Typed
<1>7. PathInv'
  BY <1>5 DEF Open, OpenPath, PathBecomes, Found, FileInv, pathVars, PathInv
<1>8. FdInv(w)'
  BY <1>1 DEF Open, OpenPath, Found, WithFd, FileInv, FileGoto, PathInv, FdInv, Typed
<1>9. RuleInv(w)'
  BY <1>1 DEF Open, WriteFails, OpenPath, PathBecomes, Found, WithFd, FileInv,
     StaticFileAssumption,
     FileGoto, pathVars, PathInv, RuleInv, Typed
<1>10. SeenInv(w)'
  BY DEF Open, WriteFails, OpenPath, PathBecomes, Found, WithFd, FileInv,
     StaticFileAssumption, FileGoto,
     pathVars, PathInv, SeenInv, Typed
<1>11. SyncInv(w)'
  BY DEF Open, WriteFails, FileInv, FileGoto, SyncInv, Typed
<1>12. Typed(w)'
  BY <1>5, <1>6 DEF Open, WriteFails, FileInv, FileGoto, Typed
<1> QED
  BY <1>7, <1>8, <1>9, <1>10, <1>11, <1>12 DEF FileInv

LEMMA RestatKeeps ==
  ASSUME StaticFileAssumption, NEW w, Writers = {w}, FileInv(w), Restat(w)
  PROVE  FileInv(w)'
<1>1. PathInv'
  BY DEF Restat, FileInv, pathVars, PathInv
<1>2. FdInv(w)'
  BY DEF Restat, WriteFails, FileInv, FileGoto, pathVars, FdInv, Typed
<1>3. RuleInv(w)'
  BY DEF Restat, WriteFails, FileInv, FileGoto, pathVars, PathInv, RuleInv, Typed
<1>4. SeenInv(w)'
  BY DEF Restat, FileInv, pathVars, SeenInv
<1>5. SyncInv(w)'
  BY DEF Restat, WriteFails, FileInv, FileGoto, SyncInv, Typed
<1>6. Typed(w)'
  BY DEF Restat, WriteFails, FileInv, FileGoto, PathInv, Typed
<1> QED
  BY <1>1, <1>2, <1>3, <1>4, <1>5, <1>6 DEF FileInv

LEMMA SaveKeeps ==
  ASSUME StaticFileAssumption, NEW w, Writers = {w}, FileInv(w), Save(w)
  PROVE  FileInv(w)'
<1>1. PathInv'
  BY DEF Save, FileInv, pathVars, PathInv, RuleInv
<1>2. FdInv(w)'
  BY DEF Save, FileInv, FileGoto, pathVars, FdInv
<1>3. RuleInv(w)'
  BY DEF Save, FileInv, FileGoto, pathVars, RuleInv
<1>4. SeenInv(w)'
  BY DEF Save, FileInv, pathVars, SeenInv
<1>5. SyncInv(w)'
  BY DEF Save, FileInv, FileGoto, SyncInv
<1>6. Typed(w)'
  BY DEF Save, FileInv, FileGoto, RuleInv, Typed
<1> QED
  BY <1>1, <1>2, <1>3, <1>4, <1>5, <1>6 DEF FileInv

LEMMA WriteKeeps ==
  ASSUME StaticFileAssumption, NEW w, Writers = {w}, FileInv(w), WriteFile(w)
  PROVE  FileInv(w)'
<1>1. PathInv'
  BY DEF WriteFile, FileInv, pathVars, PathInv
<1>2. FdInv(w)'
  BY DEF WriteFile, WriteFails, FileInv, FileGoto, pathVars, FdInv, Typed
<1>3. RuleInv(w)'
  BY DEF WriteFile, WriteFails, FileInv, FileGoto, pathVars, RuleInv, Typed
<1>4. SeenInv(w)'
  BY DEF WriteFile, FileInv, FileGoto, pathVars, FdInv, RuleInv, SeenInv, Typed
<1>5. SyncInv(w)'
  BY DEF WriteFile, WriteFails, FileInv, FileGoto, SyncInv, Typed
<1>6. Typed(w)'
  BY DEF WriteFile, WriteFails, FileInv, FileGoto, FdInv, RuleInv, Typed
<1> QED
  BY <1>1, <1>2, <1>3, <1>4, <1>5, <1>6 DEF FileInv

LEMMA SyncKeeps ==
  ASSUME StaticFileAssumption, NEW w, Writers = {w}, FileInv(w), Sync(w)
  PROVE  FileInv(w)'
<1>1. PathInv'
  BY DEF Sync, FileInv, pathVars, PathInv
<1>2. FdInv(w)'
  BY DEF Sync, FileInv, FileGoto, pathVars, FdInv
<1>3. RuleInv(w)'
  BY DEF Sync, FileInv, FileGoto, pathVars, RuleInv
<1>4. SeenInv(w)'
  BY DEF Sync, FileInv, FileGoto, pathVars, SeenInv
<1>5. SyncInv(w)'
  BY DEF Sync, FileInv, StaticFileAssumption, SyncInv
<1>6. Typed(w)'
  BY DEF Sync, FileInv, FileGoto, Typed
<1> QED
  BY <1>1, <1>2, <1>3, <1>4, <1>5, <1>6 DEF FileInv

-----------------------------------------------------------------------------
(* Everybody else                                                          *)

LEMMA MoveKeeps ==
  ASSUME StaticFileAssumption, NEW w, Writers = {w}, FileInv(w), Move
  PROVE  FileInv(w)'
<1>1. raced' \in BOOLEAN /\ (raced' <=> raced \/ pc[w] = "restat")
  BY DEF Move
<1>2. PathInv'
  BY DEF Move, PathBecomes, FileInv, PathInv
<1>3. FdInv(w)'
  BY DEF Move, FileInv, FdInv
<1>4. RuleInv(w)'
  BY <1>1 DEF Move, PathBecomes, FileInv, StaticFileAssumption, RuleInv, Typed
<1>5. SeenInv(w)'
  BY DEF Move, PathBecomes, FileInv, SeenInv
<1>6. SyncInv(w)'
  BY DEF Move, FileInv, SyncInv
<1>7. Typed(w)'
  BY DEF Move, PathBecomes, FileInv, Typed
<1> QED
  BY <1>2, <1>3, <1>4, <1>5, <1>6, <1>7 DEF FileInv

LEMMA CreateKeeps ==
  ASSUME StaticFileAssumption, NEW w, Writers = {w}, FileInv(w), Create
  PROVE  FileInv(w)'
<1>1. PathInv'
  BY DEF Create, OpenPath, PathBecomes, Found, FileInv, PathInv
<1>2. FdInv(w)'
  BY DEF Create, OpenPath, FileInv, PathInv, FdInv
<1>3. RuleInv(w)'
  BY DEF Create, OpenPath, PathBecomes, Found, FileInv, StaticFileAssumption, PathInv, FdInv,
     RuleInv
<1>4. SeenInv(w)'
  BY DEF Create, OpenPath, PathBecomes, Found, FileInv, PathInv, SeenInv
<1>5. SyncInv(w)'
  BY DEF Create, FileInv, SyncInv
<1>6. Typed(w)'
  BY DEF Create, OpenPath, PathBecomes, Found, FileInv, PathInv, Typed
<1> QED
  BY <1>1, <1>2, <1>3, <1>4, <1>5, <1>6 DEF FileInv

LEMMA OtherOpensKeeps ==
  ASSUME StaticFileAssumption, NEW w, Writers = {w}, FileInv(w), OtherOpens
  PROVE  FileInv(w)'
<1>1. Min(FreeFds) \in Fds /\ Min(FreeFds) \notin DOMAIN fdTable
  BY MinExists DEF OtherOpens, FreeFds, StaticFileAssumption
<1>2. PathInv'
  BY DEF OtherOpens, FileInv, pathVars, PathInv
<1>3. FdInv(w)'
  BY <1>1 DEF OtherOpens, WithFd, FileInv, pathVars, FdInv
<1>4. RuleInv(w)'
  BY <1>1 DEF OtherOpens, WithFd, FileInv, pathVars, FdInv, RuleInv
<1>5. SeenInv(w)'
  BY <1>1 DEF OtherOpens, WithFd, FileInv, pathVars, FdInv, RuleInv, SeenInv
<1>6. SyncInv(w)'
  BY DEF OtherOpens, FileInv, SyncInv
<1>7. Typed(w)'
  BY DEF OtherOpens, FileInv, Typed
<1> QED
  BY <1>2, <1>3, <1>4, <1>5, <1>6, <1>7 DEF FileInv

LEMMA OtherClosesKeeps ==
  ASSUME StaticFileAssumption, NEW w, Writers = {w}, FileInv(w), OtherCloses
  PROVE  FileInv(w)'
<1>1. PathInv'
  BY DEF OtherCloses, FileInv, pathVars, PathInv
<1>2. FdInv(w)'
  BY DEF OtherCloses, WithoutFd, FileInv, pathVars, NotLog, FdInv
<1>3. RuleInv(w)'
  BY DEF OtherCloses, WithoutFd, FileInv, pathVars, NotLog, FdInv, RuleInv
<1>4. SeenInv(w)'
  BY DEF OtherCloses, WithoutFd, FileInv, pathVars, NotLog, FdInv, RuleInv, SeenInv
<1>5. SyncInv(w)'
  BY DEF OtherCloses, FileInv, SyncInv
<1>6. Typed(w)'
  BY DEF OtherCloses, FileInv, Typed
<1> QED
  BY <1>1, <1>2, <1>3, <1>4, <1>5, <1>6 DEF FileInv

LEMMA ReloadKeeps ==
  ASSUME StaticFileAssumption, NEW w, Writers = {w}, FileInv(w), Reload
  PROVE  FileInv(w)'
<1>1. Min(FreeFds) \in Fds /\ Min(FreeFds) \notin DOMAIN fdTable
  BY MinExists DEF Reload, FreeFds, StaticFileAssumption
<1>2. pc[w] = "idle"
  BY DEF Reload, WritersIdle
<1>3. Found \in Nat
  BY DEF Found, FileInv, PathInv
<1>4. Fds \subseteq Int
  BY DEF StaticFileAssumption
<1>5. rule' \in [fd : Int, ino : Nat, count : Nat]
  BY <1>1, <1>3, <1>4 DEF Reload
<1>6. seen' \in [{w} -> SUBSET Nat]
  BY <1>3 DEF Reload, OpenPath, PathBecomes, FileInv, Typed
<1>7. PathInv'
  BY DEF Reload, OpenPath, PathBecomes, Found, FileInv, PathInv
<1>8. FdInv(w)'
  BY <1>1, <1>2 DEF Reload, OpenPath, Found, WithFd, WithoutFd, FileInv, PathInv, FdInv
<1>9. RuleInv(w)'
  BY <1>1, <1>2 DEF Reload, WithFd, StaticFileAssumption, RuleInv
<1>10. SeenInv(w)'
  BY <1>2 DEF Reload, OpenPath, PathBecomes, FileInv, PathInv, SeenInv
<1>11. SyncInv(w)'
  BY <1>2 DEF Reload, SyncInv
<1>12. Typed(w)'
  BY <1>5, <1>6 DEF Reload, FileInv, Typed
<1> QED
  BY <1>7, <1>8, <1>9, <1>10, <1>11, <1>12 DEF FileInv

-----------------------------------------------------------------------------
LEMMA FileStep ==
  ASSUME StaticFileAssumption, NEW w, Writers = {w}, FileInv(w), [NextFile]_fileVars
  PROVE  FileInv(w)'
<1>1. CASE UNCHANGED fileVars
  BY <1>1
  DEF fileVars, pathVars, boundVars, FileInv, PathInv, FdInv, RuleInv, SeenInv, SyncInv, Typed
<1>2. CASE \E t \in Writers : \/ CallOutput(t) \/ Stat(t) \/ Close(t) \/ Open(t) \/ Restat(t)
                              \/ Save(t) \/ WriteFile(t) \/ Sync(t)
  BY <1>2, CallKeeps, StatKeeps, CloseKeeps, OpenKeeps, RestatKeeps, SaveKeeps, WriteKeeps,
     SyncKeeps
<1>3. CASE Move \/ Create \/ OtherOpens \/ OtherCloses \/ Reload
  BY <1>3, MoveKeeps, CreateKeeps, OtherOpensKeeps, OtherClosesKeeps, ReloadKeeps
<1> QED
  BY <1>1, <1>2, <1>3 DEF NextFile

LEMMA FileInvGives ==
  ASSUME StaticFileAssumption, NEW w, Writers = {w}, FileInv(w)
  PROVE  FollowsRotation
BY DEF StaticFileAssumption, FileInv, PathInv, FdInv, RuleInv, SeenInv, SyncInv, Typed,
       FollowsRotation, WritersIdle, NotLog

\* One thread that logs writes each message to what is the log file at some time
\* during the call, but for the window between open and the second stat; it leaks
\* no descriptor and lets no fsync_period messages wait for fsync
\* (zlog_rule_output_static_file_single, zlog_rule_new, zlog_rule_del).
THEOREM RotationFollowed ==
  ASSUME StaticFileAssumption, NEW w, Writers = {w}
  PROVE  SpecFile => []FollowsRotation
<1>1. InitFile => FileInv(w)
  BY FileInit
<1>2. FileInv(w) /\ [NextFile]_fileVars => FileInv(w)'
  BY FileStep
<1>3. FileInv(w) => FollowsRotation
  BY FileInvGives
<1> QED
  BY <1>1, <1>2, <1>3, PTL DEF SpecFile

-----------------------------------------------------------------------------
(* Conf                                                                    *)

\* Sets of time caches that are no two the same, below a number, and of which none
\* is in another sequence of them.
Apart(a) == \A i, j \in DOMAIN a : i # j => a[i] \cap a[j] = {}
Under(a, n) == \A i \in DOMAIN a : a[i] \subseteq 0..n - 1
Across(a, b) == \A i \in DOMAIN a, j \in DOMAIN b : a[i] \cap b[j] = {}

CacheSets == SUBSET Nat

\* The caches taken next: those from the count on.
LEMMA NextCaches ==
  ASSUME NEW n \in Nat, NEW k \in Nat
  PROVE  /\ n..n + k - 1 \in CacheSets /\ n..n + k - 1 \subseteq 0..(n + k) - 1
         /\ \A s : s \subseteq 0..n - 1 => /\ s \cap (n..n + k - 1) = {}
                                           /\ s \subseteq 0..(n + k) - 1
BY DEF CacheSets

LEMMA UnderMore ==
  ASSUME NEW n \in Nat, NEW k \in Nat, NEW a, Under(a, n)
  PROVE  Under(a, n + k)
BY NextCaches DEF Under

LEMMA AppendCaches ==
  ASSUME NEW a \in Seq(CacheSets), NEW n \in Nat, NEW k \in Nat, Under(a, n), Apart(a),
         NEW b, b = Append(a, n..n + k - 1)
  PROVE  /\ b \in Seq(CacheSets) /\ Under(b, n + k) /\ Apart(b)
         /\ \A c : Under(c, n) /\ Across(c, a) => Across(c, b)
         /\ \A c : Under(c, n) /\ Across(a, c) => Across(b, c)
<1> DEFINE t == n..n + k - 1
<1>1. t \in CacheSets /\ t \subseteq 0..(n + k) - 1
  BY NextCaches
<1>2. \A s : s \subseteq 0..n - 1 => s \cap t = {} /\ s \subseteq 0..(n + k) - 1
  BY NextCaches
<1>0. b = Append(a, t)
  OBVIOUS
<1> HIDE DEF t
<1>3. /\ b \in Seq(CacheSets) /\ Len(a) \in Nat /\ DOMAIN a = 1..Len(a)
      /\ DOMAIN b = 1..Len(a) + 1
      /\ \A i \in 1..Len(a) : b[i] = a[i]
      /\ b[Len(a) + 1] = t
  BY <1>0, <1>1, AppendProperties
<1>4. \A i \in DOMAIN b : (i \in DOMAIN a /\ b[i] = a[i]) \/ (i = Len(a) + 1 /\ b[i] = t)
  <2> TAKE i \in DOMAIN b
  <2>1. i \in 1..Len(a) \/ i = Len(a) + 1
    BY <1>3
  <2>2. CASE i \in 1..Len(a)
    <3>1. i \in DOMAIN a
      BY <1>3, <2>2
    <3>2. b[i] = a[i]
      BY <1>3, <2>2
    <3> QED
      BY <3>1, <3>2, Zenon
  <2>3. CASE i = Len(a) + 1
    BY <1>3, <2>3
  <2> QED
    BY <2>1, <2>2, <2>3
<1>5. Under(b, n + k)
  BY <1>1, <1>2, <1>4 DEF Under
<1>6. Apart(b)
  <2> SUFFICES ASSUME NEW i \in DOMAIN b, NEW j \in DOMAIN b, i # j
               PROVE  b[i] \cap b[j] = {}
    BY DEF Apart
  <2>1. CASE i \in DOMAIN a /\ b[i] = a[i] /\ j \in DOMAIN a /\ b[j] = a[j]
    BY <2>1 DEF Apart
  <2>2. CASE i \in DOMAIN a /\ b[i] = a[i] /\ b[j] = t
    <3>1. a[i] \cap t = {}
      BY <1>2, <2>2 DEF Under
    <3> QED
      BY <2>2, <3>1
  <2>3. CASE j \in DOMAIN a /\ b[j] = a[j] /\ b[i] = t
    <3>1. a[j] \cap t = {}
      BY <1>2, <2>3 DEF Under
    <3> QED
      BY <2>3, <3>1
  <2> QED
    BY <1>4, <2>1, <2>2, <2>3
<1>7. ASSUME NEW c, Under(c, n), Across(c, a) PROVE Across(c, b)
  <2> SUFFICES ASSUME NEW i \in DOMAIN c, NEW j \in DOMAIN b PROVE c[i] \cap b[j] = {}
    BY DEF Across
  <2>1. c[i] \cap t = {}
    BY <1>2, <1>7 DEF Under
  <2>2. j \in DOMAIN a => c[i] \cap a[j] = {}
    BY <1>7 DEF Across
  <2> QED
    BY <1>4, <2>1, <2>2
<1>8. ASSUME NEW c, Under(c, n), Across(a, c) PROVE Across(b, c)
  <2> SUFFICES ASSUME NEW i \in DOMAIN b, NEW j \in DOMAIN c PROVE b[i] \cap c[j] = {}
    BY DEF Across
  <2>1. c[j] \cap t = {}
    BY <1>2, <1>8 DEF Under
  <2>2. i \in DOMAIN a => a[i] \cap c[j] = {}
    BY <1>8 DEF Across
  <2> QED
    BY <1>4, <2>1, <2>2
<1> QED
  BY <1>3, <1>5, <1>6, <1>7, <1>8

LEMMA JoinCaches ==
  ASSUME NEW a \in Seq(CacheSets), NEW b \in Seq(CacheSets), NEW n,
         Apart(a), Apart(b), Across(a, b), Under(a, n), Under(b, n)
  PROVE  /\ a \o b \in Seq(CacheSets) /\ Apart(a \o b) /\ Under(a \o b, n)
         /\ \A c : Across(a, c) /\ Across(b, c) => Across(a \o b, c)
<1> DEFINE d == a \o b
<1>1. /\ d \in Seq(CacheSets) /\ Len(a) \in Nat /\ Len(b) \in Nat
      /\ DOMAIN a = 1..Len(a) /\ DOMAIN b = 1..Len(b) /\ DOMAIN d = 1..Len(a) + Len(b)
      /\ \A i \in 1..Len(a) : d[i] = a[i]
      /\ \A i \in Len(a) + 1..Len(a) + Len(b) : d[i] = b[i - Len(a)]
  OBVIOUS
<1> HIDE DEF d
<1>2. ASSUME NEW i \in DOMAIN d
      PROVE  \/ i \in DOMAIN a /\ d[i] = a[i]
             \/ i - Len(a) \in DOMAIN b /\ d[i] = b[i - Len(a)] /\ i \notin DOMAIN a
  <2>1. i \in 1..Len(a) \/ (i \in Len(a) + 1..Len(a) + Len(b) /\ i - Len(a) \in 1..Len(b)
                            /\ i \notin 1..Len(a))
    BY <1>1
  <2> QED
    BY <1>1, <2>1
<1>3. Apart(d)
  <2> SUFFICES ASSUME NEW i \in DOMAIN d, NEW j \in DOMAIN d, i # j
               PROVE  d[i] \cap d[j] = {}
    BY DEF Apart
  <2>1. CASE i \in DOMAIN a /\ d[i] = a[i] /\ j \in DOMAIN a /\ d[j] = a[j]
    BY <2>1 DEF Apart
  <2>2. CASE /\ i \in DOMAIN a /\ d[i] = a[i]
             /\ j - Len(a) \in DOMAIN b /\ d[j] = b[j - Len(a)]
    BY <2>2 DEF Across
  <2>3. CASE /\ j \in DOMAIN a /\ d[j] = a[j]
             /\ i - Len(a) \in DOMAIN b /\ d[i] = b[i - Len(a)]
    <3>1. a[j] \cap b[i - Len(a)] = {}
      BY <2>3 DEF Across
    <3> QED
      BY <2>3, <3>1
  <2>4. CASE /\ i - Len(a) \in DOMAIN b /\ d[i] = b[i - Len(a)]
             /\ j - Len(a) \in DOMAIN b /\ d[j] = b[j - Len(a)]
    <3>1. i - Len(a) # j - Len(a)
      <4>1. i \in Int /\ j \in Int
        BY <1>1
      <4> QED
        BY <1>1, <4>1
    <3> QED
      BY <2>4, <3>1 DEF Apart
  <2> QED
    BY <1>2, <2>1, <2>2, <2>3, <2>4
<1>4. Under(d, n)
  BY <1>2 DEF Under
<1>5. ASSUME NEW c, Across(a, c), Across(b, c) PROVE Across(d, c)
  <2> SUFFICES ASSUME NEW i \in DOMAIN d, NEW j \in DOMAIN c PROVE d[i] \cap c[j] = {}
    BY DEF Across
  <2> QED
    BY <1>2, <1>5 DEF Across
<1> QED
  BY <1>1, <1>3, <1>4, <1>5 DEF d
-----------------------------------------------------------------------------
(* The invariant of a configuration                                        *)

ConfRules == [format : Nat, times : CacheSets, output : Outputs \cup {"other"},
              fsync_period : Nat]
ConfFormats == [name : FormatNames, times : CacheSets]
Confs ==
  [strict_init : BOOLEAN, fsync_period : Nat, reload_conf_period : Nat,
   lockable : BOOLEAN, default_format_line : [n : Nat, valid : BOOLEAN],
   formats : Seq(ConfFormats), rules : Seq(ConfRules), default_format : Seq(CacheSets),
   rotater : BOOLEAN, time_cache_count : Nat]

FormatTimes(c) == [i \in DOMAIN c.formats |-> c.formats[i].times]
RuleTimes(c) == [i \in DOMAIN c.rules |-> c.rules[i].times]

\* No time cache is given twice, and every one that is given is there.
CachesInv(c) ==
  /\ Apart(c.default_format) /\ Apart(FormatTimes(c)) /\ Apart(RuleTimes(c))
  /\ Across(c.default_format, FormatTimes(c)) /\ Across(c.default_format, RuleTimes(c))
  /\ Across(FormatTimes(c), RuleTimes(c))
  /\ Under(c.default_format, c.time_cache_count)
  /\ Under(FormatTimes(c), c.time_cache_count)
  /\ Under(RuleTimes(c), c.time_cache_count)

\* A rule that counts for fsync comes to it before the next reload.
InTime(c, period) ==
  period = 0 \/ c.reload_conf_period = 0 \/ period < c.reload_conf_period

\* Before the rules there is neither default_format nor rotater, in them there are
\* both, and fsync_period is what Fsync makes of it.
StageInv ==
  /\ state = "reading" /\ section # 4 => conf.default_format = <<>> /\ ~conf.rotater
                                         /\ conf.rules = <<>>
  /\ state # "failed" /\ section = 4 => conf.rotater /\ InTime(conf, conf.fsync_period)
                                        /\ conf.default_format # <<>>
  /\ conf.rules # <<>> => conf.rotater /\ conf.default_format # <<>>
  /\ \A i \in DOMAIN conf.rules : InTime(conf, conf.rules[i].fsync_period)
  /\ state = "reading" /\ cfgSource = "NO_CFG" => section = 0

ConfInv ==
  /\ section \in 0..4 /\ state \in {"reading", "ok", "failed"}
  /\ envStrict \in BOOLEAN /\ discarded \in BOOLEAN
  /\ conf \in Confs /\ CachesInv(conf) /\ StageInv
  /\ envStrict => ~discarded /\ conf.strict_init
  /\ held \in Nat /\ held = Closed(conf)

\* Of the lines that are read.
LEMMA LineType ==
  ASSUME ConfAssumption, NEW line \in Lines
  PROVE  /\ line.n \in Nat /\ line.valid \in BOOLEAN
         /\ line.for = "rules" => line.output \in Outputs
         /\ line.for = "formats" => line.name \in FormatNames
         /\ line.for = "section" /\ line.valid => \E i \in 1..4 : Sections[i] = line.name
<1>1. Periods \subseteq Nat /\ 0 \in Nat /\ \A n \in 0..1 : n \in Nat
  BY DEF ConfAssumption
<1> HIDE DEF Sections
<1> QED
  BY <1>1 DEF Lines, LinesOf

LEMMA DefaultsFacts ==
  /\ Defaults \in Confs /\ CachesInv(Defaults) /\ Closed(Defaults) = 0
  /\ Defaults.rules = <<>> /\ Defaults.default_format = <<>> /\ ~Defaults.rotater
  /\ Defaults.strict_init
<1>1. <<>> \in Seq(ConfFormats) /\ <<>> \in Seq(ConfRules) /\ <<>> \in Seq(CacheSets)
  BY EmptySeq
<1>2. Defaults \in Confs
  BY <1>1 DEF Defaults, Confs
<1>3. /\ Defaults.rules = <<>> /\ Defaults.default_format = <<>> /\ ~Defaults.rotater
      /\ Defaults.formats = <<>> /\ Defaults.strict_init
  BY DEF Defaults
<1>4. CachesInv(Defaults)
  BY <1>3 DEF CachesInv, Apart, Across, Under, FormatTimes, RuleTimes
<1>5. Closed(Defaults) = 0
  <2>1. {i \in DOMAIN Defaults.rules : Defaults.rules[i].output \in Holding} = {}
    BY <1>3
  <2> QED
    BY <1>3, <2>1, FS_EmptySet DEF Closed
<1> QED
  BY <1>2, <1>3, <1>4, <1>5

\* A rule that is added is closed with the others.
LEMMA ClosedAppend ==
  ASSUME NEW c \in Confs, NEW d \in Confs, NEW r \in ConfRules,
         d.rules = Append(c.rules, r), d.rotater = c.rotater
  PROVE  Closed(d) = Closed(c) + IF r.output \in Holding THEN 1 ELSE 0
<1> DEFINE S == {i \in DOMAIN c.rules : c.rules[i].output \in Holding}
           T == {i \in DOMAIN d.rules : d.rules[i].output \in Holding}
           n == Len(c.rules) + 1
<1>1. c.rules \in Seq(ConfRules)
  BY DEF Confs
<1>2. /\ Len(c.rules) \in Nat /\ DOMAIN c.rules = 1..Len(c.rules)
      /\ DOMAIN d.rules = 1..n /\ d.rules[n] = r
      /\ \A i \in 1..Len(c.rules) : d.rules[i] = c.rules[i]
  BY <1>1, AppendProperties
<1>3. \A i \in 1..n : i \in 1..Len(c.rules) \/ i = n
  BY <1>2
<1>4. n \notin DOMAIN c.rules /\ n \in DOMAIN d.rules
      /\ \A i \in DOMAIN c.rules : i \in DOMAIN d.rules
  BY <1>2
<1>5. T = IF r.output \in Holding THEN S \cup {n} ELSE S
  <2> HIDE DEF n
  <2> QED
    BY <1>2, <1>3, <1>4
<1>6. IsFiniteSet(S) /\ Cardinality(S) \in Nat
  <2>1. IsFiniteSet(1..Len(c.rules))
    <3>1. PICK m \in Nat : m = Len(c.rules)
      BY <1>2
    <3>2. IsFiniteSet(1..m)
      BY FS_Interval
    <3> QED
      BY <3>1, <3>2
  <2>2. S \subseteq 1..Len(c.rules)
    BY <1>2
  <2> QED
    BY <2>1, <2>2, FS_Subset, FS_CardinalityType
<1>7. n \notin S
  BY <1>4
<1>8. Closed(c) = Cardinality(S) + (IF c.rotater THEN 1 ELSE 0)
  BY DEF Closed
<1>9. Closed(d) = Cardinality(T) + (IF c.rotater THEN 1 ELSE 0)
  BY DEF Closed
<1> HIDE DEF S, T, n
<1>10. Cardinality(T) = Cardinality(S) + IF r.output \in Holding THEN 1 ELSE 0
  <2>1. Cardinality(S \cup {n}) = Cardinality(S) + 1
    BY <1>6, <1>7, FS_AddElement
  <2> QED
    BY <1>5, <1>6, <2>1
<1> QED
  BY <1>6, <1>8, <1>9, <1>10

\* A configuration that failed is as at the beginning, and all is closed.
LEMMA FailKeeps ==
  ASSUME ConfInv, NEW STATE c, Fail(c), Closed(c) = Closed(conf),
         section' \in 0..4, envStrict' = envStrict
  PROVE  ConfInv'
<1>1. conf' = Defaults /\ state' = "failed" /\ discarded' = discarded
  BY DEF Fail
<1>2. held' = 0
  <2>1. held' = held - Closed(c)
    BY DEF Fail
  <2> QED
    BY <2>1 DEF ConfInv
<1>3. StageInv'
  BY <1>1, DefaultsFacts DEF StageInv
<1> QED
  BY <1>1, <1>2, <1>3, DefaultsFacts DEF ConfInv

\* A new value of conf of which nothing was given or opened.
LEMMA SameParts ==
  ASSUME NEW c \in Confs, NEW d \in Confs, d.default_format = c.default_format,
         d.formats = c.formats, d.rules = c.rules, d.rotater = c.rotater,
         d.time_cache_count = c.time_cache_count
  PROVE  Closed(d) = Closed(c) /\ (CachesInv(c) => CachesInv(d))
BY DEF Closed, CachesInv, FormatTimes, RuleTimes

LEMMA InitConfInv == ConfAssumption /\ InitConf => ConfInv
<1> SUFFICES ASSUME InitConf PROVE ConfInv
  OBVIOUS
<1>1. /\ section = 0 /\ conf = Defaults /\ state = "reading" /\ held = 0
      /\ discarded = FALSE /\ envStrict \in BOOLEAN
  BY Zenon DEF InitConf
<1>2. DOMAIN conf.rules = {}
  BY <1>1, DefaultsFacts
<1>3. StageInv
  BY <1>1, <1>2, DefaultsFacts DEF StageInv
<1>4. conf \in Confs /\ CachesInv(conf) /\ held = Closed(conf) /\ conf.strict_init
  BY <1>1, DefaultsFacts, Zenon
<1>5. section \in 0..4 /\ held \in Nat
  BY <1>1
<1> QED
  BY <1>1, <1>3, <1>4, <1>5, Zenon DEF ConfInv

-----------------------------------------------------------------------------
(* What is taken from the time caches                                      *)

LEMMA ConfParts ==
  ASSUME NEW c \in Confs
  PROVE  /\ c.formats \in Seq(ConfFormats) /\ c.rules \in Seq(ConfRules)
         /\ c.default_format \in Seq(CacheSets) /\ c.time_cache_count \in Nat
         /\ FormatTimes(c) \in Seq(CacheSets) /\ RuleTimes(c) \in Seq(CacheSets)
<1>1. /\ c.formats \in Seq(ConfFormats) /\ c.rules \in Seq(ConfRules)
      /\ c.default_format \in Seq(CacheSets) /\ c.time_cache_count \in Nat
  BY DEF Confs
<1>2. \A i \in DOMAIN c.formats : c.formats[i].times \in CacheSets
  <2> TAKE i \in DOMAIN c.formats
  <2>1. c.formats[i] \in ConfFormats
    BY <1>1, ElementOfSeq
  <2> QED
    BY <2>1 DEF ConfFormats
<1>3. \A i \in DOMAIN c.rules : c.rules[i].times \in CacheSets
  <2> TAKE i \in DOMAIN c.rules
  <2>1. c.rules[i] \in ConfRules
    BY <1>1, ElementOfSeq
  <2> QED
    BY <2>1 DEF ConfRules
<1>4. FormatTimes(c) \in Seq(CacheSets)
  BY <1>1, <1>2 DEF FormatTimes
<1>5. RuleTimes(c) \in Seq(CacheSets)
  BY <1>1, <1>3 DEF RuleTimes
<1> QED
  BY <1>1, <1>4, <1>5

\* The times of a sequence of formats, or rules, and one more.
LEMMA TimesAppend ==
  ASSUME NEW S, NEW a \in Seq(S), NEW x \in S, NEW b, b = Append(a, x)
  PROVE  [i \in DOMAIN b |-> b[i].times] = Append([i \in DOMAIN a |-> a[i].times], x.times)
<1> DEFINE f == [i \in DOMAIN a |-> a[i].times]
           g == [i \in DOMAIN b |-> b[i].times]
           h == Append(f, x.times)
<1>1. /\ Len(a) \in Nat /\ DOMAIN a = 1..Len(a)
      /\ DOMAIN b = 1..Len(a) + 1 /\ b[Len(a) + 1] = x
      /\ \A i \in 1..Len(a) : b[i] = a[i]
  BY AppendProperties
<1>2. f \in Seq({a[i].times : i \in DOMAIN a} \cup {x.times}) /\ Len(f) = Len(a)
      /\ \A i \in 1..Len(a) : f[i] = a[i].times
  BY <1>1
<1>3. /\ DOMAIN h = 1..Len(a) + 1 /\ h[Len(a) + 1] = x.times
      /\ \A i \in 1..Len(a) : h[i] = a[i].times
      /\ h = [i \in DOMAIN h |-> h[i]]
  <2> DEFINE T == {a[i].times : i \in DOMAIN a} \cup {x.times}
  <2>1. f \in Seq(T) /\ x.times \in T
    BY <1>2
  <2> HIDE DEF T, f
  <2>2. h \in Seq(T)
    BY <2>1, AppendProperties
  <2>3. DOMAIN h = 1..Len(a) + 1 /\ h[Len(a) + 1] = x.times
        /\ \A i \in 1..Len(a) : h[i] = a[i].times
    BY <1>2, <2>1, AppendProperties
  <2>4. h = [i \in DOMAIN h |-> h[i]]
    BY <2>2
  <2> QED
    BY <2>3, <2>4
<1> HIDE DEF f, h
<1>4. \A i \in 1..Len(a) + 1 : h[i] = b[i].times
  <2> TAKE i \in 1..Len(a) + 1
  <2>1. CASE i \in 1..Len(a)
    BY <1>1, <1>3, <2>1
  <2>2. CASE i = Len(a) + 1
    BY <1>1, <1>3, <2>2
  <2> QED
    BY <1>1, <2>1, <2>2
<1>5. g = h
  BY <1>1, <1>3, <1>4
<1> QED
  BY <1>5 DEF f, h

\* Caches that a wrong line took are given to none.
LEMMA CachesTaken ==
  ASSUME NEW c \in Confs, NEW d \in Confs, NEW k \in Nat, CachesInv(c),
         d.default_format = c.default_format, d.formats = c.formats, d.rules = c.rules,
         d.time_cache_count = c.time_cache_count + k
  PROVE  CachesInv(d)
<1>1. FormatTimes(d) = FormatTimes(c) /\ RuleTimes(d) = RuleTimes(c)
  BY DEF FormatTimes, RuleTimes
<1> QED
  BY <1>1, UnderMore, ConfParts DEF CachesInv

\* The caches that default_format takes, when there is no rule that has any.
LEMMA CachesOfDefault ==
  ASSUME NEW c \in Confs, NEW d \in Confs, NEW k \in Nat, CachesInv(c),
         d.default_format = <<Times(c, k)>>, d.formats = c.formats,
         d.time_cache_count = c.time_cache_count + k,
         \A i \in DOMAIN d.rules : d.rules[i].times = {}
  PROVE  CachesInv(d)
<1> DEFINE t == Times(c, k)
           n == c.time_cache_count
<1>1. FormatTimes(d) = FormatTimes(c)
  BY DEF FormatTimes
<1>2. /\ DOMAIN RuleTimes(d) = DOMAIN d.rules
      /\ \A i \in DOMAIN RuleTimes(d) : RuleTimes(d)[i] = {}
  BY DEF RuleTimes
<1>3. n \in Nat /\ t = n..n + k - 1
  BY ConfParts DEF Times
<1>4. t \subseteq 0..(n + k) - 1 /\ \A s : s \subseteq 0..n - 1 => s \cap t = {}
  BY <1>3, NextCaches
<1>5. DOMAIN d.default_format = {1} /\ d.default_format[1] = t
  OBVIOUS
<1> HIDE DEF t, n
<1>6. Apart(d.default_format) /\ Under(d.default_format, n + k)
  BY <1>4, <1>5 DEF Apart, Under
<1>7. Apart(FormatTimes(c)) /\ Under(FormatTimes(c), n)
  BY DEF CachesInv, n
<1>8. Under(FormatTimes(c), n + k)
  BY <1>3, <1>7, UnderMore
<1>9. Apart(RuleTimes(d)) /\ Under(RuleTimes(d), n + k)
      /\ Across(d.default_format, RuleTimes(d)) /\ Across(FormatTimes(c), RuleTimes(d))
  BY <1>2 DEF Apart, Under, Across
<1>10. Across(d.default_format, FormatTimes(c))
  BY <1>4, <1>5, <1>7 DEF Across, Under
<1> QED
  BY <1>1, <1>6, <1>7, <1>8, <1>9, <1>10 DEF CachesInv, n

\* The caches a new format takes.
LEMMA CachesOfFormat ==
  ASSUME NEW c \in Confs, NEW d \in Confs, NEW k \in Nat, NEW f \in ConfFormats,
         CachesInv(c), f.times = Times(c, k),
         d.default_format = c.default_format, d.formats = Append(c.formats, f),
         d.rules = c.rules, d.time_cache_count = c.time_cache_count + k
  PROVE  CachesInv(d)
<1> DEFINE n == c.time_cache_count
<1>1. n \in Nat /\ f.times = n..n + k - 1 /\ FormatTimes(c) \in Seq(CacheSets)
      /\ c.formats \in Seq(ConfFormats)
  BY ConfParts DEF Times
<1>2. RuleTimes(d) = RuleTimes(c)
  BY DEF RuleTimes
<1>3. FormatTimes(d) = Append(FormatTimes(c), n..n + k - 1)
  <2>1. PICK a : a = c.formats
    OBVIOUS
  <2>2. PICK b : b = d.formats
    OBVIOUS
  <2>3. a \in Seq(ConfFormats) /\ b = Append(a, f)
    BY <1>1, <2>1, <2>2
  <2>4. [i \in DOMAIN b |-> b[i].times] = Append([i \in DOMAIN a |-> a[i].times], f.times)
    BY <2>3, TimesAppend
  <2>5. FormatTimes(d) = Append(FormatTimes(c), f.times)
    BY <2>1, <2>2, <2>4 DEF FormatTimes
  <2> QED
    BY <1>1, <2>5
<1> HIDE DEF n
<1>4. /\ Apart(c.default_format) /\ Apart(FormatTimes(c)) /\ Apart(RuleTimes(c))
      /\ Across(c.default_format, FormatTimes(c)) /\ Across(c.default_format, RuleTimes(c))
      /\ Across(FormatTimes(c), RuleTimes(c))
      /\ Under(c.default_format, n) /\ Under(FormatTimes(c), n) /\ Under(RuleTimes(c), n)
  BY DEF CachesInv, n
<1>5. /\ Under(FormatTimes(d), n + k) /\ Apart(FormatTimes(d))
      /\ Across(c.default_format, FormatTimes(d)) /\ Across(FormatTimes(d), RuleTimes(c))
  BY <1>1, <1>3, <1>4, AppendCaches
<1>6. Under(c.default_format, n + k) /\ Under(RuleTimes(c), n + k)
  BY <1>1, <1>4, UnderMore
<1> QED
  BY <1>2, <1>4, <1>5, <1>6 DEF CachesInv, n

\* The caches a new rule takes.
LEMMA CachesOfRule ==
  ASSUME NEW c \in Confs, NEW d \in Confs, NEW k \in Nat, NEW r \in ConfRules,
         CachesInv(c), r.times = Times(c, k),
         d.default_format = c.default_format, d.formats = c.formats,
         d.rules = Append(c.rules, r), d.time_cache_count = c.time_cache_count + k
  PROVE  CachesInv(d)
<1> DEFINE n == c.time_cache_count
<1>1. n \in Nat /\ r.times = n..n + k - 1 /\ RuleTimes(c) \in Seq(CacheSets)
      /\ c.rules \in Seq(ConfRules)
  BY ConfParts DEF Times
<1>2. FormatTimes(d) = FormatTimes(c)
  BY DEF FormatTimes
<1>3. RuleTimes(d) = Append(RuleTimes(c), n..n + k - 1)
  BY <1>1, TimesAppend DEF RuleTimes
<1> HIDE DEF n
<1>4. /\ Apart(c.default_format) /\ Apart(FormatTimes(c)) /\ Apart(RuleTimes(c))
      /\ Across(c.default_format, FormatTimes(c)) /\ Across(c.default_format, RuleTimes(c))
      /\ Across(FormatTimes(c), RuleTimes(c))
      /\ Under(c.default_format, n) /\ Under(FormatTimes(c), n) /\ Under(RuleTimes(c), n)
  BY DEF CachesInv, n
<1>5. /\ Under(RuleTimes(d), n + k) /\ Apart(RuleTimes(d))
      /\ Across(c.default_format, RuleTimes(d)) /\ Across(FormatTimes(c), RuleTimes(d))
  <2>1. /\ Under(RuleTimes(d), n + k) /\ Apart(RuleTimes(d))
        /\ \A o : Under(o, n) /\ Across(o, RuleTimes(c)) => Across(o, RuleTimes(d))
    BY <1>1, <1>3, <1>4, AppendCaches
  <2> QED
    BY <1>4, <2>1
<1>6. Under(c.default_format, n + k) /\ Under(FormatTimes(c), n + k)
  BY <1>1, <1>4, UnderMore
<1> QED
  BY <1>2, <1>4, <1>5, <1>6 DEF CachesInv, n

-----------------------------------------------------------------------------
(* The steps                                                               *)

\* What a step leaves alone when it reads a line, and what it may not break.
Reads == state = "reading" /\ cfgSource # "NO_CFG" /\ UNCHANGED <<cfgSource, envStrict>>

\* A new value of conf as far along as the old one.
LEMMA SameStage ==
  ASSUME ConfInv, Reads, conf' \in Confs, CachesInv(conf'),
         conf'.default_format = conf.default_format, conf'.rules = conf.rules,
         conf'.rotater = conf.rotater, conf'.strict_init = conf.strict_init,
         conf'.fsync_period = conf.fsync_period,
         conf'.reload_conf_period = conf.reload_conf_period,
         state' = state, section' = section, held' = held, discarded' \in BOOLEAN,
         envStrict => ~discarded'
  PROVE  ConfInv'
<1>1. StageInv'
  BY DEF StageInv, InTime, ConfInv, Reads
<1>2. Closed(conf') = Closed(conf)
  BY DEF Closed
<1> QED
  BY <1>1, <1>2 DEF ConfInv, Reads

LEMMA TolerateKeeps ==
  ASSUME ConfInv, Reads, NEW STATE c, c \in Confs, CachesInv(c),
         c.default_format = conf.default_format, c.rules = conf.rules,
         c.rotater = conf.rotater, c.strict_init = conf.strict_init,
         c.fsync_period = conf.fsync_period,
         c.reload_conf_period = conf.reload_conf_period,
         section' = section, Tolerate(c)
  PROVE  ConfInv'
<1>1. CASE c.strict_init
  <2>1. Fail(c) /\ Closed(c) = Closed(conf)
    BY <1>1 DEF Tolerate, Closed
  <2>2. section' \in 0..4 /\ envStrict' = envStrict
    BY DEF ConfInv, Reads
  <2> QED
    BY <2>1, <2>2, FailKeeps
<1>2. CASE ~c.strict_init
  <2>1. conf' = c /\ discarded' = TRUE /\ state' = state /\ held' = held
    BY <1>2 DEF Tolerate
  <2>2. ~envStrict
    BY <1>2 DEF ConfInv
  <2> QED
    BY <2>1, <2>2, SameStage
<1> QED
  BY <1>1, <1>2

LEMMA LevelKeeps ==
  ASSUME ConfInv, Reads, NEW line, Level(line)
  PROVE  ConfInv'
<1>1. conf \in Confs /\ CachesInv(conf) /\ section' = section /\ (envStrict => ~discarded)
      /\ discarded \in BOOLEAN
  BY DEF ConfInv, Level
<1>2. CASE Accept(conf)
  <2>1. conf' = conf /\ state' = state /\ held' = held /\ discarded' = discarded
    BY <1>2 DEF Accept
  <2> QED
    BY <1>1, <2>1, SameStage
<1>3. CASE Tolerate(conf)
  BY <1>1, <1>3, TolerateKeeps
<1> QED
  BY <1>2, <1>3 DEF Level

LEMMA CommentKeeps ==
  ASSUME ConfInv, Reads, CommentInMemory
  PROVE  ConfInv'
<1>1. conf \in Confs /\ CachesInv(conf) /\ section' = section /\ section' \in 0..4
      /\ envStrict' = envStrict
  BY DEF ConfInv, CommentInMemory, Reads
<1>2. CASE Fail(conf)
  BY <1>1, <1>2, FailKeeps
<1>3. CASE Tolerate(conf)
  BY <1>1, <1>3, TolerateKeeps
<1> QED
  BY <1>2, <1>3 DEF CommentInMemory

\* Before the rules.
LEMMA EarlyStage ==
  ASSUME ConfInv, Reads, section # 4
  PROVE  /\ conf.default_format = <<>> /\ ~conf.rotater /\ conf.rules = <<>>
         /\ DOMAIN conf.rules = {} /\ held = 0
<1>1. conf.default_format = <<>> /\ ~conf.rotater /\ conf.rules = <<>>
  BY DEF ConfInv, StageInv, Reads
<1>2. {i \in DOMAIN conf.rules : conf.rules[i].output \in Holding} = {}
  BY <1>1
<1>3. Closed(conf) = 0
  BY <1>1, <1>2, FS_EmptySet DEF Closed
<1> QED
  BY <1>1, <1>3 DEF ConfInv

LEMMA GlobalKeeps ==
  ASSUME ConfAssumption, ConfInv, Reads, NEW line \in Lines, Global(line)
  PROVE  ConfInv'
<1>1. section = 1 /\ section' = section /\ envStrict' = envStrict /\ cfgSource' = cfgSource
  BY DEF Global, Reads
<1>2. conf \in Confs /\ CachesInv(conf) /\ envStrict \in BOOLEAN /\ section \in 0..4
  BY DEF ConfInv
<1>3. line.n \in Nat /\ line.valid \in BOOLEAN
  BY LineType
<1>4. CASE line.name = "malformed" /\ Fail(conf)
  BY <1>1, <1>2, <1>4, FailKeeps
<1>5. CASE line.name = "no option" /\ Tolerate(conf)
  BY <1>1, <1>2, <1>5, TolerateKeeps
<1>6. ASSUME conf' \in Confs, Accept(conf'), conf'.default_format = conf.default_format,
             conf'.formats = conf.formats, conf'.rules = conf.rules,
             conf'.rotater = conf.rotater, conf'.time_cache_count = conf.time_cache_count,
             envStrict => conf'.strict_init
      PROVE  ConfInv'
  <2>1. Closed(conf') = Closed(conf) /\ CachesInv(conf')
    BY <1>2, <1>6, SameParts
  <2>2. state' = state /\ held' = held /\ discarded' = discarded
    BY <1>6 DEF Accept
  <2>3. conf'.rules = <<>> /\ conf'.default_format = <<>> /\ ~conf'.rotater
        /\ DOMAIN conf'.rules = {}
    BY <1>1, <1>6, EarlyStage
  <2>4. StageInv'
    BY <1>1, <2>3 DEF StageInv, Reads
  <2> QED
    BY <1>1, <1>6, <2>1, <2>2, <2>4 DEF ConfInv
<1>7. CASE Accept([conf EXCEPT !["strict_init"] = line.n = 1 \/ envStrict])
  <2>1. conf' = [conf EXCEPT !["strict_init"] = line.n = 1 \/ envStrict]
    BY <1>7 DEF Accept
  <2> QED
    BY <1>2, <1>6, <1>7, <2>1 DEF Confs, Accept
<1>8. CASE Accept([conf EXCEPT !["fsync_period"] = line.n])
  <2>1. conf' = [conf EXCEPT !["fsync_period"] = line.n]
    BY <1>8 DEF Accept
  <2> QED
    BY <1>2, <1>3, <1>6, <1>8, <2>1 DEF Confs, Accept, ConfInv
<1>9. CASE Accept([conf EXCEPT !["reload_conf_period"] = line.n])
  <2>1. conf' = [conf EXCEPT !["reload_conf_period"] = line.n]
    BY <1>9 DEF Accept
  <2> QED
    BY <1>2, <1>3, <1>6, <1>9, <2>1 DEF Confs, Accept, ConfInv
<1>10. CASE Accept([conf EXCEPT !["lockable"] = line.n = 1])
  <2>1. conf' = [conf EXCEPT !["lockable"] = line.n = 1]
    BY <1>10 DEF Accept
  <2> QED
    BY <1>2, <1>6, <1>10, <2>1 DEF Confs, Accept, ConfInv
<1>11. CASE Accept([conf EXCEPT !["default_format_line"] =
                                  [n |-> line.n, valid |-> line.valid]])
  <2>1. conf' = [conf EXCEPT !["default_format_line"] = [n |-> line.n, valid |-> line.valid]]
    BY <1>11 DEF Accept
  <2>2. [n |-> line.n, valid |-> line.valid] \in [n : Nat, valid : BOOLEAN]
    BY <1>3
  <2>3. conf' \in Confs
    BY <1>2, <2>1, <2>2 DEF Confs
  <2>4. /\ conf'.default_format = conf.default_format /\ conf'.formats = conf.formats
        /\ conf'.rules = conf.rules /\ conf'.rotater = conf.rotater
        /\ conf'.time_cache_count = conf.time_cache_count
        /\ conf'.strict_init = conf.strict_init
    BY <1>2, <2>1 DEF Confs
  <2>5. Accept(conf')
    BY <1>11 DEF Accept
  <2> QED
    BY <1>6, <2>3, <2>4, <2>5 DEF ConfInv
<1> QED
  BY <1>4, <1>5, <1>7, <1>8, <1>9, <1>10, <1>11 DEF Global

\* A configuration of which more time caches are taken.
LEMMA TakeFacts ==
  ASSUME NEW c \in Confs, NEW k \in Nat, NEW d, d = Take(c, k)
  PROVE  /\ d \in Confs /\ d.time_cache_count = c.time_cache_count + k
         /\ d.default_format = c.default_format /\ d.formats = c.formats
         /\ d.rules = c.rules /\ d.rotater = c.rotater
         /\ d.strict_init = c.strict_init /\ d.fsync_period = c.fsync_period
         /\ d.reload_conf_period = c.reload_conf_period
<1>1. c.time_cache_count + k \in Nat
  BY ConfParts
<1>2. d = [c EXCEPT !.time_cache_count = c.time_cache_count + k]
  BY DEF Take
<1> DEFINE m == c.time_cache_count + k
<1> HIDE DEF m
<1>3. m \in Nat /\ d = [c EXCEPT !.time_cache_count = m]
  BY <1>1, <1>2 DEF m
<1>4. /\ d \in Confs /\ d.time_cache_count = m
      /\ d.default_format = c.default_format /\ d.formats = c.formats
      /\ d.rules = c.rules /\ d.rotater = c.rotater
      /\ d.strict_init = c.strict_init /\ d.fsync_period = c.fsync_period
      /\ d.reload_conf_period = c.reload_conf_period
  BY <1>3 DEF Confs
<1> QED
  BY <1>4 DEF m

LEMMA FormatLineKeeps ==
  ASSUME ConfAssumption, ConfInv, Reads, NEW line \in Lines, Format(line)
  PROVE  ConfInv'
<1> DEFINE c == Take(conf, line.n)
           f == [name |-> line.name, times |-> Times(conf, line.n)]
<1>1. section = 3 /\ section' = section /\ envStrict' = envStrict /\ cfgSource' = cfgSource
  BY DEF Format, Reads
<1>2. conf \in Confs /\ CachesInv(conf) /\ section \in 0..4
  BY DEF ConfInv
<1>3. line.n \in Nat /\ line.name \in FormatNames
  BY LineType DEF Format
<1>4. /\ c \in Confs /\ c.time_cache_count = conf.time_cache_count + line.n
      /\ c.default_format = conf.default_format /\ c.formats = conf.formats
      /\ c.rules = conf.rules /\ c.rotater = conf.rotater
      /\ c.strict_init = conf.strict_init /\ c.fsync_period = conf.fsync_period
      /\ c.reload_conf_period = conf.reload_conf_period
  BY <1>2, <1>3, TakeFacts
<1>5. CachesInv(c)
  BY <1>2, <1>3, <1>4, CachesTaken
<1>6. f \in ConfFormats
  BY <1>2, <1>3, NextCaches, ConfParts DEF ConfFormats, Times
<1>7. line.valid => \/ Accept([c EXCEPT !.formats = Append(@, f)])
                    \/ Fail(conf)
  BY DEF Format
<1>8. ~line.valid => Tolerate(c)
  BY DEF Format
<1> HIDE DEF c
<1>9. CASE Accept([c EXCEPT !.formats = Append(@, f)])
  <2>1. conf' = [c EXCEPT !.formats = Append(c.formats, f)]
        /\ state' = state /\ held' = held /\ discarded' = discarded
    BY <1>9 DEF Accept
  <2>2. Append(c.formats, f) \in Seq(ConfFormats)
    BY <1>4, <1>6, AppendProperties, ConfParts
  <2>3. f.times = Times(conf, line.n)
    OBVIOUS
  <2> HIDE DEF f
  <2>4. /\ conf' \in Confs /\ conf'.time_cache_count = c.time_cache_count
        /\ conf'.formats = Append(c.formats, f)
        /\ conf'.default_format = c.default_format
        /\ conf'.rules = c.rules /\ conf'.rotater = c.rotater
        /\ conf'.strict_init = c.strict_init /\ conf'.fsync_period = c.fsync_period
        /\ conf'.reload_conf_period = c.reload_conf_period
    BY <1>4, <2>1, <2>2 DEF Confs
  <2>5. CachesInv(conf')
    BY <1>2, <1>3, <1>4, <1>6, <2>3, <2>4, CachesOfFormat
  <2>6. discarded \in BOOLEAN /\ (envStrict => ~discarded)
    BY DEF ConfInv
  <2> QED
    BY <1>1, <1>4, <2>1, <2>4, <2>5, <2>6, SameStage
<1>10. CASE Fail(conf)
  BY <1>1, <1>2, <1>10, FailKeeps
<1>11. CASE Tolerate(c)
  BY <1>1, <1>4, <1>5, <1>11, TolerateKeeps DEF c
<1> QED
  BY <1>7, <1>8, <1>9, <1>10, <1>11 DEF c

\* The format of a rule, when there is one of its name.
LEMMA FormatOfType ==
  ASSUME NEW c \in Confs, NEW name, HasFormat(c, name)
  PROVE  FormatOf(c, name) \in 0..Len(c.formats)
<1> DEFINE S == {i \in DOMAIN c.formats : c.formats[i].name = name}
<1>1. Len(c.formats) \in Nat /\ DOMAIN c.formats = 1..Len(c.formats)
  BY ConfParts
<1>2. CASE name = ""
  <2>1. FormatOf(c, name) = 0
    BY <1>2, Zenon DEF FormatOf
  <2> QED
    BY <1>1, <2>1
<1>3. CASE name # ""
  <2>1. S # {}
    BY <1>3, Zenon DEF HasFormat
  <2>2. S \subseteq 1..Len(c.formats)
    BY <1>1
  <2>3. FormatOf(c, name) = Min(S)
    BY <1>3, Zenon DEF FormatOf
  <2> HIDE DEF S
  <2>4. S \in SUBSET Nat
    BY <1>1, <2>2
  <2>5. Min(S) \in 1..Len(c.formats)
    BY <2>1, <2>2, <2>4, MinExists
  <2> QED
    BY <1>1, <2>3, <2>5
<1> QED
  BY <1>2, <1>3

LEMMA RuleLineKeeps ==
  ASSUME ConfAssumption, ConfInv, Reads, NEW line \in Lines, Rule(line)
  PROVE  ConfInv'
<1> DEFINE k == PathTimes(conf, line)
           c == AfterRule(conf, line)
           r == RuleOf(conf, line)
           more == IF line.output \in Holding THEN 1 ELSE 0
<1>1. section = 4 /\ section' = section /\ envStrict' = envStrict /\ cfgSource' = cfgSource
      /\ state = "reading"
  BY DEF Rule, Reads
<1>2. conf \in Confs /\ CachesInv(conf) /\ section \in 0..4 /\ held = Closed(conf)
      /\ held \in Nat
  BY DEF ConfInv
<1>3. line.n \in Nat /\ line.output \in Outputs
  BY LineType DEF Rule
<1>4. k \in Nat
  BY <1>3 DEF PathTimes
<1>5. c = Take(conf, k) /\ r.times = Times(conf, k)
  BY DEF AfterRule, RuleOf
<1>6. RuleValid(conf, line)
        => \/ /\ conf' = [c EXCEPT !.rules = Append(@, r)]
              /\ held' = held + more
              /\ UNCHANGED <<state, discarded>>
           \/ Fail(conf)
  BY DEF Rule
<1>7. ~RuleValid(conf, line) => Tolerate(c)
  BY DEF Rule
<1>8. RuleValid(conf, line) => HasFormat(conf, line.name)
  BY DEF RuleValid
<1>9. r.output = line.output
      /\ (r.fsync_period = 0 \/ r.fsync_period = conf.fsync_period)
  BY DEF RuleOf
<1>15. \A e1, e2, e3, e4 :
         e1 \in Nat /\ e2 \in CacheSets /\ e3 \in Outputs /\ e4 \in Nat
           => [format |-> e1, times |-> e2, output |-> e3, fsync_period |-> e4] \in ConfRules
  BY DEF ConfRules
<1>16. /\ FormatOf(conf, line.name) \in Nat /\ Times(conf, k) \in CacheSets
       /\ line.output \in Outputs
       /\ (IF line.output = "sync" THEN 0 ELSE conf.fsync_period) \in Nat
       => r \in ConfRules
  BY <1>15, Zenon DEF RuleOf
<1> HIDE DEF k, c, r
<1>10. /\ c \in Confs /\ c.time_cache_count = conf.time_cache_count + k
       /\ c.default_format = conf.default_format /\ c.formats = conf.formats
       /\ c.rules = conf.rules /\ c.rotater = conf.rotater
       /\ c.strict_init = conf.strict_init /\ c.fsync_period = conf.fsync_period
       /\ c.reload_conf_period = conf.reload_conf_period
  BY <1>2, <1>4, <1>5, TakeFacts
<1>11. CachesInv(c)
  BY <1>2, <1>4, <1>10, CachesTaken
<1>12. CASE Fail(conf)
  BY <1>1, <1>2, <1>12, FailKeeps
<1>13. CASE Tolerate(c)
  BY <1>1, <1>10, <1>11, <1>13, TolerateKeeps
<1>14. ASSUME conf' = [c EXCEPT !.rules = Append(@, r)], held' = held + more,
              UNCHANGED <<state, discarded>>, HasFormat(conf, line.name)
       PROVE  ConfInv'
  <2>1. conf.fsync_period \in Nat
    BY <1>2 DEF Confs
  <2>2. Times(conf, k) \in CacheSets
    BY <1>2, <1>4, NextCaches, ConfParts DEF Times
  <2>3. FormatOf(conf, line.name) \in Nat
    <3>1. FormatOf(conf, line.name) \in 0..Len(conf.formats)
      BY <1>2, <1>14, FormatOfType
    <3>2. \A n \in 0..Len(conf.formats) : n \in Nat
      OBVIOUS
    <3> QED
      BY <3>1, <3>2, Zenon
  <2>4. r \in ConfRules
    <3>1. (IF line.output = "sync" THEN 0 ELSE conf.fsync_period) \in Nat
      BY <2>1
    <3> QED
      BY <1>3, <1>16, <2>2, <2>3, <3>1, Zenon
  <2>5. Append(c.rules, r) \in Seq(ConfRules) /\ conf.rules \in Seq(ConfRules)
    BY <1>2, <1>10, <2>4, AppendProperties, ConfParts
  <2>6. /\ conf' \in Confs /\ conf'.time_cache_count = c.time_cache_count
        /\ conf'.rules = Append(conf.rules, r)
        /\ conf'.default_format = c.default_format
        /\ conf'.formats = c.formats /\ conf'.rotater = c.rotater
        /\ conf'.strict_init = c.strict_init /\ conf'.fsync_period = c.fsync_period
        /\ conf'.reload_conf_period = c.reload_conf_period
    BY <1>10, <1>14, <2>5 DEF Confs
  <2>7. CachesInv(conf')
    BY <1>2, <1>4, <1>5, <1>10, <2>4, <2>6, CachesOfRule
  <2>8. Closed(conf') = Closed(conf) + more
    <3>1. conf'.rotater = conf.rotater
      BY <1>10, <2>6
    <3>2. Closed(conf') = Closed(conf) + IF r.output \in Holding THEN 1 ELSE 0
      BY <1>2, <2>4, <2>6, <3>1, ClosedAppend
    <3> QED
      BY <1>9, <3>2
  <2>9. held' \in Nat /\ held' = Closed(conf')
    BY <1>2, <1>14, <2>8
  <2>10. conf.rotater /\ InTime(conf, conf.fsync_period) /\ conf.default_format # <<>>
         /\ \A i \in DOMAIN conf.rules : InTime(conf, conf.rules[i].fsync_period)
    BY <1>1 DEF ConfInv, StageInv
  <2>11. \A p : InTime(conf, p) => InTime(conf', p)
    BY <1>10, <2>6 DEF InTime
  <2>12. InTime(conf, r.fsync_period)
    <3>1. r.fsync_period = 0 \/ r.fsync_period = conf.fsync_period
      BY <1>9, Zenon
    <3> QED
      BY <2>10, <3>1 DEF InTime
  <2>13. \A i \in DOMAIN conf'.rules : InTime(conf', conf'.rules[i].fsync_period)
    <3> TAKE i \in DOMAIN conf'.rules
    <3>1. /\ Len(conf.rules) \in Nat /\ DOMAIN conf.rules = 1..Len(conf.rules)
          /\ DOMAIN conf'.rules = 1..Len(conf.rules) + 1
          /\ conf'.rules[Len(conf.rules) + 1] = r
          /\ \A j \in 1..Len(conf.rules) : conf'.rules[j] = conf.rules[j]
      BY <2>4, <2>5, <2>6, AppendProperties
    <3>2. i \in 1..Len(conf.rules) \/ i = Len(conf.rules) + 1
      BY <3>1
    <3> QED
      BY <2>10, <2>11, <2>12, <3>1, <3>2
  <2>14. StageInv'
    BY <1>1, <1>10, <1>14, <2>6, <2>10, <2>11, <2>13 DEF StageInv, Reads
  <2> QED
    BY <1>1, <1>2, <1>10, <1>14, <2>6, <2>7, <2>9, <2>14 DEF ConfInv
<1> QED
  BY <1>6, <1>7, <1>8, <1>12, <1>13, <1>14

\* The rotater and default_format are built, in the order Build makes them.
LEMMA BuildKeeps ==
  ASSUME ConfAssumption, ConfInv, Reads, section # 4, section' = 4,
         Build([conf EXCEPT !.fsync_period = Fsync(conf)])
  PROVE  ConfInv'
<1> DEFINE c == [conf EXCEPT !.fsync_period = Fsync(conf)]
           k == c.default_format_line.n
           built == [c EXCEPT !.rotater = TRUE, !.default_format = <<Times(c, k)>>]
<1>1. /\ conf \in Confs /\ CachesInv(conf) /\ section \in 0..4 /\ envStrict' = envStrict
      /\ cfgSource' = cfgSource /\ state = "reading" /\ cfgSource # "NO_CFG"
      /\ envStrict \in BOOLEAN /\ discarded \in BOOLEAN
      /\ (envStrict => ~discarded /\ conf.strict_init)
  BY DEF ConfInv, Reads
<1>2. /\ conf.rules = <<>> /\ ~conf.rotater /\ conf.default_format = <<>> /\ held = 0
      /\ DOMAIN conf.rules = {}
  BY EarlyStage
<1>3. /\ Fsync(conf) \in Nat /\ conf.reload_conf_period \in Nat
      /\ (Fsync(conf) = 0 \/ conf.reload_conf_period = 0
            \/ Fsync(conf) < conf.reload_conf_period)
  BY <1>1 DEF Fsync, Confs
<1>4. /\ c \in Confs /\ c.default_format = conf.default_format /\ c.formats = conf.formats
      /\ c.rules = conf.rules /\ c.rotater = conf.rotater
      /\ c.strict_init = conf.strict_init /\ c.fsync_period = Fsync(conf)
      /\ c.reload_conf_period = conf.reload_conf_period
      /\ c.time_cache_count = conf.time_cache_count
  BY <1>1, <1>3 DEF Confs
<1>5. Closed(c) = Closed(conf) /\ CachesInv(c)
  BY <1>1, <1>4, SameParts
<1>6. k \in Nat
  BY <1>4 DEF Confs
<1>7. \/ /\ conf' = Take(built, k)
         /\ held' = held + 1
         /\ UNCHANGED <<state, discarded>>
      \/ Fail(c)
  BY DEF Build
<1> HIDE DEF c, k
<1>8. CASE Fail(c)
  <2>1. section' \in 0..4
    OBVIOUS
  <2> QED
    BY <1>1, <1>4, <1>5, <1>8, <2>1, FailKeeps
<1>9. ASSUME conf' = Take(built, k), held' = held + 1, UNCHANGED <<state, discarded>>
      PROVE  ConfInv'
  <2>1. Times(c, k) \in CacheSets
    BY <1>4, <1>6, NextCaches, ConfParts DEF Times
  <2>2. <<Times(c, k)>> \in Seq(CacheSets) /\ <<Times(c, k)>> # <<>>
    BY <2>1
  <2>3. /\ built \in Confs /\ built.rotater /\ built.default_format = <<Times(c, k)>>
        /\ built.formats = c.formats /\ built.rules = c.rules
        /\ built.strict_init = c.strict_init /\ built.fsync_period = c.fsync_period
        /\ built.reload_conf_period = c.reload_conf_period
        /\ built.time_cache_count = c.time_cache_count
    BY <1>4, <2>2 DEF Confs
  <2> HIDE DEF built
  <2>4. /\ conf' \in Confs /\ conf'.rotater = built.rotater
        /\ conf'.default_format = built.default_format
        /\ conf'.formats = built.formats /\ conf'.rules = built.rules
        /\ conf'.strict_init = built.strict_init /\ conf'.fsync_period = built.fsync_period
        /\ conf'.reload_conf_period = built.reload_conf_period
        /\ conf'.time_cache_count = built.time_cache_count + k
    BY <1>6, <1>9, <2>3, TakeFacts
  <2>5. CachesInv(conf')
    BY <1>2, <1>4, <1>5, <1>6, <2>3, <2>4, CachesOfDefault
  <2>6. DOMAIN conf'.rules = {} /\ conf'.rotater /\ conf'.default_format # <<>>
    BY <1>2, <1>4, <2>2, <2>3, <2>4
  <2>7. InTime(conf', conf'.fsync_period)
    BY <1>3, <1>4, <2>3, <2>4 DEF InTime
  <2>8. StageInv'
    BY <1>1, <2>6, <2>7 DEF StageInv
  <2>9. held' = 1 /\ Closed(conf') = 1
    <3>1. {i \in DOMAIN conf'.rules : conf'.rules[i].output \in Holding} = {}
      BY <2>6
    <3>2. Closed(conf') = 0 + 1
      BY <2>6, <3>1, FS_EmptySet DEF Closed
    <3> QED
      BY <1>2, <1>9, <3>2
  <2>10. section' \in 0..4 /\ held' \in Nat
    BY <2>9
  <2>11. conf'.strict_init = conf.strict_init
    BY <1>4, <2>3, <2>4
  <2> QED
    BY <1>1, <1>9, <2>4, <2>5, <2>8, <2>9, <2>10, <2>11 DEF ConfInv
<1> QED
  BY <1>7, <1>8, <1>9

LEMMA SectionKeeps ==
  ASSUME ConfAssumption, ConfInv, Reads, NEW line \in Lines, Section(line)
  PROVE  ConfInv'
<1>1. conf \in Confs /\ CachesInv(conf) /\ section \in 0..4 /\ envStrict' = envStrict
  BY DEF ConfInv, Reads
<1>2. line.valid => section' \in 1..4 /\ Sections[section'] = line.name
  <2>1. line.valid => \E i \in 1..4 : Sections[i] = line.name
    BY LineType DEF Section
  <2>2. line.valid => section' = CHOOSE i \in 1..4 : Sections[i] = line.name
    BY Zenon DEF Section
  <2> HIDE DEF Sections
  <2> QED
    BY <2>1, <2>2
<1>3. ~line.valid => section' = section
  BY DEF Section
<1>4. section' \in 0..4
  <2>1. line.valid \in BOOLEAN
    BY LineType
  <2> QED
    BY <1>1, <1>2, <1>3, <2>1
<1>5. CASE ~InOrder(line)
  <2>1. Fail(conf)
    BY <1>5, Zenon DEF Section
  <2> QED
    BY <1>1, <1>4, <2>1, FailKeeps
<1>6. CASE InOrder(line)
  <2>1. line.valid /\ section # 4
    BY <1>1, <1>6 DEF InOrder
  <2>2. CASE line.name = "rules"
    <3>1. Build([conf EXCEPT !.fsync_period = Fsync(conf)])
      BY <1>6, <2>2, Zenon DEF Section
    <3>2. section' = 4
      BY <1>2, <2>1, <2>2 DEF Sections
    <3> QED
      BY <2>1, <3>1, <3>2, BuildKeeps
  <2>3. CASE line.name # "rules"
    <3>1. Accept(conf)
      BY <1>6, <2>3, Zenon DEF Section
    <3>2. section' # 4
      BY <1>2, <2>1, <2>3 DEF Sections
    <3>3. conf' = conf /\ state' = state /\ held' = held /\ discarded' = discarded
      BY <3>1 DEF Accept
    <3>4. conf.default_format = <<>> /\ ~conf.rotater /\ conf.rules = <<>>
          /\ DOMAIN conf.rules = {}
      BY <2>1, EarlyStage
    <3>5. StageInv'
      BY <3>2, <3>3, <3>4 DEF StageInv, Reads
    <3> QED
      BY <1>1, <1>4, <3>3, <3>5 DEF ConfInv
  <2> QED
    BY <2>2, <2>3
<1> QED
  BY <1>5, <1>6

\* Without a file: one rule, which opens nothing, and no time cache twice.
LEMMA WithoutFileKeeps ==
  ASSUME ConfInv, BuildWithoutFile
  PROVE  ConfInv'
<1> DEFINE t == Times(conf, 1)
           r == [format |-> 0, times |-> {}, output |-> "other", fsync_period |-> 0]
           c == Take(conf, 1)
<1>1. /\ conf \in Confs /\ CachesInv(conf) /\ section = 0 /\ section' = section
      /\ envStrict' = envStrict /\ cfgSource' = cfgSource /\ state = "reading"
      /\ cfgSource = "NO_CFG" /\ envStrict \in BOOLEAN /\ discarded \in BOOLEAN
      /\ (envStrict => ~discarded /\ conf.strict_init) /\ held = Closed(conf)
  BY DEF ConfInv, StageInv, BuildWithoutFile
<1>2. CASE Fail(conf)
  <2>1. section' \in 0..4
    BY <1>1
  <2> QED
    BY <1>1, <1>2, <2>1, FailKeeps
<1>3. ASSUME state' = "ok", held' = held + 1, UNCHANGED discarded,
             conf' = [c EXCEPT !.rotater = TRUE, !.default_format = <<t>>, !.rules = <<r>>]
      PROVE  ConfInv'
  <2>1. conf.rules = <<>> /\ ~conf.rotater
    BY <1>1 DEF ConfInv, StageInv
  <2>2. held = 0
    <3>1. {i \in DOMAIN conf.rules : conf.rules[i].output \in Holding} = {}
      BY <2>1
    <3> QED
      BY <1>1, <2>1, <3>1, FS_EmptySet DEF Closed
  <2>3. t \in CacheSets
    BY <1>1, NextCaches, ConfParts DEF Times
  <2>4. <<t>> \in Seq(CacheSets) /\ <<t>> # <<>>
    BY <2>3
  <2>5. r \in ConfRules
    BY DEF ConfRules, CacheSets
  <2>6. <<r>> \in Seq(ConfRules) /\ DOMAIN <<r>> = {1} /\ <<r>>[1] = r
    BY <2>5
  <2>7. r.times = {} /\ r.output = "other" /\ r.fsync_period = 0
    OBVIOUS
  <2>8. /\ c \in Confs /\ c.time_cache_count = conf.time_cache_count + 1
        /\ c.formats = conf.formats /\ c.strict_init = conf.strict_init
    BY <1>1, TakeFacts
  <2> HIDE DEF r, c
  <2>9. /\ conf' \in Confs /\ conf'.time_cache_count = c.time_cache_count
        /\ conf'.formats = c.formats /\ conf'.strict_init = c.strict_init
        /\ conf'.rotater = TRUE /\ conf'.default_format = <<t>> /\ conf'.rules = <<r>>
    BY <1>3, <2>4, <2>6, <2>8 DEF Confs
  <2>10. \A i \in DOMAIN conf'.rules : conf'.rules[i] = r
    BY <2>6, <2>9
  <2>11. CachesInv(conf')
    <3>1. \A i \in DOMAIN conf'.rules : conf'.rules[i].times = {}
      BY <2>7, <2>10
    <3>2. conf'.time_cache_count = conf.time_cache_count + 1 /\ 1 \in Nat
          /\ conf'.formats = conf.formats
      BY <2>8, <2>9
    <3> QED
      BY <1>1, <2>9, <3>1, <3>2, CachesOfDefault
  <2>12. conf'.rules # <<>>
    BY <2>6, <2>9
  <2>13. StageInv'
    BY <1>1, <1>3, <2>4, <2>7, <2>9, <2>10, <2>12 DEF StageInv, InTime
  <2>14. Closed(conf') = 1
    <3>1. {i \in DOMAIN conf'.rules : conf'.rules[i].output \in Holding} = {}
      BY <2>7, <2>10 DEF Holding
    <3>2. Closed(conf') = 0 + 1
      BY <2>9, <3>1, FS_EmptySet DEF Closed
    <3> QED
      BY <3>2
  <2>15. held' = 1 /\ held' \in Nat
    BY <1>3, <2>2
  <2>16. section' \in 0..4
    BY <1>1
  <2> QED
    BY <1>1, <1>3, <2>8, <2>9, <2>11, <2>13, <2>14, <2>15, <2>16 DEF ConfInv
<1> QED
  BY <1>1, <1>2, <1>3 DEF BuildWithoutFile

\* Every step keeps the invariant.
LEMMA ConfStep ==
  ASSUME ConfAssumption, ConfInv, [NextConf]_confVars
  PROVE  ConfInv'
<1>1. CASE ReadLine
  <2>1. Reads
    BY <1>1 DEF ReadLine, Reads
  <2>2. ASSUME NEW line \in Lines,
               \/ Section(line) \/ Global(line) \/ Level(line) \/ Format(line) \/ Rule(line)
               \/ NotInSection(line)
        PROVE  ConfInv'
    <3>1. CASE NotInSection(line)
      <4>1. Fail(conf) /\ section' \in 0..4 /\ envStrict' = envStrict
        BY <2>1, <3>1 DEF NotInSection, ConfInv, Reads
      <4> QED
        BY <4>1, FailKeeps
    <3> QED
      BY <2>1, <2>2, <3>1, SectionKeeps, GlobalKeeps, LevelKeeps, FormatLineKeeps,
         RuleLineKeeps
  <2>3. CASE CommentInMemory
    BY <2>1, <2>3, CommentKeeps
  <2> QED
    BY <1>1, <2>2, <2>3 DEF ReadLine
<1>2. CASE ReadPart
  BY <1>2 DEF ReadPart, ConfInv, StageInv
<1>3. CASE End
  <2>1. /\ state = "reading" /\ state' = "ok" /\ cfgSource' = cfgSource
        /\ envStrict' = envStrict /\ section' = section /\ conf' = conf /\ held' = held
        /\ discarded' = discarded
    BY <1>3 DEF End
  <2>2. StageInv'
    BY <2>1 DEF ConfInv, StageInv
  <2> QED
    BY <2>1, <2>2 DEF ConfInv
<1>4. CASE NoFile
  <2>1. Fail(conf) /\ section' \in 0..4 /\ envStrict' = envStrict
    BY <1>4 DEF NoFile, ConfInv
  <2> QED
    BY <2>1, FailKeeps
<1>5. CASE BuildWithoutFile
  BY <1>5, WithoutFileKeeps
<1>6. CASE UNCHANGED confVars
  BY <1>6 DEF confVars, ConfInv, StageInv
<1> QED
  BY <1>1, <1>2, <1>3, <1>4, <1>5, <1>6 DEF NextConf

\* What the invariant says of the patterns of all parts together.
LEMMA ConfInvUsable == ConfInv => ConfUsable
<1> SUFFICES ASSUME ConfInv PROVE ConfUsable
  OBVIOUS
<1> DEFINE n == conf.time_cache_count
           front == conf.default_format \o FormatTimes(conf)
<1>1. conf \in Confs /\ CachesInv(conf) /\ held = Closed(conf)
      /\ (envStrict => ~discarded)
  BY DEF ConfInv
<1>2. /\ conf.default_format \in Seq(CacheSets) /\ FormatTimes(conf) \in Seq(CacheSets)
      /\ RuleTimes(conf) \in Seq(CacheSets)
  BY <1>1, ConfParts
<1>3. Patterns = front \o RuleTimes(conf)
  BY DEF Patterns, FormatTimes, RuleTimes
<1> HIDE DEF n
<1>4. /\ Apart(conf.default_format) /\ Apart(FormatTimes(conf)) /\ Apart(RuleTimes(conf))
      /\ Across(conf.default_format, FormatTimes(conf))
      /\ Across(conf.default_format, RuleTimes(conf))
      /\ Across(FormatTimes(conf), RuleTimes(conf))
      /\ Under(conf.default_format, n) /\ Under(FormatTimes(conf), n)
      /\ Under(RuleTimes(conf), n)
  BY <1>1 DEF CachesInv, n
<1>5. /\ front \in Seq(CacheSets) /\ Apart(front) /\ Under(front, n)
      /\ Across(front, RuleTimes(conf))
  BY <1>2, <1>4, JoinCaches
<1> HIDE DEF front
<1>6. Apart(Patterns) /\ Under(Patterns, n)
  BY <1>2, <1>3, <1>4, <1>5, JoinCaches
<1>7. conf.rules # <<>> => conf.rotater /\ conf.default_format # <<>>
  BY DEF ConfInv, StageInv
<1>8. \A i \in DOMAIN conf.rules :
        LET period == conf.rules[i].fsync_period IN
        period = 0 \/ conf.reload_conf_period = 0 \/ period < conf.reload_conf_period
  BY DEF ConfInv, StageInv, InTime
<1> QED
  BY <1>1, <1>6, <1>7, <1>8, Zenon DEF ConfUsable, Apart, Under, n

\* A configuration that zlog_conf_new accepts can be used (ConfUsable), whatever the
\* lines of its text and the number of its formats, rules and time caches.
THEOREM ConfigurationUsable == ConfAssumption /\ SpecConf => []ConfUsable
<1> SUFFICES ASSUME ConfAssumption PROVE SpecConf => []ConfUsable
  OBVIOUS
<1>1. InitConf => ConfInv
  BY InitConfInv
<1>2. ConfInv /\ [NextConf]_confVars => ConfInv'
  BY ConfStep
<1> QED
  BY <1>1, <1>2, ConfInvUsable, PTL DEF SpecConf

-----------------------------------------------------------------------------
(* The hash table                                                          *)

\* A walk is what its definition says.
IsWalk(w, pointer, e) ==
  LET N == Cardinality(DOMAIN pointer) IN
  /\ DOMAIN w = 0..N
  /\ w[0] = e
  /\ \A n \in 1..N : w[n] = IF w[n - 1] \in DOMAIN pointer THEN pointer[w[n - 1]] ELSE w[n - 1]

LEMMA WalkSteps ==
  ASSUME NEW S, IsFiniteSet(S), NEW pointer, DOMAIN pointer = S, NEW e
  PROVE  IsWalk(Walk(pointer, e), pointer, e)
<1>1. PICK N \in Nat : N = Cardinality(S)
  BY FS_CardinalityType
<1> DEFINE X == {e} \cup {pointer[p] : p \in S}
           next(p) == IF p \in S THEN pointer[p] ELSE p
           steps == [n \in Nat |-> [p \in X |-> next(p)]]
           Def(at, n) == IF n = 0 THEN e
                         ELSE IF at[n - 1] \in DOMAIN pointer THEN pointer[at[n - 1]]
                              ELSE at[n - 1]
           w == Walk(pointer, e)
<1>2. e \in X /\ steps \in [Nat -> [X -> X]]
  OBVIOUS
<1>3. PICK f : Recurs(f, X, e, steps)
  <2> HIDE DEF steps, X
  <2> QED
    BY <1>2, Recursion
<1> DEFINE g == [n \in 0..N |-> f[n]]
<1>4. ASSUME NEW n \in 0..N PROVE g[n] = Def(g, n)
  <2>1. CASE n = 0
    BY <1>3, <2>1 DEF Recurs
  <2>2. CASE n # 0
    <3>1. n - 1 \in Nat /\ n - 1 \in 0..N /\ (n - 1) + 1 = n
      BY <2>2
    <3>2. f[(n - 1) + 1] = steps[n - 1][f[n - 1]]
      BY <1>3, <3>1 DEF Recurs
    <3>3. f[n - 1] \in X
      BY <1>3, <3>1 DEF Recurs
    <3>4. f[n] = next(f[n - 1])
      BY <3>1, <3>2, <3>3
    <3>5. g[n] = f[n] /\ g[n - 1] = f[n - 1]
      BY <3>1
    <3> HIDE DEF g, X
    <3> QED
      BY <2>2, <3>4, <3>5
  <2> QED
    BY <2>1, <2>2
<1>5. g = [n \in 0..N |-> Def(g, n)]
  <2>1. g = [n \in 0..N |-> g[n]]
    OBVIOUS
  <2> HIDE DEF g, Def
  <2> QED
    BY <1>4, <2>1
<1>6. w = CHOOSE at : at = [n \in 0..N |-> Def(at, n)]
  BY <1>1 DEF Walk
<1>7. w = [n \in 0..N |-> Def(w, n)]
  <2> HIDE DEF g, Def, w
  <2> QED
    BY <1>5, <1>6
<1> HIDE DEF w
<1>8. DOMAIN w = 0..N
  BY <1>7
<1>9. ASSUME NEW n \in 0..N PROVE w[n] = Def(w, n)
  <2> HIDE DEF Def
  <2> QED
    BY <1>7
<1>10. /\ w[0] = e
       /\ \A n \in 1..N : w[n] = IF w[n - 1] \in S THEN pointer[w[n - 1]] ELSE w[n - 1]
  <2>1. 0 \in 0..N /\ \A n \in 1..N : n \in 0..N /\ n # 0
    OBVIOUS
  <2> QED
    BY <1>9, <2>1
<1>11. IsWalk(w, pointer, e)
  BY <1>1, <1>8, <1>10 DEF IsWalk
<1> QED
  BY <1>11 DEF w

\* R orders S, and pointers lead further in it.
Orders(R, S) ==
  /\ \A p \in S : p \notin R[p]
  /\ \A p, q, u \in S : q \in R[p] /\ u \in R[q] => u \in R[p]

Along(pointer, S, R) == \A p \in S : pointer[p] \in S => pointer[p] \in R[p]

\* Pointers do not lead past f.
Toward(pointer, S, R, f) ==
  \A p \in S : f \in R[p] =>
    pointer[p] \in S /\ (pointer[p] = f \/ f \in R[pointer[p]])

\* A walk visits what it visits in order.
LEMMA WalkOrdered ==
  ASSUME NEW S, IsFiniteSet(S), NEW pointer, DOMAIN pointer = S, NEW w, NEW e,
         IsWalk(w, pointer, e), NEW R, Orders(R, S), Along(pointer, S, R),
         NEW j \in 0..Cardinality(S), w[j] \in S, NEW i \in 0..j - 1
  PROVE  w[i] \in S /\ w[j] \in R[w[i]]
<1>1. PICK N \in Nat : N = Cardinality(S)
  BY FS_CardinalityType
<1> DEFINE Good == {n \in Nat : n <= N /\ w[n] \in S =>
                       \A m \in 0..n - 1 : w[m] \in S /\ w[n] \in R[w[m]]}
<1>2. 0 \in Good
  OBVIOUS
<1>3. ASSUME NEW n \in Nat, n \in Good PROVE n + 1 \in Good
  <2> SUFFICES ASSUME n + 1 <= N, w[n + 1] \in S, NEW m \in 0..(n + 1) - 1
               PROVE  w[m] \in S /\ w[n + 1] \in R[w[m]]
    OBVIOUS
  <2>1. n + 1 \in 1..N /\ (n + 1) - 1 = n
    OBVIOUS
  <2>2. w[n + 1] = IF w[n] \in S THEN pointer[w[n]] ELSE w[n]
    BY <1>1, <2>1 DEF IsWalk
  <2>3. w[n] \in S /\ w[n + 1] \in R[w[n]]
    BY <2>2 DEF Along
  <2>4. CASE m = n
    BY <2>3, <2>4
  <2>5. CASE m # n
    <3>1. m \in 0..n - 1 /\ n <= N
      BY <2>5
    <3>2. w[m] \in S /\ w[n] \in R[w[m]]
      BY <1>3, <2>3, <3>1
    <3> QED
      BY <2>3, <3>2 DEF Orders
  <2> QED
    BY <2>4, <2>5
<1>4. Nat \subseteq Good
  <2> HIDE DEF Good
  <2> QED
    BY <1>2, <1>3, Inductive
<1>5. j \in Good /\ j <= N
  BY <1>1, <1>4
<1> QED
  BY <1>5

\* A walk toward f gets there.
LEMMA WalkMeets ==
  ASSUME NEW S, IsFiniteSet(S), NEW pointer, DOMAIN pointer = S, NEW w, NEW e \in S,
         IsWalk(w, pointer, e), NEW R, Orders(R, S), Along(pointer, S, R),
         NEW f \in S, Toward(pointer, S, R, f), e = f \/ f \in R[e]
  PROVE  \E n \in 0..Cardinality(S) - 1 : w[n] = f
<1>1. PICK N \in Nat : N = Cardinality(S)
  BY FS_CardinalityType
<1> SUFFICES ASSUME \A n \in 0..N - 1 : w[n] # f PROVE FALSE
  BY <1>1
<1> DEFINE Good == {n \in Nat : n <= N => w[n] \in S /\ (w[n] = f \/ f \in R[w[n]])}
<1>2. 0 \in Good
  BY DEF IsWalk
<1>3. ASSUME NEW n \in Nat, n \in Good PROVE n + 1 \in Good
  <2> SUFFICES ASSUME n + 1 <= N
               PROVE  w[n + 1] \in S /\ (w[n + 1] = f \/ f \in R[w[n + 1]])
    OBVIOUS
  <2>1. n + 1 \in 1..N /\ (n + 1) - 1 = n /\ n \in 0..N - 1 /\ n <= N
    OBVIOUS
  <2>2. w[n + 1] = IF w[n] \in S THEN pointer[w[n]] ELSE w[n]
    BY <1>1, <2>1 DEF IsWalk
  <2>3. w[n] \in S /\ f \in R[w[n]]
    BY <1>3, <2>1
  <2> QED
    BY <2>2, <2>3 DEF Toward
<1>4. Nat \subseteq Good
  <2> HIDE DEF Good
  <2> QED
    BY <1>2, <1>3, Inductive
<1>5. ASSUME NEW n \in 0..N PROVE w[n] \in S
  <2>1. n \in Good
    BY <1>4
  <2> QED
    BY <2>1
<1> DEFINE v == [n \in 0..N |-> w[n]]
<1>6. v \in [0..N -> S]
  BY <1>5
<1>7. IsFiniteSet(0..N) /\ Cardinality(0..N) = N + 1
  BY FS_Interval
<1> HIDE DEF Good
<1>8. PICK x \in 0..N, y \in 0..N : x # y /\ v[x] = v[y]
  <2>1. Cardinality(S) < Cardinality(0..N)
    BY <1>1, <1>7
  <2> HIDE DEF v
  <2> QED
    BY <1>6, <1>7, <2>1, FS_PigeonHole
<1>9. ASSUME NEW i \in 0..N, NEW j \in 0..N, i < j PROVE w[i] # w[j]
  <2>1. w[j] \in S /\ w[i] \in S /\ i \in 0..j - 1 /\ j \in 0..Cardinality(S)
    BY <1>1, <1>5, <1>9
  <2>2. w[j] \in R[w[i]]
    BY <2>1, WalkOrdered
  <2> QED
    BY <2>1, <2>2 DEF Orders
<1>10. x < y \/ y < x
  BY <1>8
<1> QED
  BY <1>8, <1>9, <1>10

\* What a walk from e along a total order visits is e and what comes after it; it leads
\* out of S at the end.
LEMMA WalkVisits ==
  ASSUME NEW S, IsFiniteSet(S), NEW pointer, DOMAIN pointer = S, NEW w, NEW e \in S,
         IsWalk(w, pointer, e), NEW R, Orders(R, S), Along(pointer, S, R),
         \A f \in S : Toward(pointer, S, R, f), NEW f \in S
  PROVE  /\ (\E n \in DOMAIN w : w[n] = f) <=> (f = e \/ f \in R[e])
<1>1. PICK N \in Nat : N = Cardinality(S)
  BY FS_CardinalityType
<1>2. DOMAIN w = 0..N /\ w[0] = e
  BY <1>1 DEF IsWalk
<1>3. ASSUME NEW n \in 0..N, w[n] = f PROVE f = e \/ f \in R[e]
  <2>1. CASE n = 0
    BY <1>2, <1>3, <2>1
  <2>2. CASE n # 0
    <3>1. n \in 0..Cardinality(S) /\ w[n] \in S /\ 0 \in 0..n - 1
      BY <1>1, <1>3, <2>2
    <3>2. w[n] \in R[w[0]]
      BY <3>1, WalkOrdered
    <3> QED
      BY <1>2, <1>3, <3>2
  <2> QED
    BY <2>1, <2>2
<1>4. ASSUME f = e \/ f \in R[e] PROVE \E n \in DOMAIN w : w[n] = f
  <2>1. PICK n \in 0..N - 1 : w[n] = f
    BY <1>1, <1>4, WalkMeets
  <2> QED
    BY <1>2, <2>1
<1> QED
  BY <1>2, <1>3, <1>4

\* The slot of an entry of the heap h, in a table of n slots.
Home(h, n, e) == Hash[h[e].key] % n

\* The entry q, or none, is the one that follows e in the chain, when the entries S are
\* chained by descending rank r; and the one before it.
Follows(h, n, S, r, e, q) ==
  LET later == {f \in S : Home(h, n, f) = Home(h, n, e) /\ r[f] < r[e]}
  IN  IF q = Null THEN later = {} ELSE q \in later /\ \A f \in later : r[f] <= r[q]

Precedes(h, n, S, r, e, q) ==
  LET earlier == {f \in S : Home(h, n, f) = Home(h, n, e) /\ r[f] > r[e]}
  IN  IF q = Null THEN earlier = {} ELSE q \in earlier /\ \A f \in earlier : r[f] >= r[q]

Leads(h, n, S, r, i, q) ==
  LET chain == {f \in S : Home(h, n, f) = i}
  IN  IF q = Null THEN chain = {} ELSE q \in chain /\ \A f \in chain : r[f] <= r[q]

\* The entries S are in the chains of the table t, in the order of their ranks, which
\* are below top.
Linked(t, h, n, S, r, top) ==
  /\ top \in Nat /\ r \in [S -> 0..top - 1]
  /\ \A e, f \in S : r[e] = r[f] => e = f
  /\ \A e \in S : Follows(h, n, S, r, e, h[e].next) /\ Precedes(h, n, S, r, e, h[e].prev)
  /\ \A i \in 0..n - 1 : Leads(h, n, S, r, i, t[i])

ChainInv == \E top \in Nat : \E r : Linked(tab, heap, TabSize, DOMAIN heap, r, top)

\* Entries are named by the puts, so that there are finitely many; no two have one key
\* or one object, and no object that is in the table has been destroyed.
EntryType(S) == [key : Keys, object : 1..puts, next : S \cup {Null}, prev : S \cup {Null}]

HeapInv ==
  /\ puts \in 0..MaxPuts
  /\ DOMAIN heap \subseteq 1..puts
  /\ heap \in [DOMAIN heap -> EntryType(DOMAIN heap)]
  /\ TabSize \in Nat \ {0}
  /\ tab \in [0..TabSize - 1 -> DOMAIN heap \cup {Null}]
  /\ nelem = Cardinality(DOMAIN heap)
  /\ cursor \in DOMAIN heap \cup {Null}
  /\ \A e, f \in DOMAIN heap :
       heap[e].key = heap[f].key \/ heap[e].object = heap[f].object => e = f

DelsInv ==
  /\ dels \in [Objects -> {0, 1}]
  /\ \A o \in Objects : o > puts => dels[o] = 0
  /\ \A e \in DOMAIN heap : dels[heap[e].object] = 0

TableInv == HeapInv /\ DelsInv /\ ChainInv

LEMMA HomeType ==
  ASSUME HashTableAssumption, NEW n \in Nat \ {0}, NEW h, NEW e, h[e].key \in Keys
  PROVE  Home(h, n, e) \in 0..n - 1
<1>1. Hash[h[e].key] \in Nat
  BY DEF HashTableAssumption
<1>2. \A x \in Nat : x % n \in 0..n - 1
  OBVIOUS
<1> QED
  BY <1>1, <1>2 DEF Home

LEMMA HeapFacts ==
  ASSUME HashTableAssumption, HeapInv
  PROVE  /\ IsFiniteSet(DOMAIN heap) /\ Cardinality(DOMAIN heap) \in 0..MaxPuts
         /\ DOMAIN heap \subseteq Nat /\ Null \notin DOMAIN heap
         /\ \A e \in DOMAIN heap : Home(heap, TabSize, e) \in 0..TabSize - 1
         /\ DOMAIN tab = 0..TabSize - 1
<1>1. IsFiniteSet(1..puts) /\ Cardinality(1..puts) = puts /\ puts \in Nat
  <2>1. puts \in Nat /\ puts <= MaxPuts
    BY DEF HeapInv, HashTableAssumption
  <2>2. IsFiniteSet(1..puts) /\ Cardinality(1..puts) = IF 1 > puts THEN 0 ELSE puts - 1 + 1
    BY <2>1, FS_Interval
  <2> QED
    BY <2>1, <2>2
<1>2. IsFiniteSet(DOMAIN heap) /\ Cardinality(DOMAIN heap) <= puts
  BY <1>1, FS_Subset DEF HeapInv
<1>3. Cardinality(DOMAIN heap) \in Nat
  BY <1>2, FS_CardinalityType
<1>4. DOMAIN heap \subseteq Nat /\ Null \notin DOMAIN heap
  BY DEF HeapInv, HashTableAssumption
<1>5. ASSUME NEW e \in DOMAIN heap PROVE Home(heap, TabSize, e) \in 0..TabSize - 1
  BY HomeType DEF HeapInv, EntryType
<1>6. Cardinality(DOMAIN heap) \in 0..MaxPuts
  BY <1>1, <1>2, <1>3 DEF HeapInv, HashTableAssumption
<1>7. DOMAIN tab = 0..TabSize - 1
  BY DEF HeapInv
<1> QED
  BY <1>2, <1>4, <1>5, <1>6, <1>7

\* The order of a chain, and that of an iteration.
InChain(r) ==
  [e \in DOMAIN heap |->
     {f \in DOMAIN heap : Home(heap, TabSize, e) = Home(heap, TabSize, f) /\ r[e] > r[f]}]

InIteration(r) ==
  [e \in DOMAIN heap |->
     {f \in DOMAIN heap :
        \/ Home(heap, TabSize, e) < Home(heap, TabSize, f)
        \/ Home(heap, TabSize, e) = Home(heap, TabSize, f) /\ r[e] > r[f]}]

NextPointers == [e \in DOMAIN heap |-> heap[e].next]
OrderPointers == [e \in DOMAIN heap |-> NextOf(e)]

LEMMA ChainOrder ==
  ASSUME HashTableAssumption, HeapInv, NEW r, NEW top,
         Linked(tab, heap, TabSize, DOMAIN heap, r, top)
  PROVE  /\ Orders(InChain(r), DOMAIN heap)
         /\ Along(NextPointers, DOMAIN heap, InChain(r))
         /\ \A f \in DOMAIN heap : Toward(NextPointers, DOMAIN heap, InChain(r), f)
<1> DEFINE S == DOMAIN heap
           H(e) == Home(heap, TabSize, e)
<1>1. /\ \A e \in S : H(e) \in Int
      /\ \A e \in S : r[e] \in Int
      /\ \A e, f \in S : r[e] = r[f] => e = f
  BY HeapFacts DEF Linked
<1>2. ASSUME NEW e \in S
      PROVE  IF heap[e].next = Null
               THEN \A f \in S : ~(H(f) = H(e) /\ r[f] < r[e])
               ELSE /\ heap[e].next \in S /\ H(heap[e].next) = H(e) /\ r[heap[e].next] < r[e]
                    /\ \A f \in S : H(f) = H(e) /\ r[f] < r[e] => r[f] <= r[heap[e].next]
  BY DEF Linked, Follows
<1> DEFINE R == InChain(r)
<1>3. \A e, f \in S : f \in R[e] <=> (H(e) = H(f) /\ r[e] > r[f])
  BY DEF InChain
<1>4. \A e \in S : NextPointers[e] = heap[e].next
  BY DEF NextPointers
<1>5. Null \notin S
  BY HeapFacts
<1> HIDE DEF R, H
<1>6. \A e \in S : R[e] \subseteq S
  BY DEF InChain, R
<1> HIDE DEF S
<1>7. Orders(R, S)
  BY <1>1, <1>3, <1>6 DEF Orders
<1>8. Along(NextPointers, S, R)
  BY <1>1, <1>2, <1>3, <1>4, <1>5 DEF Along
<1>9. ASSUME NEW f \in S PROVE Toward(NextPointers, S, R, f)
  BY <1>1, <1>2, <1>3, <1>4 DEF Toward
<1> QED
  BY <1>7, <1>8, <1>9 DEF R, S

\* get and put find the entry of a key.
LEMMA EntryFound ==
  ASSUME HashTableAssumption, HeapInv, ChainInv, NEW e \in DOMAIN heap
  PROVE  Entry(heap[e].key) = e
<1>1. PICK top, r : Linked(tab, heap, TabSize, DOMAIN heap, r, top)
  BY DEF ChainInv
<1> DEFINE k == heap[e].key
           start == tab[Slot(k, tab)]
           chain == Walk(NextPointers, start)
           hits == {n \in DOMAIN chain : chain[n] \in DOMAIN heap /\ heap[chain[n]].key = k}
<1>2. Slot(k, tab) = Home(heap, TabSize, e)
  BY DEF Slot, Home, TabSize
<1>3. start \in DOMAIN heap /\ (start = e \/ e \in InChain(r)[start])
  <2>1. Home(heap, TabSize, e) \in 0..TabSize - 1 /\ Null \notin DOMAIN heap
    BY HeapFacts
  <2>2. Leads(heap, TabSize, DOMAIN heap, r, Home(heap, TabSize, e), start)
    BY <1>1, <1>2, <2>1 DEF Linked
  <2>3. /\ start \in DOMAIN heap /\ Home(heap, TabSize, start) = Home(heap, TabSize, e)
        /\ r[e] <= r[start]
    BY <2>1, <2>2 DEF Leads
  <2>4. r[e] \in Int /\ r[start] \in Int /\ (r[start] = r[e] => start = e)
    BY <1>1, <2>3 DEF Linked
  <2> HIDE DEF start
  <2> QED
    BY <2>3, <2>4 DEF InChain
<1>4. IsFiniteSet(DOMAIN heap) /\ DOMAIN NextPointers = DOMAIN heap
  BY HeapFacts DEF NextPointers
<1>5. IsWalk(chain, NextPointers, start)
  BY <1>4, WalkSteps
<1> HIDE DEF start, chain
<1>6. PICK n \in 0..Cardinality(DOMAIN heap) - 1 : chain[n] = e
  BY <1>1, <1>3, <1>4, <1>5, ChainOrder, WalkMeets
<1>7. DOMAIN chain = 0..Cardinality(DOMAIN heap) /\ Cardinality(DOMAIN heap) \in Nat
  BY <1>4, <1>5, FS_CardinalityType DEF IsWalk
<1>8. hits \in SUBSET Nat /\ hits # {}
  BY <1>6, <1>7
<1>9. Min(hits) \in hits
  <2> HIDE DEF hits
  <2> QED
    BY <1>8, MinExists
<1>10. chain[Min(hits)] = e
  BY <1>9 DEF HeapInv
<1>11. Entry(k) = IF hits = {} THEN Null ELSE chain[Min(hits)]
  BY DEF Entry, chain, start, NextPointers
<1> QED
  BY <1>8, <1>10, <1>11

LEMMA EntryMissing ==
  ASSUME HashTableAssumption, HeapInv, NEW k, \A e \in DOMAIN heap : heap[e].key # k
  PROVE  Entry(k) = Null
BY DEF Entry

\* So a key is present if it is that of an entry.
LEMMA PresentFacts ==
  ASSUME HashTableAssumption, HeapInv, ChainInv, NEW k
  PROVE  /\ Present(k) <=> (\E e \in DOMAIN heap : heap[e].key = k)
         /\ Present(k) => Entry(k) \in DOMAIN heap /\ heap[Entry(k)].key = k
<1>1. CASE \E e \in DOMAIN heap : heap[e].key = k
  <2>1. PICK e \in DOMAIN heap : heap[e].key = k
    BY <1>1
  <2>2. Entry(k) = e
    BY <2>1, EntryFound
  <2> QED
    BY <2>1, <2>2 DEF Present
<1>2. CASE \A e \in DOMAIN heap : heap[e].key # k
  <2>1. Entry(k) = Null /\ Null \notin DOMAIN heap
    BY <1>2, EntryMissing, HeapFacts
  <2> QED
    BY <1>2, <2>1 DEF Present
<1> QED
  BY <1>1, <1>2

\* The first entry of the slots from i on.
LEMMA HeadFacts ==
  ASSUME HashTableAssumption, HeapInv, NEW r, NEW top,
         Linked(tab, heap, TabSize, DOMAIN heap, r, top), NEW i \in Nat
  PROVE  IF HeadFrom(i) = Null
           THEN \A f \in DOMAIN heap : Home(heap, TabSize, f) < i
           ELSE /\ HeadFrom(i) \in DOMAIN heap /\ Home(heap, TabSize, HeadFrom(i)) >= i
                /\ \A f \in DOMAIN heap : Home(heap, TabSize, f) >= i =>
                     f = HeadFrom(i) \/ f \in InIteration(r)[HeadFrom(i)]
<1> DEFINE S == DOMAIN heap
           H(e) == Home(heap, TabSize, e)
           full == {j \in DOMAIN tab : j >= i /\ tab[j] # Null}
<1>1. /\ \A e \in S : H(e) \in 0..TabSize - 1
      /\ \A e \in S : r[e] \in Int
      /\ \A e, f \in S : r[e] = r[f] => e = f
      /\ DOMAIN tab = 0..TabSize - 1 /\ Null \notin S /\ TabSize \in Nat
  BY HeapFacts DEF Linked, HeapInv
<1>2. ASSUME NEW j \in 0..TabSize - 1
      PROVE  IF tab[j] = Null THEN \A f \in S : H(f) # j
             ELSE tab[j] \in S /\ H(tab[j]) = j /\ \A f \in S : H(f) = j => r[f] <= r[tab[j]]
  BY DEF Linked, Leads
<1>3. CASE full = {}
  <2>1. HeadFrom(i) = Null
    BY <1>3 DEF HeadFrom
  <2>2. ASSUME NEW f \in S, H(f) >= i PROVE FALSE
    <3> HIDE DEF S, H
    <3>1. H(f) \in DOMAIN tab /\ tab[H(f)] = Null
      BY <1>1, <1>3, <2>2
    <3> QED
      BY <1>1, <1>2, <3>1
  <2>3. \A f \in S : H(f) < i
    BY <1>1, <2>2
  <2> QED
    BY <2>1, <2>3
<1>4. CASE full # {}
  <2>1. full \in SUBSET Nat
    BY <1>1
  <2>2. Min(full) \in full /\ \A j \in full : Min(full) <= j
    <3> HIDE DEF full
    <3> QED
      BY <1>4, <2>1, MinExists
  <2>3. PICK j \in 0..TabSize - 1 : j = Min(full)
    BY <1>1, <2>2
  <2>4. j >= i /\ tab[j] # Null /\ HeadFrom(i) = tab[j]
    BY <1>4, <2>2, <2>3 DEF HeadFrom
  <2>5. PICK q : q = tab[j]
    OBVIOUS
  <2>6. q \in S /\ H(q) = j /\ \A f \in S : H(f) = j => r[f] <= r[q]
    BY <1>2, <2>4, <2>5
  <2>7. ASSUME NEW f \in S, H(f) >= i PROVE f = q \/ f \in InIteration(r)[q]
    <3>1. tab[H(f)] # Null /\ H(f) \in DOMAIN tab
      BY <1>1, <1>2
    <3>2. j <= H(f)
      BY <2>2, <2>3, <2>7, <3>1
    <3>3. H(f) = j => f = q \/ r[q] > r[f]
      BY <1>1, <2>6
    <3>4. H(q) < H(f) \/ (H(q) = H(f) /\ r[q] > r[f]) => f \in InIteration(r)[q]
      BY <2>6 DEF InIteration
    <3> HIDE DEF S, H
    <3> QED
      BY <1>1, <2>6, <3>2, <3>3, <3>4
  <2> QED
    BY <1>1, <2>4, <2>5, <2>6, <2>7
<1> QED
  BY <1>3, <1>4

\* zc_hashtable_next leads to the entry that is next in the order of an iteration.
LEMMA NextFacts ==
  ASSUME HashTableAssumption, HeapInv, NEW r, NEW top,
         Linked(tab, heap, TabSize, DOMAIN heap, r, top), NEW e \in DOMAIN heap
  PROVE  IF NextOf(e) = Null
           THEN InIteration(r)[e] = {}
           ELSE /\ NextOf(e) \in InIteration(r)[e]
                /\ \A f \in InIteration(r)[e] :
                     f = NextOf(e) \/ f \in InIteration(r)[NextOf(e)]
<1> DEFINE S == DOMAIN heap
           H(x) == Home(heap, TabSize, x)
<1>1. /\ \A x \in S : H(x) \in 0..TabSize - 1
      /\ \A x \in S : r[x] \in Int
      /\ \A x, y \in S : r[x] = r[y] => x = y
      /\ Null \notin S /\ TabSize \in Nat
  BY HeapFacts DEF Linked, HeapInv
<1>2. IF heap[e].next = Null
        THEN \A f \in S : ~(H(f) = H(e) /\ r[f] < r[e])
        ELSE /\ heap[e].next \in S /\ H(heap[e].next) = H(e) /\ r[heap[e].next] < r[e]
             /\ \A f \in S : H(f) = H(e) /\ r[f] < r[e] => r[f] <= r[heap[e].next]
  BY DEF Linked, Follows
<1>3. \A x \in S : InIteration(r)[x] =
        {f \in S : H(x) < H(f) \/ (H(x) = H(f) /\ r[x] > r[f])}
  BY DEF InIteration
<1>4. CASE heap[e].next # Null
  <2>1. PICK q \in S : q = heap[e].next
    BY <1>2, <1>4
  <2>2. NextOf(e) = q /\ q # Null
    BY <1>4, <2>1 DEF NextOf
  <2>3. H(q) = H(e) /\ r[q] < r[e] /\ \A f \in S : H(f) = H(e) /\ r[f] < r[e] => r[f] <= r[q]
    BY <1>2, <1>4, <2>1
  <2>4. q \in InIteration(r)[e]
    BY <1>3, <2>3
  <2>5. ASSUME NEW f \in InIteration(r)[e] PROVE f = q \/ f \in InIteration(r)[q]
    <3> HIDE DEF S, H
    <3>1. f \in S /\ (H(e) < H(f) \/ (H(e) = H(f) /\ r[e] > r[f]))
      BY <1>3 DEF S
    <3>2. r[f] \in Int /\ r[q] \in Int /\ (r[f] = r[q] => f = q)
      BY <1>1, <3>1
    <3>3. H(q) < H(f) \/ (H(q) = H(f) /\ (f = q \/ r[q] > r[f]))
      BY <2>3, <3>1, <3>2
    <3> QED
      BY <1>3, <3>1, <3>3
  <2> QED
    BY <2>2, <2>4, <2>5
<1>5. CASE heap[e].next = Null
  <2>1. Slot(heap[e].key, tab) = H(e)
    BY DEF Slot, Home, TabSize
  <2>2. PICK i \in Nat : i = H(e) + 1
    BY <1>1
  <2>3. PICK q : q = HeadFrom(i)
    OBVIOUS
  <2>4. NextOf(e) = q
    BY <1>5, <2>1, <2>2, <2>3 DEF NextOf
  <2>5. IF q = Null THEN \A f \in S : H(f) < i
        ELSE q \in S /\ H(q) >= i /\ \A f \in S : H(f) >= i => f = q \/ f \in InIteration(r)[q]
    BY <2>3, HeadFacts
  <2>6. ASSUME NEW f \in InIteration(r)[e] PROVE f \in S /\ H(f) >= i
    <3> HIDE DEF S, H
    <3>1. f \in S /\ (H(e) < H(f) \/ (H(e) = H(f) /\ r[e] > r[f]))
      BY <1>3 DEF S
    <3>2. H(e) \in Int /\ H(f) \in Int /\ i = H(e) + 1
      BY <1>1, <2>2, <3>1 DEF S
    <3>3. ~(H(f) = H(e) /\ r[f] < r[e])
      BY <1>2, <1>5, <3>1
    <3>4. r[f] \in Int /\ r[e] \in Int
      BY <1>1, <3>1 DEF S
    <3>5. H(e) < H(f)
      BY <3>1, <3>3, <3>4
    <3> QED
      BY <3>1, <3>2, <3>5
  <2>7. CASE q = Null
    <3> HIDE DEF S, H
    <3>1. ASSUME NEW f \in InIteration(r)[e] PROVE FALSE
      BY <1>1, <2>2, <2>5, <2>6, <2>7
    <3> QED
      BY <2>4, <2>7, <3>1
  <2>8. CASE q # Null
    <3> HIDE DEF S, H
    <3>1. q \in InIteration(r)[e]
      BY <1>1, <1>3, <2>2, <2>5, <2>8 DEF S
    <3> QED
      BY <2>4, <2>5, <2>6, <2>8, <3>1
  <2> QED
    BY <2>7, <2>8
<1> QED
  BY <1>4, <1>5

LEMMA IterationOrder ==
  ASSUME HashTableAssumption, HeapInv, NEW r, NEW top,
         Linked(tab, heap, TabSize, DOMAIN heap, r, top)
  PROVE  /\ Orders(InIteration(r), DOMAIN heap)
         /\ Along(OrderPointers, DOMAIN heap, InIteration(r))
         /\ \A f \in DOMAIN heap : Toward(OrderPointers, DOMAIN heap, InIteration(r), f)
<1> DEFINE S == DOMAIN heap
           H(e) == Home(heap, TabSize, e)
           R == InIteration(r)
<1>1. /\ \A e \in S : H(e) \in Int
      /\ \A e \in S : r[e] \in Int
      /\ Null \notin S
  BY HeapFacts DEF Linked
<1>2. \A e \in S : \A f \in S : f \in R[e] <=> (H(e) < H(f) \/ (H(e) = H(f) /\ r[e] > r[f]))
  BY DEF InIteration
<1>3. \A e \in S : R[e] \subseteq S
  BY DEF InIteration
<1>4. ASSUME NEW e \in S
      PROVE  IF OrderPointers[e] = Null THEN R[e] = {}
             ELSE /\ OrderPointers[e] \in R[e]
                  /\ \A f \in R[e] : f = OrderPointers[e] \/ f \in R[OrderPointers[e]]
  <2>1. OrderPointers[e] = NextOf(e)
    BY DEF OrderPointers
  <2> QED
    BY <2>1, NextFacts
<1> HIDE DEF R, H, S
<1>5. Orders(R, S)
  BY <1>1, <1>2, <1>3 DEF Orders
<1>6. Along(OrderPointers, S, R)
  BY <1>1, <1>4 DEF Along
<1>7. ASSUME NEW f \in S PROVE Toward(OrderPointers, S, R, f)
  BY <1>1, <1>3, <1>4 DEF Toward
<1> QED
  BY <1>5, <1>6, <1>7 DEF R, S

\* A walk stays where no pointer leads on.
LEMMA WalkStays ==
  ASSUME NEW S, IsFiniteSet(S), NEW pointer, DOMAIN pointer = S, NEW w, NEW e,
         IsWalk(w, pointer, e), e \notin S
  PROVE  \A n \in DOMAIN w : w[n] = e
<1>1. PICK N \in Nat : N = Cardinality(S)
  BY FS_CardinalityType
<1> DEFINE Good == {n \in Nat : n <= N => w[n] = e}
<1>2. 0 \in Good
  BY DEF IsWalk
<1>3. ASSUME NEW n \in Nat, n \in Good PROVE n + 1 \in Good
  <2> SUFFICES ASSUME n + 1 <= N PROVE w[n + 1] = e
    OBVIOUS
  <2>1. n + 1 \in 1..N /\ (n + 1) - 1 = n /\ n <= N
    OBVIOUS
  <2>2. w[n + 1] = IF w[n] \in S THEN pointer[w[n]] ELSE w[n]
    BY <1>1, <2>1 DEF IsWalk
  <2> QED
    BY <1>3, <2>1, <2>2
<1>4. Nat \subseteq Good
  <2> HIDE DEF Good
  <2> QED
    BY <1>2, <1>3, Inductive
<1>5. DOMAIN w = 0..N
  BY <1>1 DEF IsWalk
<1>6. ASSUME NEW n \in 0..N PROVE w[n] = e
  <2>1. n \in Good
    BY <1>4
  <2> QED
    BY <2>1
<1> QED
  BY <1>5, <1>6

\* An iteration visits every entry once, each before those that are after it in the order.
LEMMA AheadFacts ==
  ASSUME HashTableAssumption, HeapInv, ChainInv
  PROVE  /\ Ahead(Null) = {}
         /\ Ahead(First) = DOMAIN heap
         /\ First \in DOMAIN heap \cup {Null}
         /\ \A e \in DOMAIN heap :
              /\ e \in Ahead(e)
              /\ NextOf(e) \in DOMAIN heap \cup {Null}
              /\ Ahead(NextOf(e)) = Ahead(e) \ {e}
<1>1. PICK top, r : Linked(tab, heap, TabSize, DOMAIN heap, r, top)
  BY DEF ChainInv
<1> DEFINE S == DOMAIN heap
           R == InIteration(r)
<1>2. IsFiniteSet(S) /\ DOMAIN OrderPointers = S /\ Null \notin S
  BY HeapFacts DEF OrderPointers
<1>3. \A e : Iteration(e) = Walk(OrderPointers, e)
  BY DEF Iteration, OrderPointers
<1>4. ASSUME NEW e PROVE IsWalk(Iteration(e), OrderPointers, e)
  BY <1>2, <1>3, WalkSteps
<1>5. Ahead(Null) = {}
  <2>1. \A n \in DOMAIN Iteration(Null) : Iteration(Null)[n] = Null
    BY <1>2, <1>4, WalkStays
  <2> QED
    BY <1>2, <2>1 DEF Ahead
<1>6. ASSUME NEW e \in S PROVE Ahead(e) = {e} \cup R[e] /\ R[e] \subseteq S /\ e \notin R[e]
  <2>1. Orders(R, S) /\ Along(OrderPointers, S, R)
        /\ \A f \in S : Toward(OrderPointers, S, R, f)
    BY <1>1, IterationOrder
  <2> HIDE DEF R
  <2>2. ASSUME NEW f \in S
        PROVE  (\E n \in DOMAIN Iteration(e) : Iteration(e)[n] = f) <=> (f = e \/ f \in R[e])
    <3>1. IsWalk(Iteration(e), OrderPointers, e)
      BY <1>4
    <3> QED
      BY <1>2, <2>1, <3>1, WalkVisits
  <2>3. R[e] \subseteq S
    BY DEF R, InIteration
  <2>4. e \notin R[e]
    BY <2>1 DEF Orders
  <2> QED
    BY <2>2, <2>3, <2>4 DEF Ahead
<1>7. Ahead(First) = S /\ First \in S \cup {Null}
  <2>1. IF First = Null THEN \A f \in S : Home(heap, TabSize, f) < 0
        ELSE /\ First \in S
             /\ \A f \in S : Home(heap, TabSize, f) >= 0 => f = First \/ f \in R[First]
    BY <1>1, HeadFacts DEF First
  <2>2. \A f \in S : Home(heap, TabSize, f) >= 0 /\ ~(Home(heap, TabSize, f) < 0)
    BY HeapFacts
  <2>3. CASE First = Null
    BY <1>5, <2>1, <2>2, <2>3
  <2>4. CASE First # Null
    <3> HIDE DEF R
    <3>1. First \in S /\ \A f \in S : f = First \/ f \in R[First]
      BY <2>1, <2>2, <2>4
    <3> HIDE DEF S
    <3> QED
      BY <1>6, <3>1
  <2> QED
    BY <2>3, <2>4
<1>8. ASSUME NEW e \in S
      PROVE  /\ e \in Ahead(e)
             /\ NextOf(e) \in S \cup {Null}
             /\ Ahead(NextOf(e)) = Ahead(e) \ {e}
  <2>1. IF NextOf(e) = Null THEN R[e] = {}
        ELSE /\ NextOf(e) \in R[e]
             /\ \A f \in R[e] : f = NextOf(e) \/ f \in R[NextOf(e)]
    BY <1>1, NextFacts
  <2>2. Orders(R, S)
    BY <1>1, IterationOrder
  <2> HIDE DEF R, S
  <2>3. CASE NextOf(e) = Null
    BY <1>5, <1>6, <2>1, <2>3
  <2>4. CASE NextOf(e) # Null
    <3>1. PICK q \in S : q = NextOf(e)
      BY <1>6, <2>1, <2>4
    <3>2. q \in R[e] /\ \A f \in R[e] : f = q \/ f \in R[q]
      BY <2>1, <2>4, <3>1
    <3>3. R[q] \subseteq R[e]
      BY <1>6, <2>2, <3>2 DEF Orders
    <3>4. Ahead(q) = R[e]
      BY <1>6, <3>2, <3>3
    <3> QED
      BY <1>6, <3>1, <3>4
  <2> QED
    BY <2>3, <2>4
<1> QED
  BY <1>5, <1>7, <1>8

\* A table of n slots and its entries D, for objects up to P.
Entries(D, P) == [D -> [key : Keys, object : 1..P, next : D \cup {Null}, prev : D \cup {Null}]]

Table(t, h, n, D, P) ==
  /\ n \in Nat \ {0} /\ P \in Nat
  /\ D \subseteq Nat
  /\ t \in [0..n - 1 -> D \cup {Null}]
  /\ h \in Entries(D, P)

Kept(h, g, D) == \A f \in D : g[f].key = h[f].key /\ g[f].object = h[f].object

\* Entry e has become the head of its chain.
Pushed(t, h, i, e, t2, h2) ==
  /\ \A j \in DOMAIN t : t2[j] = IF j = i THEN e ELSE t[j]
  /\ \A f \in DOMAIN h :
       /\ h2[f].next = IF f = e THEN t[i] ELSE h[f].next
       /\ h2[f].prev = IF f = e THEN Null ELSE IF f = t[i] THEN e ELSE h[f].prev

LEMMA PushType ==
  ASSUME HashTableAssumption, NEW t, NEW h, NEW n, NEW D, NEW P, Table(t, h, n, D, P),
         NEW e \in D, NEW i, i = Home(h, n, e),
         NEW s, s = [tab |-> t, heap |-> h]
  PROVE  /\ i \in 0..n - 1
         /\ Push(s, e) = [tab |-> Push(s, e).tab, heap |-> Push(s, e).heap]
         /\ Table(Push(s, e).tab, Push(s, e).heap, n, D, P)
         /\ Kept(h, Push(s, e).heap, D)
         /\ t[i] # e => Pushed(t, h, i, e, Push(s, e).tab, Push(s, e).heap)
<1>1. /\ n \in Nat \ {0} /\ DOMAIN t = 0..n - 1 /\ DOMAIN h = D /\ Null \notin D
      /\ \A j \in 0..n - 1 : t[j] \in D \cup {Null}
      /\ \A f \in D : h[f] \in [key : Keys, object : 1..P, next : D \cup {Null},
                                prev : D \cup {Null}]
      /\ s.tab = t /\ s.heap = h
  BY DEF Table, Entries, HashTableAssumption
<1>2. h[e].key \in Keys
  BY <1>1
<1>3. i \in 0..n - 1
  BY <1>1, <1>2, HomeType
<1>4. Cardinality(DOMAIN s.tab) = n
  <2>1. Cardinality(0..n - 1) = n
    <3>1. n - 1 \in Int /\ ~(0 > n - 1) /\ (n - 1) - 0 + 1 = n
      BY <1>1
    <3> QED
      BY <3>1, FS_Interval
  <2> QED
    BY <1>1, <2>1
<1>5. Slot(s.heap[e].key, s.tab) = i
  BY <1>1, <1>4 DEF Slot, Home
<1> DEFINE t2 == [t EXCEPT ![i] = e]
           linked == [h EXCEPT ![e].next = t[i], ![e].prev = Null]
           h2 == IF t[i] = Null THEN linked ELSE [linked EXCEPT ![t[i]].prev = e]
<1>6. Push(s, e) = [tab |-> t2, heap |-> h2]
  <2>1. PICK j : j = Slot(s.heap[e].key, s.tab)
    OBVIOUS
  <2>2. Push(s, e) =
          LET old == s.tab[j]
              l == [s.heap EXCEPT ![e].next = old, ![e].prev = Null]
          IN  [tab |-> [s.tab EXCEPT ![j] = e],
               heap |-> IF old = Null THEN l ELSE [l EXCEPT ![old].prev = e]]
    BY <2>1, Zenon DEF Push
  <2>3. j = i /\ s.tab = t /\ s.heap = h
    BY <1>1, <1>5, <2>1
  <2> QED
    BY <2>2, <2>3, Zenon
<1>7. /\ t2 \in [0..n - 1 -> D \cup {Null}]
      /\ \A j \in DOMAIN t : t2[j] = IF j = i THEN e ELSE t[j]
  BY <1>1, <1>3 DEF Table
<1>8. DOMAIN linked = D /\ DOMAIN h2 = D
  BY <1>1
<1>9. ASSUME NEW f \in D
      PROVE  linked[f] = IF f = e THEN [[h[f] EXCEPT !.next = t[i]] EXCEPT !.prev = Null]
                         ELSE h[f]
  BY <1>1
<1>10. ASSUME NEW f \in D
       PROVE  h2[f] = IF t[i] # Null /\ f = t[i] THEN [linked[f] EXCEPT !.prev = e]
                      ELSE linked[f]
  <2> HIDE DEF linked
  <2> QED
    BY <1>1, <1>3, <1>8
<1>11. ASSUME NEW f \in D
       PROVE  /\ h2[f] \in [key : Keys, object : 1..P, next : D \cup {Null},
                            prev : D \cup {Null}]
              /\ h2[f].key = h[f].key /\ h2[f].object = h[f].object
              /\ h2[f].next = IF f = e THEN t[i] ELSE h[f].next
              /\ h2[f].prev = IF f = t[i] THEN e ELSE IF f = e THEN Null ELSE h[f].prev
  <2>1. f # Null
    BY <1>1
  <2>2. CASE f = e
    <3>1. PICK x : x = [[h[f] EXCEPT !.next = t[i]] EXCEPT !.prev = Null]
      OBVIOUS
    <3>2. x \in [key : Keys, object : 1..P, next : D \cup {Null}, prev : {Null}]
          /\ x.key = h[f].key /\ x.object = h[f].object /\ x.next = t[i] /\ x.prev = Null
      BY <1>1, <1>3, <3>1
    <3>3. h2[f] = IF f = t[i] THEN [x EXCEPT !.prev = e] ELSE x
      <4>1. linked[f] = x
        BY <1>9, <2>2, <3>1
      <4> HIDE DEF linked, h2
      <4> QED
        BY <1>10, <2>1, <4>1
    <3> HIDE DEF h2
    <3> QED
      BY <1>1, <2>2, <3>2, <3>3
  <2>3. CASE f # e /\ f = t[i]
    <3>1. h2[f] = [h[f] EXCEPT !.prev = e]
      BY <1>9, <1>10, <2>1, <2>3
    <3> HIDE DEF h2
    <3> QED
      BY <1>1, <2>3, <3>1
  <2>4. CASE f # e /\ f # t[i]
    <3>1. h2[f] = h[f]
      BY <1>9, <1>10, <2>4
    <3> HIDE DEF h2
    <3> QED
      BY <1>1, <2>4, <3>1
  <2> QED
    BY <2>2, <2>3, <2>4
<1> HIDE DEF t2, h2
<1>12. h2 \in Entries(D, P)
  <2>1. h2 = [f \in D |-> h2[f]]
    BY <1>1, <1>8 DEF h2
  <2> QED
    BY <1>11, <2>1 DEF Entries
<1>13. Table(t2, h2, n, D, P)
  BY <1>7, <1>12 DEF Table
<1>14. Kept(h, h2, D) /\ (t[i] # e => Pushed(t, h, i, e, t2, h2))
  BY <1>1, <1>7, <1>11 DEF Kept, Pushed
<1> QED
  BY <1>3, <1>6, <1>13, <1>14

\* The rank of the new head.
OnTop(r, S, e, top) == [f \in S \cup {e} |-> IF f = e THEN top ELSE r[f]]

LEMMA PushLinked ==
  ASSUME HashTableAssumption, NEW t, NEW h, NEW n, NEW D, NEW P, Table(t, h, n, D, P),
         NEW S \in SUBSET D, NEW r, NEW top, Linked(t, h, n, S, r, top), NEW e \in D \ S,
         NEW i \in 0..n - 1, i = Home(h, n, e), NEW t2, NEW h2, Kept(h, h2, D),
         Pushed(t, h, i, e, t2, h2)
  PROVE  Linked(t2, h2, n, S \cup {e}, OnTop(r, S, e, top), top + 1)
<1> DEFINE H(f) == Home(h, n, f)
           q == OnTop(r, S, e, top)
           T == S \cup {e}
<1>1. /\ top \in Nat /\ r \in [S -> 0..top - 1]
      /\ \A f, g \in S : r[f] = r[g] => f = g
      /\ Null \notin D /\ DOMAIN t = 0..n - 1 /\ DOMAIN h = D
  BY DEF Linked, Table, Entries, HashTableAssumption
<1>2. \A f \in D : Home(h2, n, f) = H(f)
  BY DEF Kept, Home
<1>3. /\ \A f \in S : q[f] = r[f] /\ r[f] \in Int /\ 0 <= r[f] /\ r[f] < top
      /\ q[e] = top /\ q \in [T -> 0..top]
  BY <1>1 DEF OnTop
<1>4. \A j \in 0..n - 1 :
        IF t[j] = Null THEN \A f \in S : H(f) # j
        ELSE t[j] \in S /\ H(t[j]) = j /\ \A f \in S : H(f) = j => r[f] <= r[t[j]]
  BY DEF Linked, Leads
<1>5. \A f \in S :
        IF h[f].next = Null THEN \A g \in S : ~(H(g) = H(f) /\ r[g] < r[f])
        ELSE /\ h[f].next \in S /\ H(h[f].next) = H(f) /\ r[h[f].next] < r[f]
             /\ \A g \in S : H(g) = H(f) /\ r[g] < r[f] => r[g] <= r[h[f].next]
  BY DEF Linked, Follows
<1>6. \A f \in S :
        IF h[f].prev = Null THEN \A g \in S : ~(H(g) = H(f) /\ r[g] > r[f])
        ELSE /\ h[f].prev \in S /\ H(h[f].prev) = H(f) /\ r[h[f].prev] > r[f]
             /\ \A g \in S : H(g) = H(f) /\ r[g] > r[f] => r[g] >= r[h[f].prev]
  BY DEF Linked, Precedes
<1>7. /\ \A j \in 0..n - 1 : t2[j] = IF j = i THEN e ELSE t[j]
      /\ \A f \in D :
         /\ h2[f].next = IF f = e THEN t[i] ELSE h[f].next
         /\ h2[f].prev = IF f = e THEN Null ELSE IF f = t[i] THEN e ELSE h[f].prev
  BY <1>1 DEF Pushed
<1>8. H(e) = i /\ e # Null /\ e \notin S /\ e \in D /\ S \subseteq D /\ e \in T
  BY <1>1
<1> HIDE DEF H, q
<1>9. ASSUME NEW f \in T PROVE Follows(h2, n, T, q, f, h2[f].next)
  <2>1. ASSUME f \in S PROVE h2[f].next = h[f].next
    BY <1>7, <1>8, <2>1
  <2>2. CASE f = e
    <3>1. PICK old : old = t[i]
      OBVIOUS
    <3>2. IF old = Null THEN \A g \in S : H(g) # i
          ELSE old \in S /\ H(old) = i /\ \A g \in S : H(g) = i => r[g] <= r[old]
      BY <1>4, <3>1
    <3>3. h2[f].next = old
      BY <1>7, <1>8, <2>2, <3>1
    <3> QED
      BY <1>2, <1>3, <1>8, <2>2, <3>2, <3>3 DEF Follows
  <2>3. CASE f \in S
    <3>1. PICK x : x = h[f].next
      OBVIOUS
    <3>2. IF x = Null THEN \A g \in S : ~(H(g) = H(f) /\ r[g] < r[f])
          ELSE /\ x \in S /\ H(x) = H(f) /\ r[x] < r[f]
               /\ \A g \in S : H(g) = H(f) /\ r[g] < r[f] => r[g] <= r[x]
      BY <1>5, <2>3, <3>1
    <3>3. ~(q[e] < q[f])
      BY <1>1, <1>3, <2>3
    <3> QED
      BY <1>2, <1>3, <1>8, <2>1, <2>3, <3>1, <3>2, <3>3 DEF Follows
  <2> QED
    BY <2>2, <2>3
<1>10. ASSUME NEW f \in T PROVE Precedes(h2, n, T, q, f, h2[f].prev)
  <2>1. CASE f = e
    <3>1. \A g \in T : ~(q[g] > q[e])
      BY <1>1, <1>3
    <3>2. h2[f].prev = Null
      BY <1>7, <1>8, <2>1
    <3> QED
      BY <2>1, <3>1, <3>2 DEF Precedes
  <2>2. CASE f \in S
    <3>1. PICK x : x = h[f].prev
      OBVIOUS
    <3>2. IF x = Null THEN \A g \in S : ~(H(g) = H(f) /\ r[g] > r[f])
          ELSE /\ x \in S /\ H(x) = H(f) /\ r[x] > r[f]
               /\ \A g \in S : H(g) = H(f) /\ r[g] > r[f] => r[g] >= r[x]
      BY <1>6, <2>2, <3>1
    <3>3. PICK old : old = t[i]
      OBVIOUS
    <3>4. IF old = Null THEN \A g \in S : H(g) # i
          ELSE old \in S /\ H(old) = i /\ \A g \in S : H(g) = i => r[g] <= r[old]
      BY <1>4, <3>3
    <3>5. h2[f].prev = IF f = old THEN e ELSE x
      BY <1>7, <1>8, <2>2, <3>1, <3>3
    <3>6. q[e] > q[f]
      BY <1>1, <1>3, <2>2
    <3>7. CASE H(f) # i
      <4>1. f # old
        BY <1>1, <1>8, <2>2, <3>4, <3>7
      <4>2. h2[f].prev = x
        BY <3>5, <4>1
      <4> QED
        BY <1>2, <1>3, <1>8, <2>2, <3>2, <3>7, <4>2 DEF Precedes
    <3>8. CASE H(f) = i /\ f = old
      <4>1. \A g \in S : ~(H(g) = i /\ r[g] > r[f])
        BY <1>1, <1>3, <1>8, <2>2, <3>4, <3>8
      <4>2. h2[f].prev = e
        BY <3>5, <3>8
      <4> QED
        BY <1>2, <1>3, <1>8, <2>2, <3>6, <3>8, <4>1, <4>2 DEF Precedes
    <3>9. CASE H(f) = i /\ f # old
      <4>1. old \in S /\ H(old) = i /\ r[old] > r[f]
        BY <1>1, <1>3, <2>2, <3>4, <3>9
      <4>2. x # Null
        BY <2>2, <3>2, <3>9, <4>1
      <4>3. h2[f].prev = x /\ q[e] >= q[x]
        BY <1>1, <1>3, <3>2, <3>5, <3>9, <4>2
      <4> QED
        BY <1>2, <1>3, <1>8, <2>2, <3>2, <4>2, <4>3 DEF Precedes
    <3> QED
      BY <3>7, <3>8, <3>9
  <2> QED
    BY <2>1, <2>2
<1>11. ASSUME NEW j \in 0..n - 1 PROVE Leads(h2, n, T, q, j, t2[j])
  <2>1. CASE j = i
    <3>1. t2[j] = e
      BY <1>7, <2>1
    <3>2. \A f \in T : q[f] <= q[e]
      BY <1>1, <1>3
    <3> QED
      BY <1>2, <1>8, <2>1, <3>1, <3>2 DEF Leads
  <2>2. CASE j # i
    <3>1. PICK x : x = t[j]
      OBVIOUS
    <3>2. IF x = Null THEN \A f \in S : H(f) # j
          ELSE x \in S /\ H(x) = j /\ \A f \in S : H(f) = j => r[f] <= r[x]
      BY <1>4, <3>1
    <3>3. t2[j] = x
      BY <1>7, <2>2, <3>1
    <3> QED
      BY <1>2, <1>3, <1>8, <2>2, <3>2, <3>3 DEF Leads
  <2> QED
    BY <2>1, <2>2
<1>12. \A f, g \in T : q[f] = q[g] => f = g
  <2> SUFFICES ASSUME NEW f \in T, NEW g \in T, q[f] = q[g] PROVE f = g
    OBVIOUS
  <2>1. f \in S => q[f] # q[e]
    BY <1>1, <1>3
  <2>2. g \in S => q[g] # q[e]
    BY <1>1, <1>3
  <2> QED
    BY <1>1, <1>3, <2>1, <2>2
<1>13. top + 1 \in Nat /\ q \in [T -> 0..(top + 1) - 1]
  BY <1>1, <1>3
<1> QED
  BY <1>9, <1>10, <1>11, <1>12, <1>13 DEF Linked, q

\* Entry p has been taken out of its chain i.
Unlinked(t, h, i, p, t2, h2) ==
  /\ \A j \in DOMAIN t : t2[j] = IF j = i /\ h[p].prev = Null THEN h[p].next ELSE t[j]
  /\ \A f \in DOMAIN h \ {p} :
       /\ h2[f].next = IF f = h[p].prev THEN h[p].next ELSE h[f].next
       /\ h2[f].prev = IF f = h[p].next THEN h[p].prev ELSE h[f].prev

\* Nothing but its neighbours points to entry p.
OnlyNeighbours(t, h, n, D, i, p) ==
  /\ \A f \in D : h[f].next # p \/ f = h[p].prev
  /\ \A f \in D : h[f].prev # p \/ f = h[p].next
  /\ h[p].next # p /\ h[p].prev # p
  /\ \A j \in 0..n - 1 : t[j] # p \/ (j = i /\ h[p].prev = Null)

LEMMA UnlinkLinked ==
  ASSUME HashTableAssumption, NEW t, NEW h, NEW n, NEW D, NEW P, Table(t, h, n, D, P),
         NEW r, NEW top, Linked(t, h, n, D, r, top), NEW p \in D,
         NEW i \in 0..n - 1, i = Home(h, n, p), NEW t2, NEW h2, Kept(h, h2, D \ {p}),
         Unlinked(t, h, i, p, t2, h2)
  PROVE  /\ \E q : Linked(t2, h2, n, D \ {p}, q, top)
         /\ OnlyNeighbours(t, h, n, D, i, p)
<1> DEFINE H(f) == Home(h, n, f)
           T == D \ {p}
           q == [f \in T |-> r[f]]
           Y == h[p].next
           Z == h[p].prev
<1>1. /\ top \in Nat /\ r \in [D -> 0..top - 1]
      /\ \A f, g \in D : r[f] = r[g] => f = g
      /\ Null \notin D /\ DOMAIN t = 0..n - 1 /\ DOMAIN h = D
  BY DEF Linked, Table, Entries, HashTableAssumption
<1>2. \A f \in T : Home(h2, n, f) = H(f)
  BY DEF Kept, Home
<1>3. /\ \A f \in D : r[f] \in Int
      /\ \A f \in T : q[f] = r[f]
  BY <1>1
<1>4. \A j \in 0..n - 1 :
        IF t[j] = Null THEN \A f \in D : H(f) # j
        ELSE t[j] \in D /\ H(t[j]) = j /\ \A f \in D : H(f) = j => r[f] <= r[t[j]]
  BY DEF Linked, Leads
<1>5. \A f \in D :
        IF h[f].next = Null THEN \A g \in D : ~(H(g) = H(f) /\ r[g] < r[f])
        ELSE /\ h[f].next \in D /\ H(h[f].next) = H(f) /\ r[h[f].next] < r[f]
             /\ \A g \in D : H(g) = H(f) /\ r[g] < r[f] => r[g] <= r[h[f].next]
  BY DEF Linked, Follows
<1>6. \A f \in D :
        IF h[f].prev = Null THEN \A g \in D : ~(H(g) = H(f) /\ r[g] > r[f])
        ELSE /\ h[f].prev \in D /\ H(h[f].prev) = H(f) /\ r[h[f].prev] > r[f]
             /\ \A g \in D : H(g) = H(f) /\ r[g] > r[f] => r[g] >= r[h[f].prev]
  BY DEF Linked, Precedes
<1>7. /\ \A j \in 0..n - 1 : t2[j] = IF j = i /\ Z = Null THEN Y ELSE t[j]
      /\ \A f \in T :
         /\ h2[f].next = IF f = Z THEN Y ELSE h[f].next
         /\ h2[f].prev = IF f = Y THEN Z ELSE h[f].prev
  BY <1>1 DEF Unlinked
<1>8. IF Y = Null THEN \A g \in D : ~(H(g) = i /\ r[g] < r[p])
      ELSE /\ Y \in D /\ H(Y) = i /\ r[Y] < r[p]
           /\ \A g \in D : H(g) = i /\ r[g] < r[p] => r[g] <= r[Y]
  BY <1>5
<1>9. IF Z = Null THEN \A g \in D : ~(H(g) = i /\ r[g] > r[p])
      ELSE /\ Z \in D /\ H(Z) = i /\ r[Z] > r[p]
           /\ \A g \in D : H(g) = i /\ r[g] > r[p] => r[g] >= r[Z]
  BY <1>6
<1>10. H(p) = i /\ T \subseteq D /\ p \notin T /\ \A f \in D : f # p => f \in T
  OBVIOUS
<1>11. r[p] \in Int /\ (Y # Null => r[Y] \in Int) /\ (Z # Null => r[Z] \in Int)
  BY <1>3, <1>8, <1>9
<1> HIDE DEF H, q, T, Y, Z
\* Only the one before it points to p, and only the one after it points back.
<1>12. ASSUME NEW f \in D, h[f].next = p PROVE f = Z
  <2>1. H(p) = H(f) /\ r[p] < r[f] /\ \A g \in D : H(g) = H(f) /\ r[g] < r[f] => r[g] <= r[p]
    BY <1>1, <1>5, <1>12
  <2>2. Z # Null /\ Z \in D /\ H(Z) = i /\ r[Z] > r[p] /\ r[f] >= r[Z]
    BY <1>3, <1>9, <1>10, <2>1
  <2>3. ~(r[Z] < r[f])
    BY <1>3, <1>10, <2>1, <2>2
  <2>4. r[Z] = r[f]
    BY <1>3, <2>2, <2>3
  <2> QED
    BY <1>1, <2>2, <2>4
<1>13. ASSUME NEW f \in D, h[f].prev = p PROVE f = Y
  <2>1. H(p) = H(f) /\ r[p] > r[f] /\ \A g \in D : H(g) = H(f) /\ r[g] > r[f] => r[g] >= r[p]
    BY <1>1, <1>6, <1>13
  <2>2. Y # Null /\ Y \in D /\ H(Y) = i /\ r[Y] < r[p] /\ r[f] <= r[Y]
    BY <1>3, <1>8, <1>10, <2>1
  <2>3. ~(r[Y] > r[f])
    BY <1>3, <1>10, <2>1, <2>2
  <2>4. r[Y] = r[f]
    BY <1>3, <2>2, <2>3
  <2> QED
    BY <1>1, <2>2, <2>4
<1>14. Y # p /\ Z # p
  BY <1>1, <1>8, <1>9, <1>11
<1>15. ASSUME NEW j \in 0..n - 1, t[j] = p PROVE j = i /\ Z = Null
  <2>1. H(p) = j /\ \A f \in D : H(f) = j => r[f] <= r[p]
    BY <1>1, <1>4, <1>15
  <2>2. CASE Z # Null
    BY <1>9, <1>10, <1>11, <2>1, <2>2
  <2> QED
    BY <1>10, <2>1, <2>2
<1>16. ASSUME NEW f \in T PROVE Follows(h2, n, T, q, f, h2[f].next)
  <2>1. PICK x : x = h[f].next
    OBVIOUS
  <2>2. IF x = Null THEN \A g \in D : ~(H(g) = H(f) /\ r[g] < r[f])
        ELSE /\ x \in D /\ H(x) = H(f) /\ r[x] < r[f]
             /\ \A g \in D : H(g) = H(f) /\ r[g] < r[f] => r[g] <= r[x]
    BY <1>5, <1>10, <2>1
  <2>3. CASE f # Z
    <3>1. h2[f].next = x /\ x # p
      BY <1>7, <1>10, <1>12, <2>1, <2>3
    <3> QED
      BY <1>2, <1>3, <1>10, <2>2, <3>1 DEF Follows
  <2>4. CASE f = Z
    <3>1. f # Null /\ f \in D
      BY <1>1, <1>10
    <3>2. H(f) = i /\ r[f] > r[p] /\ \A g \in D : H(g) = i /\ r[g] > r[p] => r[g] >= r[f]
      BY <1>9, <2>4, <3>1
    <3>3. h2[f].next = Y
      BY <1>7, <2>4
    <3>4. ASSUME NEW g \in T, H(g) = H(f), r[g] < r[f] PROVE r[g] < r[p]
      <4>1. r[g] # r[p] /\ g \in D
        BY <1>1, <1>10
      <4>2. ~(r[g] > r[p])
        BY <1>3, <3>1, <3>2, <3>4, <4>1
      <4> QED
        BY <1>3, <1>11, <4>1, <4>2
    <3>5. CASE Y = Null
      <4>1. ASSUME NEW g \in T PROVE ~(H(g) = H(f) /\ r[g] < r[f])
        BY <1>8, <1>10, <3>2, <3>4, <3>5
      <4> QED
        BY <1>2, <1>3, <3>3, <3>5, <4>1 DEF Follows
    <3>6. CASE Y # Null
      <4>1. Y \in T /\ H(Y) = H(f) /\ r[Y] < r[f]
        BY <1>3, <1>8, <1>10, <1>11, <1>14, <3>1, <3>2, <3>6
      <4>2. ASSUME NEW g \in T, H(g) = H(f), r[g] < r[f] PROVE r[g] <= r[Y]
        BY <1>8, <1>10, <3>2, <3>4, <3>6, <4>2
      <4> QED
        BY <1>2, <1>3, <3>3, <3>6, <4>1, <4>2 DEF Follows
    <3> QED
      BY <3>5, <3>6
  <2> QED
    BY <2>3, <2>4
<1>17. ASSUME NEW f \in T PROVE Precedes(h2, n, T, q, f, h2[f].prev)
  <2>1. PICK x : x = h[f].prev
    OBVIOUS
  <2>2. IF x = Null THEN \A g \in D : ~(H(g) = H(f) /\ r[g] > r[f])
        ELSE /\ x \in D /\ H(x) = H(f) /\ r[x] > r[f]
             /\ \A g \in D : H(g) = H(f) /\ r[g] > r[f] => r[g] >= r[x]
    BY <1>6, <1>10, <2>1
  <2>3. CASE f # Y
    <3>1. h2[f].prev = x /\ x # p
      BY <1>7, <1>10, <1>13, <2>1, <2>3
    <3> QED
      BY <1>2, <1>3, <1>10, <2>2, <3>1 DEF Precedes
  <2>4. CASE f = Y
    <3>1. f # Null /\ f \in D
      BY <1>1, <1>10
    <3>2. H(f) = i /\ r[f] < r[p] /\ \A g \in D : H(g) = i /\ r[g] < r[p] => r[g] <= r[f]
      BY <1>8, <2>4, <3>1
    <3>3. h2[f].prev = Z
      BY <1>7, <2>4
    <3>4. ASSUME NEW g \in T, H(g) = H(f), r[g] > r[f] PROVE r[g] > r[p]
      <4>1. r[g] # r[p] /\ g \in D
        BY <1>1, <1>10
      <4>2. ~(r[g] < r[p])
        BY <1>3, <3>1, <3>2, <3>4, <4>1
      <4> QED
        BY <1>3, <1>11, <4>1, <4>2
    <3>5. CASE Z = Null
      <4>1. ASSUME NEW g \in T PROVE ~(H(g) = H(f) /\ r[g] > r[f])
        BY <1>9, <1>10, <3>2, <3>4, <3>5
      <4> QED
        BY <1>2, <1>3, <3>3, <3>5, <4>1 DEF Precedes
    <3>6. CASE Z # Null
      <4>1. Z \in T /\ H(Z) = H(f) /\ r[Z] > r[f]
        BY <1>3, <1>9, <1>10, <1>11, <1>14, <3>1, <3>2, <3>6
      <4>2. ASSUME NEW g \in T, H(g) = H(f), r[g] > r[f] PROVE r[g] >= r[Z]
        BY <1>9, <1>10, <3>2, <3>4, <3>6, <4>2
      <4> QED
        BY <1>2, <1>3, <3>3, <3>6, <4>1, <4>2 DEF Precedes
    <3> QED
      BY <3>5, <3>6
  <2> QED
    BY <2>3, <2>4
<1>18. ASSUME NEW j \in 0..n - 1 PROVE Leads(h2, n, T, q, j, t2[j])
  <2>1. CASE j = i /\ Z = Null
    <3>1. t2[j] = Y
      BY <1>7, <2>1
    <3>2. ASSUME NEW g \in T, H(g) = i PROVE r[g] < r[p]
      <4>1. r[g] # r[p] /\ ~(r[g] > r[p]) /\ g \in D
        BY <1>1, <1>9, <1>10, <2>1, <3>2
      <4> QED
        BY <1>3, <1>11, <4>1
    <3>3. CASE Y = Null
      <4>1. \A g \in T : H(g) # i
        BY <1>8, <1>10, <3>2, <3>3
      <4> QED
        BY <1>2, <2>1, <3>1, <3>3, <4>1 DEF Leads
    <3>4. CASE Y # Null
      <4>1. Y \in T /\ H(Y) = i
        BY <1>8, <1>10, <1>14, <3>4
      <4>2. \A g \in T : H(g) = i => r[g] <= r[Y]
        BY <1>8, <1>10, <3>2, <3>4
      <4> QED
        BY <1>2, <1>3, <2>1, <3>1, <3>4, <4>1, <4>2 DEF Leads
    <3> QED
      BY <3>3, <3>4
  <2>2. CASE ~(j = i /\ Z = Null)
    <3>1. PICK x : x = t[j]
      OBVIOUS
    <3>2. IF x = Null THEN \A f \in D : H(f) # j
          ELSE x \in D /\ H(x) = j /\ \A f \in D : H(f) = j => r[f] <= r[x]
      BY <1>4, <3>1
    <3>3. t2[j] = x /\ x # p
      BY <1>7, <1>15, <2>2, <3>1
    <3> QED
      BY <1>2, <1>3, <1>10, <3>2, <3>3 DEF Leads
  <2> QED
    BY <2>1, <2>2
<1>19. q \in [T -> 0..top - 1] /\ \A f, g \in T : q[f] = q[g] => f = g
  BY <1>1, <1>3, <1>10 DEF q
<1>20. Linked(t2, h2, n, T, q, top)
  BY <1>1, <1>16, <1>17, <1>18, <1>19 DEF Linked
<1>21. OnlyNeighbours(t, h, n, D, i, p)
  BY <1>12, <1>13, <1>14, <1>15 DEF OnlyNeighbours, Y, Z
<1> QED
  BY <1>20, <1>21 DEF T

LEMMA TableOf ==
  ASSUME HashTableAssumption, HeapInv
  PROVE  Table(tab, heap, TabSize, DOMAIN heap, puts)
<1>1. puts \in Nat /\ DOMAIN heap \subseteq Nat
  BY HeapFacts DEF HeapInv, HashTableAssumption
<1> QED
  BY <1>1 DEF Table, Entries, HeapInv, EntryType

\* A rehash comes to every entry once.
LEMMA IterationPositions ==
  ASSUME HashTableAssumption, HeapInv, ChainInv, NEW N, N = Cardinality(DOMAIN heap),
         NEW all, all = Iteration(First)
  PROVE  /\ N \in Nat /\ DOMAIN all = 0..N
         /\ \A n \in 0..N - 1 : all[n] \in DOMAIN heap
         /\ \A n \in 0..N - 1 : \A m \in 0..n - 1 : all[m] # all[n]
         /\ \A e \in DOMAIN heap : \E n \in 0..N - 1 : all[n] = e
<1>1. PICK top, r : Linked(tab, heap, TabSize, DOMAIN heap, r, top)
  BY DEF ChainInv
<1> DEFINE S == DOMAIN heap
           R == InIteration(r)
<1>2. IsFiniteSet(S) /\ DOMAIN OrderPointers = S /\ Null \notin S /\ N \in Nat
  BY HeapFacts DEF OrderPointers
<1>3. all = Walk(OrderPointers, First)
  BY DEF Iteration, OrderPointers
<1>4. IsWalk(all, OrderPointers, First)
  BY <1>2, <1>3, WalkSteps
<1>5. DOMAIN all = 0..N
  BY <1>2, <1>4 DEF IsWalk
<1>6. Orders(R, S) /\ Along(OrderPointers, S, R)
      /\ \A f \in S : Toward(OrderPointers, S, R, f)
  BY <1>1, IterationOrder
<1>7. ASSUME NEW e \in S PROVE \E n \in 0..N - 1 : all[n] = e
  <2>1. IF First = Null THEN \A f \in S : Home(heap, TabSize, f) < 0
        ELSE /\ First \in S
             /\ \A f \in S : Home(heap, TabSize, f) >= 0 => f = First \/ f \in R[First]
    BY <1>1, HeadFacts DEF First
  <2>2. \A f \in S : Home(heap, TabSize, f) >= 0 /\ ~(Home(heap, TabSize, f) < 0)
    BY HeapFacts
  <2>3. First \in S /\ (First = e \/ e \in R[First])
    BY <2>1, <2>2
  <2>4. N = Cardinality(S)
    OBVIOUS
  <2> HIDE DEF R, S
  <2>5. Toward(OrderPointers, S, R, e)
    BY <1>6
  <2> QED
    BY <1>2, <1>4, <1>6, <2>3, <2>4, <2>5, WalkMeets
<1>8. ASSUME NEW n \in 0..N - 1 PROVE all[n] \in S
  <2> SUFFICES ASSUME all[n] \notin S PROVE FALSE
    OBVIOUS
  <2> DEFINE pos == [e \in S |-> CHOOSE m \in 0..N - 1 : all[m] = e]
             B == (0..N - 1) \ {n}
  <2>1. ASSUME NEW e \in S PROVE pos[e] \in B /\ all[pos[e]] = e
    BY <1>7
  <2>2. pos \in [S -> B]
    <3>1. pos = [e \in S |-> pos[e]]
      OBVIOUS
    <3> HIDE DEF pos, B
    <3> QED
      BY <2>1, <3>1
  <2>3. IsFiniteSet(0..N - 1) /\ Cardinality(0..N - 1) = N
    <3>1. 0 \in Int /\ N - 1 \in Int /\ ~(0 > N - 1) /\ (N - 1) - 0 + 1 = N
      BY <1>2
    <3> QED
      BY <3>1, FS_Interval
  <2>4. IsFiniteSet(B) /\ Cardinality(B) = N - 1
    BY <2>3, FS_RemoveElement
  <2>5. Cardinality(B) < Cardinality(S)
    BY <1>2, <2>4
  <2> HIDE DEF pos, B, S
  <2>6. \E x, y \in S : x # y /\ pos[x] = pos[y]
    BY <1>2, <2>2, <2>4, <2>5, FS_PigeonHole
  <2> QED
    BY <2>1, <2>6
<1>9. ASSUME NEW n \in 0..N - 1, NEW m \in 0..n - 1 PROVE all[m] # all[n]
  <2>1. n \in 0..Cardinality(S) /\ all[n] \in S
    BY <1>2, <1>8
  <2>2. all[m] \in S /\ all[n] \in R[all[m]]
    BY <1>2, <1>4, <1>6, <2>1, WalkOrdered
  <2> QED
    BY <1>6, <2>1, <2>2 DEF Orders
<1> QED
  BY <1>2, <1>5, <1>7, <1>8, <1>9

\* The tables that a rehash goes through.
Stages(d, N, all, X, start) ==
  /\ d \in [0..N -> X]
  /\ d[0] = start
  /\ \A n \in 0..N - 1 : d[n + 1] = Push(d[n], all[n])

LEMMA RehashStages ==
  ASSUME HashTableAssumption, HeapInv, ChainInv, NEW N, N = Cardinality(DOMAIN heap),
         NEW all, all = Iteration(First), NEW n, n = 2 * TabSize, NEW D, D = DOMAIN heap,
         NEW X, X = [tab : [0..n - 1 -> D \cup {Null}], heap : Entries(D, puts)],
         NEW start, start = [tab |-> [i \in 0..n - 1 |-> Null], heap |-> heap]
  PROVE  \E d : Stages(d, N, all, X, start) /\ Rehashed = d[N]
<1>1. /\ N \in Nat /\ DOMAIN all = 0..N /\ \A i \in 0..N - 1 : all[i] \in D
  BY IterationPositions
<1>2. n \in Nat \ {0} /\ puts \in Nat /\ D \subseteq Nat
  <2>1. TabSize \in Nat \ {0}
    BY DEF HeapInv
  <2>2. puts \in Nat /\ D \subseteq Nat
    BY TableOf DEF Table
  <2> QED
    BY <2>1, <2>2
<1>3. start \in X
  BY TableOf DEF Table
<1>4. ASSUME NEW s \in X, NEW e \in D PROVE Push(s, e) \in X
  <2>1. s = [tab |-> s.tab, heap |-> s.heap] /\ s.tab \in [0..n - 1 -> D \cup {Null}]
        /\ s.heap \in Entries(D, puts)
    OBVIOUS
  <2>2. Table(s.tab, s.heap, n, D, puts)
    BY <1>2, <2>1 DEF Table
  <2>3. PICK t : t = s.tab
    OBVIOUS
  <2>4. PICK h : h = s.heap
    OBVIOUS
  <2>5. PICK i : i = Home(h, n, e)
    OBVIOUS
  <2>6. Table(t, h, n, D, puts) /\ s = [tab |-> t, heap |-> h]
    BY <2>1, <2>2, <2>3, <2>4
  <2>7. /\ Push(s, e) = [tab |-> Push(s, e).tab, heap |-> Push(s, e).heap]
        /\ Table(Push(s, e).tab, Push(s, e).heap, n, D, puts)
    BY <2>5, <2>6, PushType
  <2>8. PICK x, y : x = Push(s, e).tab /\ y = Push(s, e).heap
    OBVIOUS
  <2>9. Push(s, e) = [tab |-> x, heap |-> y] /\ x \in [0..n - 1 -> D \cup {Null}]
        /\ y \in Entries(D, puts)
    BY <2>7, <2>8 DEF Table
  <2> QED
    BY <2>9
<1> DEFINE steps == [m \in Nat |-> [s \in X |-> IF m < N THEN Push(s, all[m]) ELSE s]]
           Def(d, m) == IF m = 0 THEN start ELSE Push(d[m - 1], all[m - 1])
<1>5. steps \in [Nat -> [X -> X]]
  <2>1. ASSUME NEW m \in Nat, NEW s \in X PROVE (IF m < N THEN Push(s, all[m]) ELSE s) \in X
    <3>1. m < N => all[m] \in D
      BY <1>1
    <3> QED
      BY <1>4, <3>1
  <2> QED
    BY <2>1
<1>6. PICK f : Recurs(f, X, start, steps)
  <2> HIDE DEF steps
  <2> QED
    BY <1>3, <1>5, Recursion
<1>7. ASSUME NEW m \in 0..N - 1 PROVE f[m + 1] = Push(f[m], all[m])
  <2>1. m \in Nat /\ m < N /\ f[m] \in X
    BY <1>1, <1>6 DEF Recurs
  <2> QED
    BY <1>6, <2>1 DEF Recurs
<1> HIDE DEF steps
<1> DEFINE g == [m \in 0..N |-> f[m]]
<1>8. ASSUME NEW m \in 0..N PROVE g[m] = Def(g, m)
  <2>1. CASE m = 0
    BY <1>1, <1>6, <2>1 DEF Recurs
  <2>2. CASE m # 0
    <3>1. m - 1 \in 0..N - 1 /\ m - 1 \in 0..N /\ (m - 1) + 1 = m
      BY <1>1, <2>2
    <3>2. f[m] = Push(f[m - 1], all[m - 1])
      BY <1>7, <3>1
    <3> QED
      BY <2>2, <3>1, <3>2
  <2> QED
    BY <2>1, <2>2
<1>9. g = [m \in 0..N |-> Def(g, m)]
  <2>1. g = [m \in 0..N |-> g[m]]
    OBVIOUS
  <2> HIDE DEF g, Def
  <2> QED
    BY <1>8, <2>1
<1>10. PICK d : d = CHOOSE x : x = [m \in 0..N |-> Def(x, m)]
  OBVIOUS
<1>11. d = [m \in 0..N |-> Def(d, m)]
  <2> HIDE DEF g, Def
  <2> QED
    BY <1>9, <1>10
<1>12. Rehashed = d[N]
  BY <1>1, <1>10 DEF Rehashed
<1>13. ASSUME NEW m \in 0..N PROVE d[m] = Def(d, m)
  <2> HIDE DEF Def
  <2> QED
    BY <1>11
<1>14. d[0] = start
  <2>1. 0 \in 0..N
    BY <1>1
  <2>2. d[0] = Def(d, 0)
    BY <1>13, <2>1
  <2> QED
    BY ONLY <2>2
<1>15. ASSUME NEW m \in 0..N - 1 PROVE d[m + 1] = Push(d[m], all[m])
  <2>1. m + 1 \in 0..N /\ m + 1 # 0 /\ (m + 1) - 1 = m
    BY <1>1
  <2> QED
    BY <1>13, <2>1
<1>16. DOMAIN d = 0..N
  BY <1>11
<1> DEFINE Good == {m \in Nat : m <= N => d[m] \in X}
<1>17. Nat \subseteq Good
  <2>1. 0 \in Good
    BY <1>3, <1>14
  <2>2. ASSUME NEW m \in Nat, m \in Good PROVE m + 1 \in Good
    <3> SUFFICES ASSUME m + 1 <= N PROVE d[m + 1] \in X
      OBVIOUS
    <3>1. m \in 0..N - 1 /\ m <= N
      BY <1>1
    <3>2. d[m] \in X /\ all[m] \in D
      BY <1>1, <2>2, <3>1
    <3>3. d[m + 1] = Push(d[m], all[m])
      BY <1>15, <3>1
    <3> QED
      BY ONLY <1>4, <3>2, <3>3
  <2> HIDE DEF Good
  <2> QED
    BY <2>1, <2>2, Inductive
<1>18. d \in [0..N -> X]
  <2>1. ASSUME NEW m \in 0..N PROVE d[m] \in X
    <3>1. m \in Good
      BY <1>1, <1>17
    <3> QED
      BY <3>1
  <2>2. d = [m \in 0..N |-> d[m]]
    BY <1>11, <1>13, <1>16
  <2> QED
    BY <2>1, <2>2
<1> QED
  BY <1>12, <1>14, <1>15, <1>18 DEF Stages

\* Every entry is in the rehashed table, with its key and its object.
LEMMA RehashLinked ==
  ASSUME HashTableAssumption, HeapInv, ChainInv
  PROVE  /\ Rehashed = [tab |-> Rehashed.tab, heap |-> Rehashed.heap]
         /\ Table(Rehashed.tab, Rehashed.heap, 2 * TabSize, DOMAIN heap, puts)
         /\ Kept(heap, Rehashed.heap, DOMAIN heap)
         /\ \E r, top : Linked(Rehashed.tab, Rehashed.heap, 2 * TabSize, DOMAIN heap, r, top)
<1>1. PICK N : N = Cardinality(DOMAIN heap)
  OBVIOUS
<1>2. PICK all : all = Iteration(First)
  OBVIOUS
<1>3. PICK n : n = 2 * TabSize
  OBVIOUS
<1>4. PICK D : D = DOMAIN heap
  OBVIOUS
<1>5. PICK X : X = [tab : [0..n - 1 -> D \cup {Null}], heap : Entries(D, puts)]
  OBVIOUS
<1>6. PICK start : start = [tab |-> [i \in 0..n - 1 |-> Null], heap |-> heap]
  OBVIOUS
<1>7. PICK d : Stages(d, N, all, X, start) /\ Rehashed = d[N]
  BY <1>1, <1>2, <1>3, <1>4, <1>5, <1>6, RehashStages
<1>8. /\ N \in Nat /\ \A i \in 0..N - 1 : all[i] \in D
      /\ \A i \in 0..N - 1 : \A j \in 0..i - 1 : all[j] # all[i]
      /\ \A e \in D : \E i \in 0..N - 1 : all[i] = e
  BY <1>1, <1>2, <1>4, IterationPositions
<1>9. n \in Nat \ {0} /\ puts \in Nat /\ D \subseteq Nat /\ heap \in Entries(D, puts)
  <2>1. TabSize \in Nat \ {0}
    BY DEF HeapInv
  <2>2. puts \in Nat /\ D \subseteq Nat /\ heap \in Entries(D, puts)
    BY <1>4, TableOf DEF Table
  <2> QED
    BY <1>3, <2>1, <2>2
<1>10. ASSUME NEW m \in 0..N PROVE d[m] \in X
  BY <1>7 DEF Stages
<1>11. ASSUME NEW s \in X
       PROVE  s = [tab |-> s.tab, heap |-> s.heap] /\ Table(s.tab, s.heap, n, D, puts)
  <2>1. s = [tab |-> s.tab, heap |-> s.heap] /\ s.tab \in [0..n - 1 -> D \cup {Null}]
        /\ s.heap \in Entries(D, puts)
    BY <1>5
  <2> QED
    BY <1>9, <2>1 DEF Table
<1> DEFINE V(m) == {all[j] : j \in 0..m - 1}
           Fine(m) == /\ Kept(heap, d[m].heap, D)
                      /\ \E r, top : Linked(d[m].tab, d[m].heap, n, V(m), r, top)
           Good == {m \in Nat : m <= N => Fine(m)}
<1>12. 0 \in Good
  <2>1. d[0] = start
    BY <1>7 DEF Stages
  <2>2. V(0) = {}
    OBVIOUS
  <2>3. PICK t : t = [i \in 0..n - 1 |-> Null]
    OBVIOUS
  <2>4. start.tab = t /\ start.heap = heap
    BY <1>6, <2>3
  <2>5. PICK r : r = [e \in {} |-> 0]
    OBVIOUS
  <2>6. r \in [{} -> 0..0 - 1]
    BY <2>5
  <2>7. Linked(t, heap, n, {}, r, 0)
    BY <2>3, <2>6 DEF Linked, Leads
  <2>8. Kept(heap, start.heap, D)
    BY <2>4 DEF Kept
  <2> QED
    BY <2>1, <2>2, <2>4, <2>7, <2>8
<1>13. ASSUME NEW m \in Nat, m \in Good PROVE m + 1 \in Good
  <2> HIDE DEF Fine
  <2> SUFFICES ASSUME m + 1 <= N PROVE Fine(m + 1)
    OBVIOUS
  <2> USE DEF Fine
  <2>1. m \in 0..N - 1 /\ m \in 0..N /\ m <= N /\ (m + 1) - 1 = m
    BY <1>8
  <2>2. PICK s \in X : s = d[m]
    BY <1>10, <2>1
  <2>3. PICK t : t = s.tab
    OBVIOUS
  <2>4. PICK h : h = s.heap
    OBVIOUS
  <2>5. PICK e \in D : e = all[m]
    BY <1>8, <2>1
  <2>6. PICK S : S = V(m)
    OBVIOUS
  <2>7. S \in SUBSET D /\ e \in D \ S /\ V(m + 1) = S \cup {e}
    <3>1. S \in SUBSET D
      BY <1>8, <2>1, <2>6
    <3>2. e \notin S
      BY <1>8, <2>1, <2>5, <2>6
    <3>3. \A j : j \in 0..m <=> (j \in 0..m - 1 \/ j = m)
      OBVIOUS
    <3>4. V(m + 1) = S \cup {e}
      BY <2>1, <2>5, <2>6, <3>3
    <3> QED
      BY <3>1, <3>2, <3>4
  <2>8. PICK r, top : Linked(t, h, n, S, r, top)
    BY <1>13, <2>1, <2>2, <2>3, <2>4, <2>6
  <2>9. Kept(heap, h, D)
    BY <1>13, <2>1, <2>2, <2>4
  <2>10. s = [tab |-> t, heap |-> h] /\ Table(t, h, n, D, puts)
    BY <1>11, <2>3, <2>4
  <2>11. PICK i : i = Home(h, n, e)
    OBVIOUS
  <2> HIDE DEF V
  <2>12. /\ i \in 0..n - 1
         /\ Kept(h, Push(s, e).heap, D)
         /\ t[i] # e => Pushed(t, h, i, e, Push(s, e).tab, Push(s, e).heap)
    BY <2>10, <2>11, PushType
  <2>13. t[i] # e
    <3>1. t[i] \in S \cup {Null}
      BY <2>8, <2>12 DEF Linked, Leads
    <3>2. Null \notin D
      BY <1>9 DEF HashTableAssumption
    <3> QED
      BY <2>7, <3>1, <3>2
  <2>14. d[m + 1] = Push(s, e)
    BY <1>7, <2>1, <2>2, <2>5 DEF Stages
  <2>15. PICK t2 : t2 = Push(s, e).tab
    OBVIOUS
  <2>16. PICK h2 : h2 = Push(s, e).heap
    OBVIOUS
  <2>17. Kept(h, h2, D) /\ Pushed(t, h, i, e, t2, h2)
    BY <2>12, <2>13, <2>15, <2>16
  <2>18. Linked(t2, h2, n, S \cup {e}, OnTop(r, S, e, top), top + 1)
    BY <2>7, <2>8, <2>10, <2>11, <2>12, <2>17, PushLinked
  <2>19. Kept(heap, h2, D)
    BY <2>9, <2>17 DEF Kept
  <2> QED
    BY <2>7, <2>14, <2>15, <2>16, <2>18, <2>19
<1>14. Nat \subseteq Good
  <2> HIDE DEF Good
  <2> QED
    BY <1>12, <1>13, Inductive
<1>15. Fine(N)
  <2> HIDE DEF Fine
  <2>1. N <= N
    BY <1>8
  <2>2. N \in Good
    <3> HIDE DEF Good
    <3> QED
      BY <1>8, <1>14
  <2> QED
    BY <2>1, <2>2
<1>16. V(N) = D
  BY <1>8
<1>17. Rehashed \in X
  BY <1>7, <1>8, <1>10
<1>18. Rehashed = [tab |-> Rehashed.tab, heap |-> Rehashed.heap]
       /\ Table(Rehashed.tab, Rehashed.heap, n, D, puts)
  BY <1>11, <1>17
<1> HIDE DEF V
<1>19. PICK r, top : Linked(Rehashed.tab, Rehashed.heap, n, D, r, top)
  BY <1>7, <1>15, <1>16
<1>20. Kept(heap, Rehashed.heap, D)
  BY <1>7, <1>15
<1> QED
  BY <1>3, <1>4, <1>18, <1>19, <1>20

Distinct(h) ==
  \A e, f \in DOMAIN h : h[e].key = h[f].key \/ h[e].object = h[f].object => e = f

Chained(t, h, n, S) == \E r, top : Linked(t, h, n, S, r, top)

LEMMA SlotsOf ==
  ASSUME NEW n \in Nat \ {0}, NEW X, NEW t \in [0..n - 1 -> X]
  PROVE  Cardinality(DOMAIN t) = n
<1>1. n - 1 \in Int /\ ~(0 > n - 1) /\ (n - 1) - 0 + 1 = n
  OBVIOUS
<1>2. Cardinality(0..n - 1) = n
  BY <1>1, FS_Interval
<1> QED
  BY <1>2

\* What is to be shown of the table after a step.
LEMMA TableNext ==
  ASSUME HashTableAssumption, NEW n, NEW D, D = DOMAIN heap',
         Table(tab', heap', n, D, puts'), puts' \in 0..MaxPuts, D \subseteq 1..puts',
         nelem' = Cardinality(D), cursor' \in D \cup {Null}, Distinct(heap'),
         Chained(tab', heap', n, D)
  PROVE  HeapInv' /\ ChainInv' /\ TabSize' = n
<1>1. TabSize' = n
  BY SlotsOf DEF Table, TabSize
<1>2. HeapInv'
  BY <1>1 DEF HeapInv, Table, Entries, EntryType, Distinct
<1>3. ChainInv'
  <2>1. PICK r, top : Linked(tab', heap', n, D, r, top)
    BY DEF Chained
  <2>2. top \in Nat
    BY <2>1 DEF Linked
  <2>3. \E tp \in Nat : \E rk : Linked(tab', heap', TabSize', DOMAIN heap', rk, tp)
    BY <1>1, <2>1, <2>2
  <2> QED
    BY <2>3 DEF ChainInv
<1> QED
  BY <1>1, <1>2, <1>3

LEMMA ChainedNow ==
  ASSUME HashTableAssumption, HeapInv, ChainInv
  PROVE  /\ Chained(tab, heap, TabSize, DOMAIN heap)
         /\ Distinct(heap)
         /\ Table(tab, heap, TabSize, DOMAIN heap, puts)
<1>1. PICK top \in Nat : \E r : Linked(tab, heap, TabSize, DOMAIN heap, r, top)
  BY DEF ChainInv
<1>2. PICK r : Linked(tab, heap, TabSize, DOMAIN heap, r, top)
  BY <1>1
<1> QED
  BY <1>2, TableOf DEF Chained, Distinct, HeapInv

\* The links do not depend on anything but the keys and the pointers.
LEMMA ChainedSame ==
  ASSUME NEW t, NEW h, NEW g, NEW n, NEW S, Chained(t, h, n, S),
         \A e \in S : /\ g[e].key = h[e].key /\ g[e].next = h[e].next
                      /\ g[e].prev = h[e].prev
  PROVE  Chained(t, g, n, S)
<1>1. PICK r, top : Linked(t, h, n, S, r, top)
  BY DEF Chained
<1> DEFINE H(e) == Home(h, n, e)
<1>2. \A e \in S : Home(g, n, e) = H(e)
  BY DEF Home
<1>3. ASSUME NEW e \in S
      PROVE  Follows(g, n, S, r, e, g[e].next) /\ Precedes(g, n, S, r, e, g[e].prev)
  <2>1. Follows(h, n, S, r, e, h[e].next) /\ Precedes(h, n, S, r, e, h[e].prev)
    BY <1>1 DEF Linked
  <2>2. g[e].next = h[e].next /\ g[e].prev = h[e].prev
    OBVIOUS
  <2>3. {f \in S : Home(g, n, f) = Home(g, n, e) /\ r[f] < r[e]}
          = {f \in S : Home(h, n, f) = Home(h, n, e) /\ r[f] < r[e]}
    BY <1>2
  <2>4. {f \in S : Home(g, n, f) = Home(g, n, e) /\ r[f] > r[e]}
          = {f \in S : Home(h, n, f) = Home(h, n, e) /\ r[f] > r[e]}
    BY <1>2
  <2>5. Follows(g, n, S, r, e, g[e].next)
    BY <2>1, <2>2, <2>3 DEF Follows
  <2>6. Precedes(g, n, S, r, e, g[e].prev)
    BY <2>1, <2>2, <2>4 DEF Precedes
  <2> QED
    BY <2>5, <2>6
<1>4. ASSUME NEW i \in 0..n - 1 PROVE Leads(g, n, S, r, i, t[i])
  <2>1. Leads(h, n, S, r, i, t[i])
    BY <1>1 DEF Linked
  <2>2. {f \in S : Home(g, n, f) = i} = {f \in S : Home(h, n, f) = i}
    BY <1>2
  <2> QED
    BY <2>1, <2>2 DEF Leads
<1>5. Linked(t, g, n, S, r, top)
  BY <1>1, <1>3, <1>4 DEF Linked
<1> QED
  BY <1>5 DEF Chained

LEMMA InitChained == ASSUME HashTableAssumption, InitTable PROVE TableInv
<1>1. InitSize \in Nat \ {0} /\ MaxPuts \in Nat /\ puts = 0 /\ nelem = 0 /\ cursor = Null
      /\ dels = [o \in Objects |-> 0]
  BY DEF InitTable, HashTableAssumption
<1>2. tab \in [0..InitSize - 1 -> {Null}]
  BY DEF InitTable
<1>3. TabSize = InitSize
  BY <1>1, <1>2, SlotsOf DEF TabSize
<1>4. DOMAIN heap = {} /\ heap \in [{} -> EntryType({})]
  BY DEF InitTable
<1>5. Cardinality({}) = 0
  BY FS_EmptySet
<1>6. HeapInv
  BY <1>1, <1>2, <1>3, <1>4, <1>5 DEF HeapInv
<1>7. DelsInv
  BY <1>1, <1>4 DEF DelsInv, Objects
<1>8. PICK r : r = [e \in {} |-> 0]
  OBVIOUS
<1>9. r \in [{} -> 0..0 - 1]
  BY <1>8
<1>10. Linked(tab, heap, TabSize, DOMAIN heap, r, 0)
  BY <1>2, <1>3, <1>4, <1>9 DEF Linked, Leads
<1> QED
  BY <1>6, <1>7, <1>10 DEF TableInv, ChainInv

\* The cursor of an iteration stays in the table.
LEMMA IterationTable ==
  ASSUME HashTableAssumption, TableInv, UNCHANGED <<tab, heap, nelem, dels, puts>>,
         cursor' = cursor \/ cursor' = First \/ (cursor # Null /\ cursor' = NextOf(cursor))
  PROVE  TableInv' /\ TabSize' = TabSize
<1>1. HeapInv /\ ChainInv /\ DelsInv
  BY DEF TableInv
<1>2. cursor' \in DOMAIN heap \cup {Null}
  BY <1>1, AheadFacts DEF HeapInv
<1>3. TabSize' = TabSize
  BY DEF TabSize
<1>4. HeapInv'
  BY <1>1, <1>2, <1>3 DEF HeapInv, EntryType
<1>5. DelsInv'
  BY <1>1 DEF DelsInv
<1>6. ChainInv'
  BY <1>1, <1>3 DEF ChainInv
<1> QED
  BY <1>3, <1>4, <1>5, <1>6 DEF TableInv

\* An object that is put is new.
LEMMA NewObject ==
  ASSUME HashTableAssumption, TableInv, puts < MaxPuts, NEW o, o = puts + 1
  PROVE  /\ o \in Objects /\ o \in Nat /\ o > puts /\ o \in 0..MaxPuts /\ dels[o] = 0
         /\ 1..puts \subseteq 1..o /\ o \in 1..o /\ o \notin DOMAIN heap
         /\ \A e \in DOMAIN heap : heap[e].object # o /\ heap[e].object \in Objects
<1>1. puts \in Nat /\ MaxPuts \in Nat
  BY DEF TableInv, HeapInv, HashTableAssumption
<1>2. o \in Objects /\ o \in Nat /\ o > puts /\ o \in 0..MaxPuts
      /\ 1..puts \subseteq 1..o /\ o \in 1..o
  BY <1>1 DEF Objects
<1>3. dels[o] = 0
  BY <1>2 DEF TableInv, DelsInv
<1>4. DOMAIN heap \subseteq 1..puts /\ \A e \in DOMAIN heap : heap[e].object \in 1..puts
  BY DEF TableInv, HeapInv, EntryType
<1> QED
  BY <1>1, <1>2, <1>3, <1>4 DEF Objects

LEMMA ReplaceTable ==
  ASSUME HashTableAssumption, TableInv, NEW k \in Keys, cursor = Null, puts < MaxPuts,
         puts' = puts + 1, Replace(k, puts'), UNCHANGED cursor
  PROVE  /\ TableInv'
         /\ Entry(k) \in DOMAIN heap /\ heap[Entry(k)].key = k
         /\ DOMAIN heap' = DOMAIN heap
         /\ \A f \in DOMAIN heap :
              /\ heap'[f].key = heap[f].key
              /\ heap'[f].object = IF f = Entry(k) THEN puts' ELSE heap[f].object
         /\ \A x \in Objects :
              dels'[x] = IF x = heap[Entry(k)].object THEN 1 ELSE dels[x]
<1>1. HeapInv /\ ChainInv /\ DelsInv
  BY DEF TableInv
<1>2. PICK e : e = Entry(k)
  OBVIOUS
<1>3. e \in DOMAIN heap /\ heap[e].key = k
  BY <1>1, <1>2, PresentFacts DEF Replace
<1>4. PICK o : o = puts'
  OBVIOUS
<1>5. /\ o \in Objects /\ o \in Nat /\ o > puts /\ o \in 0..MaxPuts /\ dels[o] = 0
      /\ 1..puts \subseteq 1..o /\ o \in 1..o
      /\ \A f \in DOMAIN heap : heap[f].object # o /\ heap[f].object \in Objects
  BY <1>4, NewObject
<1>6. PICK D : D = DOMAIN heap
  OBVIOUS
<1>7. heap' = [heap EXCEPT ![e].object = o] /\ UNCHANGED <<tab, nelem>>
      /\ dels' = [x \in Objects |-> IF x \in {heap[e].object} THEN dels[x] + 1 ELSE dels[x]]
  BY <1>2, <1>4 DEF Replace, Destroys
<1>8. /\ Chained(tab, heap, TabSize, D) /\ Distinct(heap) /\ Table(tab, heap, TabSize, D, puts)
  BY <1>1, <1>6, ChainedNow
<1>9. DOMAIN heap' = D
  BY <1>6, <1>7
<1>10. ASSUME NEW f \in D
       PROVE  heap'[f] = IF f = e THEN [heap[f] EXCEPT !.object = o] ELSE heap[f]
  BY <1>6, <1>7
<1>11. ASSUME NEW f \in D
       PROVE  heap[f] \in [key : Keys, object : 1..puts, next : D \cup {Null},
                           prev : D \cup {Null}]
  BY <1>6, <1>8 DEF Table, Entries
<1>12. ASSUME NEW f \in D
       PROVE  /\ heap'[f] \in [key : Keys, object : 1..o, next : D \cup {Null},
                               prev : D \cup {Null}]
              /\ heap'[f].key = heap[f].key /\ heap'[f].next = heap[f].next
              /\ heap'[f].prev = heap[f].prev
              /\ heap'[f].object = IF f = e THEN o ELSE heap[f].object
  BY <1>5, <1>10, <1>11
<1>13. heap' \in Entries(D, o)
  <2>1. heap' = [f \in D |-> heap'[f]]
    BY <1>6, <1>7
  <2> QED
    BY <1>12, <2>1 DEF Entries
<1>14. Table(tab', heap', TabSize, D, o)
  BY <1>5, <1>7, <1>8, <1>13 DEF Table
<1>15. Distinct(heap')
  BY <1>5, <1>6, <1>8, <1>9, <1>12 DEF Distinct
<1>16. Chained(tab', heap', TabSize, D)
  <2>1. \A f \in D : /\ heap'[f].key = heap[f].key /\ heap'[f].next = heap[f].next
                    /\ heap'[f].prev = heap[f].prev
    BY <1>12
  <2>2. Chained(tab, heap', TabSize, D)
    BY ONLY <1>8, <2>1, ChainedSame
  <2> QED
    BY <1>7, <2>2
<1>17. HeapInv' /\ ChainInv'
  <2>1. D \subseteq 1..o /\ nelem' = Cardinality(D) /\ cursor' \in D \cup {Null}
    BY <1>1, <1>5, <1>6, <1>7 DEF HeapInv
  <2> QED
    BY <1>4, <1>5, <1>9, <1>14, <1>15, <1>16, <2>1, TableNext
<1>18. \A x \in Objects : dels'[x] = IF x = heap[e].object THEN 1 ELSE dels[x]
  BY <1>1, <1>3, <1>7 DEF DelsInv
<1>19. DelsInv'
  <2>1. dels' \in [Objects -> {0, 1}]
    BY <1>1, <1>7, <1>18 DEF DelsInv
  <2>2. ASSUME NEW x \in Objects, x > puts' PROVE dels'[x] = 0
    <3>1. x > puts /\ x # heap[e].object
      <4>1. heap[e].object \in 1..puts
        BY <1>3, <1>6, <1>11
      <4>2. puts \in Nat /\ MaxPuts \in Nat /\ x > o
        BY <1>1, <1>4, <2>2 DEF HeapInv, HashTableAssumption
      <4> QED
        BY <1>5, <4>1, <4>2 DEF Objects
    <3> QED
      BY <1>1, <1>18, <3>1 DEF DelsInv
  <2>3. ASSUME NEW f \in D PROVE dels'[heap'[f].object] = 0
    <3>1. CASE f = e
      BY <1>3, <1>5, <1>12, <1>18, <2>3, <3>1
    <3>2. CASE f # e
      <4>1. heap'[f].object = heap[f].object /\ heap[f].object # heap[e].object
            /\ heap[f].object \in Objects
        BY <1>3, <1>5, <1>6, <1>8, <1>12, <3>2 DEF Distinct
      <4> QED
        BY <1>1, <1>6, <1>18, <4>1 DEF DelsInv
    <3> QED
      BY <3>1, <3>2
  <2> QED
    BY <1>9, <2>1, <2>2, <2>3 DEF DelsInv
<1> QED
  BY <1>2, <1>3, <1>4, <1>6, <1>9, <1>12, <1>17, <1>18, <1>19 DEF TableInv

\* The table into which a new entry is put.
Grown == IF Crowded THEN Rehashed ELSE [tab |-> tab, heap |-> heap]

LEMMA GrownTable ==
  ASSUME HashTableAssumption, HeapInv, ChainInv, NEW D, D = DOMAIN heap
  PROVE  \E n : /\ Grown = [tab |-> Grown.tab, heap |-> Grown.heap]
                /\ Table(Grown.tab, Grown.heap, n, D, puts)
                /\ Kept(heap, Grown.heap, D)
                /\ Chained(Grown.tab, Grown.heap, n, D)
<1>1. CASE Crowded
  <2>1. Grown = Rehashed
    BY <1>1 DEF Grown
  <2> QED
    BY <2>1, RehashLinked DEF Chained
<1>2. CASE ~Crowded
  <2>1. Grown = [tab |-> tab, heap |-> heap]
    BY <1>2 DEF Grown
  <2>2. Grown.tab = tab /\ Grown.heap = heap
    BY <2>1
  <2>3. Kept(heap, heap, D)
    BY DEF Kept
  <2> QED
    BY <2>1, <2>2, <2>3, ChainedNow
<1> QED
  BY <1>1, <1>2

\* When calloc fails for the entry, the table may have grown.
LEMMA GrowTable ==
  ASSUME HashTableAssumption, TableInv, cursor = Null, puts < MaxPuts, puts' = puts + 1,
         \/ tab' = tab /\ heap' = heap
         \/ tab' = Grown.tab /\ heap' = Grown.heap,
         UNCHANGED <<nelem, dels, cursor>>
  PROVE  TableInv' /\ DOMAIN heap' = DOMAIN heap /\ Kept(heap, heap', DOMAIN heap)
<1>1. HeapInv /\ ChainInv /\ DelsInv
  BY DEF TableInv
<1>2. PICK D : D = DOMAIN heap
  OBVIOUS
<1>3. PICK o : o = puts'
  OBVIOUS
<1>4. /\ o \in Nat /\ o > puts /\ o \in 0..MaxPuts /\ 1..puts \subseteq 1..o
  BY <1>3, NewObject
<1>5. PICK n : /\ Table(tab', heap', n, D, puts) /\ Kept(heap, heap', D)
               /\ Chained(tab', heap', n, D)
  <2>1. CASE tab' = tab /\ heap' = heap
    <3>1. Kept(heap, heap, D)
      BY DEF Kept
    <3> QED
      BY <1>1, <1>2, <2>1, <3>1, ChainedNow
  <2>2. CASE tab' = Grown.tab /\ heap' = Grown.heap
    BY <1>1, <1>2, <2>2, GrownTable
  <2> QED
    BY <2>1, <2>2
<1>6. DOMAIN heap' = D
  BY <1>5 DEF Table, Entries
<1>7. Table(tab', heap', n, D, o)
  BY <1>4, <1>5 DEF Table, Entries
<1>8. Distinct(heap')
  <2>1. Distinct(heap)
    BY <1>1 DEF HeapInv, Distinct
  <2> QED
    BY <1>2, <1>5, <1>6, <2>1 DEF Distinct, Kept
<1>9. D \subseteq 1..o /\ nelem' = Cardinality(D) /\ cursor' \in D \cup {Null}
  BY <1>1, <1>2, <1>4 DEF HeapInv
<1>10. HeapInv' /\ ChainInv'
  BY <1>3, <1>4, <1>5, <1>6, <1>7, <1>8, <1>9, TableNext
<1>11. DelsInv'
  <2>1. ASSUME NEW x \in Objects, x > puts' PROVE dels[x] = 0
    <3>1. x > puts
      BY <1>3, <1>4, <2>1 DEF Objects, HeapInv, TableInv
    <3> QED
      BY <1>1, <3>1 DEF DelsInv
  <2>2. \A f \in D : dels[heap'[f].object] = 0
    BY <1>1, <1>2, <1>5 DEF DelsInv, Kept
  <2> QED
    BY <1>1, <1>6, <2>1, <2>2 DEF DelsInv
<1> QED
  BY <1>2, <1>5, <1>6, <1>10, <1>11 DEF TableInv

WithEntry(h, o, k) ==
  [e \in DOMAIN h \cup {o} |->
     IF e = o THEN [key |-> k, object |-> o, next |-> Null, prev |-> Null] ELSE h[e]]

LEMMA InsertTable ==
  ASSUME HashTableAssumption, TableInv, NEW k \in Keys, cursor = Null, puts < MaxPuts,
         puts' = puts + 1, ~Present(k), NEW o, o = puts',
         NEW s, s = [tab |-> Grown.tab, heap |-> WithEntry(Grown.heap, o, k)],
         tab' = Push(s, o).tab, heap' = Push(s, o).heap, nelem' = nelem + 1,
         UNCHANGED <<dels, cursor>>
  PROVE  /\ TableInv'
         /\ DOMAIN heap' = DOMAIN heap \cup {o} /\ o \notin DOMAIN heap
         /\ heap'[o].key = k /\ heap'[o].object = o
         /\ Kept(heap, heap', DOMAIN heap)
<1>1. HeapInv /\ ChainInv /\ DelsInv
  BY DEF TableInv
<1>2. PICK D : D = DOMAIN heap
  OBVIOUS
<1>3. /\ o \in Objects /\ o \in Nat /\ o > puts /\ o \in 0..MaxPuts /\ dels[o] = 0
      /\ 1..puts \subseteq 1..o /\ o \in 1..o /\ o \notin D
      /\ \A f \in D : heap[f].object # o /\ heap[f].object \in Objects
  BY <1>2, NewObject
<1>4. PICK n : /\ Table(Grown.tab, Grown.heap, n, D, puts) /\ Kept(heap, Grown.heap, D)
               /\ Chained(Grown.tab, Grown.heap, n, D)
  BY <1>1, <1>2, GrownTable
<1>5. PICK t : t = Grown.tab
  OBVIOUS
<1>6. PICK h : h = Grown.heap
  OBVIOUS
<1>7. PICK g : g = WithEntry(h, o, k)
  OBVIOUS
<1>8. Table(t, h, n, D, puts) /\ Kept(heap, h, D) /\ Chained(t, h, n, D)
      /\ s = [tab |-> t, heap |-> g]
  BY <1>4, <1>5, <1>6, <1>7
<1>9. PICK E : E = D \cup {o}
  OBVIOUS
<1>10. DOMAIN h = D /\ Null \notin D /\ n \in Nat \ {0} /\ D \subseteq Nat
       /\ t \in [0..n - 1 -> D \cup {Null}]
       /\ \A f \in D : h[f] \in [key : Keys, object : 1..puts, next : D \cup {Null},
                                 prev : D \cup {Null}]
  BY <1>8 DEF Table, Entries, HashTableAssumption
<1>11. /\ DOMAIN g = E
       /\ g[o] = [key |-> k, object |-> o, next |-> Null, prev |-> Null]
       /\ \A f \in D : g[f] = h[f]
  BY <1>3, <1>7, <1>9, <1>10 DEF WithEntry
<1>12. g \in Entries(E, o)
  <2>1. ASSUME NEW f \in E
        PROVE  g[f] \in [key : Keys, object : 1..o, next : E \cup {Null}, prev : E \cup {Null}]
    <3>1. CASE f = o
      BY <1>3, <1>11, <3>1
    <3>2. CASE f \in D
      BY <1>3, <1>9, <1>10, <1>11, <3>2
    <3> QED
      BY <1>9, <3>1, <3>2
  <2>2. g = [f \in E |-> g[f]]
    BY <1>7, <1>9, <1>10 DEF WithEntry
  <2> QED
    BY <2>1, <2>2 DEF Entries
<1>13. Table(t, g, n, E, o)
  <2>1. t \in [0..n - 1 -> E \cup {Null}]
    BY <1>9, <1>10
  <2> QED
    BY <1>3, <1>9, <1>10, <1>12, <2>1 DEF Table
<1>14. Chained(t, g, n, D)
  <2>1. \A f \in D : /\ g[f].key = h[f].key /\ g[f].next = h[f].next
                    /\ g[f].prev = h[f].prev
    BY <1>11
  <2> QED
    BY ONLY <1>8, <2>1, ChainedSame
<1>15. PICK r, top : Linked(t, g, n, D, r, top)
  BY <1>14 DEF Chained
<1>16. PICK i : i = Home(g, n, o)
  OBVIOUS
<1>17. PICK t2 : t2 = Push(s, o).tab
  OBVIOUS
<1>18. PICK h2 : h2 = Push(s, o).heap
  OBVIOUS
<1>19. /\ i \in 0..n - 1 /\ Table(t2, h2, n, E, o) /\ Kept(g, h2, E)
       /\ t[i] # o => Pushed(t, g, i, o, t2, h2)
  <2>1. o \in E
    BY <1>9
  <2> QED
    BY <1>8, <1>13, <1>16, <1>17, <1>18, <2>1, PushType
<1>20. t[i] # o
  BY <1>3, <1>10, <1>19 DEF HashTableAssumption
<1>21. Chained(t2, h2, n, E)
  <2>1. D \in SUBSET E /\ o \in E \ D /\ Pushed(t, g, i, o, t2, h2)
    BY <1>3, <1>9, <1>19, <1>20
  <2>2. Linked(t2, h2, n, D \cup {o}, OnTop(r, D, o, top), top + 1)
    BY <1>13, <1>15, <1>16, <1>19, <2>1, PushLinked
  <2> QED
    BY <1>9, <2>2 DEF Chained
<1>22. tab' = t2 /\ heap' = h2 /\ DOMAIN h2 = E
  BY <1>17, <1>18, <1>19 DEF Table, Entries
<1>23. Kept(heap, h2, D)
  <2>1. ASSUME NEW f \in D PROVE h2[f].key = heap[f].key /\ h2[f].object = heap[f].object
    <3>1. f \in E
      BY <1>9
    <3> QED
      BY <1>8, <1>11, <1>19, <3>1 DEF Kept
  <2> QED
    BY <2>1 DEF Kept
<1>24. h2[o].key = k /\ h2[o].object = o
  <2>1. o \in E
    BY <1>9
  <2> QED
    BY <1>11, <1>19, <2>1 DEF Kept
<1>25. Distinct(h2)
  <2>1. \A f \in D : heap[f].key # k
    BY <1>1, <1>2, PresentFacts
  <2>2. Distinct(heap)
    BY <1>1 DEF HeapInv, Distinct
  <2> SUFFICES ASSUME NEW e \in E, NEW f \in E,
                      h2[e].key = h2[f].key \/ h2[e].object = h2[f].object
               PROVE  e = f
    BY <1>22 DEF Distinct
  <2>3. CASE e \in D /\ f \in D
    BY <1>2, <1>23, <2>2, <2>3 DEF Distinct, Kept
  <2>4. CASE e = o /\ f \in D
    <3>1. h2[f].key # k /\ h2[f].object # o
      BY <1>3, <1>23, <2>1, <2>4 DEF Kept
    <3> QED
      BY <1>24, <2>4, <3>1
  <2>5. CASE e \in D /\ f = o
    <3>1. h2[e].key # k /\ h2[e].object # o
      BY <1>3, <1>23, <2>1, <2>5 DEF Kept
    <3> QED
      BY <1>24, <2>5, <3>1
  <2> QED
    BY <1>9, <2>3, <2>4, <2>5
<1>26. nelem' = Cardinality(E)
  <2>1. IsFiniteSet(D) /\ nelem = Cardinality(D) /\ nelem \in Nat
    BY <1>1, <1>2, HeapFacts DEF HeapInv
  <2>2. Cardinality(D \cup {o}) = Cardinality(D) + 1
    BY <1>3, <2>1, FS_AddElement
  <2> QED
    BY <1>9, <2>1, <2>2
<1>27. HeapInv' /\ ChainInv'
  <2>1. E \subseteq 1..o /\ cursor' \in E \cup {Null} /\ puts' \in 0..MaxPuts
    BY <1>1, <1>2, <1>3, <1>9 DEF HeapInv
  <2>2. E = DOMAIN heap' /\ Table(tab', heap', n, E, puts') /\ Distinct(heap')
        /\ Chained(tab', heap', n, E)
    BY <1>19, <1>21, <1>22, <1>25
  <2> QED
    BY <1>26, <2>1, <2>2, TableNext
<1>28. DelsInv'
  <2>1. ASSUME NEW x \in Objects, x > puts' PROVE dels[x] = 0
    <3>1. x > puts
      BY <1>3, <2>1 DEF Objects, HeapInv, TableInv
    <3> QED
      BY <1>1, <3>1 DEF DelsInv
  <2>2. ASSUME NEW f \in E PROVE dels[h2[f].object] = 0
    <3>1. CASE f = o
      BY <1>3, <1>24, <3>1
    <3>2. CASE f \in D
      BY <1>1, <1>2, <1>23, <3>2 DEF DelsInv, Kept
    <3> QED
      BY <1>9, <3>1, <3>2
  <2> QED
    BY <1>1, <1>22, <2>1, <2>2 DEF DelsInv
<1> QED
  BY <1>2, <1>3, <1>9, <1>22, <1>23, <1>24, <1>27, <1>28 DEF TableInv

LEMMA RemoveTable ==
  ASSUME HashTableAssumption, TableInv, NEW k \in Keys, RemoveKey(k),
         NEW p, p = Entry(k)
  PROVE  /\ TableInv'
         /\ p \in DOMAIN heap /\ heap[p].key = k
         /\ DOMAIN heap' = DOMAIN heap \ {p} /\ Kept(heap, heap', DOMAIN heap \ {p})
         /\ \A x \in Objects :
              dels'[x] = IF x = heap[p].object THEN 1 ELSE dels[x]
<1>1. HeapInv /\ ChainInv /\ DelsInv
  BY DEF TableInv
<1>2. p \in DOMAIN heap /\ heap[p].key = k
  BY <1>1, PresentFacts DEF RemoveKey
<1>3. PICK D : D = DOMAIN heap
  OBVIOUS
<1>4. PICK n : n = TabSize
  OBVIOUS
<1>5. PICK i : i = Home(heap, n, p)
  OBVIOUS
<1>6. i = Slot(k, tab)
  BY <1>2, <1>4, <1>5 DEF Slot, Home, TabSize
<1>7. PICK T : T = D \ {p}
  OBVIOUS
<1>8. /\ Chained(tab, heap, n, D) /\ Distinct(heap) /\ Table(tab, heap, n, D, puts)
  BY <1>1, <1>3, <1>4, ChainedNow
<1>9. PICK r, top : Linked(tab, heap, n, D, r, top)
  BY <1>8 DEF Chained
<1>10. /\ n \in Nat \ {0} /\ DOMAIN tab = 0..n - 1 /\ D \subseteq Nat
       /\ \A j \in 0..n - 1 : tab[j] \in D \cup {Null}
       /\ \A f \in D : heap[f] \in [key : Keys, object : 1..puts, next : D \cup {Null},
                                    prev : D \cup {Null}]
       /\ i \in 0..n - 1
  <2>1. i \in 0..n - 1
    BY <1>1, <1>2, <1>4, <1>5, HeapFacts
  <2> QED
    BY <1>8, <2>1 DEF Table, Entries
<1>11. PICK Y : Y = heap[p].next
  OBVIOUS
<1>12. PICK Z : Z = heap[p].prev
  OBVIOUS
<1>13. ASSUME NEW f \in T
       PROVE  heap'[f] = [heap[f] EXCEPT !.prev = IF f = Y THEN Z ELSE @,
                                         !.next = IF f = Z THEN Y ELSE @]
  BY <1>3, <1>7, <1>11, <1>12 DEF RemoveKey, Unlink
<1>14. /\ DOMAIN heap' = T
       /\ heap' = [f \in T |-> heap'[f]]
       /\ tab' = IF Z = Null THEN [tab EXCEPT ![i] = Y] ELSE tab
       /\ nelem' = nelem - 1 /\ cursor' = Null /\ puts' = puts /\ cursor = Null
       /\ dels' = [x \in Objects |-> IF x \in {heap[p].object} THEN dels[x] + 1 ELSE dels[x]]
  <2>1. heap' = Unlink(p, heap)
    BY DEF RemoveKey
  <2>2. heap' = [f \in T |-> heap'[f]]
    BY <1>3, <1>7, <2>1 DEF Unlink
  <2> QED
    BY <1>6, <1>11, <1>12, <2>2 DEF RemoveKey, Destroys
<1>15. ASSUME NEW f \in T
       PROVE  /\ heap'[f].key = heap[f].key /\ heap'[f].object = heap[f].object
              /\ heap'[f].next = IF f = Z THEN Y ELSE heap[f].next
              /\ heap'[f].prev = IF f = Y THEN Z ELSE heap[f].prev
              /\ heap'[f] = [key |-> heap'[f].key, object |-> heap'[f].object,
                             next |-> heap'[f].next, prev |-> heap'[f].prev]
  <2>1. PICK x : x = heap[f]
    OBVIOUS
  <2>2. x \in [key : Keys, object : 1..puts, next : D \cup {Null}, prev : D \cup {Null}]
    BY <1>7, <1>10, <2>1
  <2>3. PICK a, b : a = (IF f = Y THEN Z ELSE x.prev) /\ b = (IF f = Z THEN Y ELSE x.next)
    OBVIOUS
  <2>4. heap'[f] = [key |-> x.key, object |-> x.object, next |-> b, prev |-> a]
    BY <1>13, <2>1, <2>2, <2>3
  <2> QED
    BY ONLY <2>1, <2>3, <2>4
<1>16. Kept(heap, heap', T)
  BY <1>15 DEF Kept
<1>17. Unlinked(tab, heap, i, p, tab', heap')
  <2>1. \A j \in 0..n - 1 : tab'[j] = IF j = i /\ Z = Null THEN Y ELSE tab[j]
    BY <1>10, <1>14
  <2>2. DOMAIN tab = 0..n - 1 /\ DOMAIN heap \ {p} = T
    BY <1>3, <1>7, <1>10
  <2>3. ASSUME NEW f \in T
        PROVE  /\ heap'[f].next = IF f = Z THEN Y ELSE heap[f].next
               /\ heap'[f].prev = IF f = Y THEN Z ELSE heap[f].prev
    BY <1>15
  <2> QED
    BY ONLY <1>11, <1>12, <2>1, <2>2, <2>3 DEF Unlinked
<1>18. /\ \E q : Linked(tab', heap', n, T, q, top)
       /\ \A f \in D : heap[f].next # p \/ f = Z
       /\ \A f \in D : heap[f].prev # p \/ f = Y
       /\ Y # p /\ Z # p
       /\ \A j \in 0..n - 1 : tab[j] # p \/ (j = i /\ Z = Null)
  <2>1. p \in D /\ Kept(heap, heap', D \ {p})
    BY <1>2, <1>3, <1>7, <1>16
  <2>2. i \in 0..n - 1 /\ Table(tab, heap, n, D, puts)
    BY <1>8, <1>10
  <2>3. /\ \E q : Linked(tab', heap', n, D \ {p}, q, top)
        /\ OnlyNeighbours(tab, heap, n, D, i, p)
    BY <1>5, <1>9, <1>17, <2>1, <2>2, UnlinkLinked
  <2> QED
    BY <1>7, <1>11, <1>12, <2>3 DEF OnlyNeighbours
<1>19. Y \in T \cup {Null} /\ Z \in T \cup {Null}
  BY <1>2, <1>3, <1>7, <1>10, <1>11, <1>12, <1>18
<1>20. heap' \in Entries(T, puts)
  <2>1. ASSUME NEW f \in T
        PROVE  heap'[f] \in [key : Keys, object : 1..puts, next : T \cup {Null},
                             prev : T \cup {Null}]
    <3>1. /\ heap[f].key \in Keys /\ heap[f].object \in 1..puts
          /\ heap[f].next \in D \cup {Null} /\ heap[f].prev \in D \cup {Null}
      BY <1>7, <1>10
    <3>2. heap'[f].next \in T \cup {Null} /\ heap'[f].prev \in T \cup {Null}
      BY <1>7, <1>15, <1>18, <1>19, <3>1
    <3>3. heap'[f].key \in Keys /\ heap'[f].object \in 1..puts
      BY <1>15, <3>1
    <3>4. heap'[f] = [key |-> heap'[f].key, object |-> heap'[f].object,
                      next |-> heap'[f].next, prev |-> heap'[f].prev]
      BY <1>15
    <3> QED
      BY ONLY <3>2, <3>3, <3>4
  <2> QED
    BY <1>14, <2>1 DEF Entries
<1>21. tab' \in [0..n - 1 -> T \cup {Null}]
  <2>1. tab \in [0..n - 1 -> D \cup {Null}]
    BY <1>8 DEF Table
  <2>2. ASSUME NEW j \in 0..n - 1 PROVE tab'[j] \in T \cup {Null}
    BY <1>7, <1>10, <1>14, <1>18, <1>19
  <2>3. tab' = [j \in 0..n - 1 |-> tab'[j]]
    BY <1>14, <2>1
  <2> QED
    BY <2>2, <2>3
<1>22. Table(tab', heap', n, T, puts')
  BY <1>7, <1>8, <1>10, <1>14, <1>20, <1>21 DEF Table
<1>23. Distinct(heap')
  BY <1>3, <1>7, <1>8, <1>14, <1>15 DEF Distinct
<1>24. nelem' = Cardinality(T)
  <2>1. IsFiniteSet(D) /\ nelem = Cardinality(D)
    BY <1>1, <1>3, HeapFacts DEF HeapInv
  <2>2. Cardinality(T) = Cardinality(D) - 1
    BY <1>2, <1>3, <1>7, <2>1, FS_RemoveElement
  <2> QED
    BY <1>14, <2>1, <2>2
<1>25. HeapInv' /\ ChainInv'
  <2>1. puts' \in 0..MaxPuts /\ T \subseteq 1..puts' /\ cursor' \in T \cup {Null}
    BY <1>1, <1>3, <1>7, <1>14 DEF HeapInv
  <2>2. T = DOMAIN heap' /\ Chained(tab', heap', n, T)
    BY <1>14, <1>18 DEF Chained
  <2> QED
    BY <1>22, <1>23, <1>24, <2>1, <2>2, TableNext
<1>26. \A x \in Objects : dels'[x] = IF x = heap[p].object THEN 1 ELSE dels[x]
  BY <1>1, <1>2, <1>14 DEF DelsInv
<1>27. DelsInv'
  <2>1. heap[p].object \in 1..puts
    BY <1>2, <1>3, <1>10
  <2>2. dels' \in [Objects -> {0, 1}]
    BY <1>1, <1>14, <1>26 DEF DelsInv
  <2>3. ASSUME NEW x \in Objects, x > puts' PROVE dels'[x] = 0
    <3>1. x > puts /\ x # heap[p].object
      <4>1. puts \in Int /\ x \in Int
        BY <1>1 DEF HeapInv, Objects
      <4> QED
        BY <1>14, <2>1, <2>3, <4>1
    <3> QED
      BY <1>1, <1>26, <3>1 DEF DelsInv
  <2>4. ASSUME NEW f \in T PROVE dels'[heap'[f].object] = 0
    <3>1. heap'[f].object = heap[f].object /\ heap[f].object # heap[p].object
      BY <1>2, <1>3, <1>7, <1>8, <1>15 DEF Distinct
    <3>2. heap[f].object \in Objects
      <4>1. heap[f].object \in 1..puts /\ puts \in 0..MaxPuts /\ MaxPuts \in Nat
        BY <1>1, <1>7, <1>10 DEF HeapInv, HashTableAssumption
      <4> QED
        BY <4>1 DEF Objects
    <3> QED
      BY <1>1, <1>3, <1>7, <1>26, <3>1, <3>2 DEF DelsInv
  <2> QED
    BY <1>14, <2>2, <2>3, <2>4 DEF DelsInv
<1> QED
  BY <1>2, <1>3, <1>7, <1>14, <1>16, <1>25, <1>26, <1>27 DEF TableInv

LEMMA CleanTable ==
  ASSUME HashTableAssumption, TableInv, Clean
  PROVE  /\ TableInv' /\ DOMAIN heap' = {}
         /\ \A x \in Objects :
              dels'[x] = IF x \in {heap[e].object : e \in DOMAIN heap} THEN 1 ELSE dels[x]
<1>1. HeapInv /\ ChainInv /\ DelsInv
  BY DEF TableInv
<1>2. Ahead(First) = DOMAIN heap
  BY <1>1, AheadFacts
<1>3. PICK n : n = TabSize
  OBVIOUS
<1>4. n \in Nat \ {0} /\ DOMAIN tab = 0..n - 1
  BY <1>1, <1>3 DEF HeapInv
<1>5. /\ DOMAIN heap' = {} /\ heap' \in Entries({}, puts) /\ nelem' = 0
      /\ tab' = [i \in 0..n - 1 |-> Null]
      /\ cursor' = Null /\ puts' = puts
      /\ dels' = [x \in Objects |-> IF x \in {heap[e].object : e \in DOMAIN heap}
                                    THEN dels[x] + 1 ELSE dels[x]]
  BY <1>2, <1>4 DEF Clean, Destroys, Entries
<1>6. \A x \in Objects :
        dels'[x] = IF x \in {heap[e].object : e \in DOMAIN heap} THEN 1 ELSE dels[x]
  <2>1. ASSUME NEW x \in Objects, x \in {heap[e].object : e \in DOMAIN heap}
        PROVE  dels[x] = 0
    BY <1>1, <2>1 DEF DelsInv
  <2> QED
    BY <1>5, <2>1
<1>7. PICK r : r = [e \in {} |-> 0]
  OBVIOUS
<1>8. r \in [{} -> 0..0 - 1]
  BY <1>7
<1>9. Linked(tab', heap', n, {}, r, 0)
  BY <1>5, <1>8 DEF Linked, Leads
<1>10. Table(tab', heap', n, {}, puts')
  BY <1>1, <1>4, <1>5 DEF Table, HeapInv, HashTableAssumption
<1>11. HeapInv' /\ ChainInv'
  <2>1. /\ {} = DOMAIN heap' /\ Distinct(heap') /\ {} \subseteq 1..puts'
        /\ puts' \in 0..MaxPuts /\ cursor' \in {} \cup {Null} /\ nelem' = Cardinality({})
        /\ Chained(tab', heap', n, {})
    BY <1>1, <1>5, <1>9, FS_EmptySet DEF Distinct, Chained, HeapInv
  <2> QED
    BY <1>10, <2>1, TableNext
<1>12. DelsInv'
  <2>1. ASSUME NEW x \in Objects, x > puts' PROVE dels'[x] = 0
    <3>1. ~ \E e \in DOMAIN heap : heap[e].object = x
      BY <1>1, <1>5, <2>1 DEF HeapInv, EntryType, Objects
    <3> QED
      BY <1>1, <1>5, <1>6, <2>1, <3>1 DEF DelsInv
  <2>2. dels' \in [Objects -> {0, 1}]
    BY <1>1, <1>5, <1>6 DEF DelsInv
  <2> QED
    BY <1>5, <2>1, <2>2 DEF DelsInv
<1> QED
  BY <1>5, <1>6, <1>11, <1>12 DEF TableInv

TableState == HashTableAssumption /\ TableInv

\* The map that a table is.
KeysOf(h) == {h[e].key : e \in DOMAIN h}

MapView ==
  /\ DOMAIN Contents = KeysOf(heap)
  /\ Contents = [j \in DOMAIN Contents |-> Contents[j]]
  /\ \A e \in DOMAIN heap : Contents[heap[e].key] = heap[e].object
  /\ nelem = Cardinality(DOMAIN Contents)
  /\ cursor = Null => KeysAhead = {}

LEMMA MapViewHolds == TableState => MapView
<1> SUFFICES ASSUME TableState PROVE MapView
  OBVIOUS
<1>1. HashTableAssumption /\ HeapInv /\ ChainInv
  BY DEF TableState, TableInv
<1> DEFINE D == DOMAIN heap
<1>2. ASSUME NEW e \in D PROVE heap[e].key \in Keys
  BY <1>1 DEF HeapInv, EntryType
<1>3. DOMAIN Contents = KeysOf(heap)
  <2>1. DOMAIN Contents = {j \in Keys : Present(j)}
    BY DEF Contents
  <2>2. \A j : Present(j) <=> \E e \in D : heap[e].key = j
    BY <1>1, PresentFacts
  <2> QED
    BY <1>2, <2>1, <2>2 DEF KeysOf
<1>4. ASSUME NEW e \in D PROVE Contents[heap[e].key] = heap[e].object
  <2>1. Entry(heap[e].key) = e
    BY <1>1, EntryFound
  <2>2. heap[e].key \in {j \in Keys : Present(j)}
    BY <1>2, <2>1 DEF Present
  <2> QED
    BY <2>1, <2>2 DEF Contents
<1>5. nelem = Cardinality(DOMAIN Contents)
  <2> DEFINE f == [e \in D |-> heap[e].key]
             K == DOMAIN Contents
  <2>1. IsFiniteSet(D) /\ nelem = Cardinality(D)
    BY <1>1, HeapFacts DEF HeapInv
  <2>2. f \in Bijection(D, K)
    <3>1. f \in [D -> K]
      BY <1>3 DEF KeysOf
    <3>2. \A a, b \in D : f[a] = f[b] => a = b
      BY <1>1 DEF HeapInv
    <3>3. \A j \in K : \E e \in D : f[e] = j
      BY <1>3 DEF KeysOf
    <3> HIDE DEF f, K, D
    <3> QED
      BY <3>1, <3>2, <3>3 DEF Bijection, Injection, Surjection, IsInjective
  <2> HIDE DEF f, K, D
  <2>3. Cardinality(D) = Cardinality(K)
    BY <2>1, <2>2, FS_Bijection DEF ExistsBijection
  <2> QED
    BY <2>1, <2>3 DEF K
<1>6. ASSUME cursor = Null PROVE KeysAhead = {}
  BY <1>1, <1>6, AheadFacts DEF KeysAhead
<1>7. Contents = [j \in DOMAIN Contents |-> Contents[j]]
  BY DEF Contents
<1> QED
  BY <1>3, <1>4, <1>5, <1>6, <1>7 DEF MapView

LEMMA MapViewNext == TableState' => MapView'
BY MapViewHolds, PTL

\* Both views of a step from one state of the table to the next.
LEMMA Views ==
  ASSUME HashTableAssumption, TableInv, TableInv'
  PROVE  MapView /\ MapView'
<1>1. TableState /\ TableState'
  BY DEF TableState, HashTableAssumption
<1> QED
  BY <1>1, MapViewHolds, MapViewNext

\* The module that Map takes its Cardinality from is the one this module does.
LEMMA SameCardinality == ASSUME NEW S PROVE M!Cardinality(S) = Cardinality(S)
BY Zenon DEF M!Cardinality, Cardinality

LEMMA DestroyedNext ==
  ASSUME NEW B \in SUBSET Objects,
         \A x \in Objects : dels'[x] = IF x \in B THEN 1 ELSE dels[x]
  PROVE  Destroyed' = Destroyed \cup B
BY DEF Destroyed, Objects

\* An entry was put: the map has the object under its key.
LEMMA PutMapsOf ==
  ASSUME HashTableAssumption, TableInv, TableInv', NEW k \in Keys, NEW o \in Objects,
         cursor = Null, cursor' = Null,
         dels[o] = 0, \A e \in DOMAIN heap : heap[e].object # o,
         NEW p, p \in DOMAIN heap', heap'[p].key = k, heap'[p].object = o,
         DOMAIN heap' = DOMAIN heap \cup {p},
         \A f \in DOMAIN heap \ {p} :
           heap'[f].key = heap[f].key /\ heap'[f].object = heap[f].object,
         p \in DOMAIN heap => heap[p].key = k,
         NEW B \in SUBSET Objects,
         B = {heap[e].object : e \in DOMAIN heap \cap {p}},
         \A x \in Objects : dels'[x] = IF x \in B THEN 1 ELSE dels[x]
  PROVE  M!Put(k, o)
<1>1. MapView /\ MapView'
  BY Views
<1>2. PICK c : c = Contents
  OBVIOUS
<1>3. PICK c2 : c2 = Contents'
  OBVIOUS
<1>4. /\ DOMAIN c = KeysOf(heap) /\ \A e \in DOMAIN heap : c[heap[e].key] = heap[e].object
      /\ KeysAhead = {} /\ KeysAhead' = {}
  BY <1>1, <1>2 DEF MapView
<1>5. /\ DOMAIN c2 = KeysOf(heap')
      /\ \A e \in DOMAIN heap' : c2[heap'[e].key] = heap'[e].object
      /\ c2 = [j \in DOMAIN c2 |-> c2[j]] /\ nelem' = Cardinality(DOMAIN c2)
  BY <1>1, <1>3 DEF MapView
<1>6. DOMAIN c2 = DOMAIN c \cup {k}
  BY <1>4, <1>5 DEF KeysOf
<1>7. ASSUME NEW j \in DOMAIN c2 PROVE c2[j] = IF j = k THEN o ELSE c[j]
  <2>1. CASE j = k
    BY <1>5, <2>1
  <2>2. CASE j # k
    <3>1. PICK e \in DOMAIN heap' : heap'[e].key = j
      BY <1>5 DEF KeysOf
    <3>2. e \in DOMAIN heap /\ e # p
      BY <2>2, <3>1
    <3> QED
      BY <1>4, <1>5, <2>2, <3>1, <3>2
  <2> QED
    BY <2>1, <2>2
<1>8. c2 = [j \in DOMAIN c \cup {k} |-> IF j = k THEN o ELSE c[j]]
  <2>1. c2 = [j \in DOMAIN c2 |-> IF j = k THEN o ELSE c[j]]
    BY <1>5, <1>7
  <2> QED
    BY <1>6, <2>1
<1>9. Destroyed' = Destroyed \cup B
  BY DestroyedNext
<1>10. {c[j] : j \in DOMAIN c \cap {k}} = B
  <2>1. ASSUME k \in DOMAIN c PROVE p \in DOMAIN heap /\ c[k] = heap[p].object
    <3>1. PICK e \in DOMAIN heap : heap[e].key = k
      BY <1>4, <2>1 DEF KeysOf
    <3>2. e = p
      <4> SUFFICES ASSUME e # p PROVE FALSE
        OBVIOUS
      <4>1. heap'[e].key = heap'[p].key /\ e \in DOMAIN heap'
        BY <3>1
      <4> QED
        BY <4>1 DEF TableInv, HeapInv
    <3> QED
      BY <1>4, <3>1, <3>2
  <2>2. ASSUME p \in DOMAIN heap PROVE k \in DOMAIN c
    BY <1>4, <2>2 DEF KeysOf
  <2> QED
    BY <2>1, <2>2
<1>11. o \notin Destroyed /\ \A j \in DOMAIN c : c[j] # o
  BY <1>4 DEF Destroyed, KeysOf
<1>12. nelem' = Cardinality(DOMAIN [j \in DOMAIN c \cup {k} |-> IF j = k THEN o ELSE c[j]])
  BY <1>5, <1>8
<1>13. /\ o \notin Destroyed /\ \A j \in DOMAIN Contents : Contents[j] # o
       /\ KeysAhead = {} /\ KeysAhead' = KeysAhead
  BY <1>2, <1>4, <1>11
<1>14. Contents' = [j \in DOMAIN Contents \cup {k} |-> IF j = k THEN o ELSE Contents[j]]
  BY <1>2, <1>3, <1>8
<1>15. nelem' = M!Cardinality(DOMAIN [j \in DOMAIN Contents \cup {k} |->
                                       IF j = k THEN o ELSE Contents[j]])
  BY <1>2, <1>12, SameCardinality
<1>16. Destroyed' = Destroyed \cup {Contents[j] : j \in DOMAIN Contents \cap {k}}
  BY <1>2, <1>9, <1>10
<1> QED
  BY ONLY <1>13, <1>14, <1>15, <1>16, Zenon DEF M!Put, M!Becomes

\* Object o comes into entry p, which is new or holds k, and the objects B are destroyed.
PutsInto(k, o, p, B) ==
  /\ k \in Keys /\ o \in Objects /\ dels[o] = 0
  /\ cursor = Null /\ cursor' = Null
  /\ \A e \in DOMAIN heap : heap[e].object # o
  /\ p \in DOMAIN heap' /\ heap'[p].key = k /\ heap'[p].object = o
  /\ DOMAIN heap' = DOMAIN heap \cup {p}
  /\ \A f \in DOMAIN heap \ {p} :
       heap'[f].key = heap[f].key /\ heap'[f].object = heap[f].object
  /\ p \in DOMAIN heap => heap[p].key = k
  /\ B \in SUBSET Objects
  /\ B = {heap[e].object : e \in DOMAIN heap \cap {p}}
  /\ \A x \in Objects : dels'[x] = IF x \in B THEN 1 ELSE dels[x]

LEMMA PutMaps ==
  ASSUME HashTableAssumption, TableInv, TableInv', NEW k, NEW o, NEW p, NEW B,
         PutsInto(k, o, p, B)
  PROVE  M!Put(k, o)
BY PutMapsOf DEF PutsInto

\* Entries have gone, and their keys from the map.
LEMMA DropMaps ==
  ASSUME HashTableAssumption, TableInv, TableInv', cursor = Null, cursor' = Null,
         NEW G \in SUBSET DOMAIN heap,
         DOMAIN heap' = DOMAIN heap \ G, Kept(heap, heap', DOMAIN heap \ G),
         NEW gone, gone = {heap[e].key : e \in G},
         NEW B \in SUBSET Objects, B = {heap[e].object : e \in G},
         \A x \in Objects : dels'[x] = IF x \in B THEN 1 ELSE dels[x]
  PROVE  gone \subseteq DOMAIN Contents /\ M!Drop(gone)
<1>1. MapView /\ MapView'
  BY Views
<1>2. PICK c : c = Contents
  OBVIOUS
<1>3. PICK c2 : c2 = Contents'
  OBVIOUS
<1>4. /\ DOMAIN c = KeysOf(heap) /\ \A e \in DOMAIN heap : c[heap[e].key] = heap[e].object
      /\ KeysAhead = {} /\ KeysAhead' = {}
  BY <1>1, <1>2 DEF MapView
<1>5. /\ DOMAIN c2 = KeysOf(heap')
      /\ \A e \in DOMAIN heap' : c2[heap'[e].key] = heap'[e].object
      /\ c2 = [j \in DOMAIN c2 |-> c2[j]] /\ nelem' = Cardinality(DOMAIN c2)
  BY <1>1, <1>3 DEF MapView
<1>6. \A e, f \in DOMAIN heap : heap[e].key = heap[f].key => e = f
  BY DEF TableInv, HeapInv
<1>7. DOMAIN c2 = DOMAIN c \ gone
  <2>1. ASSUME NEW e \in DOMAIN heap \ G
        PROVE  heap'[e].key \in DOMAIN c /\ heap'[e].key \notin gone
    BY <1>4, <1>6 DEF KeysOf, Kept
  <2>2. ASSUME NEW e \in DOMAIN heap, heap[e].key \notin gone
        PROVE  e \in DOMAIN heap' /\ heap'[e].key = heap[e].key
    BY <2>2 DEF Kept
  <2> QED
    BY <1>4, <1>5, <2>1, <2>2 DEF KeysOf
<1>8. ASSUME NEW j \in DOMAIN c2 PROVE c2[j] = c[j]
  <2>1. PICK e \in DOMAIN heap' : heap'[e].key = j
    BY <1>5 DEF KeysOf
  <2>2. e \in DOMAIN heap \ G
    BY <2>1
  <2>3. heap'[e].key = heap[e].key /\ heap'[e].object = heap[e].object
    BY <2>2 DEF Kept
  <2> QED
    BY <1>4, <1>5, <2>1, <2>2, <2>3
<1>9. c2 = [j \in DOMAIN c \ gone |-> c[j]]
  <2>1. c2 = [j \in DOMAIN c2 |-> c[j]]
    BY <1>5, <1>8
  <2> QED
    BY <1>7, <2>1
<1>10. Destroyed' = Destroyed \cup B
  BY DestroyedNext
<1>11. gone \subseteq DOMAIN c
  BY <1>4 DEF KeysOf
<1>12. {c[j] : j \in gone} = B
  BY <1>4
<1>13. nelem' = Cardinality(DOMAIN [j \in DOMAIN c \ gone |-> c[j]])
  BY <1>5, <1>9
<1>14. gone \subseteq DOMAIN Contents /\ KeysAhead = {} /\ KeysAhead' = KeysAhead
  BY <1>2, <1>4, <1>11
<1>15. Contents' = [j \in DOMAIN Contents \ gone |-> Contents[j]]
  BY <1>2, <1>3, <1>9
<1>16. nelem' = M!Cardinality(DOMAIN [j \in DOMAIN Contents \ gone |-> Contents[j]])
  BY <1>2, <1>13, SameCardinality
<1>17. Destroyed' = Destroyed \cup {Contents[j] : j \in gone}
  BY <1>2, <1>10, <1>12
<1> QED
  BY ONLY <1>14, <1>15, <1>16, <1>17, Zenon DEF M!Drop, M!Becomes

\* The table grew, or nothing happened: the map does not see it.
LEMMA SameMaps ==
  ASSUME HashTableAssumption, TableInv, TableInv', cursor = Null, cursor' = Null,
         DOMAIN heap' = DOMAIN heap, Kept(heap, heap', DOMAIN heap), UNCHANGED <<nelem, dels>>
  PROVE  UNCHANGED <<Contents, nelem, Destroyed, KeysAhead>>
<1>1. MapView /\ MapView'
  BY Views
<1>2. PICK c : c = Contents
  OBVIOUS
<1>3. PICK c2 : c2 = Contents'
  OBVIOUS
<1>4. /\ DOMAIN c = KeysOf(heap) /\ \A e \in DOMAIN heap : c[heap[e].key] = heap[e].object
      /\ c = [j \in DOMAIN c |-> c[j]]
      /\ KeysAhead = {} /\ KeysAhead' = {}
  BY <1>1, <1>2 DEF MapView
<1>5. /\ DOMAIN c2 = KeysOf(heap')
      /\ \A e \in DOMAIN heap' : c2[heap'[e].key] = heap'[e].object
      /\ c2 = [j \in DOMAIN c2 |-> c2[j]]
  BY <1>1, <1>3 DEF MapView
<1>6. DOMAIN c2 = DOMAIN c
  BY <1>4, <1>5 DEF KeysOf, Kept
<1>7. ASSUME NEW j \in DOMAIN c2 PROVE c2[j] = c[j]
  <2>1. PICK e \in DOMAIN heap : heap'[e].key = j
    BY <1>5 DEF KeysOf
  <2>2. heap'[e].key = heap[e].key /\ heap'[e].object = heap[e].object
    BY DEF Kept
  <2> QED
    BY <1>4, <1>5, <2>1, <2>2
<1>8. c2 = c
  <2>1. c2 = [j \in DOMAIN c2 |-> c[j]]
    BY <1>5, <1>7
  <2> QED
    BY <1>4, <1>6, <2>1
<1>9. Destroyed' = Destroyed
  BY DEF Destroyed, Objects
<1> QED
  BY <1>2, <1>3, <1>4, <1>8, <1>9

LEMMA PutStep ==
  ASSUME HashTableAssumption, TableInv, NEW k \in Keys, PutKey(k)
  PROVE  TableInv' /\ MapNext
<1> DEFINE o == puts'
<1>1. cursor = Null /\ cursor' = Null /\ puts < MaxPuts /\ puts' = puts + 1
  BY DEF PutKey
<1>2. /\ o \in Objects /\ dels[o] = 0 /\ o \notin DOMAIN heap
      /\ \A e \in DOMAIN heap : heap[e].object # o /\ heap[e].object \in Objects
  BY <1>1, NewObject
<1>3. M!Put(k, o) => MapNext
  BY <1>2 DEF MapNext, M!Next
<1>4. CASE Replace(k, o)
  <2>1. PICK p : p = Entry(k)
    OBVIOUS
  <2>2. /\ TableInv'
        /\ p \in DOMAIN heap /\ heap[p].key = k
        /\ DOMAIN heap' = DOMAIN heap
        /\ \A f \in DOMAIN heap :
             /\ heap'[f].key = heap[f].key
             /\ heap'[f].object = IF f = p THEN puts' ELSE heap[f].object
        /\ \A x \in Objects : dels'[x] = IF x = heap[p].object THEN 1 ELSE dels[x]
    BY <1>1, <1>4, <2>1, ReplaceTable
  <2>3. PICK B : B = {heap[e].object : e \in DOMAIN heap \cap {p}}
    OBVIOUS
  <2>4. B = {heap[p].object} /\ B \in SUBSET Objects
    BY <1>2, <2>2, <2>3
  <2>5. /\ p \in DOMAIN heap' /\ heap'[p].key = k /\ heap'[p].object = o
        /\ DOMAIN heap' = DOMAIN heap \cup {p}
        /\ \A f \in DOMAIN heap \ {p} :
             heap'[f].key = heap[f].key /\ heap'[f].object = heap[f].object
        /\ p \in DOMAIN heap => heap[p].key = k
    BY <2>2
  <2>6. \A x \in Objects : dels'[x] = IF x \in B THEN 1 ELSE dels[x]
    BY <2>2, <2>4
  <2> HIDE DEF o
  <2>7. PutsInto(k, o, p, B)
    BY <1>1, <1>2, <2>3, <2>4, <2>5, <2>6 DEF PutsInto
  <2>8. M!Put(k, o)
    BY <2>2, <2>7, PutMaps
  <2> QED
    BY <1>3, <2>2, <2>8
<1>5. CASE Insert(k, o)
  <2>1. Grown = [tab |-> Grown.tab, heap |-> Grown.heap]
    BY GrownTable DEF TableInv
  <2>2. PICK s : s = [tab |-> Grown.tab, heap |-> WithEntry(Grown.heap, o, k)]
    OBVIOUS
  <2>3. PICK g : g = Grown
    OBVIOUS
  <2>4. [g EXCEPT !.heap = [e \in DOMAIN @ \cup {o} |->
                              IF e = o
                                THEN [key |-> k, object |-> o, next |-> Null, prev |-> Null]
                                ELSE @[e]]] = s
    <3>1. PICK a, b : g = [tab |-> a, heap |-> b] /\ a = Grown.tab /\ b = Grown.heap
      BY <2>1, <2>3
    <3> HIDE DEF o
    <3> QED
      BY <2>2, <3>1 DEF WithEntry
  <2>5. /\ ~Present(k) /\ UNCHANGED dels
        /\ \/ /\ tab' = Push(s, o).tab /\ heap' = Push(s, o).heap
              /\ nelem' = nelem + 1
           \/ /\ tab' = g.tab /\ heap' = g.heap
              /\ UNCHANGED nelem
    <3>1. g = IF Crowded THEN Rehashed ELSE [tab |-> tab, heap |-> heap]
      BY <2>3 DEF Grown
    <3> HIDE DEF o
    <3> QED
      BY <1>5, <2>4, <3>1, Zenon DEF Insert
  <2>6. CASE tab' = Push(s, o).tab /\ heap' = Push(s, o).heap /\ nelem' = nelem + 1
    <3>1. /\ TableInv'
          /\ DOMAIN heap' = DOMAIN heap \cup {o} /\ o \notin DOMAIN heap
          /\ heap'[o].key = k /\ heap'[o].object = o
          /\ Kept(heap, heap', DOMAIN heap)
      BY <1>1, <2>2, <2>5, <2>6, InsertTable
    <3>2. PICK B : B = {}
      OBVIOUS
    <3>3. B \in SUBSET Objects /\ B = {heap[e].object : e \in DOMAIN heap \cap {o}}
          /\ \A x \in Objects : dels'[x] = IF x \in B THEN 1 ELSE dels[x]
      BY <2>5, <3>1, <3>2
    <3>4. /\ o \in DOMAIN heap'
          /\ \A f \in DOMAIN heap \ {o} :
               heap'[f].key = heap[f].key /\ heap'[f].object = heap[f].object
          /\ o \in DOMAIN heap => heap[o].key = k
      BY <3>1 DEF Kept
    <3> HIDE DEF o
    <3>5. PutsInto(k, o, o, B)
      BY <1>1, <1>2, <3>1, <3>3, <3>4 DEF PutsInto
    <3>6. M!Put(k, o)
      BY <3>1, <3>5, PutMaps
    <3> QED
      BY <1>3, <3>1, <3>6
  <2>7. CASE tab' = g.tab /\ heap' = g.heap /\ UNCHANGED nelem
    <3>1. TableInv' /\ DOMAIN heap' = DOMAIN heap /\ Kept(heap, heap', DOMAIN heap)
      BY <1>1, <2>3, <2>5, <2>7, GrowTable
    <3>2. UNCHANGED <<Contents, nelem, Destroyed, KeysAhead>>
      BY <1>1, <2>5, <2>7, <3>1, SameMaps
    <3> QED
      BY <3>1, <3>2 DEF MapNext
  <2> QED
    BY <2>5, <2>6, <2>7
<1>6. CASE RehashFails(k)
  <2>1. UNCHANGED <<tab, heap, nelem, dels>>
    BY <1>6 DEF RehashFails
  <2>2. TableInv' /\ DOMAIN heap' = DOMAIN heap /\ Kept(heap, heap', DOMAIN heap)
    BY <1>1, <2>1, GrowTable
  <2>3. UNCHANGED <<Contents, nelem, Destroyed, KeysAhead>>
    BY <1>1, <2>1, <2>2, SameMaps
  <2> QED
    BY <2>2, <2>3 DEF MapNext
<1> QED
  BY <1>4, <1>5, <1>6 DEF PutKey

LEMMA RemoveStep ==
  ASSUME HashTableAssumption, TableInv, NEW k \in Keys, RemoveKey(k)
  PROVE  TableInv' /\ MapNext
<1>1. cursor = Null /\ cursor' = Null
  BY DEF RemoveKey
<1>2. PICK p : p = Entry(k)
  OBVIOUS
<1>3. /\ TableInv'
      /\ p \in DOMAIN heap /\ heap[p].key = k
      /\ DOMAIN heap' = DOMAIN heap \ {p} /\ Kept(heap, heap', DOMAIN heap \ {p})
      /\ \A x \in Objects : dels'[x] = IF x = heap[p].object THEN 1 ELSE dels[x]
  BY <1>2, RemoveTable
<1>4. PICK G : G = {p}
  OBVIOUS
<1>5. PICK B : B = {heap[e].object : e \in G}
  OBVIOUS
<1>6. PICK gone : gone = {heap[e].key : e \in G}
  OBVIOUS
<1>7. heap[p].object \in Objects
  <2>1. heap[p].object \in 1..puts /\ puts \in 0..MaxPuts /\ MaxPuts \in Nat
    BY <1>3 DEF TableInv, HeapInv, EntryType, HashTableAssumption
  <2> QED
    BY <2>1 DEF Objects
<1>8. /\ G \in SUBSET DOMAIN heap
      /\ DOMAIN heap' = DOMAIN heap \ G /\ Kept(heap, heap', DOMAIN heap \ G)
      /\ B \in SUBSET Objects
      /\ \A x \in Objects : dels'[x] = IF x \in B THEN 1 ELSE dels[x]
  BY <1>3, <1>4, <1>5, <1>7
<1>9. gone \subseteq DOMAIN Contents /\ M!Drop(gone)
  BY <1>1, <1>3, <1>5, <1>6, <1>8, DropMaps
<1>10. gone = {k}
  BY <1>3, <1>4, <1>6
<1>11. M!Holds(k) /\ M!Drop({k})
  BY <1>9, <1>10 DEF M!Holds
<1> QED
  BY <1>3, <1>11 DEF MapNext, M!Next

LEMMA CleanStep ==
  ASSUME HashTableAssumption, TableInv, Clean
  PROVE  TableInv' /\ MapNext
<1>1. cursor = Null /\ cursor' = Null
  BY DEF Clean
<1>2. PICK G : G = DOMAIN heap
  OBVIOUS
<1>3. PICK B : B = {heap[e].object : e \in G}
  OBVIOUS
<1>4. PICK gone : gone = {heap[e].key : e \in G}
  OBVIOUS
<1>5. /\ TableInv' /\ DOMAIN heap' = {}
      /\ \A x \in Objects : dels'[x] = IF x \in B THEN 1 ELSE dels[x]
  BY <1>2, <1>3, CleanTable
<1>6. B \in SUBSET Objects
  <2>1. \A e \in G : heap[e].object \in 1..puts
    BY <1>2 DEF TableInv, HeapInv, EntryType
  <2>2. puts \in 0..MaxPuts /\ MaxPuts \in Nat
    BY DEF TableInv, HeapInv, HashTableAssumption
  <2> QED
    BY <1>3, <2>1, <2>2 DEF Objects
<1>7. /\ G \in SUBSET DOMAIN heap
      /\ DOMAIN heap' = DOMAIN heap \ G /\ Kept(heap, heap', DOMAIN heap \ G)
  BY <1>2, <1>5 DEF Kept
<1>8. M!Drop(gone)
  BY <1>1, <1>3, <1>4, <1>5, <1>6, <1>7, DropMaps
<1>9. gone = DOMAIN Contents
  <2>1. MapView
    BY <1>5, Views
  <2> QED
    BY <1>2, <1>4, <2>1 DEF MapView, KeysOf
<1>10. M!Drop(DOMAIN Contents)
  BY <1>8, <1>9
<1> QED
  BY <1>5, <1>10 DEF MapNext, M!Next

\* A step of an iteration changes what is ahead of it.
LEMMA CursorMaps ==
  ASSUME HashTableAssumption, TableInv, UNCHANGED <<tab, heap, nelem, dels>>
  PROVE  /\ KeysAhead' = {heap[e].key : e \in Ahead(cursor')}
         /\ UNCHANGED <<Contents, nelem, Destroyed>>
<1>1. KeysAhead' = {heap[e].key : e \in Ahead(cursor')}
  BY DEF KeysAhead, Ahead, Iteration, NextOf, HeadFrom, Slot
<1>2. Contents' = Contents
  BY DEF Contents, Present, Entry, Slot
<1>3. Destroyed' = Destroyed
  BY DEF Destroyed, Objects
<1> QED
  BY <1>1, <1>2, <1>3

LEMMA IterationStep ==
  ASSUME HashTableAssumption, TableInv, Begin \/ Advance
  PROVE  TableInv' /\ MapNext
<1>1. UNCHANGED <<tab, heap, nelem, dels, puts>>
      /\ (cursor' = First \/ (cursor # Null /\ cursor' = NextOf(cursor)))
  BY DEF Begin, Advance
<1>2. TableInv'
  BY <1>1, IterationTable
<1>3. /\ KeysAhead' = {heap[e].key : e \in Ahead(cursor')}
      /\ UNCHANGED <<Contents, nelem, Destroyed>>
  BY <1>1, CursorMaps
<1>4. HeapInv /\ ChainInv
  BY DEF TableInv
<1>5. CASE Begin
  <2>1. MapView
    BY <1>2, Views
  <2>2. KeysAhead = {}
    BY <1>5, <2>1 DEF Begin, MapView
  <2>3. Ahead(cursor') = DOMAIN heap
    BY <1>4, <1>5, AheadFacts DEF Begin
  <2>4. KeysAhead' = DOMAIN Contents
    BY <1>3, <2>1, <2>3 DEF MapView, KeysOf
  <2>5. M!Begin
    BY <1>3, <2>2, <2>4 DEF M!Begin
  <2> QED
    BY <1>2, <2>5 DEF MapNext, M!Next
<1>6. CASE Advance
  <2>1. PICK e : e = cursor
    OBVIOUS
  <2>2. e \in DOMAIN heap /\ cursor' = NextOf(e)
    BY <1>4, <1>6, <2>1 DEF Advance, HeapInv
  <2>3. Ahead(cursor') = Ahead(e) \ {e} /\ e \in Ahead(e) /\ Ahead(e) \subseteq DOMAIN heap
    BY <1>4, <2>2, AheadFacts DEF Ahead
  <2>4. KeysAhead = {heap[f].key : f \in Ahead(e)}
    BY <2>1 DEF KeysAhead
  <2>5. KeysAhead' = {heap[f].key : f \in Ahead(e) \ {e}}
    BY <1>3, <2>3
  <2>6. \A f, g \in DOMAIN heap : heap[f].key = heap[g].key => f = g
    BY <1>4 DEF HeapInv
  <2>7. PICK k : k = heap[e].key
    OBVIOUS
  <2>8. k \in Keys
    BY <1>4, <2>2, <2>7 DEF HeapInv, EntryType
  <2>9. k \in KeysAhead /\ KeysAhead' = KeysAhead \ {k}
    BY <2>2, <2>3, <2>4, <2>5, <2>6, <2>7
  <2>10. M!Visit(k)
    BY <1>3, <2>9 DEF M!Visit
  <2> QED
    BY <1>2, <2>8, <2>10 DEF MapNext, M!Next
<1> QED
  BY <1>5, <1>6

LEMMA TableStep ==
  ASSUME HashTableAssumption, TableInv,
         [NextTable]_tableVars
  PROVE  TableInv' /\ MapNext
<1>1. ASSUME NEW k \in Keys, PutKey(k) PROVE TableInv' /\ MapNext
  BY <1>1, PutStep
<1>2. ASSUME NEW k \in Keys, RemoveKey(k) PROVE TableInv' /\ MapNext
  BY <1>2, RemoveStep
<1>3. CASE Clean
  BY <1>3, CleanStep
<1>4. CASE Begin \/ Advance
  BY <1>4, IterationStep
<1>5. CASE UNCHANGED tableVars
  <2>1. UNCHANGED <<tab, heap, nelem, cursor, dels, puts>>
    BY <1>5 DEF tableVars
  <2>2. TableInv'
    BY <2>1, IterationTable
  <2> QED
    BY <1>5, <2>2 DEF MapNext
<1> QED
  BY <1>1, <1>2, <1>3, <1>4, <1>5 DEF NextTable

LEMMA InitMaps == ASSUME HashTableAssumption, InitTable PROVE M!Init
<1>1. TableInv
  BY InitChained
<1>2. MapView
  BY <1>1, MapViewHolds DEF TableState
<1>3. DOMAIN heap = {} /\ nelem = 0 /\ cursor = Null /\ dels = [o \in Objects |-> 0]
  BY DEF InitTable
<1>4. Contents = [k \in {} |-> 0]
  <2>1. DOMAIN Contents = {}
    BY <1>2, <1>3 DEF MapView, KeysOf
  <2>2. Contents = [j \in DOMAIN Contents |-> Contents[j]]
    BY <1>2 DEF MapView
  <2>3. PICK c : c = Contents
    OBVIOUS
  <2>4. DOMAIN c = {} /\ c = [j \in DOMAIN c |-> c[j]]
    BY <2>1, <2>2, <2>3
  <2> QED
    BY <2>3, <2>4
<1>5. KeysAhead = {}
  BY <1>2, <1>3 DEF MapView
<1>6. Destroyed = {}
  BY <1>3 DEF Destroyed
<1> QED
  BY <1>3, <1>4, <1>5, <1>6 DEF M!Init

\* In every behaviour of the table its chains are lists that end and hold each entry once,
\* an entry points only to entries that are allocated, and no object in it was destroyed.
THEOREM TableInvariant == ASSUME HashTableAssumption PROVE SpecTable => []TableInv
<1>1. InitTable => TableInv
  BY InitChained
<1>2. TableInv /\ [NextTable]_tableVars => TableInv'
  BY TableStep
<1> QED
  BY <1>1, <1>2, PTL DEF SpecTable

\* Its types are part of the invariant.
LEMMA TableTypes == ASSUME HashTableAssumption, TableInv PROVE TableTypeOK
<1>1. nelem \in 0..MaxPuts /\ puts \in 0..MaxPuts
  BY HeapFacts DEF TableInv, HeapInv
<1>2. ASSUME NEW e \in DOMAIN heap
      PROVE  /\ heap[e].key \in Keys
             /\ heap[e].object \in Objects
             /\ {heap[e].next, heap[e].prev} \subseteq DOMAIN heap \cup {Null}
  <2>1. heap[e] \in EntryType(DOMAIN heap) /\ MaxPuts \in Nat
    BY DEF TableInv, HeapInv, HashTableAssumption
  <2> QED
    BY <1>1, <2>1 DEF EntryType, Objects
<1> QED
  BY <1>1, <1>2 DEF TableInv, HeapInv, TableTypeOK

\* The table of zc_hashtable.c implements Map: get finds what was put last under a key,
\* an object is destroyed once, when it leaves, the count is right, and an iteration
\* visits every key once, whatever keys share a slot and whichever calloc fails.
THEOREM TableIsMap == ASSUME HashTableAssumption PROVE SpecTable => ImplementsMap
<1>1. InitTable => M!Init
  BY InitMaps
<1>2. TableInv /\ [NextTable]_tableVars
        => [MapNext]_tableVars
  BY TableStep
<1> QED
  BY <1>1, <1>2, TableInvariant, PTL DEF SpecTable, ImplementsMap
=============================================================================
