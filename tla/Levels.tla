-------------------------------- MODULE Levels --------------------------------
(***************************************************************************)
(* The levels of zlog: the list of the levels of a configuration, in an    *)
(* array that grows (level.c, level_list.c, zc_arraylist.c), and the bitmap *)
(* of a rule and of a category, which decides before a message is made     *)
(* what the rules decide again after it (rule.c, category.c).              *)
(*                                                                         *)
(* A byte, and an int, is the set of the bits that are on in it.           *)
(*                                                                         *)
(* A definition marked Mutant is not part of the specification: it is a    *)
(* definition with a bug that a property has to notice.                    *)
(***************************************************************************)
EXTENDS Integers, Sequences, FiniteSets, FiniteSetsExt

CONSTANTS
  ARRAY_LIST_DEFAULT_SIZE,
  DefaultLevels, \* sequence of <<name, level>>: zlog_level_list_set_default
  LevelLines, \* lines of [levels], as <<name, level>>
  Selectors, \* selectors of rules, as <<compare_char, level name>>
  MaxLines,  \* bound: lines of [levels]
  MaxFits,   \* bound: rules that match the category
  None

LevelsAssumption ==
  /\ ARRAY_LIST_DEFAULT_SIZE \in Nat \ {0}
  /\ \A i \in DOMAIN DefaultLevels : DefaultLevels[i][2] \in 0..255
  /\ \A line \in LevelLines : line[1] # None /\ line[2] \in Int
  /\ \A s \in Selectors : s[1] \in {"=", "!", "*", "."}
  /\ MaxLines \in Nat /\ MaxFits \in Nat

VARIABLES
  levels,  \* the array list: size, len and array; history: inside
  bitmap,  \* level_bitmap of a category
  fit,     \* its fit_rules: compare_char and level
  defined, \* history: the name last given to each level
  nlines   \* counted for MaxLines

levelVars == <<levels, bitmap, fit, defined, nlines>>

Numbers == 0..255

-----------------------------------------------------------------------------
(* zc_arraylist.c.  History: inside, whether every write was in the array.  *)

ListNew(size) ==
  [size |-> size, len |-> 0, array |-> [i \in 0..size - 1 |-> None], inside |-> TRUE]

\* The NULL before there is one.
NoList == ListNew(0)

\* zc_arraylist_expand_inner
Expand(list, max) ==
  LET size == Max({list.size * 2, max}) IN
  [list EXCEPT !.size = size,
               !.array = [i \in 0..size - 1 |-> IF i \in DOMAIN @ THEN @[i] ELSE None]]

\* zc_arraylist_set
ListSet(list, idx, data) ==
  LET l == IF idx > list.size - 1 THEN Expand(list, idx) ELSE list IN
  [l EXCEPT !.array = [i \in DOMAIN @ |-> IF i = idx THEN data ELSE @[i]],
            !.len = Max({@, idx + 1}),
            !.inside = @ /\ idx \in DOMAIN l.array]

\* The macro zc_arraylist_get.
ListGet(list, i) == IF i >= list.len THEN None ELSE list.array[i]

-----------------------------------------------------------------------------
(* level.c, level_list.c                                                   *)

\* zlog_level_new accepts the number.
LevelValid(line) == line[2] >= 0 /\ line[2] <= 255

\* zlog_level_list_set of a valid line.
LevelSet(list, line) == ListSet(list, line[2], line[1])

\* zlog_level_list_new
LevelListNew ==
  LET f[i \in 0..Len(DefaultLevels)] ==
        IF i = 0 THEN ListNew(ARRAY_LIST_DEFAULT_SIZE)
        ELSE LevelSet(f[i - 1], DefaultLevels[i])
  IN f[Len(DefaultLevels)]

\* The names zlog_level_list_set_default gives.
DefaultNames ==
  [l \in {DefaultLevels[i][2] : i \in DOMAIN DefaultLevels} |->
     CHOOSE name \in {DefaultLevels[i][1] : i \in DOMAIN DefaultLevels} :
       \E i \in DOMAIN DefaultLevels : DefaultLevels[i] = <<name, l>>]

Names ==
  {DefaultLevels[i][1] : i \in DOMAIN DefaultLevels} \cup {line[1] : line \in LevelLines}

RoomForAll(list) ==
  /\ list \in [size : Nat, len : {256}, array : [0..list.size - 1 -> Names \cup {None}],
               inside : {TRUE}]
  /\ list.size >= 256

\* What the proofs take of the default levels, which TLC computes for them: they
\* make room for all levels without a write outside the array.
DefaultLevelsAssumption ==
  LET list == LevelListNew IN
  /\ RoomForAll(list)
  /\ DOMAIN DefaultNames \subseteq Numbers /\ 254 \in DOMAIN DefaultNames
  /\ \A l \in Numbers :
       IF l \in DOMAIN DefaultNames
         THEN list.array[l] = DefaultNames[l] /\ list.array[l] # None
         ELSE list.array[l] = None

\* zlog_level_list_get
LevelGet(l) ==
  IF ListGet(levels, l) # None THEN ListGet(levels, l) ELSE ListGet(levels, 254)

\* zlog_level_list_atoi: the first of that name.
LevelAtoi(name) ==
  LET found == {i \in 0..levels.len - 1 : ListGet(levels, i) = name} IN
  IF found = {} THEN -1 ELSE Min(found)

-----------------------------------------------------------------------------
(* Bitmaps                                                                 *)

\* The quotient and the remainder of C, rounded towards zero.
Quot(a, b) == IF a >= 0 THEN a \div b ELSE -((-a) \div b)
Rem(a, b) == a - b * Quot(a, b)

Byte == 0..7
Bytes(set) == [i \in 0..31 |-> set]

\* 1 << (7 - level % 8)
Bit(level) == {7 - Rem(level, 8)}

\* Mutant: ~(0xFF << (7 - level % 8)), which leaves the level itself out.
FromNext(level) == 0..31 \ (7 - Rem(level, 8)..7 - Rem(level, 8) + 7)

\* ~(0xFF << (8 - level % 8))
From(level) == 0..31 \ (8 - Rem(level, 8)..8 - Rem(level, 8) + 7)

\* The switch over compare_char of zlog_rule_new.
LevelBitmap(cmp, level) ==
  LET own == Quot(level, 8) IN
  CASE cmp = "=" -> [Bytes({}) EXCEPT ![own] = (@ \cup Bit(level)) \cap Byte]
    [] cmp = "!" -> [Bytes(Byte) EXCEPT ![own] = @ \ Bit(level)]
    [] cmp = "*" -> Bytes(Byte)
    [] cmp = "." -> [i \in 0..31 |-> IF i < own THEN {}
                                     ELSE IF i = own THEN From(level) \cap Byte
                                     ELSE Byte]

\* zlog_cateogry_overlap_bitmap
Overlap(one, other) == [i \in 0..31 |-> one[i] \cup other[i]]

\* zlog_category_needless_level
Needless(l) == (7 - (l % 8)) \notin bitmap[l \div 8]

\* zlog_rule_output calls the output.
RuleOutput(rule, l) ==
  CASE rule.cmp = "*" -> TRUE
    [] rule.cmp = "." -> l >= rule.level
    [] rule.cmp = "=" -> l = rule.level
    [] rule.cmp = "!" -> l # rule.level

-----------------------------------------------------------------------------
InitLevels ==
  /\ levels = NoList
  /\ bitmap = Bytes({})
  /\ fit = <<>>
  /\ defined = DefaultNames
  /\ nlines = 0

\* zlog_conf_new makes the list of levels before it reads a line.
MakeLevels ==
  /\ levels = NoList
  /\ levels' = LevelListNew
  /\ UNCHANGED <<bitmap, fit, defined, nlines>>

\* A line of [levels], which comes before [rules].
LevelLine(line) ==
  /\ levels # NoList
  /\ fit = <<>>
  /\ nlines < MaxLines
  /\ nlines' = nlines + 1
  /\ IF LevelValid(line)
       THEN /\ levels' = LevelSet(levels, line)
            /\ defined' = [l \in DOMAIN defined \cup {line[2]} |->
                             IF l = line[2] THEN line[1] ELSE defined[l]]
       ELSE UNCHANGED <<levels, defined>>
  /\ UNCHANGED <<bitmap, fit>>

\* A rule, which zlog_category_obtain_rules finds to match.
AddRule(cmp, name) ==
  LET level == LevelAtoi(name) IN
  /\ levels # NoList
  /\ Len(fit) < MaxFits
  /\ fit' = Append(fit, [cmp |-> cmp, level |-> level])
  /\ bitmap' = Overlap(bitmap, LevelBitmap(cmp, level))
  /\ UNCHANGED <<levels, defined, nlines>>

NextLevels ==
  \/ MakeLevels
  \/ \E line \in LevelLines : LevelLine(line)
  \/ \E s \in Selectors : AddRule(s[1], s[2])

SpecLevels == InitLevels /\ [][NextLevels]_levelVars

-----------------------------------------------------------------------------
(* Properties                                                              *)

\* The variables have their types.
LevelsTypeOK ==
  /\ levels # NoList => RoomForAll(levels)
  /\ bitmap \in [0..31 -> SUBSET Byte]
  /\ \A i \in DOMAIN fit : fit[i].level \in -1..255
  /\ nlines \in 0..MaxLines

\* zlog: every level has its last name and every other the name of level 254,
\* from an array that is never written outside; and the bitmap of a category
\* lets a message pass exactly when one of its rules will put it out, whatever
\* the level of a rule is, the -1 of an unknown name included.
LevelsExact == levels # NoList =>
  /\ levels.inside
  /\ \A l \in Numbers : LevelGet(l) = defined[IF l \in DOMAIN defined THEN l ELSE 254]
  /\ \A l \in Numbers : Needless(l) <=> \A i \in DOMAIN fit : ~RuleOutput(fit[i], l)
=============================================================================
