------------------------------ MODULE FallbackOrder ------------------------------
(***************************************************************************)
(* Which font a character falls back to in Chromium, made to be the one    *)
(* Windows falls back to.  A build that links fontconfig has the set it    *)
(* sorted put in order and each question about a font's coverage answered  *)
(* (src/chromium/fallback_order.cpp); a build with fontconfig compiled in  *)
(* is served a configuration of rules (static_fontconfig.cpp) and asks by  *)
(* a locale that names one of them (fallback_hook.cpp).                    *)
(*                                                                         *)
(* A name is a string spelled in one way, a charset is the set of          *)
(* characters it holds (fontconfig keeps one for each coverage), a locale  *)
(* is its subtags in lower case and what stands between them.              *)
(***************************************************************************)
EXTENDS Integers, Sequences, FiniteSets
LOCAL INSTANCE SequencesExt
LOCAL INSTANCE FiniteSetsExt

CONSTANTS
    Scripts,            \* rows [first, last, families]
    HanLists,           \* the families of "traditional", "simplified", "japanese", "korean" Han
    Latin,              \* the family of Latin, Greek and Cyrillic
    DWriteRows,         \* rows [first, last, family, front, ahead]
    CommonLastResort, CommonWalkOrder, CjkLastResort,
    Shipped,            \* the families that come with Windows
    Bopomofo,           \* the characters asked twice
    Twins,              \* the two families that share their coverage: the one asked for, and its UI
    MaxKnown            \* how many names of charsets are remembered

NoName == "no name"
NoCharset == {}           \* of a face that tells none
NoLocale == [tags |-> <<>>, sep |-> "-"]

\* the first of a list that passes, or NoName
FirstOf(list, Test(_)) ==
    LET i == SelectInSeq(list, Test) IN IF i = 0 THEN NoName ELSE list[i]

----------------------------------------------------------------------------
(* The tables *)

\* what each subtag says of Han
ScriptChoices == [hant |-> "traditional", hans |-> "simplified", jpan |-> "japanese",
                  kana |-> "japanese", hira |-> "japanese", kore |-> "korean", hang |-> "korean"]
RegionChoices == [hk |-> "traditional", mo |-> "traditional", tw |-> "traditional",
                  jp |-> "japanese", kr |-> "korean"]

\* a script anywhere, then the language, then a region
HanForLocale(locale) ==
    LET subtags == IF locale.tags = <<>> THEN <<>> ELSE Tail(locale.tags)
        script == FirstOf(subtags, LAMBDA s : s \in DOMAIN ScriptChoices)
        region == FirstOf(subtags, LAMBDA s : s \in DOMAIN RegionChoices)
    IN  IF script # NoName THEN ScriptChoices[script]
        ELSE IF locale.tags # <<>> /\ locale.tags[1] = "ja" THEN "japanese"
        ELSE IF locale.tags # <<>> /\ locale.tags[1] = "ko" THEN "korean"
        ELSE IF region # NoName THEN RegionChoices[region]
        ELSE NoName

\* LC_ALL before LC_CTYPE before LANG, an empty one counting as none
SystemHan(env) ==
    LET i == SelectInSeq(env, LAMBDA l : l # NoLocale)
    IN  HanForLocale(IF i = 0 THEN NoLocale ELSE env[i])

HanForSort(locale, env) ==
    IF HanForLocale(locale) # NoName THEN HanForLocale(locale) ELSE SystemHan(env)

HanCandidates(locale, env) ==
    IF HanForSort(locale, env) = NoName THEN <<>> ELSE HanLists[HanForSort(locale, env)]

RowOf(rows, c) == SelectInSeq(rows, LAMBDA r : r.first <= c /\ c <= r.last)

\* the families of a character's script; Han's and Latin's are in front of the sorted set
ScriptFor(c) ==
    LET row == RowOf(Scripts, c)
    IN  IF row = 0 THEN [families |-> <<>>, by_set_order |-> FALSE]
        ELSE IF Scripts[row].families \in {HanLists["simplified"], <<Latin>>}
        THEN [families |-> <<>>, by_set_order |-> TRUE]
        ELSE [families |-> Scripts[row].families, by_set_order |-> FALSE]

SetOrderFront(c) ==
    LET row == RowOf(Scripts, c)
    IN  IF row # 0 /\ Scripts[row].families = <<Latin>> THEN Latin ELSE NoName

DWriteRowFor(c) == RowOf(DWriteRows, c)

----------------------------------------------------------------------------
(* A set that fontconfig sorted: fonts [families, charset] *)

\* what is known of charsets: pairs [charset, family], the oldest first, and never more than fit
Remember(known, charset, family) ==
    LET pair == [charset |-> charset, family |-> family]
    IN  IF \/ charset = NoCharset \/ pair \in Range(known)
           \/ Len(known) >= MaxKnown
        THEN known ELSE Append(known, pair)

FamilyOf(known, charset) ==
    LET i == SelectInSeq(known, LAMBDA k : k.charset = charset)
    IN  IF i = 0 THEN NoName ELSE known[i].family

HasFamily(known, charset, family) == [charset |-> charset, family |-> family] \in Range(known)

CharSetOfFamily(known, family) ==
    LET i == SelectInSeq(known, LAMBDA k : k.family = family)
    IN  IF i = 0 THEN NoCharset ELSE known[i].charset

PatternHasFamily(font, family) == family \in Range(font.families)

\* the fonts of one family move up to `front`, in the order they had; order is [set, front]
MoveToFront(order, family) ==
    LET rest == SubSeq(order.set, order.front + 1, Len(order.set))
        moved == SelectSeq(rest, LAMBDA f : PatternHasFamily(f, family))
        stay == SelectSeq(rest, LAMBDA f : ~PatternHasFamily(f, family))
    IN  [set |-> SubSeq(order.set, 1, order.front) \o moved \o stay,
         front |-> order.front + Len(moved)]

SetHasFamily(set, family) == \E f \in Range(set) : PatternHasFamily(f, family)

\* Latin's family, Han's in the run's language, the last resorts, and what DirectWrite answers
OrderForHan(pattern, set, env) ==
    LET han == HanCandidates(pattern.lang, env)
        unsettled == HanForSort(pattern.lang, env) = NoName
        first == FirstOf(IF unsettled THEN HanLists["simplified"] ELSE han,
                         LAMBDA f : f \in Shipped /\ SetHasFamily(set, f))
        last == IF unsettled THEN CjkLastResort ELSE CommonLastResort
        fronted == SelectSeq(DWriteRows, LAMBDA r : r.front # NoName /\ r.family # NoName)
        behind == last \o [i \in DOMAIN fronted |-> fronted[i].family]
        fronts == <<Latin>> \o (IF first = NoName THEN <<>> ELSE <<first>>)
                    \o SelectSeq(behind, LAMBDA f : f \in Shipped)
    IN  IF pattern.wrapper THEN set
        ELSE FoldLeft(MoveToFront, [set |-> set, front |-> 0], fronts).set

\* what is known afterwards, and the set in its order
NoteFontSet(known, pattern, set, env) ==
    LET note(k, font) == FoldLeft(LAMBDA m, f : Remember(m, font.charset, f), k, font.families)
    IN  IF Len(set) <= 1 THEN [known |-> known, set |-> set]
        ELSE [known |-> FoldLeft(note, known, set), set |-> OrderForHan(pattern, set, env)]

----------------------------------------------------------------------------
(* Whether a font has a character, as the walk over the set is told *)

\* the first shipped family of a script's list that some sort turned up
Candidate(known, families) ==
    FirstOf(families, LAMBDA f : f \in Shipped /\ CharSetOfFamily(known, f) # NoCharset)

Covers(known, family, c) ==
    CharSetOfFamily(known, family) # NoCharset /\ c \in CharSetOfFamily(known, family)

\* a family of another row's is not this one's answer
OthersAnswer(known, charset, c) ==
    /\ DWriteRowFor(c) # 0
    /\ \E i \in DOMAIN DWriteRows :
           LET r == DWriteRows[i]
           IN  /\ r.front # NoName /\ r.family # NoName
               /\ ~(r.first <= c /\ c <= r.last)
               /\ r.family = FamilyOf(known, charset)

\* the one family that may answer for a character with a script of its own, or NoName for any
Named(known, c) ==
    LET script == Candidate(known, ScriptFor(c).families)
        list == FirstOf(CommonWalkOrder, LAMBDA f : f \in Shipped /\ Covers(known, f, c))
        row == SelectInSeq(DWriteRows,
                   LAMBDA r : r.first <= c /\ c <= r.last /\ r.family # NoName)
        measured == IF row = 0 THEN NoName ELSE DWriteRows[row].family
    IN  IF script # NoName /\ Covers(known, script, c) THEN script
        ELSE IF list # NoName THEN list
        ELSE IF measured \in Shipped /\ Covers(known, measured, c) THEN measured
        ELSE NoName

\* seen is a thread's: the character last asked twice for, and the charsets declined for it
FcCharSetHasChar(known, seen, charset, c) ==
    LET gated == /\ c \in charset /\ c \in Bopomofo
                 /\ \A f \in Twins : HasFamily(known, charset, f)
        now == IF seen.char = c THEN seen.declined ELSE {}
        answer ==
            IF c \notin charset THEN FALSE
            ELSE IF FamilyOf(known, charset) = NoName THEN TRUE
            ELSE IF ScriptFor(c).by_set_order THEN ~OthersAnswer(known, charset, c)
            ELSE Named(known, c) # NoName => HasFamily(known, charset, Named(known, c))
    IN  IF ~gated THEN [answer |-> answer, seen |-> seen]
        ELSE IF charset \in now THEN [answer |-> answer, seen |-> [char |-> c, declined |-> now]]
        ELSE [answer |-> FALSE,
              seen |-> [char |-> c,
                        declined |-> IF Cardinality(now) < 8 THEN now \cup {charset} ELSE now]]

NoneSeen == [char |-> 0, declined |-> {}]

\* Chromium takes the first font of a set that has the character; 0 when none does
FontForChar(known, seen, set, c) ==
    LET look(found, i) ==
            IF found.at # 0 \/ set[i].charset = NoCharset THEN found
            ELSE LET r == FcCharSetHasChar(known, found.seen, set[i].charset, c)
                 IN  [at |-> IF r.answer THEN i ELSE 0, seen |-> r.seen]
    IN  FoldLeftDomain(look, [at |-> 0, seen |-> seen], set)
===============================================================================
