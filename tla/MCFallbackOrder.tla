----------------------------- MODULE MCFallbackOrder -----------------------------
(***************************************************************************)
(* The tables of the code for FallbackOrder and StaticFallback, a few      *)
(* characters of each kind, machines with a few families each, and what    *)
(* the two routes should answer on them, evaluated over them all.          *)
(***************************************************************************)
EXTENDS Integers, Sequences, FiniteSets
LOCAL INSTANCE SequencesExt
LOCAL INSTANCE FiniteSetsExt
LOCAL INSTANCE Functions
LOCAL INSTANCE TLC

\* 1 an A, 2 Cyrillic, 3 a Latin letter that Times New Roman lacks, 4 U+A640, 5 Arabic,
\* 6 Georgian, 7 U+1C90, 8 Hangul, 9 Katakana, 10 U+FF70, 11 Bopomofo, 12 U+2E80, 13 U+3000,
\* 14 U+4E00, 15 U+F900, 16 U+FE32, 17 a symbol of no script, 18 a C1 control, 19 U+2588
FoChars == 1 .. 19
FoLatin == 1 .. 4
FoHan == 12 .. 15

FoKana == <<"Noto Sans JP", "Noto Sans CJK JP", "Meiryo", "Yu Gothic", "MS PGothic",
            "Microsoft YaHei">>
FoTraditional == <<"Noto Sans TC", "Noto Sans CJK TC", "Microsoft JhengHei", "pmingli">>
FoSimplified == <<"Noto Sans SC", "Noto Sans CJK SC", "Microsoft YaHei", "SimSun">>
FoHangul == <<"Noto Sans KR", "Noto Sans CJK KR", "Malgun Gothic", "Gulim">>
FoGeorgian == <<"Sylfaen", "Segoe UI">>

FoRow(first, last, families) == [first |-> first, last |-> last, families |-> families]

FoScripts ==
    << FoRow(19, 19, <<"Lucida Sans Unicode", "MS PGothic">>),
       FoRow(5, 5, <<"Tahoma", "Segoe UI">>), FoRow(6, 6, FoGeorgian), FoRow(7, 7, FoGeorgian),
       FoRow(8, 8, FoHangul), FoRow(10, 10, FoKana), FoRow(11, 11, FoTraditional),
       FoRow(9, 9, FoKana), FoRow(14, 14, FoSimplified), FoRow(15, 15, FoSimplified),
       FoRow(1, 3, <<"Times New Roman">>), FoRow(12, 12, FoSimplified),
       FoRow(13, 13, FoSimplified), FoRow(4, 4, <<"Times New Roman">>) >>

FoHanLists == [traditional |-> FoTraditional, simplified |-> FoSimplified,
               japanese |-> FoKana, korean |-> FoHangul]

FoDWriteRow(c, family, front, ahead) ==
    [first |-> c, last |-> c, family |-> family, front |-> front, ahead |-> ahead]

FoDWriteRows ==
    << FoDWriteRow(16, "Microsoft JhengHei UI", "no name", FALSE),
       FoDWriteRow(10, "MS PGothic", "no name", TRUE),
       FoDWriteRow(7, "Segoe UI", "no name", FALSE),
       FoDWriteRow(4, "Microsoft Sans Serif", "no name", FALSE),
       FoDWriteRow(12, "Yu Gothic UI", "Microsoft YaHei", FALSE),
       FoDWriteRow(13, "no name", "Microsoft YaHei", FALSE),
       FoDWriteRow(15, "Microsoft JhengHei UI", "Microsoft YaHei", FALSE) >>

FoCjkLastResort == <<"arial unicode ms", "MS PGothic", "SimSun", "Gulim", "pmingliu">>
FoCommonLastResort ==
    <<"Tahoma", "arial unicode ms", "Lucida Sans Unicode", "Microsoft Sans Serif",
      "Palatino Linotype", "MS PGothic", "SimSun", "Gulim">>
FoCommonWalkOrder ==
    <<"Lucida Sans Unicode", "arial unicode ms", "Tahoma", "Microsoft Sans Serif",
      "Palatino Linotype", "MS PGothic", "SimSun", "Gulim">>

\* what each family covers; the last one is of no Windows
FoCovers == [
    TNR |-> {1, 2, 4}, Tahoma |-> {1, 2, 3, 5, 17}, Lucida |-> {1, 2, 17, 19},
    MSS |-> {1, 2, 4, 5}, Palatino |-> {1, 2, 3, 17}, Segoe |-> {1, 2, 3, 5, 6, 7},
    Sylfaen |-> {1, 2, 6}, Malgun |-> {1, 2, 8, 9, 13, 14}, Yu |-> {1, 2, 9, 10, 13, 14},
    YuUI |-> {1, 2, 9, 10, 12, 13, 14}, PGothic |-> {1, 9, 10, 13, 14, 19},
    JhengHei |-> {1, 11, 13, 14, 15, 16}, JhengHeiUI |-> {1, 11, 13, 14, 15, 16},
    YaHei |-> {1, 2, 3, 9, 10, 12, 13, 14}, SimSun |-> {1, 2, 13, 14, 15},
    Noto |-> FoChars \ {18} ]

FoName == [
    TNR |-> "Times New Roman", Tahoma |-> "Tahoma", Lucida |-> "Lucida Sans Unicode",
    MSS |-> "Microsoft Sans Serif", Palatino |-> "Palatino Linotype", Segoe |-> "Segoe UI",
    Sylfaen |-> "Sylfaen", Malgun |-> "Malgun Gothic", Yu |-> "Yu Gothic",
    YuUI |-> "Yu Gothic UI", PGothic |-> "MS PGothic", JhengHei |-> "Microsoft JhengHei",
    JhengHeiUI |-> "Microsoft JhengHei UI", YaHei |-> "Microsoft YaHei", SimSun |-> "SimSun",
    Noto |-> "Noto Sans CJK JP" ]

FoShipped == { FoName[f] : f \in DOMAIN FoName \ {"Noto"} }

FoAlphabet ==
    <<"Lucida Sans Unicode", "MS PGothic", "Malgun Gothic", "Microsoft JhengHei",
      "Microsoft JhengHei UI", "Microsoft Sans Serif", "Microsoft YaHei", "Segoe UI", "SimSun",
      "Sylfaen", "Tahoma", "Times New Roman", "Yu Gothic", "Yu Gothic UI">>

Fallback == INSTANCE StaticFallback WITH
    Scripts <- FoScripts, HanLists <- FoHanLists, Latin <- "Times New Roman",
    DWriteRows <- FoDWriteRows, CommonLastResort <- FoCommonLastResort,
    CommonWalkOrder <- FoCommonWalkOrder, CjkLastResort <- FoCjkLastResort,
    Shipped <- FoShipped, Bopomofo <- {11},
    Twins <- {"Microsoft JhengHei", "Microsoft JhengHei UI"}, MaxKnown <- 40,
    Unclaimed <- {18}, Longer <- {<<"kok", "ko">>, <<"jav", "ja">>}, Alphabet <- FoAlphabet

\* locales as they are written, and an environment that names none
FoLocale(tags) == [tags |-> tags, sep |-> "-"]
FoNone == <<Fallback!NoLocale, Fallback!NoLocale, Fallback!NoLocale>>
FoEnglish == <<Fallback!NoLocale, Fallback!NoLocale, [tags |-> <<"en", "us">>, sep |-> "_"]>>
FoLocales == { FoLocale(<<"en">>), FoLocale(<<"ja">>), FoLocale(<<"ko", "kr">>),
               FoLocale(<<"zh", "tw">>), FoLocale(<<"zh", "hans">>), FoLocale(<<"ja", "hang">>) }

\* a machine is a sequence of families, in the order in which a sort has them
FoInstalled(machine) ==
    [f \in { FoName[g] : g \in Range(machine) } |->
        UNION { FoCovers[g] : g \in { g \in Range(machine) : FoName[g] = f } }]

FoMachines ==
    { <<"TNR", "YaHei", "JhengHei", "Yu", "PGothic">>, <<"Tahoma", "Sylfaen", "Segoe", "MSS">>,
      <<"Noto", "TNR", "Lucida", "MSS", "JhengHei">>, <<"Malgun", "YuUI", "SimSun", "YaHei">>,
      <<"Palatino", "JhengHeiUI", "Segoe", "PGothic">> }

\* a machine's families as a sort may have them
FoOrders(machine) ==
    LET n == Len(machine)
        turned(k) == SubSeq(machine, k + 1, n) \o SubSeq(machine, 1, k)
    IN  { turned(k) : k \in 0 .. n - 1 } \cup { Reverse(turned(k)) : k \in 0 .. n - 1 }

----------------------------------------------------------------------------
(* What Windows answers, from the order the comments give: the script's    *)
(* family, which is the first that is there whether or not it covers, then *)
(* the list, then DirectWrite; "no name" when they settle nothing          *)

FoWindows(installed, locale, env, c) ==
    LET there(f) == f \in FoShipped /\ f \in DOMAIN installed
        han == Fallback!HanForSort(locale, env)
        families ==
            LET row == SelectInSeq(FoScripts, LAMBDA r : r.first <= c /\ c <= r.last)
            IN  IF row = 0 THEN <<>>
                ELSE IF c \notin FoHan THEN FoScripts[row].families
                ELSE FoHanLists[IF han = "no name" THEN "simplified" ELSE han]
        script == SelectSeq(families, there)
        list == IF c \in FoHan /\ han = "no name" THEN FoCjkLastResort ELSE FoCommonWalkOrder
        rows == SelectSeq(FoDWriteRows, LAMBDA r : r.first = c)
        measured == IF rows = <<>> THEN <<>> ELSE <<rows[1].family>>
        ahead == rows # <<>> /\ rows[1].ahead
        chain == (IF ahead THEN measured ELSE <<>>)
                     \o (IF script = <<>> THEN <<>> ELSE <<script[1]>>) \o list \o measured
    IN  Fallback!FirstOf(chain, LAMBDA f : there(f) /\ c \in installed[f])

\* what the two routes answer: a set that was sorted and walked, and a tag with its families
FoSorted(order) ==
    [i \in DOMAIN order |->
        [families |-> <<FoName[order[i]]>>, charset |-> FoCovers[order[i]]]] \o <<>>

FoWalk(noted, c) ==
    LET at == Fallback!FontForChar(noted.known, Fallback!NoneSeen, noted.set, c).at
    IN  IF at = 0 THEN "no name" ELSE noted.set[at].families[1]

FoNoted(order, locale, env) ==
    Fallback!NoteFontSet(<<>>, [lang |-> locale, wrapper |-> FALSE], FoSorted(order), env)

FoTagged(installed, locale, env) ==
    LET have == Fallback!Survey(installed)
        order == Fallback!Order(have)
        blocks == Fallback!Blocks(have, order, env)
    IN  [c \in FoChars |->
            Fallback!FirstOf(
                Fallback!FamiliesOf(blocks, Fallback!Hook(order, env, locale, c), locale),
                LAMBDA f : c \in installed[f])]


\* Wherever Windows has an answer, the walk over the sorted set comes to it, whichever order the
\* sort had its fonts in: but for the marks that MS PGothic answers ahead of the list, and for Latin
\* that Times New Roman is not there for or lacks.
ASSUME WhicheverSortAnswers ==
    \A machine \in FoMachines, locale \in FoLocales :
        LET installed == FoInstalled(machine)
            windows == [c \in FoChars |-> FoWindows(installed, locale, FoEnglish, c)]
        IN  \A order \in FoOrders(machine) :
                LET noted == FoNoted(order, locale, FoEnglish)
                IN  \A c \in FoChars \ {10} :
                        \/ windows[c] = "no name"
                        \/ c \in FoLatin /\ windows[c] # "Times New Roman"
                        \/ FoWalk(noted, c) = windows[c]

\* Those two are real: a mark comes from Yu Gothic, and a Latin letter from a family of Han, or from
\* whatever the sort had first.
ASSUME WhatTheSetDoesNotSay ==
    LET marks == <<"TNR", "YaHei", "JhengHei", "Yu", "PGothic">>
        bare == <<"Tahoma", "Sylfaen", "Segoe", "MSS">>
        english == FoLocale(<<"en">>)
    IN  /\ FoWindows(FoInstalled(marks), english, FoEnglish, 10) = "MS PGothic"
        /\ FoWalk(FoNoted(marks, english, FoEnglish), 10) = "Yu Gothic"
        /\ FoTagged(FoInstalled(marks), english, FoEnglish)[10] = "MS PGothic"
        /\ FoWindows(FoInstalled(bare), english, FoEnglish, 3) = "Tahoma"
        /\ { FoWalk(FoNoted(order, english, FoEnglish), 3) : order \in FoOrders(bare) }
               = {"Tahoma", "Segoe UI"}
        /\ FoWalk(FoNoted(<<"Tahoma", "YaHei">>, FoLocale(<<"zh", "hans">>), FoEnglish), 3)
               = "Microsoft YaHei"

\* What earlier sorts turned up changes no answer while the families are the same; a family that is
\* there no longer still answers for its script, which means that none does.
ASSUME EarlierSorts ==
    /\ \A machine \in FoMachines : \A order \in FoOrders(machine) :
           LET locale == FoLocale(<<"ja">>)
               fresh == FoNoted(order, locale, FoEnglish)
               earlier == FoNoted(machine, FoLocale(<<"ko", "kr">>), FoEnglish).known
               later == Fallback!NoteFontSet(earlier, [lang |-> locale, wrapper |-> FALSE],
                                             FoSorted(order), FoEnglish)
           IN  /\ later.set = fresh.set
               /\ Range(later.known) = Range(fresh.known)
               /\ \A c \in FoChars : FoWalk(later, c) = FoWalk(fresh, c)
    /\ LET locale == FoLocale(<<"en">>)
           earlier == FoNoted(<<"Tahoma", "Sylfaen", "Segoe">>, locale, FoEnglish).known
           later == Fallback!NoteFontSet(earlier, [lang |-> locale, wrapper |-> FALSE],
                                         FoSorted(<<"Tahoma", "Segoe">>), FoEnglish)
       IN  FoWalk(FoNoted(<<"Tahoma", "Segoe">>, locale, FoEnglish), 6) = "Segoe UI"
           /\ FoWalk(later, 6) = "no name"

\* One coverage and two families: the first of the two that the walk meets is passed over.  The one
\* with UI is in front, whatever the sort did, and the other answers, until the run's own Han family
\* is that other one.  A walk for the same character straight afterwards passes nothing over.
ASSUME BopomofoTwins ==
    LET orders == FoOrders(<<"TNR", "JhengHeiUI", "JhengHei">>)
        walk(order, locale, seen) ==
            LET noted == FoNoted(order, FoLocale(locale), FoEnglish)
                found == Fallback!FontForChar(noted.known, seen, noted.set, 11)
            IN  [family |-> noted.set[found.at].families[1], seen |-> found.seen]
    IN  \A order \in orders :
            LET once == walk(order, <<"en">>, Fallback!NoneSeen)
            IN  /\ once.family = "Microsoft JhengHei"
                /\ walk(order, <<"en">>, [char |-> 12, declined |-> {}]) = once
                /\ walk(order, <<"en">>, once.seen).family = "Microsoft JhengHei UI"
                /\ walk(order, <<"zh", "tw">>, Fallback!NoneSeen).family = "Microsoft JhengHei UI"

----------------------------------------------------------------------------
(* The blocks of rules *)

\* Wherever Windows has an answer, the tag of the character has it first, but where the survey does
\* not look, where no family of the run's Han is there, and at U+A640.
ASSUME TheTagAnswers ==
    \A machine \in FoMachines, locale \in FoLocales :
        LET installed == FoInstalled(machine)
            tagged == FoTagged(installed, locale, FoEnglish)
            han == Range(Fallback!HanCandidates(locale, FoEnglish))
        IN  \A c \in FoChars :
                LET windows == FoWindows(installed, locale, FoEnglish, c)
                IN  \/ windows \in {"no name", "Palatino Linotype"}
                    \/ c \in FoHan /\ han # {} /\ han \cap DOMAIN installed \cap FoShipped = {}
                    \/ c = 4
                    \/ tagged[c] = windows

\* Those three are real.  Palatino Linotype is on the list and no table has the survey look for it;
\* a Korean run on a machine without Malgun Gothic has U+3000 from the family of a run that settles
\* nothing; and the block of U+A640 leaves Times New Roman out.
ASSUME WhatNoBlockSays ==
    LET english == FoLocale(<<"en">>)
        korean == FoLocale(<<"ko", "kr">>)
        none == FoInstalled(<<"TNR", "YaHei", "JhengHei", "Yu", "PGothic">>)
        latin == FoInstalled(<<"TNR", "MSS">>)
    IN  /\ FoTagged(FoInstalled(<<"Palatino", "Segoe">>), english, FoEnglish)[17] = "no name"
        /\ FoWindows(none, korean, FoEnglish, 13) = "MS PGothic"
        /\ FoTagged(none, korean, FoEnglish)[13] = "Microsoft YaHei"
        /\ FoWindows(latin, english, FoEnglish, 4) = "Times New Roman"
        /\ FoWalk(FoNoted(<<"MSS", "TNR">>, english, FoEnglish), 4) = "Times New Roman"
        /\ FoTagged(latin, english, FoEnglish)[4] = "Microsoft Sans Serif"

\* Nothing is asked for on behalf of a control, and a tag names a block or comes with one behind it.
ASSUME TagsHaveBlocks ==
    \A machine \in FoMachines, locale \in FoLocales :
        LET have == Fallback!Survey(FoInstalled(machine))
            order == Fallback!Order(have)
            blocks == Fallback!Blocks(have, order, FoEnglish)
            tag == [c \in FoChars |-> Fallback!Hook(order, FoEnglish, locale, c)]
        IN  /\ tag[18] = <<"declined">>
            /\ IsInjective(order) /\ Range(order) = Range(have.families)
            /\ \A c \in FoChars \ {18} : \/ tag[c] \in DOMAIN blocks \cup {<<"locale">>}
                                         \/ tag[c][1] \in {"dw", "dwh"}
            /\ \A t \in DOMAIN blocks : Range(blocks[t]) \subseteq Range(have.families)

\* Of a row whose own family or front the survey missed there is no block by the name that is asked
\* for, and the order of all the families answers instead of the row.
ASSUME AskedByTheOtherName ==
    LET english == FoLocale(<<"en">>)
        have == Fallback!Survey(FoInstalled(<<"TNR", "YuUI", "SimSun">>))
        order == Fallback!Order(have)
        blocks == Fallback!Blocks(have, order, FoEnglish)
    IN  /\ Fallback!Hook(order, FoEnglish, english, 12) = <<"dwh", 5, 0>>
        /\ <<"dwh", 5, 0>> \notin DOMAIN blocks
        /\ <<"dw", 5>> \in DOMAIN blocks

\* A locale is read twice, once for its Han script and once for its place among the languages, and
\* both come to the same, but for these.
ASSUME LocalesReadAlike ==
    LET tags == {<<"en">>, <<"ja">>, <<"ko">>, <<"zh">>, <<"zh", "tw">>, <<"zh", "hk">>,
                 <<"zh", "cn">>, <<"zh", "hant">>, <<"zh", "hans", "tw">>, <<"zh", "hant", "cn">>,
                 <<"ja", "hang">>, <<"en", "jpan">>, <<"ko", "kp">>, <<"ja", "kr">>, <<"en", "jp">>, <<"en", "hk">>,
                 <<"kok">>, <<"jav">>, <<"zh", "yue", "hk">>}
        locales == [tags : tags, sep : {"-", "_"}]
        alike(locale) ==
            LET place == Fallback!HanLocaleIndex(locale)
            IN  Fallback!HanForSort(locale, FoNone)
                    = IF place = 0 THEN "no name"
                      ELSE Fallback!HanForSort(Fallback!LangLocale(place), FoNone)
    IN  { locale \in locales : ~alike(locale) }
            = [tags : {<<"en", "jp">>, <<"en", "hk">>, <<"kok">>, <<"jav">>, <<"zh", "yue", "hk">>},
               sep : {"-", "_"}]
              \cup [tags : {<<"zh", "tw">>, <<"zh", "hk">>}, sep : {"_"}]

----------------------------------------------------------------------------
(* The order of the families *)

FoNodes == <<"Tahoma", "Segoe UI", "Sylfaen">>
FoPairs == { e \in Range(FoNodes) \X Range(FoNodes) : e[1] # e[2] }
FoGraphs == UNION { [edges -> 1 .. 2] : edges \in SUBSET FoPairs }

\* the nodes that can be reached, of which there are three
FoReach(edges, n) ==
    LET next(ns) == { e[2] : e \in { e \in DOMAIN edges : e[1] \in ns } }
        two == next({n}) \cup next(next({n}))
    IN  two \cup next(two)

FoBefore(out, e) ==
    SelectInSeq(out, LAMBDA n : n = e[1]) < SelectInSeq(out, LAMBDA n : n = e[2])

\* Every family is in the order once, and an edge that no cycle leads to is kept.
ASSUME OrderKeepsEdges ==
    \A edges \in FoGraphs :
        LET out == Fallback!TopoSort(FoNodes, edges)
        IN  /\ Len(out) = 3 /\ Range(out) = Range(FoNodes)
            /\ \A e \in DOMAIN edges :
                   \/ FoBefore(out, e)
                   \/ \E n \in Range(FoNodes) :
                          n \in FoReach(edges, n) /\ e[1] \in FoReach(edges, n)

\* An edge that closes no cycle may be dropped for one: it is enough to be behind it and lighter.
ASSUME LighterBehindACycle ==
    LET edges == (<<"Tahoma", "Segoe UI">> :> 2 @@ <<"Segoe UI", "Tahoma">> :> 2
                     @@ <<"Segoe UI", "Sylfaen">> :> 1)
        out == Fallback!TopoSort(FoNodes, edges)
    IN  /\ "Segoe UI" \notin FoReach(edges, "Sylfaen")
        /\ ~FoBefore(out, <<"Segoe UI", "Sylfaen">>)

\* A range is looked at from its first character on, at eight of them or all; of nine to fifteen the
\* last ones are not looked at, and of more never more than seven steps and the rest of one.
ASSUME Samples ==
    \A span \in 1 .. 40 :
        LET s == Fallback!SampleRange(101, 100 + span)
            step == IF span < 16 THEN 1 ELSE span \div 8
        IN  /\ 101 \in s /\ s \subseteq 101 .. 100 + span
            /\ Cardinality(s) = IF span < 8 THEN span ELSE 8
            /\ \A c \in 101 .. 100 + span :
                   \/ \E d \in s : d <= c /\ c - d < step
                   \/ c > 100 + 8 * step

----------------------------------------------------------------------------
(* The collection's answers *)

\* A is 65, a Kana is 12354, a Cyrillic Ya is 1071 and its low byte is 47, an A with a macron is 256
FoPath(dir, file) == <<47>> \o dir \o <<47>> \o file

FoFont(weight, style, oblique, path) ==
    [weight |-> weight, style |-> style, oblique |-> oblique, chars |-> {1, 2},
     files |-> 1, local |-> TRUE, path |-> path]

FoGroup(names, upright, slanted) ==
    [names |-> names,
     matching |-> [w \in {400, 700}, st \in {"normal", "italic"} |->
                      LET f == IF st = "normal" THEN upright ELSE slanted
                      IN  [f EXCEPT !.weight = IF w = 700 THEN 600 ELSE @]]]

\* a family with an italic face, one that slants its upright one, one whose Kana name is first, one
\* of several files and one that no local file has
FoCollection ==
    LET plain == FoFont(400, "normal", FALSE, FoPath(<<102>>, <<65, 46>>))
        kana == FoFont(400, "normal", FALSE, FoPath(<<102>>, <<66, 46>>))
    IN  << FoGroup(<<<<65>>>>, plain, [plain EXCEPT !.style = "italic"]),
           FoGroup(<<<<66>>>>, plain, [plain EXCEPT !.style = "oblique", !.oblique = TRUE]),
           FoGroup(<<<<12354>>, <<67>>>>, kana, [kana EXCEPT !.chars = {2}]),
           FoGroup(<<<<68>>, <<12355>>>>, [plain EXCEPT !.files = 2], plain),
           FoGroup(<<<<69>>>>, [plain EXCEPT !.local = FALSE], plain),
           FoGroup(<<>>, plain, plain) >>

FoAsked == {<<65>>, <<66>>, <<67>>, <<68>>, <<69>>, <<70>>}

\* The four questions of a family agree on which families there are, and the two of a weight on the
\* weight; a family that is listed is there to be asked.
ASSUME OneCollection ==
    /\ \A f \in FoAsked :
           LET face == Fallback!FamilyMatchFace(FoCollection, f, 400, "normal")
           IN  /\ face.got = Fallback!FamilyCoverage(FoCollection, f, {1}).ok
               /\ face.got = (Fallback!FamilyMatchWeight(FoCollection, f, 400) # 0)
               /\ Fallback!FamilyDirectory(FoCollection, f, 4096) # <<>> => face.got
               /\ \A w \in {400, 700} :
                      face.got =>
                          /\ Fallback!FamilyMatchWeight(FoCollection, f, w)
                                 = IF w = 700 THEN 600 ELSE w
                          /\ Fallback!FamilyMatchFace(FoCollection, f, w, "normal").weight
                                 = Fallback!FamilyMatchWeight(FoCollection, f, w)
               /\ Fallback!FamilyCoverage(FoCollection, f, {1, 3}).covers
                      = IF face.got THEN {1} ELSE {}
    /\ \A f \in Range(Fallback!FamilyNames(FoCollection)) :
           Fallback!FamilyMatchWeight(FoCollection, f, 400) = 400

\* Of the families that answer by an ASCII name, the list has those of which it is the first.
ASSUME ListedByTheFirstName ==
    LET listed == Range(Fallback!FamilyNames(FoCollection))
        there == { f \in FoAsked : Fallback!FamilyCoverage(FoCollection, f, {1}).ok }
    IN  /\ there \ listed = {<<67>>} /\ listed \subseteq there
        /\ Fallback!FamilyDirectory(FoCollection, <<67>>, 4096) = <<47, 102>>

\* A slant comes from a face or from none: the family that only leans its upright face has no italic.
ASSUME LeaningIsUpright ==
    { f \in FoAsked : LET face == Fallback!FamilyMatchFace(FoCollection, f, 400, "italic")
                      IN  face.got /\ face.italic } = {<<65>>}

\* The directory is that of the file, as long as every character of the path is one byte and there is
\* room for it; two families of one directory name it once.
ASSUME DirectoriesOfOneByte ==
    LET dirs == UNION { [1 .. n -> {65, 47, 1071, 256, 321}] : n \in 0 .. 3 }
        font(dir) == FoFont(400, "normal", FALSE, FoPath(dir, <<65>>))
        answer(dir, size) ==
            Fallback!FamilyDirectory(<<FoGroup(<<<<65>>>>, font(dir), font(dir))>>, <<65>>, size)
    IN  /\ \A dir \in dirs, size \in 1 .. 6 :
               Range(dir) \subseteq {65, 47} =>
                   answer(dir, size) = IF Len(dir) + 1 < size THEN <<47>> \o dir ELSE <<>>
        /\ { dir \in dirs : answer(dir, 4096) = <<47>> \o dir } = { dir \in dirs :
                                                           Range(dir) \subseteq {65, 47} }
        /\ LET dirOf == [f \in FoAsked |-> Fallback!FamilyDirectory(FoCollection, f, 4096)]
           IN  Fallback!FontDirectories(<<<<67>>, <<70>>, <<65>>, <<66>>, <<69>>>>, dirOf)
                   = << <<47, 102>> >>

\* Elsewhere it is another: a letter with the low byte of a slash cuts the path where it stands, one
\* with the low byte of a terminator ends it, and one of two bytes comes out as one that no document
\* in UTF-8 has by itself, or as another letter.
ASSUME DirectoriesOfOtherLetters ==
    LET answer(path) ==
            LET font == FoFont(400, "normal", FALSE, path)
            IN  Fallback!FamilyDirectory(<<FoGroup(<<<<65>>>>, font, font)>>, <<65>>, 4096)
    IN  /\ answer(FoPath(<<102>>, <<65, 1071, 66>>)) = <<47, 102, 47, 65>>
        /\ answer(FoPath(<<102, 256, 65>>, <<66>>)) = <<47, 102>>
        /\ answer(FoPath(<<233>>, <<66>>)) = <<47, 233>>
        /\ answer(FoPath(<<321>>, <<66>>)) = answer(FoPath(<<65>>, <<66>>))
        /\ answer(<<47, 66>>) = <<>> /\ answer(<<66>>) = <<>>
        /\ { f \in FoAsked : Fallback!FamilyDirectory(FoCollection, f, 4096) # <<>> }
               = {<<65>>, <<66>>, <<67>>}

----------------------------------------------------------------------------
(* The configuration that is served *)

FoOpen(path, reads, memory) == [path |-> path, reads |-> reads, memory |-> memory]
FoConf == << "/", "etc", "/", "fonts", "/", "fonts.conf" >>
FoRules == <<"a rule">>
FoDocuments == { Fallback!Document(rules, dirs) : rules \in {<<>>, FoRules},
                                                  dirs \in {<<>>, << <<47, 102>> >>} }

\* what each thread has had for an answer, along a sequence of opens and of ends of the making: a
\* thread that waits or is told to build does nothing else until it is answered
FoThreads == {"ui", "font"}
FoServe == [state |-> Fallback!NothingServed, answers |-> <<>>,
            busy |-> [t \in FoThreads |-> FALSE]]

FoEvent(run, e, document) ==
    LET s == run.state
    IN  IF e.kind = "built"
        THEN IF s.building = Fallback!NoBuilder THEN run
             ELSE [run EXCEPT !.state = Fallback!Built(s, document),
                              !.busy = [t \in FoThreads |-> FALSE]]
        ELSE LET answer == Fallback!Open(s, e.thread, e.open, TRUE, FoConf)
             IN  IF run.busy[e.thread] /\ s.building # e.thread THEN run
                 ELSE [run EXCEPT
                          !.state = IF answer = "builds" THEN Fallback!Begin(s, e.thread) ELSE s,
                          !.busy[e.thread] = answer \in {"waits", "builds"} \/ @,
                          !.answers = Append(@, [thread |-> e.thread, answer |-> answer,
                                                 path |-> e.open.path, reads |-> e.open.reads,
                                                 memory |-> e.open.memory,
                                                 building |-> s.building])]

FoEvents == [kind : {"open"}, thread : FoThreads,
             open : { FoOpen(FoConf, TRUE, TRUE), FoOpen(FoConf, TRUE, FALSE),
                      FoOpen(FoConf, FALSE, TRUE), FoOpen(<<"/", "dev">>, TRUE, TRUE) }]
            \cup {[kind |-> "built"]}

\* Along every course of five opens by two threads: the document is made once, by a thread whose own
\* reads go to the file meanwhile; what is served is never the empty one, and once there is one every
\* read of the configuration is answered with it, but those for which there was no memory.  An open
\* of anything else is the file's.  The hook of the tags is there exactly when the document is.
ASSUME TheDocumentIsMadeOnce ==
    \A document \in FoDocuments : \A events \in [1 .. 5 -> FoEvents] :
        LET run == FoldLeft(LAMBDA r, e : FoEvent(r, e, document), FoServe, events)
            of(i) == run.answers[i]
            builds == { i \in DOMAIN run.answers : of(i).answer = "builds" }
            config(i) == of(i).path = FoConf /\ of(i).reads
        IN  /\ Cardinality(builds) <= 1
            /\ run.state.hooked = (run.state.document # Fallback!NoDocument)
            /\ \A i \in DOMAIN run.answers :
                   /\ ~config(i) => of(i).answer = "the file"
                   /\ of(i).building = of(i).thread => of(i).answer = "the file"
                   /\ of(i).answer = "the document" => document # Fallback!NoDocument
                   /\ of(i).answer = "waits"
                          <=> config(i) /\ of(i).building \notin {Fallback!NoBuilder, of(i).thread}
                   /\ config(i) /\ of(i).building = Fallback!NoBuilder /\ of(i).answer # "builds"
                          => of(i).answer = IF document # Fallback!NoDocument /\ of(i).memory
                                            THEN "the document" ELSE "the file"

\* There is a document only of rules and of directories.
ASSUME NeitherAlone ==
    FoDocuments = {Fallback!NoDocument, [dirs |-> << <<47, 102>> >>, rules |-> FoRules]}

\* A first making that finds no family is the last: the fonts that come afterwards are never asked of.
ASSUME AnEmptyFirstMaking ==
    LET open == [kind |-> "open", thread |-> "ui", open |-> FoOpen(FoConf, TRUE, TRUE)]
        first == FoEvent(FoEvent(FoServe, open, Fallback!NoDocument), [kind |-> "built"],
                         Fallback!NoDocument)
        later == FoEvent(FoEvent(first, open, Fallback!Document(FoRules, << <<47, 102>> >>)),
                         [kind |-> "built"], Fallback!Document(FoRules, << <<47, 102>> >>))
    IN  /\ later.state = first.state
        /\ [i \in DOMAIN later.answers |-> later.answers[i].answer] = <<"builds", "the file">>

\* The file is the one that is named if its name is a whole path, and otherwise fonts.conf where the
\* other name says, one slash dropped; a name that is not a whole path is passed over.
ASSUME WhereTheConfigurationIs ==
    LET path(file, dir) == Fallback!ConfigPath([file |-> file, path |-> dir])
    IN  /\ path(<<>>, <<>>) = FoConf
        /\ path(<<"/", "a">>, <<"/", "b">>) = <<"/", "a">>
        /\ path(<<"a">>, <<"/", "b">>) = << "/", "b", "/", "fonts.conf" >>
        /\ path(<<>>, <<"/", "b", "/">>) = path(<<>>, <<"/", "b">>)
        /\ path(<<>>, <<"/", "b", "/", "/">>) = << "/", "b", "/", "/", "fonts.conf" >>
        /\ path(<<>>, <<"/">>) = << "/", "fonts.conf" >>

\* It is served where the drawing is wanted and the program does not call fontconfig from outside.
ASSUME ServedWhereItIsBuiltIn ==
    { <<parity, imports>> \in BOOLEAN \X SUBSET {"FcFontSort", "FcPatternCreate", "open"} :
          Fallback!Wanted(parity, imports) } = {TRUE} \X SUBSET {"open"}

==================================================================================
