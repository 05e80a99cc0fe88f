------------------------------ MODULE StaticFallback ------------------------------
(***************************************************************************)
(* The same fallback where fontconfig is compiled in: the survey of what   *)
(* is installed, an order of families and the blocks of rules made of them *)
(* (src/chromium/static_fontconfig.cpp), the hook that has a character     *)
(* asked for by the tag of a block (fallback_hook.cpp), the questions the  *)
(* survey asks of the collection (dwrite_raster.cpp), and the file that is *)
(* served to fontconfig in place of the machine's.                         *)
(*                                                                         *)
(* installed maps the families of this machine to the characters they      *)
(* cover.  A tag is a tuple; the code spells it in a locale.               *)
(***************************************************************************)
EXTENDS FallbackOrder
LOCAL INSTANCE SequencesExt
LOCAL INSTANCE FiniteSetsExt
LOCAL INSTANCE Functions

CONSTANTS
    Unclaimed,          \* the C1 controls
    Longer,             \* pairs of subtags, the second of which the first begins with
    Alphabet            \* names in the order of strings

kSamples == 8
kMaxTaggedFamilies == 100

\* the characters that stand for a range
SampleRange(first, last) ==
    LET step == Max({1, (last - first + 1) \div kSamples})
    IN  { c \in first .. last : (c - first) % step = 0 /\ (c - first) \div step < kSamples }

\* the shipped families the tables name, each once and in their order, that are installed; and the
\* scripts of which a family covers a sample
Survey(installed) ==
    LET scripts == [i \in DOMAIN Scripts |-> Scripts[i].families]
        rows == [i \in DOMAIN DWriteRows |-> << DWriteRows[i].family, DWriteRows[i].front >>]
        note(out, f) == IF f = NoName \/ f \in Range(out) \/ f \notin Shipped
                        THEN out ELSE Append(out, f)
        named == FoldLeft(note, <<>>, FlattenSeq(scripts) \o FlattenSeq(rows))
        families == SelectSeq(named, LAMBDA f : f \in DOMAIN installed)
    IN  [families |-> families,
         covers |-> [f \in Range(families) |->
             { i \in DOMAIN Scripts :
                   SampleRange(Scripts[i].first, Scripts[i].last) \cap installed[f] # {} }]]

----------------------------------------------------------------------------
(* Kahn's algorithm.  edges maps pairs of names to weights                 *)

\* names taken one by one from those that wait for none left; each name taken makes the list longer
RECURSIVE TakeReady(_, _, _)
TakeReady(edges, ready, out) ==
    IF Len(out) = Len(ready) THEN out
    ELSE LET n == ready[Len(out) + 1]
             done == Range(out) \cup {n}
             freed == SelectSeq(Alphabet, LAMBDA m :
                          /\ <<n, m>> \in DOMAIN edges
                          /\ \A e \in DOMAIN edges : e[2] = m => e[1] \in done)
         IN  TakeReady(edges, ready \o freed, Append(out, n))

\* the position of a pair of names in the map's order
At(e) == <<SelectInSeq(Alphabet, LAMBDA n : n = e[1]), SelectInSeq(Alphabet, LAMBDA n : n = e[2])>>

\* when some are left over, the lightest edge between two of those goes, the first of equal ones;
\* there are fewer edges every time
RECURSIVE TopoSort(_, _)
TopoSort(nodes, edges) ==
    LET first == SelectSeq(nodes, LAMBDA n : \A e \in DOMAIN edges : e[2] # n)
        out == TakeReady(edges, first, <<>>)
        stuck == SelectSeq(nodes, LAMBDA n : n \notin Range(out))
        within == { e \in DOMAIN edges : {e[1], e[2]} \subseteq Range(stuck) }
        before(d, e) == \/ edges[d] < edges[e]
                        \/ /\ edges[d] = edges[e]
                           /\ \/ At(d)[1] < At(e)[1]
                              \/ At(d)[1] = At(e)[1] /\ At(d)[2] < At(e)[2]
    IN  IF stuck = <<>> THEN out
        ELSE IF within = {} THEN out \o stuck
        ELSE LET weakest == CHOOSE d \in within : \A e \in within \ {d} : before(d, e)
             IN  TopoSort(nodes, Restrict(edges, DOMAIN edges \ {weakest}))

\* every family comes after the one that answers a script it covers, weighed by the script's length
Edges(have) ==
    LET first(i) == FirstOf(Scripts[i].families, LAMBDA f : f \in DOMAIN have.covers)
        pairs == { <<first(i), f>> : i \in { i \in DOMAIN Scripts : first(i) # NoName },
                                     f \in DOMAIN have.covers }
        rows(e) == { i \in have.covers[e[2]] : first(i) = e[1] }
        length(i) == Scripts[i].last - Scripts[i].first + 1
    IN  [e \in { e \in pairs : e[1] # e[2] /\ rows(e) # {} } |->
            FoldSet(LAMBDA i, sum : sum + length(i), 0, rows(e))]

Order(have) == TopoSort(have.families, Edges(have))

----------------------------------------------------------------------------
(* The blocks *)

\* the languages that settle Han, the longest of each first
kLangHan == << <<"zh", "hant">>, <<"zh", "tw">>, <<"zh", "hk">>, <<"zh", "mo">>, <<"zh", "hans">>,
               <<"zh", "cn">>, <<"zh", "sg">>, <<"ja">>, <<"ko">> >>

LangLocale(lang) == [tags |-> kLangHan[lang], sep |-> "-"]

Surveyed(have, list) == SelectSeq(list, LAMBDA f : f \in DOMAIN have.covers)

\* the families of a block, in order; no block has one that the survey did not find
Blocks(have, order, env) ==
    LET pan == Surveyed(have, CommonWalkOrder)
        latin == Surveyed(have, <<Latin>>)
        known(f) == IF f = NoName THEN <<>> ELSE Surveyed(have, <<f>>)
        script(r) == Surveyed(have, ScriptFor(DWriteRows[r].first).families)
        body(r) == IF DWriteRows[r].ahead
                   THEN known(DWriteRows[r].family) \o script(r) \o pan
                   ELSE script(r) \o pan \o known(DWriteRows[r].family)
        rows == { r \in DOMAIN DWriteRows :
                      known(DWriteRows[r].family) \o known(DWriteRows[r].front) # <<>> }
        han(lang) == FirstOf(Surveyed(have, HanCandidates(
                        IF lang = 0 THEN NoLocale ELSE LangLocale(lang), env)), LAMBDA f : TRUE)
        front(r, lang) == IF han(lang) = NoName THEN known(DWriteRows[r].front) ELSE <<han(lang)>>
        fam == { <<"fam", i>> : i \in { i \in DOMAIN order : i <= kMaxTaggedFamilies } }
        dw == { <<"dw", r>> : r \in { r \in rows : known(DWriteRows[r].front) = <<>> } }
        dwh == { <<"dwh", r, lang>> : r \in { r \in rows : known(DWriteRows[r].front) # <<>> },
                                      lang \in 0 .. Len(kLangHan) }
        langs == { <<"lang", lang>> : lang \in { l \in DOMAIN kLangHan : han(l) # NoName } }
    IN  [t \in fam \cup dw \cup dwh \cup langs \cup {<<"pan">>, <<"all">>} |->
            CASE t[1] = "fam" -> <<order[t[2]]>> \o pan
              [] t[1] = "pan" -> pan
              [] t[1] = "dw" -> body(t[2])
              [] t[1] = "dwh" -> front(t[2], t[3]) \o body(t[2])
              [] t[1] = "lang" -> latin \o <<han(t[2])>> \o pan
              [] t[1] = "all" -> latin \o order]

----------------------------------------------------------------------------
(* The hook *)

\* the place of a family's block
TagFor(order, family) ==
    LET i == SelectInSeq(order, LAMBDA f : f = family)
    IN  IF i > kMaxTaggedFamilies THEN 0 ELSE i

\* the script subtag, read before the language
ScriptLocale(locale) ==
    LET subtags == IF locale.tags = <<>> THEN <<>> ELSE Tail(locale.tags)
        script == FirstOf(subtags, LAMBDA s : s \in DOMAIN ScriptChoices)
        named == [traditional |-> <<"zh", "hant">>, simplified |-> <<"zh", "hans">>,
                  japanese |-> <<"ja">>, korean |-> <<"ko">>]
    IN  IF script = NoName THEN <<>> ELSE named[ScriptChoices[script]]

\* a locale as written begins with a language as written: the last subtag may go on
BeginsWith(locale, lang) ==
    LET n == Len(lang)
    IN  /\ Len(locale.tags) >= n
        /\ \A i \in 1 .. n - 1 : locale.tags[i] = lang[i]
        /\ locale.tags[n] = lang[n] \/ <<locale.tags[n], lang[n]>> \in Longer
        /\ n = 1 \/ locale.sep = "-"

\* which of the languages a locale is, 0 for none
HanLocaleIndex(locale) ==
    LET script == SelectInSeq(kLangHan, LAMBDA l : l = ScriptLocale(locale))
    IN  IF script # 0 THEN script
        ELSE SelectInSeq(kLangHan, LAMBDA l : BeginsWith(locale, l))

\* what a character is asked for by: a tag, the locale as it came, or nothing at all
Hook(order, env, locale, c) ==
    LET row == DWriteRowFor(c)
        front == SetOrderFront(c)
        tag(list) == LET f == FirstOf(list, LAMBDA f : TagFor(order, f) # 0)
                     IN  IF f = NoName THEN <<>> ELSE <<"fam", TagFor(order, f)>>
        han == IF HanCandidates(locale, env) = <<>> THEN HanLists["simplified"]
               ELSE HanCandidates(locale, env)
        named == tag((IF front = NoName THEN <<>> ELSE <<front>>) \o ScriptFor(c).families)
    IN  IF c \in Unclaimed THEN <<"declined">>
        ELSE IF row = 0 /\ front = NoName /\ ScriptFor(c).by_set_order
        THEN IF tag(han) = <<>> THEN <<"locale">> ELSE tag(han)
        ELSE IF row # 0 /\ DWriteRows[row].front # NoName
        THEN <<"dwh", row, HanLocaleIndex(locale)>>
        ELSE IF row # 0 THEN <<"dw", row>>
        ELSE IF named = <<>> THEN <<"pan">>
        ELSE named

\* the families a pattern of this tag is given: its block's, those of the languages its locale names,
\* then those of the order
FamiliesOf(blocks, tag, locale) ==
    LET langs == IF tag # <<"locale">> THEN <<>>
                 ELSE SelectSeq([i \in DOMAIN kLangHan |-> <<"lang", i>>],
                          LAMBDA t : t \in DOMAIN blocks /\ BeginsWith(locale, kLangHan[t[2]]))
    IN  (IF tag \in DOMAIN blocks THEN blocks[tag] ELSE <<>>)
            \o FlattenSeq([i \in DOMAIN langs |-> blocks[langs[i]]]) \o blocks[<<"all">>]

----------------------------------------------------------------------------
(* The collection's answers (dwrite_raster.cpp).  A collection is the      *)
(* sequence of its groups, each with its names and the font it has for a   *)
(* weight and a style; a name or a path is a sequence of UTF-16 units      *)

Slash == 47
NoFont == [files |-> 0]

FindFamilyName(collection, name) ==
    SelectInSeq(collection, LAMBDA group : name \in Range(group.names))

GetFirstMatchingFont(collection, name, weight, style) ==
    LET i == FindFamilyName(collection, name)
    IN  IF i = 0 THEN NoFont ELSE collection[i].matching[weight, style]

RegularFace(collection, family) == GetFirstMatchingFont(collection, family, 400, "normal")

\* which of these characters the regular face has
FamilyCoverage(collection, family, points) ==
    LET font == RegularFace(collection, family)
    IN  IF font = NoFont THEN [ok |-> FALSE, covers |-> {}]
        ELSE [ok |-> TRUE, covers |-> points \cap font.chars]

\* the first name of each group, of those whose first name is ASCII
FamilyNames(collection) ==
    LET named == SelectSeq(collection, LAMBDA group :
                     /\ group.names # <<>>
                     /\ group.names[1] # <<>>
                     /\ Range(group.names[1]) \subseteq 1 .. 127)
    IN  [i \in DOMAIN named |-> named[i].names[1]]

\* a face that slants only when it is told to is upright
FamilyMatchFace(collection, family, weight, style) ==
    LET font == GetFirstMatchingFont(collection, family, weight, style)
    IN  IF font = NoFont THEN [got |-> FALSE]
        ELSE [got |-> TRUE, weight |-> font.weight,
              italic |-> font.style # "normal" /\ ~font.oblique]

FamilyMatchWeight(collection, family, weight) ==
    LET font == GetFirstMatchingFont(collection, family, weight, "normal")
    IN  IF font = NoFont THEN 0 ELSE font.weight

\* where the regular face's only file is, of which a byte is kept of every unit; <<>> for nowhere
FamilyDirectory(collection, family, size) ==
    LET font == RegularFace(collection, family)
        end == SelectInSeq(font.path \o <<0>>, LAMBDA unit : unit = 0)
        narrow == [i \in 1 .. end - 1 |-> font.path[i] % 256]
        cut == SelectLastInSeq(narrow, LAMBDA byte : byte = Slash) - 1
        nul == SelectInSeq(SubSeq(narrow, 1, cut) \o <<0>>, LAMBDA byte : byte = 0)
    IN  IF font = NoFont THEN <<>>
        ELSE IF font.files # 1 \/ ~font.local THEN <<>>
        ELSE IF cut < 1 \/ cut >= size THEN <<>>
        ELSE SubSeq(narrow, 1, nul - 1)

----------------------------------------------------------------------------
(* The configuration that is served in place of the machine's.  A path is  *)
(* a sequence, of which "/" is a member                                    *)

Wanted(parity, imports) ==
    parity /\ imports \cap {"FcFontSort", "FcPatternCreate"} = {}

ConfigPath(env) ==
    LET base == IF env.path = <<>> THEN << "/", "etc", "/", "fonts" >> ELSE env.path
        bare == IF base[Len(base)] = "/" THEN Front(base) ELSE base
    IN  IF env.file # <<>> /\ env.file[1] = "/" THEN env.file
        ELSE bare \o << "/", "fonts.conf" >>

\* each of the directories of the families in the order
FontDirectories(order, dirOf) ==
    FoldLeft(LAMBDA dirs, f : IF dirOf[f] \in Range(dirs) \cup {<<>>} THEN dirs
                              ELSE Append(dirs, dirOf[f]),
             <<>>, order)

NoDocument == [dirs |-> <<>>, rules |-> <<>>]

Document(rules, dirs) ==
    IF rules = <<>> \/ dirs = <<>> THEN NoDocument ELSE [dirs |-> dirs, rules |-> rules]

NoBuilder == "no builder"

\* building is the thread that makes the document, and holds the mutex
NothingServed ==
    [built |-> FALSE, building |-> NoBuilder, document |-> NoDocument, hooked |-> FALSE]

IsConfigRead(s, t, o, wanted, path) ==
    s.building # t /\ wanted /\ o.reads /\ o.path = path

\* what a thread's open comes to: the file itself, the document, a wait for the thread that makes the
\* document, or the making of it
Open(s, t, o, wanted, path) ==
    IF ~IsConfigRead(s, t, o, wanted, path) THEN "the file"
    ELSE IF s.building # NoBuilder THEN "waits"
    ELSE IF ~s.built THEN "builds"
    ELSE IF s.document = NoDocument \/ ~o.memory THEN "the file"
    ELSE "the document"

\* the two ends of the making, which is done once
Begin(s, t) == [s EXCEPT !.built = TRUE, !.building = t]
Built(s, document) ==
    [s EXCEPT !.building = NoBuilder, !.document = document, !.hooked = document # NoDocument]

===============================================================================
