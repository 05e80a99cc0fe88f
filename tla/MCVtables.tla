------------------------------- MODULE MCVtables -------------------------------
(***************************************************************************)
(* Images for VtableSlots, and what the search through them should come    *)
(* to, evaluated over them.                                                *)
(***************************************************************************)
LOCAL INSTANCE Integers
LOCAL INSTANCE Sequences
LOCAL INSTANCE FiniteSets
LOCAL INSTANCE SequencesExt
LOCAL INSTANCE FiniteSetsExt
LOCAL INSTANCE TLC

\* functions a hundred apart, the file of the typeface three thousand long
Slots == INSTANCE VtableSlots WITH kSameFileSpan <- 3000, kColrFunctionSpan <- 100, kLargestThunk <- 20,
                                   kThunkSpan <- 40, kInnerSpan <- 12

----------------------------------------------------------------------------
(* The head of a table *)

VtImage == [text |-> <<<<100, 200>>, <<300, 20000>>>>, branches |-> {}, tags |-> {}, leas |-> {},
            names |-> [n \in Range(Slots!kTypefaceNames) |-> 0], bridge |-> 0, major |-> 140]

\* null, a function in each region, and a word that is neither
VtWords == {0, 150, 350, 250}
VtStates == { Slots!NewSlots(w, {}) : w \in UNION { [1 .. n -> VtWords] : n \in 1 .. 5 } }

\* walked back word by word
VtWalk[s \in VtStates, p \in -1 .. 6] ==
    IF p < 3 THEN 0
    ELSE IF s.relro[p - 2] = 0 /\ s.relro[p - 1] = 0 THEN p
    ELSE IF s.relro[p] \notin {150, 350} THEN 0
    ELSE VtWalk[s, p - 1]

\* The head found is where the walk back ends: functions all the way, and two null words before.
ASSUME HeadIsWhereTheWalkEnds ==
    \A s \in VtStates : \A p \in 0 .. 6 :
        Slots!VtableBaseFrom(VtImage, s, p) = IF p \in DOMAIN s.relro THEN VtWalk[s, p] ELSE 0

----------------------------------------------------------------------------
(* What reaches the bridge *)

\* five functions, the last of them the bridge, each of which may branch to the others
VtStart(k) == 100 * k
VtGraphs == { g \in SUBSET ((1 .. 4) \X (1 .. 5)) : Cardinality(g) <= 3 /\ \A e \in g : e[1] # e[2] }
VtBranch(e, op) == [site |-> VtStart(e[1]) + 10 + e[2], op |-> op, target |-> VtStart(e[2])]
VtGraphImage(g) ==
    [VtImage EXCEPT !.text = <<<<100, 1000>>>>,
                    !.branches = { VtBranch(e, IF e[2] % 2 = 0 THEN "jump" ELSE "call") : e \in g }]
VtAllTables == Slots!NewSlots(<<0, 0>> \o [k \in 1 .. 4 |-> VtStart(k)], {})

VtPath(g, a, n) ==
    CASE n = 1 -> <<a, 5>> \in g
      [] n = 2 -> \E b \in 1 .. 4 : <<a, b>> \in g /\ <<b, 5>> \in g
      [] OTHER -> \E b, c \in 1 .. 4 : <<a, b>> \in g /\ <<b, c>> \in g /\ <<c, 5>> \in g

\* A virtual reaches the bridge when it is at most three branches from it.
ASSUME ThreeBranchesReach ==
    \A g \in VtGraphs : \A a \in 1 .. 4 :
        Slots!Reaches(VtGraphImage(g), VtAllTables, {VtStart(5)}, VtStart(a))
            = (\E n \in 1 .. 3 : VtPath(g, a, n))

\* Not four; and a function that begins with the branch holds it.
ASSUME FourBranchesDoNot ==
    LET chain == VtGraphImage({<<1, 2>>, <<2, 3>>, <<3, 4>>, <<4, 5>>})
        at == [VtGraphImage({}) EXCEPT !.branches = {[site |-> VtStart(2), op |-> "jump", target |-> VtStart(5)],
                                                     [site |-> VtStart(1) + 10, op |-> "call", target |-> VtStart(2)]}]
    IN  \A a \in 1 .. 4 :
            /\ Slots!Reaches(chain, VtAllTables, {VtStart(5)}, VtStart(a)) = (a > 1)
            /\ Slots!Reaches(at, VtAllTables, {VtStart(5)}, VtStart(a)) = (a < 3)

----------------------------------------------------------------------------
(* The scaler context *)

\* tables of seven methods, each with so many of the last five that only draw
VtMethod(t, i) == 1000 * t + 100 * i
VtScaler(t) == <<0, 0>> \o [i \in 1 .. 7 |-> VtMethod(t, i)]
VtRastered(counts) ==
    [VtImage EXCEPT !.text = <<<<100, 90000>>>>,
        !.branches = UNION { { [site |-> VtMethod(t, i) + 5, op |-> "call", target |-> 80100] : i \in {3, 7} }
                             \cup { [site |-> VtMethod(t, 2 + i) + 15, op |-> "call", target |-> 80200] : i \in 1 .. counts[t] }
                             : t \in DOMAIN counts }
                     \cup { [site |-> VtMethod(Len(counts), i) + 25, op |-> "call", target |-> 80200] : i \in {1, 2} }]
VtScalers(n) == Slots!NewSlots(FoldLeft(LAMBDA w, t : w \o VtScaler(t), <<>>, [t \in 1 .. n |-> t]) \o <<0>>, {})
VtCounts == UNION { [1 .. n -> {0, 1, 2, 3, 5}] : n \in 1 .. 3 }

VtBest(counts) == Max(Range(counts))
VtFirstBest(counts) == Min({ t \in DOMAIN counts : counts[t] = VtBest(counts) })

\* The table whose methods draw most is taken only when no other comes within one of it.
ASSUME OneIsClearlyTheScalers ==
    \A counts \in VtCounts :
        LET choice == Slots!ChooseScalerContext(VtRastered(counts), VtScalers(Len(counts)), TRUE, {80100, 80200}, {80200})
            won == \A t \in DOMAIN counts \ {VtFirstBest(counts)} : counts[t] + 2 <= VtBest(counts)
        IN  choice.found /\ choice.clear = won /\ choice.table = 9 * (VtFirstBest(counts) - 1) + 3

\* Seven methods, no fewer, no more, no two the same, and a word after them that is none.
ASSUME SevenDistinctMethods ==
    \A n \in 0 .. 8 : \A twice \in {0} \cup 2 .. n : \A after \in {<<>>, <<0>>, <<250>>, <<9000>>} :
        LET method == [i \in 1 .. n |-> IF i = twice THEN 3100 ELSE 3000 + 100 * i]
            s == Slots!NewSlots(<<0, 0>> \o method \o after, {})
        IN  Slots!IsShaped([VtImage EXCEPT !.text = <<<<300, 90000>>>>], s, 3)
                = (n = 7 /\ twice = 0 /\ after \in {<<0>>, <<250>>})

\* Another table is the same class's when it names the same picture, metrics and font metrics; its path is
\* replaced where it is the same too.
ASSUME TablesOfTheClass ==
    \A shared \in SUBSET (1 .. 7) : \A parity \in BOOLEAN :
        LET other == [i \in 1 .. 7 |-> IF i \in shared THEN VtMethod(5, i) ELSE VtMethod(6, i)]
            start == VtScaler(5) \o <<0, 0>> \o other \o <<0>>
            s == Slots!PatchScalerContext([VtImage EXCEPT !.text = <<<<100, 90000>>>>], Slots!NewSlots(start, {}), parity, 3)
            same == {3, 4, 7} \subseteq shared
            Replaced(t) == { t + i : i \in (IF parity THEN {2, 3, 6} ELSE {3}) }
        IN  { i \in DOMAIN start : s.relro[i] # start[i] }
                = Replaced(3) \cup (IF parity THEN {7} ELSE {})
                  \cup (IF same THEN Replaced(12) \cup (IF parity /\ 5 \in shared THEN {16} ELSE {}) ELSE {})

----------------------------------------------------------------------------
(* Typefaces in an image that names nothing *)

\* A table of thirty-six methods.  A second may be another's that overrides one of them: onFilterRec,
\* the COLR query, or nothing.
VtOwn(i) == 10000 + 100 * i
VtOverridden(i) == 20000 + 100 * i
VtTypeface(first, over) == <<0, 0>> \o [i \in 1 .. 36 |-> IF i - 1 = over THEN VtOverridden(i - 1) ELSE VtOwn(i - 1)]

VtCases ==
    { c \in [ colr : {13, 15}, second : {"none", "same", "filter", "colr"}, made : BOOLEAN,
              named : BOOLEAN, closed : SUBSET {"first", "second", "data"} ] :
        (c.second = "none" => "second" \notin c.closed) /\ (c.named => c.made /\ c.closed # {"data"}) }

\* where things are in the words: the scaler's table, the first typeface's and the second's
VtScalerAt == 3
VtFirstAt == 12
VtSecondAt == 50
VtOver(c) == CASE c.second = "filter" -> 9 [] c.second = "colr" -> c.colr [] OTHER -> -1
VtRelro(c) ==
    VtScaler(5) \o VtTypeface(1, -1) \o (IF c.second = "none" THEN <<>> ELSE VtTypeface(2, VtOver(c))) \o <<0>>
VtClosed(c) ==
    { CASE w = "first" -> VtFirstAt + 9 [] w = "second" -> VtSecondAt + 9 [] OTHER -> VtFirstAt + c.colr + 15 : w \in c.closed }
VtNew(c) == Slots!NewSlots(VtRelro(c), VtClosed(c))

VtColrTags(c) == { [site |-> fn + 30, tag |-> "COLR"] : fn \in {VtOwn(c.colr), VtOverridden(c.colr)} \cap Range(VtRelro(c)) }
VtCaseImage(c) ==
    [VtImage EXCEPT !.text = <<<<100, 90000>>>>,
        !.tags = VtColrTags(c) \cup {[site |-> VtMethod(5, 7) + 50, tag |-> "fvar"]},
        !.leas = IF c.made THEN {[site |-> VtOwn(20) + 40, word |-> VtScalerAt]} ELSE {},
        !.names = [n \in Range(Slots!kTypefaceNames) |->
                        IF c.named /\ n = "_ZTV19SkTypeface_FreeType" THEN VtFirstAt ELSE 0]]

VtTried(c) == Slots!TryPatchModule(VtCaseImage(c), VtNew(c), TRUE, <<>>)
VtTables(c) == IF c.second = "none" THEN {VtFirstAt} ELSE {VtFirstAt, VtSecondAt}
VtLive(c, t) ==
    LET data == VtRelro(c)[t + c.colr + 15] IN [table |-> t, heads |-> {data}]
VtPainted(c, tried, t) == Slots!ResolveTypefaceVtable(VtCaseImage(c), tried, VtLive(c, t), <<>>, TRUE)

\* calls through these slots end in a function that was not theirs
VtAstray(c, s) == { i \in { j \in DOMAIN s.relro : s.relro[j] = Slots!FilterRecThunk } : VtRelro(c)[i] # s.filter_rec }

\* every table's COLR query is the fifteenth virtual, and onFilterRec can be written
VtByTag(c) ==
    /\ c.colr = 15 /\ c.second # "colr"
    /\ "first" \notin c.closed \/ (c.second = "same" /\ "second" \notin c.closed)
VtByMaker(c) == ~VtByTag(c) /\ ~c.named /\ c.made
VtAnywhere(c) == ~VtByTag(c) /\ ~c.named /\ ~c.made /\ c.colr = 13 /\ c.second # "colr"

\* The tables of two typefaces that one function builds are both written, and there is one original:
\* the first's calls go astray when the second has its own onFilterRec or could not be written.
VtOneOriginal(c, tried) ==
    (VtAstray(c, tried) # {})
        <=> /\ VtByMaker(c) /\ c.second # "none" /\ "first" \notin c.closed
            /\ "second" \in c.closed \/ c.second = "filter"

\* A live typeface with another onFilterRec gets the slots guessed by name or maker given back, but not
\* those guessed by the COLR tag: they are not remembered, and their calls go astray from then on.
VtNotGivenBack(c, tried, t, s) ==
    (VtAstray(c, s) # {})
        <=> \/ VtAstray(c, tried) # {}
            \/ VtByTag(c) /\ c.second = "filter" /\ t = VtSecondAt
            \/ VtAnywhere(c)

VtHookOf(s, i) ==
    CASE s.relro[i] = Slots!FilterRecThunk -> s.filter_rec [] s.relro[i] = Slots!GetTableData -> s.get_table_data
      [] s.relro[i] = Slots!ImageThunk -> s.image [] s.relro[i] = Slots!MetricsThunk -> s.metrics
      [] s.relro[i] = Slots!FontMetricsThunk -> s.font_metrics [] s.relro[i] = Slots!PathThunk -> s.path
      [] OTHER -> s.relro[i]

\* But for those, whatever a word was, a call through it ends there; and a page that does not open stays as it was.
VtEndsThere(c, s) ==
    LET relro == VtRelro(c)
    IN  /\ \A i \in DOMAIN s.relro \ VtAstray(c, s) : VtHookOf(s, i) = relro[i]
        /\ \A i \in VtClosed(c) : s.relro[i] = relro[i]

\* A live typeface is resolved when its onGetTableData can be called, and one already replaced cannot: an
\* image whose typeface was found by its maker is not resolved, unless that slot would not open.
VtReplacedIsNotResolved(c, t, s) == s.resolved <=> ~VtByMaker(c) \/ (t = VtFirstAt /\ "data" \in c.closed)

\* A resolved typeface can be read: the slots it is told of are its tags and its data.
VtResolvedIsRead(c, t, s) ==
    LET slots == Slots!RealTypeface(s, VtLive(c, t), <<>>)
    IN  IF s.resolved
        THEN /\ \A u \in VtTables(c) : Slots!FindSlots(s, u).found
             /\ slots.real = <<VtLive(c, t)>> /\ slots.slots = [tags |-> c.colr + 14, data |-> c.colr + 15, found |-> TRUE]
        ELSE slots.real = <<>>

ASSUME CallsAndTheirOriginals ==
    \A c \in VtCases :
        LET tried == VtTried(c)
        IN  /\ VtOneOriginal(c, tried)
            /\ \A t \in VtTables(c) :
                 LET s == VtPainted(c, tried, t)
                 IN  /\ VtNotGivenBack(c, tried, t, s) /\ VtEndsThere(c, s)
                     /\ VtReplacedIsNotResolved(c, t, s) /\ VtResolvedIsRead(c, t, s)

\* The COLR query is at least the seventh virtual, onFilterRec six before it a function, and twelve more follow.
ASSUME ColrTables ==
    \A k \in 4 .. 8 : \A n \in k + 10 .. k + 15 : \A hole \in {-1, 0, k - 1, k + 5, k + 12, k + 13} :
        LET table == [i \in 1 .. n |-> IF i - 1 = hole THEN 250 ELSE VtOwn(i)]
            I == [VtImage EXCEPT !.text = <<<<300, 90000>>>>, !.tags = {[site |-> VtOwn(k + 1) + 30, tag |-> "COLR"]}]
            s == Slots!Nameless(I, Slots!NewSlots(<<0, 0>> \o table, {}))
        IN  \A want \in {0, 7} :
                Slots!ColrSlots(I, s, Slots!Sites(I, "COLR"), want)
                    = IF /\ k >= 6 /\ n >= k + 13 /\ hole \notin {k - 1, k + 5, k + 12} /\ (hole = 0 => k # 6)
                         /\ want # 0 => k = 7
                      THEN {k + 3} ELSE {}

\* Only the tags near the axes' are said to count; but every function that holds one is found whichever
\* of them are given.
ASSUME NearnessDoesNotCount ==
    \A c \in { x \in VtCases : x.closed = {} /\ ~x.named } :
        LET I == VtCaseImage(c)
            s == Slots!Nameless(I, VtNew(c))
        IN  \A sites \in (SUBSET s.colr_sites) \ {{}} : \A want \in {0, 15} :
                Slots!PatchFilterRecByColrTag(I, s, sites, want) = Slots!PatchFilterRecByColrTag(I, s, s.colr_sites, want)

\* The virtual after the COLR query is taken for the position, in doubt unless it is seen to reach the bridge.
ASSUME InDoubtUnlessSeen ==
    \A bridge \in {0, 80300} : \A seen \in BOOLEAN : \A had \in {0, 5} :
        LET I == [VtImage EXCEPT !.text = <<<<100, 90000>>>>, !.bridge = bridge,
                        !.branches = IF seen THEN {[site |-> VtOwn(16) + 5, op |-> "jump", target |-> 80300]} ELSE {}]
            s == Slots!FindVariationSlotFromColr(I, [Slots!NewSlots(VtTypeface(1, -1), {}) EXCEPT !.variation = had], 3, 15)
        IN  <<s.variation, s.unconfirmed>> = IF had # 0 THEN <<had, FALSE>> ELSE <<16, ~(seen /\ bridge # 0)>>

\* Looking without leave to write finds the same and writes nothing; leave that comes later is used.
ASSUME LeaveMayComeLater ==
    \A c \in { x \in VtCases : x.closed = {} } :
        LET I == VtCaseImage(c)
            Look(s, n, may) == Slots!ResolveTypefaceFromContext(I, s, n, VtLive(c, VtFirstAt), <<>>, may)
            tried == VtTried(c)
            looked == Look(tried, 0, FALSE)
            painted == VtPainted(c, tried, VtFirstAt)
        IN  /\ looked.relro = tried.relro /\ looked.resolved = painted.resolved /\ Look(looked, 1, TRUE) = painted
            /\ Look(looked, 300, TRUE) = looked

\* A proxy is asked for what it stands for, once.
ASSUME ProxiesStandForOne ==
    LET c == [colr |-> 13, second |-> "none", made |-> FALSE, named |-> FALSE, closed |-> {}]
        I == VtCaseImage(c)
        s == Slots!Nameless(I, Slots!NewSlots(VtTypeface(1, -1) \o VtScaler(5) \o <<0>>, {}))
        real == [table |-> 3, heads |-> {VtOwn(28)}]
        proxy == [table |-> 41, heads |-> {}]
        Ask(typeface, inner) == Slots!ResolveTypefaceVtable(I, s, typeface, inner, TRUE)
    IN  /\ Ask(proxy, <<real>>) = Ask(real, <<>>) /\ Ask(real, <<proxy>>).resolved
        /\ Ask(proxy, <<proxy>>) = s /\ Ask(proxy, <<>>) = s

\* Of the two distances Skia has used the nearer is believed when both answer, and no other is tried.
ASSUME TwoDistances ==
    LET c == [colr |-> 13, second |-> "none", made |-> FALSE, named |-> FALSE, closed |-> {}]
        s == VtTried(c)
    IN  \A heads \in SUBSET (12 .. 15) :
            Slots!TagsAt(VtCaseImage(c), s, [table |-> VtFirstAt, heads |-> { VtOwn(13 + d + 1) : d \in heads }], VtFirstAt, 13)
                = IF 12 \in heads THEN 25 ELSE IF 14 \in heads THEN 27 ELSE 0

\* The outline tag of the older scaler is looked up and nothing asks for it: only the axes' tag names a scaler.
ASSUME OnlyTheAxesName ==
    \A c \in { x \in VtCases : x.closed = {} /\ x.second = "none" } :
        LET older == [VtCaseImage(c) EXCEPT !.tags = { [t EXCEPT !.tag = IF @ = "fvar" THEN "outl" ELSE @] : t \in @ }]
        IN  Slots!TryPatchModule(older, VtNew(c), TRUE, <<>>).image = 0

\* After 256 tries, one in each doubling.
ASSUME TriesThinOut ==
    \A k \in 8 .. 12 : Cardinality({ n \in 2 ^ k .. 2 ^ (k + 1) - 1 : Slots!Tries(n) }) = 1
ASSUME TriesAtFirst == \A n \in 0 .. 255 : Slots!Tries(n)

\* The fault of another thread, or elsewhere, is the host's.
ASSUME OtherFaultsAreTheHosts ==
    \A thread \in {"t", "u"} : \A at \in 0 .. 5 :
        Slots!ProbeHandles([thread |-> "t", lo |-> 2, hi |-> 4], thread, at, 5) = (thread = "t" /\ at \in {2, 3, 5})

----------------------------------------------------------------------------
(* An image that names the bridge *)

\* The typeface's twenty-ninth and thirtieth virtuals reach table_tags and table_data, the scaler's methods
\* the bridge and its raster part: by a call, by a jump, through something that only jumps, or through a
\* function that calls.  Something longer that jumps is no thunk.
VtTagsSym == 80100
VtDataSym == 80200
VtOtherSym == 80300
VtRasterSym == 80400
VtWays == {"call", "jump", "thunk", "long", "helper"}
VtHelper(sym) == sym + 8000
VtThunk(sym) == sym + 5000
VtBranchTo(from, op, target) == [site |-> from + 15, op |-> op, target |-> target]
VtWay(way, from, sym) ==
    CASE way \in {"call", "jump"} -> { VtBranchTo(from, way, sym) }
      [] way = "helper" -> { VtBranchTo(from, "call", VtThunk(sym)), VtBranchTo(VtThunk(sym), "call", sym) }
      [] OTHER -> { VtBranchTo(from, "call", VtThunk(sym)), VtBranchTo(VtThunk(sym), "jump", sym),
                    [site |-> 90, op |-> "call", target |-> VtThunk(sym) + (IF way = "thunk" THEN 20 ELSE 21)] }
VtBridgeCalls == { VtBranchTo(VtMethod(5, i), "call", VtOtherSym) : i \in {3, 7} }
VtSyms == << [at |-> VtTagsSym, part |-> "table_tags"], [at |-> VtDataSym, part |-> "table_data"],
             [at |-> VtOtherSym, part |-> "other"], [at |-> VtRasterSym, part |-> "raster"] >>

VtNamedImage(way, data_way, more) ==
    [VtImage EXCEPT !.text = <<<<80, 95000>>>>,
        !.branches = VtBridgeCalls \cup VtWay(way, VtOwn(29), VtTagsSym) \cup VtWay(data_way, VtOwn(30), VtDataSym) \cup more]
VtNamedRelro == VtScaler(5) \o VtTypeface(1, -1) \o <<0>>
VtNamedTried(way, data_way, parity, more) ==
    Slots!TryPatchModule(VtNamedImage(way, data_way, more), Slots!NewSlots(VtNamedRelro, {}), parity, VtSyms)

\* Every way is followed, the long jumper as a function that holds the branch; and the typeface is read
\* whether or not anything of the renderer may change.
ASSUME EveryWayIsFollowed ==
    \A way, data_way \in VtWays : \A parity \in BOOLEAN :
        LET s == VtNamedTried(way, data_way, parity, {})
            hooked == { i \in DOMAIN s.relro : s.relro[i] # VtNamedRelro[i] }
        IN  /\ s.tag_anchors = {VtOwn(29)}
            /\ Slots!FindSlots(s, VtFirstAt) = [tags |-> 29, data |-> 30, found |-> TRUE]
            /\ s.patched /\ s.image = VtMethod(5, 4)
            /\ hooked = {VtScalerAt + 3} \cup
                 (IF parity THEN {VtScalerAt + 2, VtScalerAt + 4, VtScalerAt + 6, VtFirstAt + 9, VtFirstAt + 30} ELSE {})

\* What calls a thunk from a function of its own is followed too; but not what calls a long jumper so, nor
\* what calls a caller.
ASSUME ThunksAreShort ==
    \A length \in {20, 21} : \A op \in {"jump", "call"} :
        LET symbol == VtTagsSym
            deep == { VtBranchTo(VtOwn(29), "call", VtHelper(symbol)), VtBranchTo(VtHelper(symbol), "call", VtThunk(symbol)),
                      VtBranchTo(VtThunk(symbol), op, symbol),
                      [site |-> 90, op |-> "call", target |-> VtThunk(symbol) + length] }
            image == [VtNamedImage("call", "call", deep) EXCEPT !.branches = @ \ VtWay("call", VtOwn(29), symbol)]
            s == Slots!TryPatchModule(image, Slots!NewSlots(VtNamedRelro, {}), TRUE, VtSyms)
        IN  (s.tag_anchors = {VtOwn(29)}) = (length = 20 /\ op = "jump")

\* Nor is a table known whose tags are in another table as well, and a table is not read when the virtual
\* after the tags is not one that reads tables.
ASSUME OneTableThatReads ==
    LET twice == Slots!TryPatchModule(VtNamedImage("call", "call", {}),
                                      Slots!NewSlots(VtNamedRelro \o VtTypeface(1, -1) \o <<0>>, {}), TRUE, VtSyms)
        later == [VtNamedImage("call", "call", {}) EXCEPT
                    !.branches = (@ \ VtWay("call", VtOwn(30), VtDataSym)) \cup VtWay("call", VtOwn(31), VtDataSym)]
        apart == Slots!TryPatchModule(later, Slots!NewSlots(VtNamedRelro, {}), FALSE, VtSyms)
    IN  /\ twice.filter_rec = 0 /\ Slots!FindSlots(twice, VtFirstAt).found
        /\ apart.tag_anchors = {VtOwn(29)} /\ ~Slots!FindSlots(apart, VtFirstAt).found

\* A second virtual that reads the tags leaves the typeface's table unknown, and unwritten.
ASSUME TwoReadersAreNone ==
    LET s == VtNamedTried("call", "call", TRUE, {VtBranchTo(VtOwn(3), "call", VtTagsSym)})
    IN  /\ s.filter_rec = 0 /\ s.relro[VtFirstAt + 9] = VtOwn(9)
        /\ ~Slots!FindSlots(s, VtFirstAt).found

\* A scaler that does not draw through the bridge, or two that draw alike, and nothing is written at all.
ASSUME NothingWithoutAScaler ==
    \A n \in {1, 2} :
        LET image == [VtNamedImage("call", "call", {}) EXCEPT
                        !.branches = IF n = 1 THEN @ \ VtBridgeCalls
                                     ELSE @ \cup { VtBranchTo(VtMethod(6, i), "call", VtOtherSym) : i \in {3, 7} }]
            relro == VtScaler(6) \o VtNamedRelro
        IN  Slots!TryPatchModule(image, Slots!NewSlots(relro, {}), TRUE, VtSyms).relro = relro

\* The variation position is counted back from the tags by a version's count and believed only where it is
\* seen to reach the bridge, in its first bytes or in those of something it calls.
ASSUME PositionIsSeenToCall ==
    \A major \in {145, 146} : \A at \in {16, 18} : \A off \in {35, 36} : \A inner \in {-1, 7, 8} :
        LET far == inner # -1
            fn == VtOwn(at)
            calls == IF far THEN { [site |-> fn + off, op |-> "call", target |-> 70000],
                                   [site |-> 70000 + inner, op |-> "jump", target |-> VtOtherSym] }
                     ELSE { [site |-> fn + off, op |-> "jump", target |-> VtOtherSym] }
            image == [VtNamedImage("call", "call", calls) EXCEPT !.major = major, !.bridge = VtOtherSym]
            s == Slots!FindVariationSlot(image, Slots!NewSlots(VtNamedRelro, {}), VtFirstAt, VtFirstAt + 30)
        IN  s.variation = IF at = (IF major = 146 THEN 16 ELSE 18) /\ off = 35 /\ inner # 8 THEN at ELSE 0

\* A version is three figures and a dot; others are passed over.
ASSUME FirstVersion ==
    \A n, m \in {99, 100, 999, 1000} : \A dot \in BOOLEAN :
        Slots!ChromiumMajor(<<[number |-> n, dot |-> dot], [number |-> m, dot |-> TRUE]>>)
            = IF dot /\ n \in 100 .. 999 THEN n ELSE IF m \in 100 .. 999 THEN m ELSE 0

\* four segments of code; none, or no relocations, and there is nothing to read
ASSUME FourSegments ==
    \A n \in 0 .. 6 : \A relro \in {<<>>, <<0>>} :
        LET segments == [executable |-> [i \in 1 .. n |-> <<10 * i, 10 * i + 5>>], relro |-> relro]
        IN  /\ Slots!HasShape(segments) = (n > 0 /\ relro # <<>>)
            /\ \A a \in 0 .. 70 :
                 Slots!InText([VtImage EXCEPT !.text = Slots!DescribeImage(segments).text], a)
                    = (\E i \in 1 .. 4 : i <= n /\ a \in 10 * i .. 10 * i + 4)

----------------------------------------------------------------------------
(* A font put together from its tables *)

VtTableSizes == {0, 1, 4, 32, 33}
VtTableLists ==
    UNION { { [i \in 1 .. n |-> [tag |-> tag[i], size |-> size[i], short |-> i = short]] :
                tag \in { t \in [1 .. n -> 1 .. 3] : \A i, j \in 1 .. n : t[i] = t[j] => i = j } \ {<<1, 2, 3>>, <<3, 1, 2>>},
                size \in [1 .. n -> VtTableSizes], short \in 0 .. n } : n \in 1 .. 3 }
VtReader == VtNamedTried("call", "call", FALSE, {})
VtNamedTypeface == [table |-> VtFirstAt, heads |-> {}]

\* Each table that is neither empty nor too long, in the order of the tags, on a boundary of four and after
\* the one before; and none at all when one of them came short.
ASSUME TablesInOrder ==
    LET reader == VtReader
    IN  \A tables \in VtTableLists :
            LET font == Slots!ReadFontFile(reader, VtNamedTypeface, <<>>, tables)
                at == Slots!Offsets(font)
                kept == { t \in Range(tables) : t.size \in 1 .. 32 }
            IN  IF \E t \in kept : t.short THEN font = <<>>
                ELSE /\ Range(font) = kept /\ Len(font) = Cardinality(kept)
                     /\ \A i \in DOMAIN font : at[i] % 4 = 0 /\ at[i] >= 12 + 16 * Len(font)
                     /\ \A i, j \in DOMAIN font : i < j =>
                            font[i].tag < font[j].tag /\ at[i] + font[i].size <= at[j] /\ (j = i + 1 => at[j] < at[i] + font[i].size + 4)

ASSUME NoMoreThan512 ==
    LET many(n) == [i \in 1 .. n |-> [tag |-> i, size |-> 1, short |-> FALSE]]
    IN  Slots!ReadFontFile(VtReader, VtNamedTypeface, <<>>, many(513)) = <<>>

\* The largest power of two that is not more than the tables, by sixteen, and what is left.
ASSUME DirectoryAddsUp ==
    \A n \in 1 .. 512 :
        LET d == Slots!Directory(n) IN d.range = 16 * 2 ^ d.entry /\ d.range <= 16 * n /\ 2 * d.range > 16 * n
                                       /\ d.range + d.shift = 16 * n

----------------------------------------------------------------------------
(* Processes and images *)

VtFile(n) == [readable |-> n # -1, dynsym |-> [i \in 1 .. (IF n = -1 THEN 12 ELSE n) |-> [function |-> TRUE, ffi |-> TRUE]]]
VtLoaded ==
    { [unnamed |-> u, self |-> f, strings |-> w, file |-> VtFile(n)] :
        u \in BOOLEAN, f \in BOOLEAN, w \in SUBSET {"fontations", "render params"}, n \in {-1, 9, 10} }
VtTwo == [1 .. 2 -> VtLoaded]
VtProcess == [cmdline |-> TRUE, type |-> "renderer", done |-> FALSE, parity |-> TRUE, disabled |-> FALSE]
VtHas(m, word) == word \in m.strings /\ ~m.self

\* Names before the typeface's string before the executable, whichever comes first in each.
ASSUME WhichImage ==
    \A l \in VtTwo :
        LET scan == Slots!ScanLoadedImages(VtProcess, l)
            Rank(m) == CASE m.file.readable /\ Len(m.file.dynsym) >= 10 -> 1 [] VtHas(m, "fontations") -> 2 [] m.unnamed -> 3 [] OTHER -> 4
            best == IF Rank(l[2]) < Rank(l[1]) THEN 2 ELSE 1
        IN  /\ scan.patch = IF Rank(l[best]) = 4 THEN <<>> ELSE <<l[best]>>
            /\ scan.named = (Rank(l[best]) = 1)
            /\ scan.fonts = CASE VtHas(l[1], "fontations") -> <<l[1]>> [] VtHas(l[2], "fontations") -> <<l[2]>>
                              [] l[2].unnamed -> <<l[2]>> [] l[1].unnamed -> <<l[1]>> [] OTHER -> <<>>
            /\ scan.render = <<>>

\* A renderer is searched for its slots, the browser for its parameters, once, and nobody else.
ASSUME WhichProcess ==
    \A l \in { x \in VtTwo : x[1] = x[2] } :
        \A p \in [cmdline : BOOLEAN, type : {"none", "zygote", "renderer", "gpu-process"}, done : BOOLEAN, parity : BOOLEAN, disabled : BOOLEAN] :
            LET scan == Slots!ScanLoadedImages(p, l)
                may == p.cmdline /\ p.parity /\ ~p.done
            IN  /\ scan.patch # <<>> => may /\ p.type \in {"zygote", "renderer"} /\ ~p.disabled
                /\ scan.fonts # <<>> => may /\ p.type \in {"zygote", "renderer"} /\ ~p.disabled
                /\ scan.render = IF may /\ p.type = "none" /\ (VtHas(l[1], "render params") \/ l[1].unnamed) THEN <<l[1]>> ELSE <<>>

\* what is loaded after a hundred and twenty-eight is not seen
ASSUME OnlySoManyModules ==
    \A n \in {127, 128} :
        LET dull == [unnamed |-> FALSE, self |-> FALSE, strings |-> {}, file |-> VtFile(-1)]
            l == [i \in 1 .. n |-> dull] \o <<[dull EXCEPT !.unnamed = TRUE]>>
        IN  (Slots!ScanLoadedImages(VtProcess, l).patch # <<>>) = (n = 127)

----------------------------------------------------------------------------
(* Code that is patched where it stands: three functions a thousand apart, *)
(* 1000, 2000 and 3000; something of the second is read at 2500, and 2200  *)
(* is an address inside it.                                                *)

Code == INSTANCE CodePatches WITH kSpan <- 900, kUnreachable <- {4100}

CpImage ==
    [text |-> <<<<900, 5000>>>>, rodata |-> <<{[at |-> 10, text |-> Code!kQueryName], [at |-> 20, text |-> Code!kAnchor],
                                               [at |-> 30, text |-> "und-Zsye"], [at |-> 40, text |-> "Arial"]}>>,
     loads |-> {}, pads |-> {}, prologue |-> << >>, closed |-> {}, far |-> {}, room |-> TRUE,
     unwind |-> {}, weights |-> {}, literals |-> {}, getters |-> {}, inlined |-> {}, thunks |-> {}, sizes |-> {}, biased |-> {}]

CpCall(site, target) == [site |-> site, op |-> "call", target |-> target]
CpTargets == {1000, 2000, 2200, 3000}
CpCalls == { CpCall(site, target) : site \in {1100, 2100, 2600, 3100}, target \in CpTargets }
CpFewCalls == { c \in UNION { kSubset(n, CpCalls) : n \in 0 .. 2 } : \A b, d \in c : b.site = d.site => b = d }
CpCalled(calls) == { b.target : b \in calls }

\* a branch ends where it did, or in a hook that knows where that was
CpKept(before, after) ==
    /\ Cardinality(after.branches) = Cardinality(before.branches)
    /\ \A b \in before.branches : \E c \in after.branches :
           /\ c.site = b.site /\ c.op = b.op
           /\ c.target = b.target \/ (c.target \in Code!Hooks /\ after.original[c.target] = b.target)

\* what leads to a hook, and the function that is told for it
CpLed(after, hook) == { b.site : b \in { x \in after.branches : x.target = hook } }

CpQuery(calls, pads, closed) ==
    LET I == [CpImage EXCEPT !.loads = {[site |-> 2500, at |-> 10]}, !.pads = pads, !.closed = closed, !.far = {3100}]
    IN  Code!AnswerTheQuery(I, Code!NewCode(calls))

\* The query is the function that reads its name, when that is called and begins behind padding, and
\* when no address inside it seems to be both.  Where none is, an earlier function may be taken for
\* it.  Every call of it is led to the hook that can be: the page opens, and one nearby is in reach.
ASSUME TheQueryIsBehindPadding ==
    \A calls \in CpFewCalls, pads \in SUBSET {999, 1999, 2199, 2999} :
        LET after == CpQuery(calls, pads, {2600})
            entries == { f \in CpCalled(calls) : f - 1 \in pads }
            truth == 2000 \in entries /\ 2200 \notin entries
        IN  /\ CpKept(Code!NewCode(calls), after)
            /\ after.original[Code!QueryHook] \in (entries \ {3000}) \cup {0}
            /\ truth => CpLed(after, Code!QueryHook) = { b.site : b \in { x \in calls : x.target = 2000 /\ x.site \in {1100, 2100} } }
            /\ (\E f \in {2000, 2200} : f \in entries) => after.original[Code!QueryHook] # 1000

\* a jump to it is led to the hook too
ASSUME JumpsAreCalls ==
    LET jump == [site |-> 1100, op |-> "jump", target |-> 2000]
        after == CpQuery({jump, CpCall(2600, 2000)}, {1999}, {})
    IN  CpLed(after, Code!QueryHook) = {1100, 2600} /\ CpQuery({jump}, {1999}, {}) = Code!NewCode({jump})

\* Where a name is read twice, or no page is had nearby, nothing is led anywhere.
ASSUME OneReadingOfAName ==
    \A twice, room \in BOOLEAN :
        LET sites == {2500} \cup IF twice THEN {2550} ELSE {}
            I == [CpImage EXCEPT !.loads = [site : sites, at : {10, 20, 30}], !.pads = {1999}, !.room = room, !.unwind = {2000},
                                 !.weights = {[site |-> 2100, offset |-> 8]}, !.prologue = [a \in {2000} |-> <<7, 7>>]]
            s == Code!NewCode({CpCall(1100, 2000)})
            idle == twice \/ ~room
        IN  /\ Code!AnswerTheQuery(I, s) = s <=> idle
            /\ Code!InstallFallback(I, s) = s <=> idle
            /\ Code!InstallBoldWeight(I, s) = s <=> idle


\* the names of the properties, and where each is read
CpNamed == [CpImage EXCEPT !.rodata = @ \o <<{ [at |-> 100 + i, text |-> SetToSeq(Code!kProperties)[i]] : i \in 1 .. 6 }>>]
CpReads(sites) == [CpNamed EXCEPT !.loads = { [site |-> (IF i <= 3 THEN sites[i] ELSE 2500) + i, at |-> 100 + i] : i \in 1 .. 6 }]

\* What answers Blink's parameters is the function that reads all six properties, when it and those
\* after it are called.  An address inside it that seems to be called hides it or is taken for it.
ASSUME OneReaderOfAll ==
    \A sites \in [1 .. 3 -> {2100, 2500, 3500}], calls \in CpFewCalls, closed \in {{}, {2007}} :
        LET I == [CpReads(sites) EXCEPT !.closed = closed]
            after == Code!ApplyRenderParams(I, Code!NewCode(calls))
            told == { d.at : d \in after.detours }
            hidden == 2200 \in CpCalled(calls)
            beyond == \E i \in 1 .. 3 : sites[i] = 3500
        IN  /\ told # {} => ~\E i \in 1 .. 3 : sites[i] = 3500 /\ 3000 \in CpCalled(calls)
            /\ told # {} /\ 2000 \in CpCalled(calls) /\ ~hidden => told = {2000} /\ closed = {}
            /\ 2000 \in CpCalled(calls) /\ ~hidden /\ ~beyond /\ closed = {} => told = {2000}
            /\ hidden => told \subseteq {2200} /\ (told # {} => ~\E i \in 1 .. 3 : sites[i] = 2100)

\* with one of the names missing nothing is touched
ASSUME AllSixOrNone ==
    \A i \in 1 .. 6 :
        LET I == [CpReads([n \in 1 .. 3 |-> 2500]) EXCEPT !.loads = @ \cup {[site |-> 2600, at |-> 10]}, !.pads = {1999},
                                                         !.rodata = <<@[1], { t \in @[2] : t.at # 100 + i }>>]
        IN  Code!ApplyRenderParams(I, Code!NewCode({CpCall(1100, 2000)})) = Code!NewCode({CpCall(1100, 2000)})
ASSUME NoReaderOfTwo ==
    LET I == [CpNamed EXCEPT !.loads = [site : {2500, 3500}, at : 101 .. 106]]
        s == Code!NewCode({CpCall(1100, 2000), CpCall(2100, 3000)})
    IN  Code!ApplyRenderParams(I, s) = s /\ Code!ApplyRenderParams([I EXCEPT !.loads = [site : {3500}, at : 101 .. 106]], s) # s

----------------------------------------------------------------------------
(* The browser's fallback *)

CpMovable == <<1, 3, 1, 2, 4, 7>>
CpFallback(calls, movable, room, closed) ==
    LET I == [CpImage EXCEPT !.loads = {[site |-> 2500, at |-> 20]}, !.room = room, !.closed = closed,
                             !.prologue = [a \in movable |-> CpMovable]]
    IN  Code!InstallFallback(I, Code!NewCode(calls))
CpEntries(after) == { d.at : d \in after.detours }

\* The fallback is the function that reads its name, when a call above the reading reaches it and its
\* prologue can be moved.  A call from below does not count: the function before it is then taken for
\* it, although the whole image was to be looked at.
ASSUME CalledFromAbove ==
    \A calls \in CpFewCalls, movable \in SUBSET CpTargets :
        LET after == CpFallback(calls, movable, TRUE, {})
            above == { b.target : b \in { x \in calls : x.site < 2500 /\ x.target <= 2500 } } \cap movable
        IN  /\ CpEntries(after) = IF above = {} THEN {} ELSE {CHOOSE f \in above : \A g \in above : g <= f}
            /\ after # Code!NewCode(calls) => after.original[Code!FallbackHook] = (CHOOSE f \in CpEntries(after) : TRUE) + 18
ASSUME TakenForTheOneBefore ==
    CpEntries(CpFallback({CpCall(1100, 1000), CpCall(3100, 2000)}, {1000, 2000}, TRUE, {})) = {1000}

\* without a page for what was moved, or one of the entry that opens, nothing is overwritten
ASSUME NoEntryWithoutItsTrampoline ==
    \A room \in BOOLEAN, closed \in SUBSET {2000, 2011, 2012} :
        LET after == CpFallback({CpCall(1100, 2000)}, {2000}, room, closed)
        IN  IF room /\ closed \cap {2000, 2011} = {} THEN CpEntries(after) = {2000}
            ELSE after = Code!NewCode({CpCall(1100, 2000)})

\* What is moved is whole instructions, no fewer than the jump overwrites and none more than it must.
CpLengths == UNION { [1 .. n -> {1, 2, 3, 4, 7}] : n \in 0 .. 5 }
CpSum(lengths, n) == FoldLeft(+, 0, SubSeq(lengths, 1, n))
ASSUME WholeInstructionsMove ==
    \A lengths \in CpLengths :
        LET taken == Code!RelocatableBytes(lengths, 12)
        IN  IF CpSum(lengths, Len(lengths)) < 12 THEN taken = 0
            ELSE \E n \in DOMAIN lengths : taken = CpSum(lengths, n) /\ taken >= 12 /\ CpSum(lengths, n - 1) < 12

\* A locale is read as it was written, or not at all; only one that begins with a space or one of six signs,
\* or is empty, can be taken for the other layout.
CpText(n, first) == [i \in 1 .. n |-> IF i = 1 THEN first ELSE 97]
ASSUME TheLayoutIsSeen ==
    \A n \in 0 .. 24, first \in {32, 33, 40, 44, 46, 101}, layout \in {"first byte", "last byte"}, old \in {0, 97} :
        LET w == Code!WriteShortString([i \in 0 .. 23 |-> old], CpText(n, first), layout)
            seen == Code!LayoutOf(w.bytes)
        IN  /\ w.written <=> n <= 22
            /\ ~w.written => \A i \in 0 .. 23 : w.bytes[i] = old
            /\ w.written => /\ seen \in {layout, "unknown"} /\ Code!ReadShortString(w.bytes, layout) = CpText(n, first)
                            /\ seen = "unknown" <=> n = 0 \/ (layout = "last byte" /\ first % 2 = 0 /\ n = (first \div 2) + 1)
                            /\ Code!ReadShortString(w.bytes, seen) \in {CpText(n, first), <<>>}

----------------------------------------------------------------------------
(* The renderer's fallback *)

CpWeight(calls, unwind, weights, literal, closed) ==
    LET I == [CpImage EXCEPT !.loads = {[site |-> 2500, at |-> 30]}, !.unwind = unwind, !.closed = closed,
                             !.weights = weights, !.literals = IF literal THEN {2500} ELSE {}]
    IN  Code!InstallBoldWeight(I, Code!NewCode(calls))
CpWeights == { {}, {[site |-> 2100, offset |-> 8]}, {[site |-> 2100, offset |-> 8], [site |-> 2300, offset |-> 16]},
               {[site |-> 3100, offset |-> 24]} }

\* The function is the later of what unwinds and what is called.  Calls are led to its hook only where
\* the weight's place in a description is read from it, and the query behind its anchor only then.
ASSUME BoldWhereTheWeightIsKnown ==
    \A calls \in CpFewCalls, unwind \in SUBSET {1000, 2000, 3000}, weights \in CpWeights, literal \in BOOLEAN, closed \in {{}, {1100}} :
        LET asks == [site |-> 2512, op |-> "call", target |-> 3000]
            after == CpWeight(calls \cup {asks}, unwind, weights, literal, closed)
            entries == { f \in unwind \cup CpCalled(calls) : f <= 2500 }
            entry == IF entries = {} THEN 0 ELSE CHOOSE f \in entries : \A g \in entries : g <= f
            known == entry # 0 /\ \E w \in weights : w.site \in entry .. entry + 899
            led == { b.site : b \in { x \in calls : x.target = entry /\ x.site \notin closed } }
        IN  /\ CpKept(Code!NewCode(calls \cup {asks}), after)
            /\ CpLed(after, Code!WeightHook) = IF known THEN led ELSE {}
            /\ known => Code!WeightOffset([CpImage EXCEPT !.weights = weights], entry) = IF entry > 2100 THEN 16 ELSE 8
            /\ 2512 \in CpLed(after, Code!CharacterHook) <=> known /\ led # {} /\ literal

\* Whichever way fallbacks are nested, a character is asked for as bold when the last description given
\* on the thread was of a bold run, and the thread is left as it was found.
CpSteps == {Code!kUndescribed, 1600, 2399, 2400, 2800}
CpOpen(steps) == LET described == SelectSeq(steps, LAMBDA w : w # Code!kUndescribed)
                 IN  described # <<>> /\ Last(described) >= 2400
ASSUME TheInnermostRunDecides ==
    \A steps \in UNION { [1 .. n -> CpSteps] : n \in 0 .. 4 } :
        LET run == FoldLeft(Code!EnterFallback, Code!NoRun, steps)
            left == FoldLeft(LAMBDA r, w : Code!LeaveFallback(r), run, steps)
        IN  /\ left = Code!NoRun
            /\ steps # <<>> => Code!LeaveFallback(run) = FoldLeft(Code!EnterFallback, Code!NoRun, Front(steps))
            /\ \A point \in {0, 65}, marked \in BOOLEAN :
                   Code!QueryReplacement(run, [point |-> point, marked |-> marked]).marked = (marked \/ (point > 0 /\ CpOpen(steps)))

----------------------------------------------------------------------------
(* Regular faces *)

CpFont(families, weight) == [families |-> families, weight |-> weight]
CpFontLists == SUBSET { CpFont({"A"}, 80), CpFont({"A", "A Medium"}, 200), CpFont({"B"}, 180), CpFont({"B"}, 210) }
CpAsk(bolds, fonts, family, weight) ==
    Code!FcIntegerReplacement(bolds, fonts, "weight", [family |-> family, weight |-> weight])
NoBolds == [made |-> FALSE, names |-> {}]

\* Of two faces of a family the one asked for first is not the regular: it says less than regular only
\* where no face by any of its names is bold.  The list is that of the first regular face asked
\* about, whatever is installed later.
ASSUME LessThanRegularWhereNoneIsBold ==
    \A fonts, later \in CpFontLists, family \in {"A", "A Medium", "B", "none"}, weight \in {79, 80, 200} :
        LET first == CpAsk(NoBolds, fonts, "C", weight)
            then == CpAsk(first.bolds, later, family, 80)
            bold(list) == \E f \in list : f.weight >= 200 /\ family \in f.families
        IN  /\ CpAsk(NoBolds, fonts, family, weight).weight = IF weight = 80 /\ family # "none" /\ ~bold(fonts) THEN 79 ELSE weight
            /\ then.weight = 79 <=> family # "none" /\ ~bold(IF weight = 80 THEN fonts ELSE later)
            /\ Code!FcIntegerReplacement(NoBolds, fonts, "slant", [family |-> family, weight |-> 80]).weight = 80

\* the style of one entry of that name, whichever; none of a library's fontconfig
ASSUME EntriesByName ==
    LET s == Code!NewCode({CpCall(1100, 2000), CpCall(2100, 3000), CpCall(3100, 2000)})
        fc(library) == [integer |-> 2000, string |-> 3000, fonts |-> 1000, library |-> library]
    IN  /\ { CpLed(after, Code!StyleHook) : after \in Code!InstallStyle(CpImage, s, {2000, 3000}) } = {{1100, 3100}, {2100}}
        /\ Code!InstallStyle(CpImage, s, {}) = {s} /\ Code!InstallFontconfig(CpImage, s, fc(TRUE)) = s
        /\ CpLed(Code!InstallFontconfig(CpImage, s, fc(FALSE)), Code!IntegerHook) = {1100, 3100}
        /\ Code!InstallFontconfig(CpImage, s, [fc(FALSE) EXCEPT !.fonts = 0]) = s
        /\ \A w \in {399, 400, 401} : Code!StyleReplacement(w) = IF w = 400 THEN 399 ELSE w

\* Of the bridge's three functions the clip box is led to its hook only with the outlines; the drawing is
\* led whatever becomes of the outlines.
ASSUME DrawnWithoutItsOutlines ==
    \A path \in {{}, {1000}, {1000, 2000}}, draw, box \in {0, 2000, 3000}, closed \in SUBSET {1100, 2100, 3100} :
        LET s == Code!NewCode({CpCall(1100, 1000), CpCall(2100, 2000), CpCall(3100, 3000)})
            after == Code!InstallBridge([CpImage EXCEPT !.closed = closed], s, path, draw, box)
            open(target) == CHOOSE site \in {1100, 2100, 3100} : site = target + 100
        IN  draw # box \/ draw = 0 =>
            /\ CpKept(s, after)
            /\ CpLed(after, Code!PathHook) = IF path = {1000} THEN {1100} \ closed ELSE {}
            /\ CpLed(after, Code!DrawHook) = IF path = {1000} /\ draw # 0 THEN {draw + 100} \ closed ELSE {}
            /\ CpLed(after, Code!ClipBoxHook) = IF CpLed(after, Code!PathHook) # {} /\ box # 0 THEN {box + 100} \ closed ELSE {}

ASSUME OneVectorForBoth ==
    \A v, p \in [data : {0, 1}, reserve : {0, 2}, set_len : {0, 3}] :
        LET ops == Code!VectorOps(v, p)
        IN  /\ ops.data = 0 => v.data = 0 /\ p.data = 0
            /\ ops.set_len = 0 => v.set_len = 0 /\ p.set_len = 0
            /\ ops.reserve = p.reserve

----------------------------------------------------------------------------
(* The system's fonts *)

CpRun(a, n) == a .. a + n - 1
CpUi(inlined, thunk, pads, closed) ==
    [CpImage EXCEPT !.getters = {[at |-> 1000, string |-> 40, guard |-> 50, atom |-> 60], [at |-> 1200, string |-> 40, guard |-> 50, atom |-> 61]},
                    !.inlined = IF inlined THEN {[at |-> 2600, guard |-> 50, atom |-> 61], [at |-> 2650, guard |-> 51, atom |-> 60], [at |-> 2700, guard |-> 50, atom |-> 60]} ELSE {},
                    !.thunks = IF thunk THEN {[at |-> 2800, to |-> 1200, padded |-> TRUE], [at |-> 2900, to |-> 1000, padded |-> FALSE],
                                              [at |-> 3000, to |-> 1000, padded |-> TRUE]} ELSE {},
                    !.sizes = {[at |-> 2000, default |-> 4000]}, !.biased = {2100, 2200}, !.pads = pads, !.closed = closed]
CpUiCode == Code!NewCode({CpCall(2100, 4000), CpCall(2200, 4000), CpCall(2300, 4000), CpCall(1100, 1000)})

\* A menu is 12 pixels where it is Segoe UI: never the family alone.  Where the family's page does not
\* open the sizes are Windows' already, and stay so: a menu of the host's font at 12 pixels.
ASSUME HalfAMenu ==
    \A inlined, thunk \in BOOLEAN, pads \in {CpRun(1900, 14), CpRun(1900, 15), CpRun(1800, 14) \cup CpRun(1900, 16)},
       closed \in SUBSET {1901, 1914, 2101, 2201, 2720, 3011} :
        LET after == Code!ApplySystemFonts(CpUi(inlined, thunk, pads, closed), CpUiCode)
            family == { d.at : d \in after.detours }
            sized == CpLed(after, Code!SizeHook)
        IN  /\ CpKept(CpUiCode, after)
            /\ family # {} => sized # {} /\ family = IF inlined THEN {2700} ELSE {3000}
            /\ sized = IF (inlined \/ thunk) /\ Cardinality(pads) >= 15 /\ {1901, 1914} \cap closed = {} THEN {2100, 2200} \ { a - 1 : a \in closed } ELSE {}
            /\ sized # {} /\ family = {} <=> sized # {} /\ (IF inlined THEN 2720 ELSE 3011) \in closed

\* both hooks are of the same keywords, and the others are as the host has them
ASSUME TheKeywordsOfAMenu ==
    \A id \in 13 .. 21 :
        /\ (Code!SystemFamily(id, "host") # "host") <=> (Code!SystemFontSize(id - 18, 15) # 15)
        /\ (Code!SystemFamily(id, "host") # "host") <=> id \in {15, 17, 21}

----------------------------------------------------------------------------
(* HarfBuzz *)

CpSymbol(name, at, function, defined) == [name |-> name, at |-> at, function |-> function, defined |-> defined]
CpShape(at) == <<CpSymbol("hb_shape", 0, TRUE, FALSE), CpSymbol("hb_shape", at + 7, FALSE, TRUE), CpSymbol("hb_shape", at, TRUE, TRUE),
                 CpSymbol("hb_shape", at + 1, TRUE, TRUE)>>
CpHost(main, skia, library, has, at, imports) ==
    [main |-> main, skia |-> skia, library |-> library, symbols |-> IF has THEN CpShape(at) ELSE <<>>,
     imports |-> IF imports THEN {"hb_shape"} ELSE {}, hashed |-> TRUE]
CpHosts == { << CpHost(TRUE, ~apart, FALSE, own, 1000, imports), CpHost(FALSE, FALSE, TRUE, beside, 2000, FALSE),
                CpHost(FALSE, apart, FALSE, inside, 3000, FALSE) >> :
             apart, own, imports, beside, inside \in BOOLEAN }

\* Where Skia is in the executable, shaping is what its own calls reach: the symbol it imports, or its
\* own.  Where Skia is in a library that is that library's own, unless the executable has one
\* itself.  What somebody else's HarfBuzz defines is never taken for Blink's.
ASSUME WhereShapingIs ==
    \A images \in CpHosts :
        LET hb == Code!ResolveAtLoad(images)
            own == images[1].symbols # <<>>
            imports == images[1].imports # {}
            beside == images[2].symbols # <<>>
            apart == images[3].skia
            inside == images[3].symbols # <<>>
        IN  /\ hb.where = IF imports /\ beside THEN "interposable" ELSE IF own \/ (apart /\ inside) THEN "in image" ELSE "absent"
            /\ hb.where = "in image" => Code!Real(hb, images, "hb_shape") = IF own THEN 1000 ELSE 3000
            /\ hb.where = "interposable" => Code!Real(hb, images, "hb_shape") = 2000
            /\ ~apart /\ ~imports => Code!Real(hb, images, "hb_shape") # 3000

\* an executable whose table has no end that can be told imports nothing
ASSUME NoEndNoImport ==
    \A images \in CpHosts : Code!ResolveAtLoad([images EXCEPT ![1].hashed = FALSE]).where # "interposable"

\* What the hook shapes with is never what leads back to it: the entry is overwritten only where there is
\* another to call, and otherwise only calls are moved.  A jump, a call too far away and a call from
\* another segment are left: their runs are shaped with the regular face.
ASSUME TheHookShapesElsewhere ==
    \A full, complete, known \in BOOLEAN, closed \in SUBSET {1000, 2103}, op \in {"call", "jump"} :
        LET images == <<[CpHost(TRUE, TRUE, FALSE, TRUE, 1000, FALSE) EXCEPT
                            !.symbols = IF full THEN Append(@, CpSymbol("hb_shape_full", 1500, TRUE, TRUE)) ELSE @]>>
            I == [CpImage EXCEPT !.closed = closed, !.text = Append(@, <<6000, 7000>>)]
            s == Code!NewCode({[site |-> 2100, op |-> op, target |-> 1000], CpCall(4100, 1000), CpCall(3100, 1000), CpCall(6100, 1000)})
            after == Code!InstallShaping(I, s, Code!ResolveAtLoad(images), images, complete, known)
            shapes == after.original[Code!ShapeHook]
        IN  /\ \A d \in after.detours : d.at # shapes
            /\ after # s => complete /\ known
            /\ full => CpLed(after, Code!ShapeHook) = {}
            /\ after.detours = IF full /\ complete /\ known /\ 1000 \notin closed THEN {[at |-> 1000, to |-> Code!ShapeHook]} ELSE {}
            /\ ~full /\ complete /\ known =>
                   CpLed(after, Code!ShapeHook) = {3100} \cup (IF op = "call" /\ 2103 \notin closed THEN {2100} ELSE {})

----------------------------------------------------------------------------
(* A browser of CEF is asked for Segoe UI once, and nobody else is. *)
ASSUME TheSwitchOfABrowser ==
    \A argv \in UNION { [1 .. n -> {"other", "--type", Code!kSwitch}] : n \in 0 .. 3 }, off, cef \in BOOLEAN :
        LET started == Code!StartedWith(argv, off, cef)
            asks == \E i \in 2 .. Len(started) : started[i] = Code!kSwitch
        IN  /\ Code!StartedWith(started, off, cef) = started
            /\ \A i \in DOMAIN argv : started[i] = argv[i]
            /\ argv # <<>> /\ cef /\ ~off /\ "--type" \notin Range(Tail(argv)) => asks
            /\ started # argv => cef /\ ~off /\ "--type" \notin Range(Tail(argv))

----------------------------------------------------------------------------
(* The families of a script *)

GfTexts == { x.platform : x \in Range(Code!kSubstitutions) }
GfTeaches(pref, windows) ==
    \E x \in Range(Code!kSubstitutions) \cup Range(Code!kMinted) : pref \in Range(x.prefs) /\ x.windows = windows
GfPack(texts, spare, aliases) ==
    LET sizes == [i \in DOMAIN texts |-> Len(texts[i])]
    IN  [recognized |-> TRUE, resources |-> [i \in DOMAIN texts |-> [id |-> 10 * i, text |-> texts[i], size |-> sizes[i]]],
         aliases |-> aliases, length |-> 12 + 6 * (Len(texts) + 1) + 4 * Len(aliases) + Code!Total(sizes) + spare]
GfCell(pref, resource) == [pref |-> pref, resource |-> resource]
GfCells == <<GfCell("none", 0), GfCell("standard.Zyyy", 1), GfCell("fantasy.Zyyy", 2), GfCell("fixed.Zyyy", 3), GfCell("none", 0)>>
GfLea(site, end, compared) == [site |-> site, segment |-> site \div 10000, end |-> end, compared |-> compared]
GfImage(closed, names) ==
    [cells |-> GfCells, names |-> names, browser |-> TRUE, room |-> TRUE, closed |-> closed,
     leas |-> {GfLea(1000, "first", FALSE), GfLea(1100, "last", TRUE)}]

\* Every row Windows has is taught by one value, which fits where it is to go; and what may be minted
\* is what a value would have taught.
ASSUME TheTablesAgree ==
    /\ Cardinality(GfTexts) = Len(Code!kSubstitutions)
    /\ \A pref \in Range(Code!kWindowsRows) : Cardinality({ x \in Range(Code!kSubstitutions) : pref \in Range(x.prefs) }) = 1
    /\ \A x \in Range(Code!kSubstitutions) : Range(x.prefs) \subseteq Range(Code!kWindowsRows) /\ Len(x.windows) <= Len(x.platform)
    /\ \A m \in Range(Code!kMinted) : \E x \in Range(Code!kSubstitutions) : x.prefs = m.prefs /\ x.windows = m.windows
    /\ Code!Total([i \in DOMAIN Code!kSubstitutions |-> Len(Code!kSubstitutions[i].prefs)]) = Len(Code!kWindowsRows)

\* A pack that was rewritten is one still: in the length it had, its resources under their numbers and
\* in order, none of theirs or its aliases' given to another.  What was learned is in it, and what is
\* minted is paid for with what the values gave back.
GfChoices == {"Arial", "Monospace", "Noto Serif Devanagari", ",Noto Sans JP,Noto Sans CJK JP,Arial"}
ASSUME ThePackHoldsTogether ==
    \A texts \in UNION { [1 .. n -> GfChoices] : n \in 0 .. 3 }, spare \in {0, 5, 6, 30, 31, 100}, aliases \in {<<>>, <<50>>, <<65535>>, <<65534>>} :
        LET b == GfPack(texts, spare, aliases)
            out == Code!PatchBundle(Code!NothingLearned, b)
            after == out.b.resources
            hit == \E i \in DOMAIN texts : texts[i] \in GfTexts
            minted == Len(after) - Len(texts)
            asked == IF "Noto Serif Devanagari" \in Range(texts) THEN <<8>> ELSE <<12, 8>>
            given == Code!Total([i \in DOMAIN texts |-> CASE texts[i] = "Noto Serif Devanagari" -> 9
                                                          [] texts[i] = ",Noto Sans JP,Noto Sans CJK JP,Arial" -> 19
                                                          [] OTHER -> 0])
        IN  /\ ~hit => out = [g |-> Code!NothingLearned, b |-> b]
            /\ 12 + 6 * (Len(after) + 1) + 4 * Len(aliases) + Code!Total([i \in DOMAIN after |-> after[i].size]) <= b.length
            /\ \A i \in DOMAIN texts :
                   /\ after[i].id = 10 * i
                   /\ IF texts[i] \notin GfTexts THEN after[i] = b.resources[i]
                      ELSE \E x \in Range(Code!kSubstitutions) : x.platform = texts[i] /\ x.windows = after[i].text
            /\ \A i \in 2 .. Len(after) : after[i - 1].id < after[i].id
            /\ \A i \in DOMAIN after : Len(after[i].text) <= after[i].size /\ after[i].id <= 65535
                                       /\ (i > Len(texts) => after[i].id \notin Range(aliases))
            /\ \A l \in Range(out.g.learned) : \E r \in Range(after) : r.id = l.resource /\ GfTeaches(l.pref, r.text)
            /\ minted = IF hit /\ given + spare >= Code!Total(asked) + 6 * Len(asked) /\ (aliases = <<>> \/ aliases[1] <= 65535 - Len(asked))
                        THEN Len(asked) ELSE 0

\* With a pack of Linux's the browser's table is that of Windows, and the loop reads all of it.
ASSUME EveryRowOfWindows ==
    LET texts == [i \in DOMAIN Code!kSubstitutions |-> Code!kSubstitutions[i].platform]
        out == Code!MapAndPatch(GfImage({}, Range(Code!kWindowsRows)), Code!NothingLearned, GfPack(texts, 0, <<>>))
        rows == SubSeq(out.g.table, 4, Len(out.g.table))
    IN  /\ { r.pref : r \in Range(rows) } = Range(Code!kWindowsRows) /\ Len(rows) = Len(Code!kWindowsRows)
        /\ SubSeq(out.g.table, 1, 3) = SubSeq(GfCells, 2, 4)
        /\ \A i \in DOMAIN texts :
               LET twice == Code!PatchBundle(Code!NothingLearned, GfPack(<<texts[i], texts[i]>>, 0, <<>>)).g
               IN  \A pref \in Range(Code!kSubstitutions[i].prefs) : Code!ResourceFor(twice, pref) = 10
        /\ \A r \in Range(rows) : \E x \in Range(out.b.resources) : x.id = r.resource /\ GfTeaches(r.pref, x.text)
        /\ out.g.written = (1000 :> "copy" @@ 1100 :> 26)

\* Packs arrive one at a time.  The loop reads every row there is, once each, with the resource it was
\* first learned from; in the packs of a locale that is where it is, but for what was minted.
GfPacks == << GfPack(<<"Arial", "Monospace">>, 100, <<>>), GfPack(<<"Arial", "Noto Serif Devanagari">>, 100, <<>>),
              GfPack(<<",Noto Sans JP,Noto Sans CJK JP,Arial", "Arial">>, 0, <<>>), GfPack(<<"Arial">>, 100, <<>>) >>
GfMap(I, packs) == FoldLeft(LAMBDA o, i : LET out == Code!MapAndPatch(I, o.g, GfPacks[i]) IN [g |-> out.g, packs |-> Append(o.packs, out.b)],
                            [g |-> Code!NothingLearned, packs |-> <<>>], packs)
ASSUME OneRowForEachPref ==
    \A packs \in UNION { [1 .. n -> 1 .. 4] : n \in 0 .. 3 }, closed \in SUBSET {1000, 1100},
       names \in {Range(Code!kWindowsRows), {"fixed.Hans", "standard.Jpan"}, {}}, browser \in BOOLEAN :
        LET I == [GfImage(closed, names) EXCEPT !.browser = browser]
            out == GfMap(I, packs)
            table == out.g.table
            hits == { i \in DOMAIN packs : packs[i] # 4 }
        IN  /\ \A i, j \in DOMAIN table : table[i].pref = table[j].pref => i = j
            /\ table # <<>> <=> browser /\ hits # {}
            /\ browser => { table[i].pref : i \in 4 .. Len(table) } = names \cap { l.pref : l \in Range(out.g.learned) }
            /\ \A i \in 4 .. Len(table) : \E k \in hits : \E r \in Range(out.packs[k].resources) :
                   r.id = table[i].resource /\ GfTeaches(table[i].pref, r.text)
            /\ out.g.pointed <=> table # <<>> /\ closed = {}
            /\ out.g.pointed => out.g.written[out.g.end] = Len(table)

\* What was minted in one pack is not minted in the next, whose resources end before the number that
\* the row has; or have something else under it.
ASSUME MintedInOnePackOnly ==
    \A longer \in BOOLEAN :
        LET one == Code!MapAndPatch(GfImage({}, Range(Code!kWindowsRows)), Code!NothingLearned, GfPacks[1])
            next == GfPack(IF longer THEN <<"Monospace">> \o [i \in 1 .. 3 |-> "Arial"] ELSE <<"Arial", "Monospace">>, 100, <<>>)
            other == IF longer THEN [next EXCEPT !.resources[3].id = 21] ELSE next
            two == Code!MapAndPatch(GfImage({}, Range(Code!kWindowsRows)), one.g, other)
            found == { r.text : r \in { x \in Range(two.b.resources) : x.id = Code!ResourceFor(two.g, "fixed.Arab") } }
        IN  Code!ResourceFor(one.g, "fixed.Arab") = 21 /\ found = IF longer THEN {"Arial"} ELSE {}

\* One loop reads the table: a pair close together, or the only two there are; otherwise none is led
\* anywhere.  Where the end's page does not open its start is led to the copy all the same: the loop
\* then runs past the rows it has, and no later pack mends it: one may lead
\* another place that takes the first row to the copy.
GfLeas == {GfLea(1000, "first", FALSE), GfLea(1256, "last", TRUE), GfLea(1257, "last", TRUE), GfLea(9990, "first", FALSE),
           GfLea(1100, "first", TRUE), GfLea(950, "last", FALSE), GfLea(10010, "last", TRUE), GfLea(1200, "last", TRUE)}
ASSUME OneLoop ==
    \A leas \in SUBSET GfLeas, closed \in {{}, {1000}, {1256}} :
        LET I == [GfImage(closed, {}) EXCEPT !.leas = leas]
            g == Code!MapAndPatch(I, Code!NothingLearned, GfPacks[1]).g
            sites == { l.site : l \in leas }
            ends == sites \cap {1200, 1256, 1257, 10010}
            close == IF 1000 \in sites THEN sites \cap {1200, 1256} ELSE {}
            alone == close = {} /\ Cardinality(sites \cap {1000, 9990}) = 1 /\ Cardinality(ends) = 1
            start == IF 1000 \in sites THEN 1000 ELSE 9990
            end == IF alone THEN ends ELSE close
            again == Code!MapAndPatch(I, g, GfPacks[1]).g
        IN  /\ DOMAIN g.written = IF ~(alone \/ Cardinality(close) = 1) \/ start \in closed THEN {} ELSE {start} \cup (end \ closed)
            /\ g.pointed <=> DOMAIN g.written = {start} \cup end /\ end # {}
            /\ DOMAIN g.written = {start} =>
                   DOMAIN again.written = {start} \cup (IF start = 1000 /\ 9990 \in sites /\ Cardinality(ends) = 1 THEN {9990} ELSE {})

\* The rows are those around the anchor's, which is not the first nor the last of them.
ASSUME TheRowsAroundTheAnchor ==
    \A cells \in [1 .. 5 -> {GfCell("none", 7), GfCell("fantasy.Zyyy", 1), GfCell("fixed.Zyyy", 65535), GfCell("fixed.Zyyy", 65536), GfCell("x", 0)}] :
        LET rows == Code!FontDefaults([cells |-> cells])
            row(i) == cells[i].pref # "none" /\ cells[i].resource \in {1, 65535}
        IN  IF rows = <<>> THEN \A i \in 2 .. 4 : cells[i].pref = "fantasy.Zyyy" => \E j \in i - 1 .. i + 1 : ~row(j)
            ELSE \E a, z \in 1 .. 5 :
                   /\ rows = SubSeq(cells, a, z) /\ \A i \in a .. z : row(i)
                   /\ \E i \in a + 1 .. z - 1 : cells[i].pref = "fantasy.Zyyy"
                   /\ (a = 1 \/ ~row(a - 1)) /\ (z = 5 \/ ~row(z + 1))
=============================================================================
