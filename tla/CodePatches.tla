----------------------------- MODULE CodePatches -----------------------------
(***************************************************************************)
(* The functions of Chromium that have no slot to write: how each is found *)
(* in an image by what it reads, and its calls or its entry are led to a   *)
(* hook (src/chromium/code_patch.h and its callers); and the table of a    *)
(* script's families, whose loop is led to a longer copy.                  *)
(*                                                                         *)
(* Addresses are numbers, hooks are negative ones.  An image I has         *)
(*   text       its executable segments, pairs <<begin, end>>              *)
(*   rodata     of each read-only segment its strings, [at, text]          *)
(*   loads      where the address of one is taken, [site, at]              *)
(*   pads       the addresses of its padding                               *)
(*   prologue   by address, the lengths of the instructions that can move  *)
(*   closed     the addresses whose page does not open                     *)
(*   far, room  the sites a page nearby does not reach; whether it is got  *)
(* and s is what is written: its branches [site, op, target], op "call" or *)
(* "jump", the entries that were overwritten, and the original of a hook.  *)
(***************************************************************************)
EXTENDS Integers, Sequences, FiniteSets
LOCAL INSTANCE SequencesExt
LOCAL INSTANCE FiniteSetsExt
LOCAL INSTANCE TLC

CONSTANTS kSpan,        \* how far into a function its comparison of the weight may be
          kUnreachable  \* the sites a branch of 32 bits does not reach the library from

Null == 0
ParamsHook == -1
QueryHook == -2
FallbackHook == -3
WeightHook == -4
CharacterHook == -5
StyleHook == -6
IntegerHook == -7
DrawHook == -8
PathHook == -9
ClipBoxHook == -10
ShapeHook == -11
FamilyHook == -12
SizeHook == -13
Hooks == -13 .. -1

NewCode(branches) == [branches |-> branches, detours |-> {}, original |-> [h \in Hooks |-> Null]]

Within(segment, a) == a >= segment[1] /\ a < segment[2]
InText(I, a) == \E i \in DOMAIN I.text : Within(I.text[i], a)
Greatest(S) == IF S = {} THEN Null ELSE Max(S)
Strings(I, name) == { t.at : t \in { x \in UNION Range(I.rodata) : x.text = name } }
SitesLoading(I, addresses) == { l.site : l \in { x \in I.loads : x.at \in addresses } }
The(S) == CHOOSE x \in S : TRUE

----------------------------------------------------------------------------
(* Writing code *)

kDetour == 12
kBranch == 5
Opens(I, at, length) == I.closed \cap (at .. at + length - 1) = {}

\* whatever branch was in the bytes is gone
Overwritten(s, at, length, to) ==
    [s EXCEPT !.branches = { b \in @ : b.site + kBranch <= at \/ b.site >= at + length },
              !.detours = { d \in @ : d.at # at } \cup {[at |-> at, to |-> to]}]
WriteDetour(I, s, at, to) == IF Opens(I, at, kDetour) THEN Overwritten(s, at, kDetour, to) ELSE s

\* calls and jumps, each through a page nearby
Movable(I, s, segment, target) ==
    { b \in s.branches : /\ b.target = target /\ I.room /\ b.site \notin I.far
                         /\ b.site >= segment[1] /\ b.site + kBranch <= segment[2]
                         /\ Opens(I, b.site, kBranch) }

Retarget(s, moved, to) ==
    [s EXCEPT !.branches = (@ \ moved) \cup { [b EXCEPT !.target = to] : b \in moved }]

TextHolding(I, a) == { I.text[i] : i \in { j \in DOMAIN I.text : Within(I.text[j], a) } }

\* the original is known before the first call is moved, and forgotten when none was
RedirectIn(I, s, segments, target, hook) ==
    LET moved == UNION { Movable(I, s, segment, target) : segment \in segments }
    IN  IF moved = {} THEN s ELSE [Retarget(s, moved, hook) EXCEPT !.original[hook] = target]

Redirect(I, s, target, hook) == RedirectIn(I, s, TextHolding(I, target), target, hook)

----------------------------------------------------------------------------
(* The render parameters *)

kProperties == {"antialias", "autohint", "embeddedbitmap", "hintstyle", "hinting", "rgba"}
kQueryName == "gfx::GetFontRenderParams"

\* four segments of the code are looked at and eight of the rest
ImageOf(I) == [I EXCEPT !.text = SubSeq(@, 1, Min({4, Len(@)})), !.rodata = SubSeq(@, 1, Min({8, Len(@)}))]

Calls(s) == { b \in s.branches : b.op = "call" }
Starts(I, s) == { b.target : b \in { x \in Calls(s) : InText(I, x.site) /\ InText(I, x.target) } }
Below(starts, site) == Greatest({ f \in starts : f <= site })

\* a function begins where the padding before it ends
FunctionHolding(I, starts, site) ==
    Greatest({ f \in starts : f <= site /\ f - 1 \in I.pads /\ \E i \in DOMAIN I.text : f > I.text[i][1] /\ f < I.text[i][2] })

AnswerTheQuery(I, s) ==
    LET sites == SitesLoading(I, Strings(I, kQueryName))
        entry == IF Cardinality(sites) = 1 THEN FunctionHolding(I, Starts(I, s), The(sites)) ELSE Null
    IN  IF entry = Null THEN s ELSE RedirectIn(I, s, Range(I.text), entry, QueryHook)

PropertiesRead(I, s, fn) ==
    { p \in kProperties : \E site \in SitesLoading(I, Strings(I, p)) : Below(Starts(I, s), site) = fn }

ApplyRenderParams(image, s) ==
    LET I == ImageOf(image)
        starts == Starts(I, s)
        readers == { f \in starts : PropertiesRead(I, s, f) = kProperties }
        asked == AnswerTheQuery(I, s)
    IN  IF starts = {} \/ \E p \in kProperties : Strings(I, p) = {} THEN s
        ELSE IF Cardinality(readers) # 1 THEN asked
        ELSE WriteDetour(I, asked, The(readers), ParamsHook)

----------------------------------------------------------------------------
(* The browser's fallback: the entry is overwritten, and what it held is   *)
(* moved where it can be called from.                                      *)

kAnchor == "gfx::CachedFontSet::GetFallbackFontForChar"

\* whole instructions, as many as it takes; none where one cannot move
RelocatableBytes(lengths, least) ==
    LET through(n) == FoldLeft(+, 0, SubSeq(lengths, 1, n))
        enough == { n \in DOMAIN lengths : through(n) >= least }
    IN  IF enough = {} THEN 0 ELSE through(Min(enough))

Prologue(I, a) == IF a \in DOMAIN I.prologue THEN I.prologue[a] ELSE <<>>
BuildTrampoline(entry, taken) == [moved |-> taken, back |-> entry + taken]

\* only the calls above the site are looked at, and the first segment of the code
EntryBefore(I, s, site) ==
    Greatest({ b.target : b \in { x \in Calls(s) :
        /\ x.site + kBranch <= site /\ Within(I.text[1], x.site) /\ x.target <= site
        /\ x.target >= I.text[1][1] /\ x.target + 16 < I.text[1][2]
        /\ RelocatableBytes(Prologue(I, x.target), kDetour) # 0 } })

\* the trampoline is what the hook calls
InstallFallback(I, s) ==
    LET anchors == Strings(I, kAnchor)
        sites == { site \in SitesLoading(I, IF anchors = {} THEN {} ELSE {Min(anchors)}) : Within(I.text[1], site) }
        entry == IF Cardinality(sites) = 1 THEN EntryBefore(I, s, The(sites)) ELSE Null
    IN  IF entry = Null \/ ~I.room \/ ~Opens(I, entry, kDetour) THEN s
        ELSE [WriteDetour(I, s, entry, FallbackHook) EXCEPT
                 !.original[FallbackHook] = BuildTrampoline(entry, RelocatableBytes(Prologue(I, entry), kDetour)).back]

\* A string of the standard library that fits in place: its length and 23 bytes of text, or 23 bytes
\* and the length.  at is its bytes, from 0.
kShortMax == 22
kStringSize == 24

ShortStringReads(at, length, from) ==
    length <= kShortMax /\ (\A i \in from .. from + length - 1 : at[i] \in 32 .. 126) /\ at[from + length] = 0

LayoutOf(at) ==
    LET first == at[0] % 2 = 0 /\ ShortStringReads(at, at[0] \div 2, 1)
        last == at[kStringSize - 1] < 128 /\ ShortStringReads(at, at[kStringSize - 1], 0)
    IN  IF first = last THEN "unknown" ELSE IF first THEN "first byte" ELSE "last byte"

ReadShortString(at, layout) ==
    LET size == IF layout = "first byte" THEN at[0] \div 2 ELSE at[kStringSize - 1]
        from == IF layout = "first byte" THEN 1 ELSE 0
    IN  IF layout = "unknown" \/ size > kShortMax THEN <<>> ELSE [i \in 1 .. size |-> at[from + i - 1]]

\* whether it was written, and the bytes
WriteShortString(at, text, layout) ==
    LET size == Len(text)
        from == IF layout = "first byte" THEN 1 ELSE 0
        length == IF layout = "first byte" THEN [at |-> 0, is |-> 2 * size] ELSE [at |-> kStringSize - 1, is |-> size]
    IN  IF size > kShortMax \/ layout = "unknown" THEN [written |-> FALSE, bytes |-> at]
        ELSE [ written |-> TRUE,
               bytes |-> [i \in 0 .. kStringSize - 1 |->
                             IF i = length.at THEN length.is ELSE IF i - from \in 0 .. size - 1 THEN text[i - from + 1] ELSE 0] ]

----------------------------------------------------------------------------
(* The renderer's fallback, which knows the weight of the run.  unwind is  *)
(* where the functions of the unwind table start, weights where the weight *)
(* of a description is compared with a bold one's, [site, offset],         *)
(* literals the sites of a lea that a character literal and a call follow. *)

FunctionStart(I, a) == Greatest({ f \in I.unwind : f <= a })
CalledEntryBelow(I, s, a) ==
    Greatest({ b.target : b \in { x \in Calls(s) : InText(I, x.site) /\ x.target <= a /\ x.target >= I.text[1][1] } })

NoOffset == -1
WeightOffset(I, entry) ==
    LET sites == { w.site : w \in { x \in I.weights : x.site >= entry /\ x.site < entry + kSpan } }
    IN  IF sites = {} THEN NoOffset ELSE (The({ w \in I.weights : w.site = Min(sites) })).offset

kQueryCall == 12  \* from the lea to the call

\* The largest segment of either kind.  Nothing is led anywhere before the offset is known, and the
\* query only after the fallback.
InstallBoldWeight(I, s) ==
    LET anchors == Strings(I, "und-Zsye")
        sites == IF Cardinality(anchors) = 1 THEN SitesLoading(I, anchors) ELSE {}
        site == The(sites)
        entry == Greatest({ FunctionStart(I, site), CalledEntryBelow(I, s, site) })
        told == RedirectIn(I, s, {I.text[1]}, entry, WeightHook)
        asks == { b.target : b \in { x \in Calls(told) : x.site = site + kQueryCall /\ site \in I.literals /\ Within(I.text[1], x.target) } }
    IN  IF Cardinality(sites) # 1 \/ entry = Null \/ WeightOffset(I, entry) = NoOffset \/ told = s THEN s
        ELSE IF asks = {} THEN told ELSE RedirectIn(I, told, {I.text[1]}, The(asks), CharacterHook)

\* What a thread is in the middle of: the weights of the descriptions it was called with, and
\* whether the run is bold.
kBoldBacking == 2400
kUndescribed == -1
NoRun == [was |-> <<>>, bold |-> FALSE]

EnterFallback(run, weight) ==
    [was |-> Append(run.was, run.bold), bold |-> IF weight = kUndescribed THEN run.bold ELSE weight >= kBoldBacking]
LeaveFallback(run) == [was |-> Front(run.was), bold |-> Last(run.was)]
QueryReplacement(run, c) == IF run.bold /\ c.point > 0 THEN [c EXCEPT !.marked = TRUE] ELSE c

----------------------------------------------------------------------------
(* A regular face that says it is not quite one *)

kRegular == 400
kFcWeightRegular == 80
kFcWeightBold == 200

StyleReplacement(weight) == IF weight = kRegular THEN kRegular - 1 ELSE weight

\* bolds is the names of families with a bold, none yet before the first question
NamesOfBolds(fonts) == UNION { f.families : f \in { x \in fonts : x.weight >= kFcWeightBold } }
FcIntegerReplacement(bolds, fonts, object, pattern) ==
    LET asks == object = "weight" /\ pattern.weight = kFcWeightRegular
        known == IF ~asks \/ pattern.family = "none" \/ bolds.made THEN bolds ELSE [made |-> TRUE, names |-> NamesOfBolds(fonts)]
        alone == asks /\ pattern.family # "none" /\ pattern.family \notin known.names
    IN  [bolds |-> known, weight |-> IF alone THEN kFcWeightRegular - 1 ELSE pattern.weight]

\* of several entries of that name any one
InstallStyle(I, s, entries) ==
    IF entries = {} THEN {s} ELSE { Redirect(I, s, entry, StyleHook) : entry \in entries }

\* the executable's own fontconfig, never the library
InstallFontconfig(I, s, fc) ==
    IF Null \in {fc.integer, fc.string, fc.fonts} \/ fc.library THEN s ELSE Redirect(I, s, fc.integer, IntegerHook)

----------------------------------------------------------------------------
(* The bridge to Fontations, by the symbols of it that are there *)

InstallBridge(I, s, path, draw, clip_box) ==
    LET entry == The(path)
        span == TextHolding(I, entry)
        redirected(code, target, hook) == IF target = Null THEN code ELSE RedirectIn(I, code, span, target, hook)
        drawn == redirected(s, draw, DrawHook)
        moved == redirected(drawn, entry, PathHook)
    IN  IF Cardinality(path) # 1 THEN s ELSE IF moved = drawn THEN drawn ELSE redirected(moved, clip_box, ClipBoxHook)

\* a build may have the one vector's functions for both
VectorOps(verbs, points) ==
    [points EXCEPT !.set_len = IF @ = Null THEN verbs.set_len ELSE @, !.data = IF @ = Null THEN verbs.data ELSE @]

----------------------------------------------------------------------------
(* The system's fonts.  The image also has                                 *)
(*   getters   the getters of a family: [at, string, guard, atom]          *)
(*   inlined   reads of one in its caller: [at, guard, atom]               *)
(*   thunks    jumps to one, and whether padding follows: [at, to, padded] *)
(*   sizes     readers of a size that call the default: [at, default]      *)
(*   biased    the sites of calls with the keyword less 18                 *)

kCaption == 13
kMenu == 15
kSmallCaption == 17
kStatusBar == 21
kBias == 18
kUiFontSize == 12
kFamilyCall == 21
kSizeStub == 14
WindowsUiKeyword(id) == id \in {kMenu, kSmallCaption, kStatusBar}

SystemFamily(id, host) == IF WindowsUiKeyword(id) THEN "Segoe UI" ELSE host
SystemFontSize(biased, host) == IF WindowsUiKeyword(biased + kBias) THEN kUiFontSize ELSE host

Lowest(S) == IF S = {} THEN {} ELSE { x \in S : \A y \in S : x.at <= y.at }
FindFamilyGetter(I) == Lowest({ g \in I.getters : \E a \in Strings(I, "Arial") : g.string = a /\ \A b \in Strings(I, "Arial") : a <= b })
FindFamilySite(I, getter) == Lowest({ x \in I.inlined : x.guard = getter.guard /\ x.atom = getter.atom })
FindSystemFamilyThunk(I, getter) == Lowest({ t \in I.thunks : t.to = getter.at /\ t.padded })

\* in the first run of padding that has room for it, past the first byte of it
StubRoom(I) ==
    LET begins == { a \in I.pads : a - 1 \notin I.pads /\ \A i \in 0 .. kSizeStub : a + i \in I.pads }
    IN  IF begins = {} THEN Null ELSE Min(begins) + 1

SizeCalls(I, s, default) ==
    { b \in Calls(s) : b.target = default /\ b.site \in I.biased /\ Opens(I, b.site + 1, kBranch - 1) }

\* the sizes first, the family after
ApplySystemFonts(I, s) ==
    LET getter == The(FindFamilyGetter(I))
        inlined == FindFamilySite(I, getter)
        thunk == FindSystemFamilyThunk(I, getter)
        size == The(Lowest(I.sizes))
        stub == StubRoom(I)
        calls == SizeCalls(I, s, size.default)
        sized == [Retarget(s, calls, SizeHook) EXCEPT !.original[SizeHook] = size.default]
        site == The(IF inlined # {} THEN inlined ELSE thunk)
        length == IF inlined # {} THEN kFamilyCall ELSE kDetour
        led == [Overwritten(sized, site.at, length, FamilyHook) EXCEPT !.original[FamilyHook] = getter.at]
    IN  IF \/ FindFamilyGetter(I) = {} \/ (inlined = {} /\ thunk = {}) \/ I.sizes = {}
           \/ stub = Null \/ ~Opens(I, stub, kSizeStub) \/ calls = {}
        THEN s
        ELSE IF Opens(I, site.at, length) THEN led ELSE sized

----------------------------------------------------------------------------
(* HarfBuzz.  Of each image of the process, in the order of the link map:  *)
(*   main, skia, library   the executable; Skia is in it; the loader finds *)
(*                         what it defines                                 *)
(*   symbols               in their order, [name, at, function, defined]   *)
(*   imports               what it leaves undefined; hashed, whether its   *)
(*                         table has an end that can be told               *)

kWitness == "hb_shape"

\* the first of a name
FirstOf(symbols, name) ==
    LET named == { i \in DOMAIN symbols : symbols[i].name = name /\ symbols[i].function /\ symbols[i].defined }
    IN  IF named = {} THEN Null ELSE symbols[Min(named)].at

Collect(images, main_only) ==
    FlattenSeq([i \in DOMAIN images |-> IF main_only /\ ~images[i].main THEN <<>> ELSE images[i].symbols])

\* only the first library with Skia in it is asked
CollectFromBlinkLibrary(images) ==
    LET libraries == { i \in DOMAIN images : ~images[i].main /\ images[i].skia }
    IN  IF libraries = {} THEN <<>> ELSE images[Min(libraries)].symbols

ImageImports(images, name) == \E i \in DOMAIN images : images[i].main /\ images[i].hashed /\ name \in images[i].imports

\* what the loader has under a name: what a library of the process defines, or libharfbuzz beside it
Beside(images, name) ==
    FirstOf(Collect(SelectSeq(images, LAMBDA x : x.library), FALSE), name)

ResolveAtLoad(images) ==
    LET own == Collect(images, TRUE)
        blink == CollectFromBlinkLibrary(images)
    IN  IF ImageImports(images, kWitness) /\ Beside(images, kWitness) # Null
        THEN [where |-> "interposable", symbols |-> <<>>]
        ELSE IF FirstOf(own, kWitness) # Null THEN [where |-> "in image", symbols |-> own]
        ELSE IF FirstOf(blink, kWitness) # Null THEN [where |-> "in image", symbols |-> blink]
        ELSE [where |-> "absent", symbols |-> own]

Real(hb, images, name) ==
    IF hb.where = "in image" THEN FirstOf(hb.symbols, name) ELSE Beside(images, name)

\* calls alone, of the first segment, straight to the library
RedirectCallsTo(I, s, target, to) ==
    Retarget(s, { b \in Calls(s) : /\ b.target = target /\ Within(I.text[1], b.site) /\ b.site \notin kUnreachable
                                   /\ Opens(I, b.site + 1, kBranch - 1) }, to)

\* the entry of the one is overwritten only if there is the other to call
InstallShaping(I, s, hb, images, complete, layout_known) ==
    LET shape == Real(hb, images, kWitness)
        full == Real(hb, images, "hb_shape_full")
    IN  IF hb.where # "in image" \/ ~complete \/ ~layout_known \/ shape = Null THEN s
        ELSE IF full = Null THEN [RedirectCallsTo(I, s, shape, ShapeHook) EXCEPT !.original[ShapeHook] = shape]
        ELSE [WriteDetour(I, s, shape, ShapeHook) EXCEPT !.original[ShapeHook] = full]

----------------------------------------------------------------------------
(* The switch a host of CEF is started with.  An argument is the switch it *)
(* is, or "other".                                                         *)

kSwitch == "--system-font-family"
StartedWith(argv, off, cef) ==
    IF argv = <<>> \/ off \/ ~cef \/ {"--type", kSwitch} \cap Range(Tail(argv)) # {} THEN argv ELSE Append(argv, kSwitch)

----------------------------------------------------------------------------
(* The families of a script (src/chromium/generic_families.cpp).  A pack b *)
(* is a resource bundle as it is mapped: resources, [id, text, size], the  *)
(* ids of its aliases and its length.  g is what was learned from packs:   *)
(* which resource carries the family of a row, the copy of the table of    *)
(* rows and what the loop that reads it was made to read.  The image also  *)
(* has cells, in order, of which some are rows of the table, [pref,        *)
(* resource], names, what it names of the rows, and leas, which take an    *)
(* end of the table: [site, segment, end, compared].                       *)

Teaches(platform, windows, prefs) == [platform |-> platform, windows |-> windows, prefs |-> prefs]
kSubstitutions == <<
    Teaches("Latin Modern Math", ",Cambria Math", <<>>),
    Teaches("Monospace", ",Consolas", <<>>),
    Teaches("Noto Sans Devanagari", ",Nirmala UI", <<>>),
    Teaches("Noto Serif Devanagari", ",Courier New", <<"fixed.Arab", "fixed.Cyrl", "fixed.Grek">>),
    Teaches(",Noto Sans JP,Noto Sans CJK JP,Arial", ",Meiryo,Yu Gothic", <<"sansserif.Jpan", "standard.Jpan">>),
    Teaches(",Noto Sans JP,Noto Sans CJK JP,Times New Roman", ",BIZ UDGothic,MS Gothic", <<"fixed.Jpan">>),
    Teaches(",Noto Serif JP,Noto Serif CJK JP,Times New Roman", ",Yu Mincho,MS PMincho,Yu Gothic", <<"serif.Jpan">>),
    Teaches(",Noto Sans KR,Noto Sans CJK KR,Arial", ",Malgun Gothic", <<"sansserif.Hang", "standard.Hang", "fixed.Hang">>),
    Teaches(",Noto Sans KR,Noto Sans CJK KR,Times New Roman", ",Gungsuh", <<"cursive.Hang">>),
    Teaches(",Noto Serif KR,Noto Serif CJK KR,Times New Roman", ",Batang,Malgun Gothic", <<"serif.Hang">>),
    Teaches("Noto Sans Mono CJK JP", ",Segoe UI", <<"sansserif.Arab">>),
    Teaches(",Noto Sans SC,Noto Sans CJK SC,Arial", ",Microsoft YaHei", <<"sansserif.Hans", "standard.Hans">>),
    Teaches(",Noto Sans SC,Noto Sans CJK SC,Times New Roman", ",KaiTi", <<"cursive.Hans">>),
    Teaches(",Noto Serif SC,Noto Serif CJK SC,Times New Roman", ",Simsun", <<"serif.Hans">>),
    Teaches("Noto Sans Mono", ",NSimsun", <<"fixed.Hans">>),
    Teaches(",Noto Sans TC,Noto Sans CJK TC,Arial", ",Microsoft JhengHei", <<"sansserif.Hant", "standard.Hant", "fixed.Hant">>),
    Teaches(",Noto Sans TC,Noto Sans CJK TC,Times New Roman", ",DFKai-SB", <<"cursive.Hant">>),
    Teaches(",Noto Serif TC,Noto Serif CJK TC,Times New Roman", ",PMingLiU,Microsoft JhengHei", <<"serif.Hant">>) >>

\* for packs that carry nothing to rewrite into these
kMinted == << [windows |-> ",Courier New", prefs |-> <<"fixed.Arab", "fixed.Cyrl", "fixed.Grek">>],
              [windows |-> ",NSimsun", prefs |-> <<"fixed.Hans">>] >>

kWindowsRows == << "standard.Jpan", "fixed.Jpan", "serif.Jpan", "sansserif.Jpan", "standard.Hang", "serif.Hang", "sansserif.Hang",
    "standard.Hans", "serif.Hans", "sansserif.Hans", "standard.Hant", "serif.Hant", "sansserif.Hant", "cursive.Hang",
    "cursive.Hans", "cursive.Hant", "fixed.Hang", "fixed.Hant", "sansserif.Arab", "fixed.Hans", "fixed.Arab", "fixed.Cyrl", "fixed.Grek" >>

kAnchorPref == "fantasy.Zyyy"
kTableRows == Len(kWindowsRows) + 16
kLearnedMax == 3 * Len(kSubstitutions)
kLoopSpan == 256
NothingLearned == [learned |-> <<>>, table |-> <<>>, pointed |-> FALSE, end |-> Null, written |-> [site \in {} |-> Null]]

Total(sizes) == FoldLeft(+, 0, sizes)
TableSize(count, aliases) == 12 + 6 * (count + 1) + 4 * aliases
Learn(learned, prefs, id) ==
    LET known == learned \o [i \in DOMAIN prefs |-> [pref |-> prefs[i], resource |-> id]]
    IN  SubSeq(known, 1, Min({Len(known), kLearnedMax}))
ResourceFor(g, pref) ==
    LET at == { i \in DOMAIN g.learned : g.learned[i].pref = pref }
    IN  IF at = {} THEN 0 ELSE g.learned[Min(at)].resource

\* whole values, and none that is shorter than what is to take its place
Serving(resource) == SelectSeq(kSubstitutions, LAMBDA x : x.platform = resource.text /\ Len(x.windows) <= resource.size)
Substituted(resource) ==
    IF Serving(resource) = <<>> THEN resource
    ELSE [resource EXCEPT !.text = Serving(resource)[1].windows, !.size = Len(Serving(resource)[1].windows)]

\* everything laid out again in the length there is, and ids above those the pack has
Mint(g, b) ==
    LET wanted == SelectSeq(kMinted, LAMBDA m : ResourceFor(g, m.prefs[1]) = 0)
        packed == [i \in DOMAIN b.resources |-> Substituted(b.resources[i])]
        highest == Max({0} \cup { r.id : r \in Range(packed) } \cup Range(b.aliases))
        minted == [i \in DOMAIN wanted |-> [id |-> highest + i, text |-> wanted[i].windows, size |-> Len(wanted[i].windows)]]
        sizes == [i \in DOMAIN packed |-> packed[i].size] \o [i \in DOMAIN minted |-> minted[i].size]
        fits == /\ TableSize(Len(sizes), Len(b.aliases)) + Total(sizes) <= b.length
                /\ highest <= 65535 - Len(wanted)
        tell(learned, i) == Learn(learned, wanted[i].prefs, minted[i].id)
    IN  IF wanted = <<>> \/ ~fits
        THEN [g |-> g, b |-> [b EXCEPT !.resources = [i \in DOMAIN packed |-> [packed[i] EXCEPT !.size = b.resources[i].size]]]]
        ELSE [g |-> [g EXCEPT !.learned = FoldLeft(tell, @, [i \in DOMAIN wanted |-> i])],
              b |-> [b EXCEPT !.resources = packed \o minted]]

PatchBundle(g, b) ==
    LET hits == SelectSeq(b.resources, LAMBDA r : Serving(r) # <<>>)
        tell(learned, r) == Learn(learned, Serving(r)[1].prefs, r.id)
    IN  IF ~b.recognized \/ hits = <<>> THEN [g |-> g, b |-> b]
        ELSE Mint([g EXCEPT !.learned = FoldLeft(tell, @, hits)], b)

IsRow(I, i) == i \in DOMAIN I.cells /\ I.cells[i].pref # "none" /\ I.cells[i].resource \in 1 .. 65535

\* the run of rows around the anchor's, which has one on either side
FontDefaults(I) ==
    LET at == { i \in DOMAIN I.cells : I.cells[i].pref = kAnchorPref /\ \A j \in i - 1 .. i + 1 : IsRow(I, j) }
        row == Min(at)
        first == Min({ i \in 1 .. row : \A j \in i .. row : IsRow(I, j) })
        last == Max({ i \in row .. Len(I.cells) : \A j \in row .. i : IsRow(I, j) })
    IN  IF at = {} THEN <<>> ELSE SubSeq(I.cells, first, last)

WriteLea(I, g, site, to) == IF Opens(I, site, 7) THEN [g EXCEPT !.written = (site :> to) @@ @] ELSE g

\* The one pair of leas close together; failing that, the only one of either kind in the image.  The
\* start is written before the end.
PointLoopAt(I, g) ==
    LET leas == { l \in I.leas : l.site \notin DOMAIN g.written }
        holders == { l \in leas : l.end = "first" /\ ~l.compared }
        testers == { l \in leas : l.end = "last" /\ l.compared }
        before(t) == { h.site : h \in { x \in holders : x.segment = t.segment /\ x.site < t.site } }
        pairs == { t \in testers : before(t) # {} /\ t.site - Max(before(t)) <= kLoopSpan }
        alone == pairs = {} /\ Cardinality(holders) = 1 /\ Cardinality(testers) = 1
        test == The(IF alone THEN testers ELSE pairs)
        hold == IF alone THEN (The(holders)).site ELSE Max(before(test))
        begun == WriteLea(I, g, hold, "copy")
        ended == WriteLea(I, begun, test.site, Len(g.table))
    IN  IF ~alone /\ Cardinality(pairs) # 1 THEN g
        ELSE IF begun = g \/ ended = begun THEN begun
        ELSE [ended EXCEPT !.pointed = TRUE, !.end = test.site]

\* a row whose resource is known and that the copy has not got, while there is room
Extended(I, g, table, pref) ==
    IF \/ pref \notin I.names \/ \E i \in DOMAIN table : table[i].pref = pref
       \/ ResourceFor(g, pref) = 0 \/ Len(table) >= kTableRows
    THEN table ELSE Append(table, [pref |-> pref, resource |-> ResourceFor(g, pref)])

PatchFontDefaults(I, g) ==
    LET compiled == FontDefaults(I)
        table == IF g.table = <<>> THEN compiled ELSE g.table
        grown == [g EXCEPT !.table = FoldLeft(LAMBDA t, pref : Extended(I, g, t, pref), table, kWindowsRows)]
    IN  IF ~I.browser \/ compiled = <<>> \/ Len(compiled) > kTableRows \/ ~I.room THEN g
        ELSE IF g.pointed THEN WriteLea(I, grown, g.end, Len(grown.table)) ELSE PointLoopAt(I, grown)

\* one pack at a time, in a copy of it that is the process's own
MapAndPatch(I, g, b) ==
    LET patched == PatchBundle(g, b)
    IN  IF patched.b = b THEN patched ELSE [patched EXCEPT !.g = PatchFontDefaults(I, @)]
=============================================================================
