------------------------------ MODULE VtableSlots ------------------------------
(***************************************************************************)
(* Where in a Chromium image the virtual functions to be replaced are      *)
(* found, and what is written there (src/chromium/vtable_patch.cpp).       *)
(*                                                                         *)
(* An image is its code and the words of its read-only relocations.  An    *)
(* address is a number; words name addresses, and 0 is the null word.      *)
(* Code is the branches and the four-byte tags it holds, by address:       *)
(*   text      pairs <<begin, end>>, at most four                          *)
(*   branches  records [site, op, target], op "call" or "jump"             *)
(*   tags      records [site, tag]                                         *)
(*   leas      records [site, word]: an address of that word is taken here *)
(*   names     the word each symbol names, 0 for one that is not there     *)
(*   bridge    the address of variation_position, 0 for none               *)
(*   major     Chromium's version                                          *)
(* The words change as slots are written and are in the state.             *)
(***************************************************************************)
EXTENDS Integers, Sequences, FiniteSets
LOCAL INSTANCE SequencesExt
LOCAL INSTANCE FiniteSetsExt
LOCAL INSTANCE Folds

CONSTANTS kSameFileSpan,     \* how near an fvar tag a COLR tag is taken to be Fontations'
          kColrFunctionSpan, \* how far into a function its COLR tag may be
          kLargestThunk,     \* the longest function that only jumps
          kThunkSpan,        \* how much of a virtual is read for its call
          kInnerSpan         \* and of what it calls

kScalerContextVirtuals == 7
kGenerateImageSlot == 3
kRecognizeFirst == 2
kRecognizeSecond == 6
kFilterRecSlot == 9
kRasterCallsAhead == 2
kColrToTableTags == 14
kColrToFilterRec == 6
kColrSlot == 15
kKnownDistances == <<12, kColrToTableTags>>
kTableTagsToVariationPosition == 13
kMaxSlotSearched == 48
kTypefaceNames == <<"_ZTV21SkTypeface_Fontations", "_ZTV19SkTypeface_FreeType">>

Null == 0
NoHint == [table |-> Null, tags |-> 0]

\* what the shim writes into slots: addresses in no image
FilterRecThunk == -1
GetTableData == -2
ImageThunk == -3
MetricsThunk == -4
FontMetricsThunk == -5
PathThunk == -6
Past == -7  \* what lies beyond the relocations, no function

----------------------------------------------------------------------------
(* Images *)

\* four executable segments are remembered; an image with none, or with no relocations, is left alone
DescribeImage(segments) ==
    [ text |-> SubSeq(segments.executable, 1, Min({4, Len(segments.executable)})), relro |-> segments.relro ]
HasShape(segments) == segments.executable # <<>> /\ segments.relro # <<>>

InText(I, a) == \E t \in DOMAIN I.text : a >= I.text[t][1] /\ a < I.text[t][2]
TextEnd(I) == I.text[1][2]

Word(s, i) == IF i \in DOMAIN s.relro THEN s.relro[i] ELSE Past
IsFunction(I, s, i) == InText(I, Word(s, i))

FindFfiSymbols(file) ==
    IF ~file.readable THEN <<>>
    ELSE SelectSeq(file.dynsym, LAMBDA sym : sym.function /\ sym.ffi)

NamedVtable(I, name) == I.names[name]

Calls(I) == { b \in I.branches : b.op = "call" /\ InText(I, b.target) }
Branches(I) == { b \in I.branches : InText(I, b.target) }
Sites(I, tag) == { t.site : t \in { x \in I.tags : x.tag = tag } }

\* a version is the first of three figures with a dot after it
ChromiumMajor(found) ==
    LET sound == SelectSeq(found, LAMBDA v : v.dot /\ v.number >= 100 /\ v.number < 1000)
    IN  IF sound = <<>> THEN 0 ELSE sound[1].number

\* a table begins after two null words, and is functions from there to the slot known
VtableBaseFrom(I, s, slot) ==
    LET head == { b \in Max({3, slot - 63}) .. slot : s.relro[b - 2] = Null /\ s.relro[b - 1] = Null }
        base == Max(head)
    IN  IF slot \notin DOMAIN s.relro \/ head = {} THEN Null
        ELSE IF \A i \in base + 1 .. slot : IsFunction(I, s, i) THEN base ELSE Null

----------------------------------------------------------------------------
(* Functions: where they start, and what they hold and reach *)

TableFunctions(I, s) == { w \in Range(s.relro) : InText(I, w) }
CalledFunctions(I) == { b.target : b \in Calls(I) }
Starts(I, s) == TableFunctions(I, s) \cup CalledFunctions(I)

Holder(starts, site) ==
    LET before == { a \in starts : a <= site } IN IF before = {} THEN Null ELSE Max(before)
Holders(starts, sites) == { Holder(starts, a) : a \in sites } \ {Null}

After(I, starts, fn) ==
    LET next == { a \in starts : a > fn } IN IF next = {} THEN TextEnd(I) ELSE Min(next)

\* between a function and the next one of the starts
SiteWithin(I, starts, sites, fn) == \E a \in sites : a >= fn /\ a < After(I, starts, fn)

\* functions that call the bridge, and those that call them, two calls away
Reaching(I, starts, targets) == Holders(starts, { b.site : b \in { x \in Branches(I) : x.target \in targets } })
kHops == 2
CallsFfi(I, s, ffi) == Reaching(I, Starts(I, s), ffi)
CallsFfiCaller(I, s, ffi) ==
    LET direct == CallsFfi(I, s, ffi)
        Hop(callers, n) == callers \cup Reaching(I, Starts(I, s), direct \cup callers)
    IN  FoldLeft(Hop, {}, [n \in 1 .. kHops |-> n])
FfiSites(I, ffi) == { b.site : b \in { x \in Branches(I) : x.target \in ffi } }

Reaches(I, s, ffi, fn) ==
    \/ fn \in CallsFfi(I, s, ffi) \cup CallsFfiCaller(I, s, ffi)
    \/ SiteWithin(I, TableFunctions(I, s), FfiSites(I, ffi), fn)

CallsRaster(I, s, raster, fn) ==
    fn \in CallsFfi(I, s, raster) \/ SiteWithin(I, TableFunctions(I, s), FfiSites(I, raster), fn)

\* in an image that names none of the bridge, what holds the COLR tag or calls what does is kept for later searches
ColrFunctions(I) ==
    LET holders == Holders(CalledFunctions(I), Sites(I, "COLR"))
    IN  holders \cup Holders(CalledFunctions(I), { b.site : b \in { x \in Calls(I) : x.target \in holders } })

Nameless(I, s) ==
    [s EXCEPT !.colr_sites = @ \cup Sites(I, "COLR"), !.colr_fns = ColrFunctions(I), !.vt_starts = @ \cup TableFunctions(I, s)]

\* live searches ask what TryPatchModule kept; an image with names keeps nothing and so holds none
HoldsColrTag(I, s, fn) ==
    fn \in s.colr_fns \/ SiteWithin(I, s.vt_starts, s.colr_sites, fn)

\* the first virtual that holds the tag
ColrSlotOf(I, s, base) ==
    LET at == { i \in 0 .. kMaxSlotSearched - 1 :
                    base + i \in DOMAIN s.relro /\ IsFunction(I, s, base + i) /\ HoldsColrTag(I, s, s.relro[base + i]) }
    IN  IF at = {} THEN -1 ELSE Min(at)

----------------------------------------------------------------------------
(* Slots *)

NewSlots(relro, closed) ==
    [ relro |-> relro, closed |-> closed,
      filter_rec |-> Null, filter_rec_slots |-> {}, get_table_data |-> Null,
      image |-> Null, metrics |-> Null, font_metrics |-> Null, path |-> Null,
      colr_sites |-> {}, colr_fns |-> {}, vt_starts |-> {},
      variation |-> 0, unconfirmed |-> FALSE,
      tag_anchors |-> {}, data_anchors |-> {}, hint |-> NoHint,
      resolved |-> FALSE, typeface_patched |-> FALSE, patched |-> FALSE ]

\* a page that does not open keeps its words
Writes(s, slot) == slot \in DOMAIN s.relro /\ slot \notin s.closed
WriteSlot(s, slot, value) == IF Writes(s, slot) THEN [s EXCEPT !.relro[slot] = value] ELSE s

RemoteReach(I, from, span, target) ==
    \E b \in I.branches : b.site >= from /\ b.site + 5 <= from + span /\ b.target = target

\* the virtual branches to the bridge, or to something short that does
ReachesBridge(I, fn) ==
    \E b \in I.branches :
        /\ b.site >= fn /\ b.site + 5 <= fn + kThunkSpan
        /\ b.target = I.bridge \/ (InText(I, b.target) /\ RemoteReach(I, b.target, kInnerSpan, I.bridge))

ConfirmVariationSlot(I, s, base, slot) ==
    IsFunction(I, s, base + slot) /\ I.bridge # Null /\ ReachesBridge(I, Word(s, base + slot))

\* counted back from the table tags, and only believed when it is seen to call the bridge
FindVariationSlot(I, s, base, data_slot) ==
    LET tags == data_slot - 1 - base
        back == IF I.major >= 146 THEN kTableTagsToVariationPosition ELSE kTableTagsToVariationPosition - 2
    IN  IF s.variation # 0 \/ data_slot = Null \/ tags <= kTableTagsToVariationPosition THEN s
        ELSE IF ConfirmVariationSlot(I, s, base, tags - back) THEN [s EXCEPT !.variation = tags - back] ELSE s

\* the virtual after the COLR query, believed until a font's axes refute it
FindVariationSlotFromColr(I, s, base, colr) ==
    LET slot == colr + 1
    IN  IF s.variation # 0 \/ slot >= kMaxSlotSearched \/ ~IsFunction(I, s, base + slot) THEN s
        ELSE [s EXCEPT !.variation = slot, !.unconfirmed = @ \/ ~ConfirmVariationSlot(I, s, base, slot)]

\* the original is stored before the slot is written, and forgotten when it was not
ReplaceFilterRec(I, s, slot) ==
    IF ~IsFunction(I, s, slot) THEN s
    ELSE IF Writes(s, slot)
         THEN WriteSlot([s EXCEPT !.filter_rec = Word(s, slot), !.filter_rec_slots = @ \cup {slot}], slot, FilterRecThunk)
         ELSE [s EXCEPT !.filter_rec = Null]

ReplaceGetTableData(I, s, slot) ==
    IF slot = Null \/ ~IsFunction(I, s, slot) THEN s
    ELSE IF Writes(s, slot)
         THEN WriteSlot([s EXCEPT !.get_table_data = Word(s, slot)], slot, GetTableData)
         ELSE [s EXCEPT !.get_table_data = Null]

PatchTypefaceSlots(I, s, base, data_slot) ==
    LET counted == FindVariationSlot(I, s, base, data_slot)
        colr == ColrSlotOf(I, counted, base)
        found == IF colr = -1 THEN counted ELSE FindVariationSlotFromColr(I, counted, base, colr)
    IN  ReplaceGetTableData(I, ReplaceFilterRec(I, found, base + kFilterRecSlot), data_slot)

----------------------------------------------------------------------------
(* The typeface's tables *)

NamedTypefaces(I, s) ==
    SelectSeq(kTypefaceNames, LAMBDA n : NamedVtable(I, n) # Null /\ IsFunction(I, s, NamedVtable(I, n) + kFilterRecSlot))
PatchTypefaceByName(I, s) == PatchTypefaceSlots(I, s, NamedVtable(I, Head(NamedTypefaces(I, s))), Null)

\* one virtual reads the tags, from one slot of one table
InstallRecFilter(I, s, calls_tags) ==
    LET slots == { i \in DOMAIN s.relro : s.relro[i] \in calls_tags }
        slot == CHOOSE i \in slots : TRUE
    IN  IF NamedTypefaces(I, s) # <<>> THEN PatchTypefaceByName(I, s)
        ELSE IF Cardinality(calls_tags) # 1 \/ Cardinality(slots) # 1 THEN s
        ELSE IF VtableBaseFrom(I, s, slot) = Null THEN s
        ELSE PatchTypefaceSlots(I, s, VtableBaseFrom(I, s, slot), slot + 1)

\* a function that holds one of the sites: kept, between two virtuals, or begun just before
HoldsOneOf(I, s, sites, fn) ==
    \/ fn \in s.colr_fns
    \/ s.vt_starts # {} /\ SiteWithin(I, s.vt_starts, s.colr_sites, fn)
    \/ \E a \in sites : a >= fn /\ a < fn + kColrFunctionSpan /\ Holder(Starts(I, s), a) = fn

\* onFilterRec is six before the COLR query, in a table that goes on twelve functions after it
ColrSlots(I, s, sites, want_index) ==
    { i \in DOMAIN s.relro :
        /\ IsFunction(I, s, i) /\ HoldsOneOf(I, s, sites, s.relro[i])
        /\ LET base == VtableBaseFrom(I, s, i) IN
             /\ base # Null
             /\ i - base >= kColrToFilterRec /\ (want_index # 0 => i - base = want_index)
             /\ IsFunction(I, s, i - kColrToFilterRec)
        /\ \A k \in i + 1 .. i + 12 : IsFunction(I, s, k) }

\* every table must hold the tag through the same virtual; only the slots with the first one's original are written
PatchFilterRecByColrTag(I, s, sites, want_index) ==
    LET at == ColrSlots(I, s, sites, want_index)
        original == Word(s, Min(at) - kColrToFilterRec)
        slots == { i - kColrToFilterRec : i \in at }
        written == { i \in slots : s.relro[i] = original /\ Writes(s, i) }
    IN  IF sites = {} \/ at = {} \/ Cardinality({ s.relro[i] : i \in at }) > 1
        THEN [ok |-> FALSE, s |-> s]
        ELSE [ok |-> written # {},
              s |-> [s EXCEPT !.filter_rec = IF written = {} THEN Null ELSE original,
                              !.relro = [i \in DOMAIN @ |-> IF i \in written THEN FilterRecThunk ELSE @[i]]]]

\* a typeface's table names the function that builds the scaler context
Makers(I, s, table) == Holders(Starts(I, s), { l.site : l \in { x \in I.leas : x.word = table } })

PatchOneByScalerRef(I, s, base) ==
    LET colr == ColrSlotOf(I, s, base)
        data == base + colr + kColrToTableTags + 1
        known == colr # -1 /\ data \in DOMAIN s.relro /\ IsFunction(I, s, data)
        patched == PatchTypefaceSlots(I, s, base, IF known THEN data ELSE Null)
    IN  IF colr = -1 THEN patched ELSE FindVariationSlotFromColr(I, patched, base, colr)

\* slot by slot, over what the tables before have become
PatchTypefaceByScalerRef(I, s, parity, table) ==
    LET makers == Makers(I, s, table)
        named == SelectSeq([i \in DOMAIN s.relro |-> i], LAMBDA i : s.relro[i] \in makers)
        Visit(r, i) ==
            LET base == VtableBaseFrom(I, r.s, i)
            IN  IF ~IsFunction(I, r.s, i) \/ base = Null THEN r
                ELSE [ok |-> TRUE, s |-> PatchOneByScalerRef(I, r.s, base)]
    IN  IF parity /\ NamedTypefaces(I, s) # <<>> THEN [ok |-> TRUE, s |-> PatchTypefaceByName(I, s)]
        ELSE FoldLeft(Visit, [ok |-> FALSE, s |-> s], named)

----------------------------------------------------------------------------
(* The scaler context's table *)

\* seven distinct functions after two null words, and no eighth
IsShaped(I, s, p) ==
    LET methods == { s.relro[p + i] : i \in 0 .. kScalerContextVirtuals - 1 }
    IN  /\ p >= 3 /\ p + kScalerContextVirtuals <= Len(s.relro)
        /\ s.relro[p - 2] = Null /\ s.relro[p - 1] = Null
        /\ \A i \in 0 .. kScalerContextVirtuals - 1 : IsFunction(I, s, p + i)
        /\ Cardinality(methods) = kScalerContextVirtuals
        /\ ~IsFunction(I, s, p + kScalerContextVirtuals)

IsScalerContext(I, s, named, ffi, p) ==
    /\ IsShaped(I, s, p)
    /\ IF named
       THEN Reaches(I, s, ffi, Word(s, p + kRecognizeFirst)) /\ Reaches(I, s, ffi, Word(s, p + kRecognizeSecond))
       ELSE \/ SiteWithin(I, TableFunctions(I, s), Sites(I, "fvar"), Word(s, p + kRecognizeSecond))
            \/ Reaches(I, s, ffi, Word(s, p + kRecognizeFirst))

RasterCalls(I, s, raster, p) ==
    Cardinality({ i \in 2 .. kScalerContextVirtuals - 1 : CallsRaster(I, s, raster, Word(s, p + i)) })

\* the most calls that only drawing makes, by two over the next, unless it is the only one
ChooseScalerContext(I, s, named, ffi, raster) ==
    LET found == { p \in DOMAIN s.relro : IsScalerContext(I, s, named, ffi, p) }
        best == Max({ RasterCalls(I, s, raster, p) : p \in found })
        first == Min({ p \in found : RasterCalls(I, s, raster, p) = best })
        rival == { p \in found \ {first} : RasterCalls(I, s, raster, p) > best - kRasterCallsAhead }
    IN  [ found |-> found # {}, clear |-> found # {} /\ rival = {},
          table |-> IF found = {} THEN Null ELSE first ]

\* every table that names the same three methods
SameTables(s, slot) ==
    { q \in 2 .. Len(s.relro) - 3 :
        /\ s.relro[q] = s.relro[slot] /\ s.relro[q - 1] = s.relro[slot - 1] /\ s.relro[q + 3] = s.relro[slot + 3] }

PatchScalerContext(I, s, parity, table) ==
    LET slot == table + kGenerateImageSlot
        tables == SameTables(s, slot)
        path == Word(s, slot + 1)
        Put(i) ==
            IF i \in s.closed THEN s.relro[i]
            ELSE IF i \in tables THEN ImageThunk
            ELSE IF parity /\ i + 1 \in tables /\ IsFunction(I, s, slot - 1) THEN MetricsThunk
            ELSE IF parity /\ i - 3 \in tables /\ IsFunction(I, s, slot + 3) THEN FontMetricsThunk
            ELSE IF parity /\ i - 1 \in tables /\ s.relro[i] = path /\ InText(I, path) THEN PathThunk
            ELSE s.relro[i]
        any == \E q \in tables : q \notin s.closed
        written == [s EXCEPT !.relro = [i \in DOMAIN @ |-> Put(i)], !.patched = @ \/ any]
    IN  IF any THEN [written EXCEPT !.image = Word(s, slot), !.metrics = Word(s, slot - 1),
                                    !.font_metrics = Word(s, slot + 3), !.path = path]
        ELSE [written EXCEPT !.image = Null, !.metrics = Null, !.font_metrics = Null, !.path = Null]

----------------------------------------------------------------------------
(* The bridge's names *)

SymbolNamed(syms, part) ==
    LET of == { i \in DOMAIN syms : syms[i].part = part } IN IF of = {} THEN Null ELSE syms[Max(of)].at
FfiOf(syms) == { syms[i].at : i \in DOMAIN syms }
RasterOf(syms) == { syms[i].at : i \in { j \in DOMAIN syms : syms[j].part = "raster" } }

\* something short that jumps to a symbol stands for it
Thunks(I, s, target) ==
    LET jumpers == Holders(Starts(I, s), { b.site : b \in { x \in Branches(I) : x.op = "jump" /\ x.target = target } })
    IN  { a \in jumpers : LET stop == After(I, Starts(I, s), a) IN stop >= a /\ stop - a <= kLargestThunk }

\* branches to the symbol or its thunks, and to what holds such a branch
SymbolSites(I, s, targets, others) ==
    LET sites == { b.site : b \in { x \in Branches(I) : x.target \in targets /\ x.target \notin others } }
        holders == Holders(Starts(I, s), sites)
    IN  sites \cup { b.site : b \in { x \in Branches(I) : x.target \in holders } }

TagTargets(I, s, syms) == {SymbolNamed(syms, "table_tags")} \cup Thunks(I, s, SymbolNamed(syms, "table_tags"))
DataTargets(I, s, syms) == {SymbolNamed(syms, "table_data")} \cup Thunks(I, s, SymbolNamed(syms, "table_data"))

VirtualsCalling(I, s, sites) == { fn \in TableFunctions(I, s) : SiteWithin(I, Starts(I, s), sites, fn) }

NamesTables(syms) == SymbolNamed(syms, "table_tags") # Null /\ SymbolNamed(syms, "table_data") # Null
CallsTags(I, s, syms) ==
    IF ~NamesTables(syms) THEN {}
    ELSE VirtualsCalling(I, s, SymbolSites(I, s, TagTargets(I, s, syms), {}))
CallsData(I, s, syms) ==
    IF ~NamesTables(syms) THEN {}
    ELSE VirtualsCalling(I, s, SymbolSites(I, s, DataTargets(I, s, syms), TagTargets(I, s, syms)))

\* the fonts are reached even when nothing of the renderer may change
PatchNamed(I, s, parity, syms) ==
    LET tags == CallsTags(I, s, syms)
        anchored == [s EXCEPT !.tag_anchors = tags, !.data_anchors = CallsData(I, s, syms) \cup {GetTableData}]
    IN  IF parity THEN InstallRecFilter(I, anchored, tags) ELSE anchored

----------------------------------------------------------------------------
(* An image without names *)

NearFontations(I, s) ==
    { a \in s.colr_sites : \E f \in Sites(I, "fvar") : f - a < kSameFileSpan /\ a - f < kSameFileSpan }

\* by the COLR tag where it usually is, by what builds the scaler context, by the COLR tag anywhere
PatchNameless(I, s, parity, table) ==
    LET near == NearFontations(I, s)
        sites == IF near = {} THEN s.colr_sites ELSE near
        usual == PatchFilterRecByColrTag(I, s, sites, kColrSlot)
        built == PatchTypefaceByScalerRef(I, usual.s, parity, table)
    IN  IF ~parity THEN s
        ELSE IF usual.ok THEN usual.s
        ELSE IF built.ok THEN built.s
        ELSE PatchFilterRecByColrTag(I, built.s, sites, 0).s

\* no scaler context either: only the typeface can be had
PatchTypefaceOnly(I, s, parity) ==
    LET usual == PatchFilterRecByColrTag(I, s, Sites(I, "COLR"), kColrSlot)
    IN  IF ~parity THEN s
        ELSE IF usual.ok THEN usual.s
        ELSE PatchFilterRecByColrTag(I, usual.s, Sites(I, "COLR"), 0).s

TryPatchModule(I, s, parity, syms) ==
    LET named == syms # <<>>
        kept == IF named THEN s ELSE Nameless(I, s)
        choice == ChooseScalerContext(I, kept, named, FfiOf(syms), RasterOf(syms))
        typeface == IF named THEN PatchNamed(I, kept, parity, syms) ELSE PatchNameless(I, kept, parity, choice.table)
    IN  IF ~choice.found THEN (IF named THEN kept ELSE PatchTypefaceOnly(I, kept, parity))
        ELSE IF ~choice.clear THEN kept
        ELSE PatchScalerContext(I, typeface, parity, choice.table)

----------------------------------------------------------------------------
(* A live typeface: its table, what it answers, and what it is a proxy for *)

\* a read that faults is answered for, and so is the tag taken for a pointer; any other fault is the host's
ProbeHandles(probe, thread, at, tag) ==
    /\ thread = probe.thread
    /\ at = tag \/ (at >= probe.lo /\ at < probe.hi)

Tries(n) == n < 256 \/ \E k \in 8 .. 30 : n = 2 ^ k - 1

\* the tags are the slot before the one that answers with a head table
ReadsHeadTable(typeface, fn) == fn \in typeface.heads

TagsAt(I, s, typeface, base, colr) ==
    LET Answers(d) ==
            LET at == colr + d
            IN  /\ at + 2 <= kMaxSlotSearched
                /\ IsFunction(I, s, base + at) /\ IsFunction(I, s, base + at + 1)
                /\ ReadsHeadTable(typeface, s.relro[base + at + 1])
        known == SelectSeq(kKnownDistances, Answers)
    IN  IF known = <<>> THEN 0 ELSE colr + known[1]

\* the tables guessed at get the last original back, whichever was theirs
TakeLiveOriginal(s, slot) ==
    IF Word(s, slot) = s.filter_rec THEN s
    ELSE [s EXCEPT !.relro = [i \in DOMAIN @ |-> IF i \in s.filter_rec_slots /\ Writes(s, i) THEN s.filter_rec ELSE @[i]],
                   !.filter_rec_slots = {}, !.filter_rec = Word(s, slot)]

ReplaceLiveFilterRec(I, s, slot) ==
    IF ~IsFunction(I, s, slot) THEN s
    ELSE IF s.filter_rec = Null
         THEN IF Writes(s, slot) THEN WriteSlot([s EXCEPT !.filter_rec = Word(s, slot)], slot, FilterRecThunk) ELSE s
    ELSE LET taken == TakeLiveOriginal(s, slot)
         IN  IF Writes(taken, slot)
             THEN WriteSlot([taken EXCEPT !.filter_rec_slots = @ \cup {slot}], slot, FilterRecThunk)
             ELSE taken

PatchLive(I, s, base, tags) ==
    LET filtered == ReplaceLiveFilterRec(I, s, base + kFilterRecSlot)
    IN  IF filtered.get_table_data = Null THEN ReplaceGetTableData(I, filtered, base + tags + 1) ELSE filtered

\* what is found is kept, and what may be written is written
Resolved(I, s, typeface, may_patch, base, colr, tags) ==
    LET found == [s EXCEPT !.tag_anchors = {s.relro[base + tags]},
                           !.data_anchors = {s.relro[base + tags + 1], GetTableData},
                           !.hint = [table |-> typeface.table, tags |-> tags],
                           !.resolved = TRUE, !.typeface_patched = @ \/ may_patch]
        placed == FindVariationSlotFromColr(I, found, base, colr)
    IN  IF may_patch THEN PatchLive(I, placed, base, tags) ELSE placed

ResolveOne(I, s, typeface, may_patch) ==
    LET base == VtableBaseFrom(I, s, typeface.table)
        colr == ColrSlotOf(I, s, base)
        tags == TagsAt(I, s, typeface, base, colr)
    IN  IF base = Null \/ colr = -1 \/ tags = 0 THEN s
        ELSE Resolved(I, s, typeface, may_patch, base, colr, tags)

\* a table with no COLR query is a proxy's: what it stands for is asked, and no further
IsProxy(I, s, typeface) ==
    LET base == VtableBaseFrom(I, s, typeface.table) IN base # Null /\ ColrSlotOf(I, s, base) = -1

ResolveTypefaceVtable(I, s, typeface, inner, may_patch) ==
    IF IsProxy(I, s, typeface) /\ inner # <<>> THEN ResolveOne(I, s, inner[1], may_patch)
    ELSE ResolveOne(I, s, typeface, may_patch)

ResolveTypefaceFromContext(I, s, n, typeface, inner, may_patch) ==
    IF (s.resolved /\ (~may_patch \/ s.typeface_patched)) \/ ~Tries(n) THEN s
    ELSE ResolveTypefaceVtable(I, s, typeface, inner, may_patch)

----------------------------------------------------------------------------
(* Reading a font out of its typeface (src/chromium/typeface_bridge.cpp) *)

NoTables == [tags |-> 0, data |-> 0, found |-> FALSE]

\* one virtual of the table reads the tags, and the next is one that reads tables
FindSlots(s, table) ==
    LET at == { i \in 0 .. kMaxSlotSearched - 1 : Word(s, table + i) \in s.tag_anchors }
        tags == Max(at)
    IN  IF s.tag_anchors = {} \/ s.data_anchors = {} THEN NoTables
        ELSE IF s.hint # NoHint /\ s.hint.table = table THEN [tags |-> s.hint.tags, data |-> s.hint.tags + 1, found |-> TRUE]
        ELSE IF Cardinality(at) = 1 /\ tags + 1 < kMaxSlotSearched /\ Word(s, table + tags + 1) \in s.data_anchors
             THEN [tags |-> tags, data |-> tags + 1, found |-> TRUE]
        ELSE NoTables

\* the typeface whose tables are read: itself, or what it is a proxy for
RealTypeface(s, typeface, inner) ==
    LET own == FindSlots(s, typeface.table)
    IN  IF own.found THEN [real |-> <<typeface>>, slots |-> own]
        ELSE IF inner = <<>> THEN [real |-> <<>>, slots |-> own]
        ELSE LET its == FindSlots(s, inner[1].table)
             IN  [real |-> IF its.found THEN inner ELSE <<>>, slots |-> its]

kMaxTable == 32
kMaxTables == 512

\* each table once and in the order of its tag, the ones that are empty or too long left out;
\* one that answers shorter than it said spoils them all
ReadFontFile(s, typeface, inner, tables) ==
    LET wanted == SelectSeq(tables, LAMBDA t : t.size > 0 /\ t.size <= kMaxTable)
    IN  CASE RealTypeface(s, typeface, inner).real = <<>> -> <<>>
          [] tables = <<>> \/ Len(tables) > kMaxTables -> <<>>
          [] \E i \in DOMAIN wanted : wanted[i].short -> <<>>
          [] OTHER -> SortSeq(wanted, LAMBDA a, b : a.tag < b.tag)

EntrySelector(n) == Max({ k \in 0 .. 15 : 2 ^ k <= n })
Directory(n) == [ entry |-> EntrySelector(n), range |-> (2 ^ EntrySelector(n)) * 16,
                  shift |-> n * 16 - (2 ^ EntrySelector(n)) * 16 ]
Padded(size) == ((size + 3) \div 4) * 4
Offsets(font) ==
    [ i \in DOMAIN font |-> 12 + Len(font) * 16 + FoldLeft(LAMBDA at, t : at + Padded(t.size), 0, SubSeq(font, 1, i - 1)) ]

----------------------------------------------------------------------------
(* Which process, which image *)

kMaxModules == 128
CollectModules(loaded) == SubSeq(loaded, 1, Min({kMaxModules, Len(loaded)}))

IsBrowserProcess(process) == process.cmdline /\ process.type = "none"
ShouldScanThisProcess(process) == process.cmdline /\ process.type \in {"zygote", "renderer"}

\* the shim holds every anchor it looks for, so it does not count
CarriesAnchor(m, anchor) == ~m.self /\ anchor \in m.strings

Carrying(modules, anchor) == SelectSeq(modules, LAMBDA m : CarriesAnchor(m, anchor))
Executables(modules) == SelectSeq(modules, LAMBDA m : m.unnamed)

\* the first that carries the anchor, or the executable, the last without a name
ApplyToImage(modules, anchor) ==
    IF Carrying(modules, anchor) # <<>> THEN <<Head(Carrying(modules, anchor))>>
    ELSE IF Executables(modules) # <<>> THEN <<Last(Executables(modules))>>
    ELSE <<>>

kEnoughSymbols == 10

NoScan == [render |-> <<>>, fonts |-> <<>>, patch |-> <<>>, named |-> FALSE]

\* an image that names enough of the bridge; else one that carries the typeface; else the executable
ScanLoadedImages(process, loaded) ==
    LET modules == CollectModules(loaded)
        naming == SelectSeq(modules, LAMBDA m : Len(FindFfiSymbols(m.file)) >= kEnoughSymbols)
        others == Carrying(modules, "fontations") \o Executables(modules)
    IN  CASE process.done \/ ~process.parity -> NoScan
          [] IsBrowserProcess(process) -> [NoScan EXCEPT !.render = ApplyToImage(modules, "render params")]
          [] ~ShouldScanThisProcess(process) \/ process.disabled -> NoScan
          [] OTHER -> [ render |-> <<>>, fonts |-> ApplyToImage(modules, "fontations"),
                        patch |-> SubSeq(naming \o others, 1, Min({1, Len(naming \o others)})), named |-> naming # <<>> ]
=============================================================================
