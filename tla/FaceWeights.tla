------------------------------ MODULE FaceWeights ------------------------------
(***************************************************************************)
(* Which face of a family answers a request in Chromium: the order of a    *)
(* set fontconfig sorted (src/chromium/family_match.cpp), the rules served *)
(* to a fontconfig that is compiled in (static_fontconfig.cpp), the bold   *)
(* face drawn in place of a synthetic one (bold_fallback.cpp), the weight  *)
(* a regular face reports (weight_style.cpp) and the face a bold run is    *)
(* shaped with (bold_shaping.cpp).                                         *)
(*                                                                         *)
(* OpenType weights are in quarters wherever the code has a float: every   *)
(* value the two scales take is a multiple of 1/4, and floats hold these   *)
(* exactly.  A name is a model value and is spelled in one way.            *)
(***************************************************************************)
EXTENDS Integers, Sequences, FiniteSets
LOCAL INSTANCE SequencesExt
LOCAL INSTANCE FiniteSetsExt
LOCAL INSTANCE TLC

\* what FcPatternGet* does not find: a name and a number
NoName == "no name"
NoNumber == -1

----------------------------------------------------------------------------
(* The two scales *)

\* what a fontconfig weight is in OpenType's terms; straight lines in between
kWeights == << <<0, 100>>, <<40, 200>>, <<50, 300>>, <<55, 350>>, <<75, 380>>, <<80, 400>>,
               <<100, 500>>, <<180, 600>>, <<200, 700>>, <<205, 800>>, <<210, 900>>,
               <<215, 1000>> >>

MaxFcWeight == 215

\* map_ranges, in quarters
OpenTypeWeight(fc) ==
    IF fc < 0 THEN 400
    ELSE IF fc >= MaxFcWeight THEN 4000
    ELSE LET i == CHOOSE i \in 1 .. Len(kWeights) - 1 :
                      kWeights[i][1] <= fc /\ fc < kWeights[i + 1][1]
             lo == kWeights[i]
             hi == kWeights[i + 1]
         IN  4 * lo[2] + (4 * (fc - lo[1]) * (hi[2] - lo[2])) \div (hi[1] - lo[1])

\* the other way, for the weights the table names
FontconfigWeight(ot) ==
    IF \E i \in DOMAIN kWeights : kWeights[i][2] = ot
    THEN kWeights[CHOOSE i \in DOMAIN kWeights : kWeights[i][2] = ot][1]
    ELSE 0

\* and for any weight, a half rounded up
FontconfigWeightNear(ot) ==
    IF ot <= 100 THEN 0
    ELSE IF ot > 1000 THEN MaxFcWeight
    ELSE LET i == CHOOSE i \in 1 .. Len(kWeights) - 1 :
                      kWeights[i][2] < ot /\ ot <= kWeights[i + 1][2]
             lo == kWeights[i]
             hi == kWeights[i + 1]
             run == hi[2] - lo[2]
         IN  lo[1] + (2 * (ot - lo[2]) * (hi[1] - lo[1]) + run) \div (2 * run)

----------------------------------------------------------------------------
(* The face within a family *)

Apart(a, b) == IF a < b THEN b - a ELSE a - b

\* GetFirstMatchingFont's pick of two weights, all three in quarters
Beats(candidate, best, wanted) ==
    \/ Apart(candidate, wanted) < Apart(best, wanted)
    \/ /\ Apart(candidate, wanted) = Apart(best, wanted)
       /\ Apart(candidate, 1600) > Apart(best, 1600)

HasFamily(font, family) == family \in font.families

kSeen == 64     \* how many answers are kept

\* what Windows does with a slanted request: 1 it answers with an upright face, 0 it does not, -1
\* nobody can say; the answers already given are kept, the ones nobody could give too
DWriteWantsUpright(seen, key, fresh) ==
    IF key \in DOMAIN seen THEN [upright |-> seen[key], seen |-> seen]
    ELSE [upright |-> fresh,
          seen |-> IF Cardinality(DOMAIN seen) < kSeen
                   THEN [k \in DOMAIN seen \cup {key} |-> IF k = key THEN fresh ELSE seen[k]]
                   ELSE seen]

Style(slant) == IF slant = 0 THEN "normal" ELSE IF slant >= 110 THEN "oblique" ELSE "italic"

\* the first of a set's faces that is best for Windows; 0 when none is what the request names
Winner(set, family, slant, wanted) ==
    LET Fits(f) == /\ f.slant = slant
                   /\ f.weight # NoNumber /\ f.file # NoName
                   /\ HasFamily(f, family)
        Better(best, i) ==
            IF /\ Fits(set[i])
               /\ \/ best = 0
                  \/ Beats(OpenTypeWeight(set[i].weight), OpenTypeWeight(set[best].weight), wanted)
            THEN i ELSE best
    IN  FoldLeftDomain(Better, 0, set)

\* moves that face to the front of a set sorted for a named family.  `upright` holds the weights and
\* styles of that family that DWriteWantsUpright answers 1 for
ReorderForWindows(pattern, set, upright) ==
    LET wanted == OpenTypeWeight(pattern.weight)
        asked == IF pattern.slant # NoNumber THEN pattern.slant ELSE set[1].slant
        slant == IF asked # 0 /\ <<wanted \div 4, Style(asked)>> \in upright
                 THEN 0 ELSE asked
        winner == Winner(set, pattern.family, slant, wanted)
    IN  IF \/ Len(set) <= 1
           \/ pattern.wrapper # "SFNT"
           \/ pattern.family = NoName \/ pattern.weight = NoNumber
        THEN set
        ELSE IF asked = NoNumber \/ ~HasFamily(set[1], pattern.family) \/ winner = 0
        THEN set
        ELSE <<set[winner]>> \o RemoveAt(set, winner)

----------------------------------------------------------------------------
(* The rules for a fontconfig that is compiled in *)

\* answers[w] is what DirectWrite answers a request of weight w with, in one style.  Halves of an
\* interval are asked until both ends answer alike; hi - lo gets smaller
RECURSIVE Split(_, _, _)
Split(answers, lo, hi) ==
    LET run(a, b) == [lo |-> a, hi |-> b, answer |-> answers[a]]
        mid == lo + (hi - lo) \div 2
    IN  IF answers[lo] = answers[hi] THEN << run(lo, hi) >>
        ELSE IF hi - lo = 1 THEN << run(lo, lo), run(hi, hi) >>
        ELSE Split(answers, lo, mid) \o Split(answers, mid + 1, hi)

\* runs that meet and answer alike are one
Merged(runs) ==
    LET add(out, r) ==
            IF out # <<>> /\ Last(out).answer = r.answer /\ Last(out).hi + 1 = r.lo
            THEN [out EXCEPT ![Len(out)].hi = r.hi]
            ELSE Append(out, r)
    IN  FoldLeft(add, <<>>, runs)

\* no runs at all when a question asked was not answered
WeightRuns(answers) ==
    LET runs == Split(answers, 1, 1000)
    IN  IF \E i \in DOMAIN runs : ~runs[i].answer.ok THEN <<>> ELSE Merged(runs)

\* the run that a weight of fontconfig's scale is in, 0 for none
RunAt(runs, fc) ==
    LET ot == (OpenTypeWeight(fc) + 2) \div 4
        in == { i \in DOMAIN runs : runs[i].lo <= ot /\ ot <= runs[i].hi }
    IN  IF in = {} THEN 0 ELSE Min(in)

\* one rule for each run of weights of that scale that are in the same run
WeightRanges(family, answers, slant) ==
    LET runs == WeightRuns(answers)
        at == [v \in 0 .. MaxFcWeight |-> RunAt(runs, v)]
        ends == SetToSortSeq({ v \in 0 .. MaxFcWeight :
                                   at[v] # 0 /\ (v = MaxFcWeight \/ at[v + 1] # at[v]) }, <)
        starts(v) == { u \in 0 .. v : at[u] = at[v] /\ (u = 0 \/ at[u - 1] # at[v]) }
        rule(v) == [family |-> family, slant |-> slant, from |-> Max(starts(v)), to |-> v,
                    weight |-> FontconfigWeightNear(runs[at[v]].answer.weight),
                    drops |-> slant # 0 /\ ~runs[at[v]].answer.italic]
    IN  [i \in DOMAIN ends |-> rule(ends[i])]

\* the rules of every family that comes with Windows, upright requests first
WeightRules(families, shipped, answers) ==
    LET three(f) == WeightRanges(f, answers[f]["normal"], 0)
                    \o WeightRanges(f, answers[f]["italic"], 100)
                    \o WeightRanges(f, answers[f]["oblique"], 110)
        kept == SelectSeq(families, LAMBDA f : f \in shipped)
    IN  FlattenSeq([i \in DOMAIN kept |-> three(kept[i])])

\* fontconfig edits a pattern rule by rule, and a test reads what earlier rules left
ApplyRules(rules, pattern) ==
    LET edit(p, r) ==
            IF /\ r.family \in p.families
               /\ r.from <= p.weight /\ p.weight <= r.to
               /\ p.slant = r.slant
            THEN [p EXCEPT !.weight = r.weight, !.slant = IF r.drops THEN 0 ELSE @]
            ELSE p
    IN  FoldLeft(edit, pattern, rules)

----------------------------------------------------------------------------
(* A bold face for a fallback that carries no weight *)

kAssumedWeight == 2800      \* in quarters

\* the faces the census of installed fonts looks at
Counted(set) == SelectSeq(set, LAMBDA f : NoNumber \notin {f.weight, f.slant} /\ f.file # NoName)

\* the upright face of each family that DirectWrite answers bold with
BoldByFamily(set) ==
    LET faces == Counted(set)
        upright == SelectSeq(faces, LAMBDA f : f.slant = 0)
        names == UNION { f.families : f \in Range(upright) }
        weigh(i) == OpenTypeWeight(upright[i].weight)
        better(family) ==
            LET pick(best, i) ==
                    IF /\ HasFamily(upright[i], family)
                       /\ best = 0 \/ Beats(weigh(i), weigh(best), kAssumedWeight)
                    THEN i ELSE best
            IN  FoldLeftDomain(pick, 0, upright)
    IN  [n \in names |->
            [file |-> upright[better(n)].file, weight |-> weigh(better(n)),
             italic |-> \E f \in Range(faces) : f.slant # 0 /\ HasFamily(f, n)]]

\* no face, the family's bold one, or the one in hand emboldened by DirectWrite; mapped are the
\* files that could be mapped when the process began
RealBoldFor(bold, mapped, font, oblique) ==
    IF font.name \notin DOMAIN bold THEN "none"
    ELSE IF bold[font.name].weight <= 4 * font.weight
    THEN IF font.strikes THEN "simulate" ELSE "none"
    ELSE IF \/ oblique /\ bold[font.name].italic
            \/ bold[font.name].file \notin mapped
    THEN "none"
    ELSE bold[font.name].file

\* what becomes of a run's synthetic bold, and whether the later hooks are told
ClearSyntheticBold(bold, mapped, rec, font) ==
    IF ~rec.embolden THEN rec
    ELSE IF font.weight >= 600 THEN [rec EXCEPT !.embolden = FALSE]
    ELSE IF RealBoldFor(bold, mapped, font, rec.skewed) = "none" THEN rec
    ELSE [rec EXCEPT !.embolden = FALSE, !.marked = TRUE]

\* a caller that has the family's name asks for the file alone
BoldFileFor(bold, family, oblique) ==
    IF family \notin DOMAIN bold \/ (oblique /\ bold[family].italic)
    THEN "none" ELSE bold[family].file

----------------------------------------------------------------------------
(* The weight a regular face reports *)

kFcWeightRegular == 80
kFcWeightBold == 200

\* through the bridge from the font to Skia
Replacement(weight) == IF weight = 400 THEN 399 ELSE weight

\* families some face of which is bold, by the exact name
FamilyHasBold(set, family) ==
    \E f \in Range(set) : f.weight >= kFcWeightBold /\ HasFamily(f, family)

\* through fontconfig: the weight of a pattern, and of no other object
FcIntegerReplacement(set, pattern, object) ==
    IF /\ object = "weight" /\ pattern.weight = kFcWeightRegular
       /\ pattern.family # NoName /\ ~FamilyHasBold(set, pattern.family)
    THEN kFcWeightRegular - 1
    ELSE pattern[object]

----------------------------------------------------------------------------
(* The face a bold run is shaped with (src/chromium/bold_shaping.cpp).     *)
(* What the process holds is w:                                            *)
(*   fonts     by address, [klass, data, face]: what Blink bound to it     *)
(*   data      of each HarfBuzzFontData, what is at 8 and at 16            *)
(*   typefaces [name, weight, strikes] of those the scaler hooks read      *)
(*   faces     of a typeface or a file, [glyphs, upem, axes]               *)
(*   bold, mapped   what RealBoldFor is asked of                           *)
(* and sh is what the library remembers.                                   *)

kDataFontNoVtable == 8
kDataFontVtable == 16
Unbound == [klass |-> "none", data |-> "none"]
NoSkFont == [typeface |-> "none", size |-> 0, flags |-> 0, edging |-> 0, hinting |-> 0, embolden |-> FALSE, skewed |-> FALSE]

NewShaping(linkage, known) ==
    [linkage |-> linkage, known |-> known, said |-> FALSE, offset |-> 0, bounds |-> << >>, substitutes |-> << >>]

\* a size of 4096, six flags, three edgings and four hintings at most, over a typeface that was read
LooksLikeSkFont(w, font) ==
    /\ font.size > 0 /\ font.size <= 4096
    /\ font.flags <= 63 /\ font.edging <= 2 /\ font.hinting <= 3
    /\ font.typeface \in DOMAIN w.typefaces

\* once one of the two places has answered the other is not looked at
SkFontIn(sh, w, data) ==
    LET offsets == IF sh.offset # 0 THEN <<sh.offset>> ELSE <<kDataFontNoVtable, kDataFontVtable>>
        answer == SelectSeq(offsets, LAMBDA o : LooksLikeSkFont(w, w.data[data][o]))
    IN  IF answer = <<>> THEN [sh |-> sh, font |-> NoSkFont]
        ELSE [sh |-> [sh EXCEPT !.offset = answer[1]], font |-> w.data[data][answer[1]]]

\* hb_font_set_funcs, which a HarfBuzz in the image does not call through the library
SetFuncs(sh, font, klass, data) ==
    IF sh.linkage = "in image" THEN sh
    ELSE [sh EXCEPT !.bounds = (font :> [klass |-> klass, data |-> data]) @@ @]

\* What a font was seen to hold, word by word: either of the two planted values more than once, or not
\* at all, and nothing is read out of a font.  Of a scale the last place counts, and the first word
\* where there is none.
LearnFontLayout(words) ==
    LET at(value) == { i \in DOMAIN words : words[i] = value }
        scales == at("scale")
    IN  [ known |-> Cardinality(at("klass")) = 1 /\ Cardinality(at("data")) = 1,
          scale |-> IF scales = {} THEN 1 ELSE Max(scales) ]

BoundInFont(sh, w, font) ==
    IF sh.known /\ w.fonts[font].data # "none" THEN [klass |-> w.fonts[font].klass, data |-> w.fonts[font].data]
    ELSE Unbound

\* the first font of which both are known decides whether reading is to be trusted
CheckFontLayout(sh, w, font, recorded) ==
    LET read == BoundInFont(sh, w, font)
    IN  IF sh.said \/ read = Unbound THEN sh ELSE [sh EXCEPT !.said = TRUE, !.known = read = recorded]

\* glyph for glyph in the same units, and nothing that varies
GlyphForGlyph(regular, bold) ==
    regular.glyphs = bold.glyphs /\ regular.upem = bold.upem /\ regular.axes = 0 /\ bold.axes = 0

Declined == [file |-> "none", data |-> "none"]
Build(w, font, bound, file) ==
    IF GlyphForGlyph(w.faces[w.fonts[font].face], w.faces[file]) THEN [file |-> file, data |-> bound.data] ELSE Declined

\* what a thread shapes a font's run with, and what is remembered of it
SubstituteFor(sh, w, thread, font) ==
    LET recorded == font \in DOMAIN sh.bounds
        checked == IF recorded THEN CheckFontLayout(sh, w, font, sh.bounds[font]) ELSE sh
        bound == IF recorded THEN sh.bounds[font] ELSE BoundInFont(sh, w, font)
        found == IF bound.data = "none" THEN [sh |-> checked, font |-> NoSkFont] ELSE SkFontIn(checked, w, bound.data)
        run == found.font
        bold == RealBoldFor(w.bold, w.mapped, w.typefaces[run.typeface], run.skewed)
        made == IF bold \in {"none", "simulate"} THEN Declined ELSE Build(w, font, bound, bold)
    IN  IF ~run.embolden THEN [sh |-> found.sh, with |-> Declined]
        ELSE IF <<thread, font>> \in DOMAIN sh.substitutes
        THEN [sh |-> found.sh, with |-> sh.substitutes[<<thread, font>>]]
        ELSE [sh |-> [found.sh EXCEPT !.substitutes = (<<thread, font>> :> made) @@ @], with |-> made]

Without(f, x) == [y \in DOMAIN f \ {x} |-> f[y]]

\* the binding of every thread, and the font that this one built
ForgetFont(sh, thread, font) ==
    [sh EXCEPT !.bounds = Without(@, font), !.substitutes = Without(@, <<thread, font>>)]

\* hb_font_destroy, at every reference that goes and not only at the last
DestroyFont(sh, thread, font) == IF sh.linkage = "in image" THEN sh ELSE ForgetFont(sh, thread, font)
===============================================================================
