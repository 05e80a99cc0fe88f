----------------------------- MODULE MCFaceWeights -----------------------------
(***************************************************************************)
(* Families of faces for FaceWeights, and what its operators should come   *)
(* to, evaluated over them.                                                *)
(***************************************************************************)
EXTENDS FaceWeights
LOCAL INSTANCE SequencesExt
LOCAL INSTANCE FiniteSetsExt
LOCAL INSTANCE TLC

FwScale == 0 .. MaxFcWeight
FwWeights == 1 .. 1000

\* The two scales: going up them is going up the other, what the table names maps both ways, and no
\* weight comes back further than the coarseness of the step it is in.
ASSUME ScalesAgree ==
    /\ \A v \in 1 .. MaxFcWeight : OpenTypeWeight(v - 1) < OpenTypeWeight(v)
    /\ \A w \in 2 .. 1000 : FontconfigWeightNear(w - 1) <= FontconfigWeightNear(w)
    /\ \A v \in FwScale : FontconfigWeightNear((OpenTypeWeight(v) + 2) \div 4) = v
    /\ \A w \in FwWeights : FontconfigWeight(w) \in {0, FontconfigWeightNear(w)}
    /\ \A w \in 100 .. 1000 : Apart(OpenTypeWeight(FontconfigWeightNear(w)), 4 * w) <= 40

----------------------------------------------------------------------------
(* What GetFirstMatchingFont answers of a family's weights: for an italic  *)
(* request an italic face below `top`, an upright one from there           *)

FwNearest(ws, w) ==
    CHOOSE a \in ws : \A b \in ws : ~Beats(4 * b, 4 * a, 4 * w)

FwAnswers(family, style) ==
    LET slanted(w) == style = "italic" /\ family.italic # {} /\ w < family.top
    IN  [w \in FwWeights |->
            [weight |-> FwNearest(IF slanted(w) THEN family.italic ELSE family.upright, w),
             italic |-> slanted(w), ok |-> TRUE]]

FwUprights == { {400}, {400, 700}, {300, 500}, {100, 1000}, {350, 510, 600}, {385, 405, 995} }

FwFamilies ==
    { [upright |-> ws, italic |-> {}, top |-> 0] : ws \in FwUprights }
        \cup { [upright |-> {400, 700, 900}, italic |-> {400, 700}, top |-> 850],
               [upright |-> {300, 400, 600}, italic |-> {350, 600}, top |-> 1001] }

\* what a rule makes of a request must be what DirectWrite answers the request itself
FwRulesAnswer(family, style, slant) ==
    LET answers == FwAnswers(family, style)
        rules == WeightRanges("F", answers, slant) \o <<>>
    IN  \A v \in FwScale :
            LET answer == answers[(OpenTypeWeight(v) + 2) \div 4]
            IN  ApplyRules(rules, [families |-> {"F"}, weight |-> v, slant |-> slant])
                    = [families |-> {"F"},
                       weight |-> FontconfigWeightNear(answer.weight),
                       slant |-> IF answer.italic THEN slant ELSE 0]

\* The search by halves finds where every answer changes, although it asks a few weights of a
\* thousand, and the runs are as few as can be.
ASSUME SplittingIsExact ==
    \A family \in FwFamilies, style \in {"normal", "italic"} :
        LET answers == FwAnswers(family, style)
            runs == WeightRuns(answers)
        IN  /\ \A i \in DOMAIN runs : \A w \in runs[i].lo .. runs[i].hi :
                   answers[w] = runs[i].answer
            /\ \A i \in DOMAIN runs :
                   /\ runs[i].lo = (IF i = 1 THEN 1 ELSE runs[i - 1].hi + 1)
                   /\ i > 1 => runs[i].answer # runs[i - 1].answer
            /\ runs[Len(runs)].hi = 1000

\* Rules that fontconfig applies one after the other, each to what the ones before it left, give
\* every request the answer to itself: no rule picks up what another assigned.
ASSUME RulesDoNotMeet ==
    \A family \in FwFamilies :
        /\ FwRulesAnswer(family, "normal", 0)
        /\ FwRulesAnswer(family, "italic", 100)

\* Every family that comes with Windows gets the rules of its own three styles and of no other's, and
\* those rules answer its requests however many families' rules come before and after them.
ASSUME RulesOfManyFamilies ==
    LET of(f) == [upright |-> IF f = "F" THEN {400, 700} ELSE {300, 500}, italic |-> {}, top |-> 0]
        answers == [f \in {"F", "G"} |-> [s \in {"normal", "italic", "oblique"} |-> FwAnswers(of(f), s)]]
        rules == WeightRules(<<"F", "H", "G">>, {"F", "G"}, answers) \o <<>>
    IN  /\ { r.family : r \in Range(rules) } = {"F", "G"}
        /\ \A f \in {"F", "G"}, v \in FwScale, slant \in {0, 100, 110} :
               ApplyRules(rules, [families |-> {f}, weight |-> v, slant |-> slant])
                   = [families |-> {f}, slant |-> 0,
                      weight |-> FontconfigWeightNear(
                                     answers[f]["normal"][(OpenTypeWeight(v) + 2) \div 4].weight)]

\* A question that fails leaves no rule.
ASSUME FailureLeavesNoRule ==
    \A bad \in {1, 501, 1000} :
        WeightRanges("F", [FwAnswers([upright |-> {400, 700}, italic |-> {}, top |-> 0], "normal")
                               EXCEPT ![bad].ok = FALSE], 0) = <<>>

\* Two faces whose weights are closer than fontconfig's scale is fine are the exception: the lower
\* one's rule leaves the weight where the upper one's rule picks it up.
ASSUME FacesTooCloseMeet ==
    /\ ~FwRulesAnswer([upright |-> {345, 352}, italic |-> {}, top |-> 0], "normal", 0)
    /\ FwRulesAnswer([upright |-> {345, 355}, italic |-> {}, top |-> 0], "normal", 0)

----------------------------------------------------------------------------
(* Sets fontconfig sorted: the family asked for, another, and faces that   *)
(* carry both names                                                        *)

FwFace(names, weight, slant) ==
    [families |-> names, weight |-> weight, slant |-> slant, file |-> ToString(<<names, weight, slant>>)]

FwFaces == { FwFace({"F"}, w, s) : w \in {50, 80, 200}, s \in {0, 100} }
             \cup { FwFace({"G"}, 180, 0), FwFace({"F", "G"}, 180, 0),
                    [FwFace({"F"}, 210, 0) EXCEPT !.file = NoName],
                    FwFace({"F"}, NoNumber, 0) }

FwSets == { <<a, b, c>> : a, b, c \in FwFaces }

FwRequest(w, s) == [wrapper |-> "SFNT", family |-> "F", weight |-> w, slant |-> s]

\* The first face afterwards is one that Windows' rule prefers to every other the request names, the
\* rest keep their order, and a set that does not begin with the family asked for stays as it is.
ASSUME ReorderPicksForWindows ==
    \A set \in FwSets, w \in {55, 80, 140, 200}, s \in {0, 100}, u \in BOOLEAN :
        LET out == ReorderForWindows(FwRequest(w, s), set,
                       IF u THEN { <<OpenTypeWeight(w) \div 4, "italic">> } ELSE {})
            slant == IF u THEN 0 ELSE s
            named == { i \in 1 .. 3 : /\ "F" \in set[i].families /\ set[i].slant = slant
                                      /\ set[i].weight # NoNumber /\ set[i].file # NoName }
        IN  IF "F" \notin set[1].families \/ named = {}
            THEN out = set
            ELSE /\ \E i \in named : out = <<set[i]>> \o RemoveAt(set, i)
                 /\ \A i \in named : ~Beats(OpenTypeWeight(set[i].weight),
                                            OpenTypeWeight(out[1].weight), OpenTypeWeight(w))

\* The sort that Blink makes for a fallback names no wrapper and is left alone.
ASSUME FallbackSortIsLeftAlone ==
    \A set \in FwSets :
        ReorderForWindows([FwRequest(200, 0) EXCEPT !.wrapper = NoName], set, {<<700, "italic">>}) = set

----------------------------------------------------------------------------
(* Bold *)

\* What replaces a synthetic bold is heavier than the face in hand, and no upright face of its family
\* is nearer to bold; an oblique run of a family with an italic face keeps what it had.
ASSUME BoldIsTheFamilys ==
    \A set \in FwSets, w \in {300, 400, 600, 700}, strikes, skewed \in BOOLEAN :
        LET bold == BoldByFamily(set)
            mapped == { f.file : f \in Range(set) } \ {NoName}
            font == [name |-> "F", weight |-> w, strikes |-> strikes]
            rec == ClearSyntheticBold(bold, mapped,
                       [embolden |-> TRUE, marked |-> FALSE, skewed |-> skewed], font)
            real == RealBoldFor(bold, mapped, font, skewed)
            upright == { f \in Range(Counted(set)) : f.slant = 0 /\ "F" \in f.families }
        IN  /\ rec.marked => ~rec.embolden /\ real # "none" /\ w < 600
            /\ real \notin {"none", "simulate"} =>
                   \E f \in upright :
                       /\ f.file = real /\ OpenTypeWeight(f.weight) > 4 * w
                       /\ \A g \in upright : ~Beats(OpenTypeWeight(g.weight),
                                                     OpenTypeWeight(f.weight), kAssumedWeight)
                       /\ ~(skewed /\ \E g \in Range(set) : g.slant # 0 /\ "F" \in g.families)
            /\ real \notin {"none", "simulate"} => BoldFileFor(bold, "F", skewed) = real

\* Blink emboldens a face of weight `face` when asked for `wanted`, in quarters: on Linux, Windows
FwLinux(wanted, face) == wanted > 800 + face
FwWindows(wanted) == wanted >= 2400

\* A regular face that reports 399 is emboldened from the weight Windows does it at; through
\* fontconfig, where one less is four of OpenType's, a little earlier.  Weights between two
\* integers show the difference.
ASSUME RegularIsEmboldenedAsOnWindows ==
    /\ \A w \in FwWeights : FwLinux(4 * w, 4 * Replacement(400)) = FwWindows(4 * w)
    /\ { q \in 4 .. 4000 : FwLinux(q, 4 * Replacement(400)) # FwWindows(q) } = 2397 .. 2399
    /\ LET alone == <<FwFace({"F"}, 80, 0)>>
           fc == FcIntegerReplacement(alone, [family |-> "F", weight |-> 80, slant |-> 0], "weight")
       IN  { q \in 4 .. 4000 : FwLinux(q, OpenTypeWeight(fc)) # FwWindows(q) } = 2385 .. 2399

\* A family that has a bold face, under the name the pattern gives first, keeps its weights; so does
\* every other weight, and every other object.
ASSUME OnlyRegularAloneIsChanged ==
    \A set \in FwSets, w \in {50, 80, 200}, object \in {"weight", "slant"} :
        LET pattern == [family |-> "F", weight |-> w, slant |-> 80]
        IN  FcIntegerReplacement(set, pattern, object) # pattern[object]
              <=> /\ object = "weight" /\ w = 80
                  /\ \A f \in Range(set) : f.weight >= 200 => "F" \notin f.families

\* The answers kept are the answers given, and a failure is kept as well.
ASSUME AnswersAreKept ==
    LET ask(seen, k) == DWriteWantsUpright(seen, k, (k % 3) - 1).seen
        many == FoldLeft(ask, <<>>, [i \in 1 .. 70 |-> i])
    IN  /\ Cardinality(DOMAIN many) = kSeen
        /\ \A k \in DOMAIN many : DWriteWantsUpright(many, k, 1).upright = (k % 3) - 1
        /\ DWriteWantsUpright(many, 70, 1).upright = 1

----------------------------------------------------------------------------
(* The face a bold run is shaped with.  Two families: one that has an      *)
(* italic and one that has none; a third whose bold has other glyphs, and  *)
(* one whose regular face is all there is, with strikes.                   *)

BsRun(typeface, embolden, skewed) ==
    [NoSkFont EXCEPT !.typeface = typeface, !.size = 16, !.embolden = embolden, !.skewed = skewed]
BsTypeface(name, strikes) == [name |-> name, weight |-> 400, strikes |-> strikes]
BsFace(glyphs) == [glyphs |-> glyphs, upem |-> 1000, axes |-> 0]
BsPairs == [F |-> "FB", G |-> "GB", H |-> "HB", K |-> "K"]
BsWorld(at8, at16) ==
    [typefaces |-> [F |-> BsTypeface("F", FALSE), G |-> BsTypeface("G", FALSE), H |-> BsTypeface("H", FALSE), K |-> BsTypeface("K", TRUE)],
     faces |-> [F |-> BsFace(9), FB |-> BsFace(9), G |-> BsFace(7), GB |-> BsFace(7), H |-> BsFace(9), HB |-> BsFace(8), K |-> BsFace(5)],
     bold |-> [n \in {"F", "G", "H", "K"} |-> [file |-> BsPairs[n], weight |-> IF n = "K" THEN 1600 ELSE 2800, italic |-> n = "F"]],
     mapped |-> {"FB", "GB", "HB"},
     data |-> [d \in {"d1", "d2"} |-> IF d = "d1" THEN 8 :> at8 @@ 16 :> at16 ELSE 8 :> at16 @@ 16 :> at8],
     fonts |-> [a \in {1, 2} |-> [klass |-> "blink", data |-> "d1", face |-> at8.typeface]]]
BsDrawn(w, run) == RealBoldFor(w.bold, w.mapped, w.typefaces[run.typeface], run.skewed)
\* the runs of a history, and what each was shaped with; what the process holds is of the last run
BsShape(sh, thread, w) == SubstituteFor(sh, w, thread, 1)
BsHistory(sh, runs) ==
    LET next(h, r) == LET out == BsShape(h.sh, r.thread, BsWorld(BsRun(r.typeface, r.embolden, r.skewed), NoSkFont))
                      IN  [sh |-> out.sh, with |-> Append(h.with, out.with.file)]
    IN  FoldLeft(next, [sh |-> sh, with |-> <<>>], runs)
BsRuns(typeface, skews) == [thread : {1, 2}, typeface : {typeface}, embolden : BOOLEAN, skewed : skews]
BsBegun(linkage, known) == SetFuncs(NewShaping(linkage, known), 1, "blink", "d1")

\* While a font's runs are all upright, or all slanted, each is shaped with the face it is drawn with: the
\* bold one if it is bold, there is one, and its glyphs are the regular face's.
ASSUME ShapedAsItIsDrawn ==
    \A typeface \in {"F", "G", "H", "K"}, skewed \in BOOLEAN, linkage \in {"in image", "interposable"}, known \in BOOLEAN :
        \A runs \in [1 .. 3 -> BsRuns(typeface, {skewed})] :
            LET with == BsHistory(BsBegun(linkage, known), runs).with
                w == BsWorld(NoSkFont, NoSkFont)
            IN  \A i \in 1 .. 3 :
                    with[i] = IF /\ runs[i].embolden /\ (known \/ linkage = "interposable")
                                 /\ typeface \in {"F", "G"} /\ BsDrawn(w, runs[i]) # "none"
                              THEN BsPairs[typeface] ELSE "none"

\* The slant of a run is not of its font: a family with an italic has its later bold runs on that thread
\* shaped as the first one was, upright and slanted alike, and drawn as each should be.
ASSUME TheFirstRunDecides ==
    \A typeface \in {"F", "G"}, runs \in [1 .. 3 -> BsRuns("F", BOOLEAN)] :
        LET of == [i \in 1 .. 3 |-> [runs[i] EXCEPT !.typeface = typeface]]
            with == BsHistory(BsBegun("interposable", FALSE), of).with
            first(i) == Min({ j \in 1 .. i : of[j].embolden /\ of[j].thread = of[i].thread })
        IN  \A i \in 1 .. 3 : of[i].embolden => with[i] = BsDrawn(BsWorld(NoSkFont, NoSkFont), of[first(i)])

\* A font that goes takes with it what its own thread built, and the binding of every thread.  What
\* another thread built for a font at that address is used for the next one there; and where HarfBuzz
\* is in the image nothing hears of its going, and the thread's own is.
ASSUME AFontAtAnAddressAgain ==
    \A linkage \in {"in image", "interposable"}, known \in BOOLEAN, built, gone, asks \in {1, 2} :
        LET bold(typeface) == BsWorld(BsRun(typeface, TRUE, FALSE), NoSkFont)
            once == BsShape(BsBegun(linkage, known), built, bold("F")).sh
            again == SetFuncs(DestroyFont(once, gone, 1), 1, "blink", "d1")
            with == BsShape(again, asks, bold("G")).with
        IN  linkage = "interposable" \/ known =>
                with.file = IF asks = built /\ (gone # built \/ linkage = "in image") THEN "FB" ELSE "GB"

\* A reference that goes while the font lives takes the binding too: the next bold run finds it only in
\* the font itself.
ASSUME OneReferenceOfTwo ==
    \A known \in BOOLEAN, thread \in {1, 2} :
        LET w == BsWorld(BsRun("F", TRUE, FALSE), NoSkFont)
            sh == DestroyFont(BsShape(BsBegun("interposable", known), 1, w).sh, thread, 1)
        IN  BsShape(sh, 1, w).with.file = IF known THEN "FB" ELSE "none"

\* Where the font is in Blink's data is seen once, in the first data that has one; a word that looks like
\* a font by chance hides every later one.
ASSUME OnePlaceForAll ==
    \A chance \in {NoSkFont, BsRun("K", FALSE, FALSE)}, first \in {"d1", "d2"}, odd \in {[size |-> 4097], [flags |-> 64], [edging |-> 3], [hinting |-> 4]} :
        LET run == BsRun("F", TRUE, FALSE)
            w == BsWorld(chance, run)
            seen == SkFontIn(NewShaping("in image", TRUE), w, first)
            later(d) == SkFontIn(seen.sh, w, d).font
        IN  /\ seen.sh.offset = IF first = "d2" \/ chance # NoSkFont THEN 8 ELSE 16
            /\ later(first) = seen.font /\ (first = "d1" => later("d1") = IF chance = NoSkFont THEN run ELSE chance)
            /\ later("d2") = IF seen.sh.offset = 8 THEN run ELSE NoSkFont
            /\ ~LooksLikeSkFont(w, odd @@ run)

\* The words of a font are trusted while a binding that was recorded agrees with them; the first of which
\* both are known decides for the process.
ASSUME ReadingIsCheckedOnce ==
    \A words \in [1 .. 4 -> {"klass", "data", "scale", "other"}], changed \in {"d1", "d2"}, embolden \in BOOLEAN :
        LET count(v) == Cardinality({ i \in 1 .. 4 : words[i] = v })
            layout == LearnFontLayout(words)
            run == BsRun("F", embolden, FALSE)
            w == [BsWorld(run, run) EXCEPT !.fonts[1].data = changed]
            one == BsShape(BsBegun("interposable", layout.known), 1, w).sh
            two == SubstituteFor(one, w, 1, 2)
        IN  /\ layout.known <=> count("klass") = 1 /\ count("data") = 1
            /\ layout.scale # 1 => words[layout.scale] = "scale" /\ \A i \in layout.scale + 1 .. 4 : words[i] # "scale"
            /\ layout.scale = 1 => \A i \in 2 .. 4 : words[i] # "scale"
            /\ one.known = (layout.known /\ changed = "d1") /\ one.said = layout.known
            /\ two.with.file = IF embolden /\ one.known THEN "FB" ELSE "none"
            /\ changed = "d1" => BsShape(one, 1, [w EXCEPT !.fonts[1].data = "d2"]).sh.known = layout.known

\* A bold face in other units, of other glyphs, or either face a variable one: no run is shaped with it.
ASSUME NothingElseStandsIn ==
    \A regular, bold \in [glyphs : {9, 8}, upem : {1000, 2048}, axes : {0, 1}] :
        LET w == [BsWorld(BsRun("F", TRUE, FALSE), NoSkFont) EXCEPT !.faces["F"] = regular, !.faces["FB"] = bold]
        IN  BsShape(BsBegun("interposable", FALSE), 1, w).with.file = "FB" <=> regular = bold /\ regular.axes = 0
===============================================================================
