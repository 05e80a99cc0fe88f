-------------------------------- MODULE MCGlyphs --------------------------------
(***************************************************************************)
(* Threads, fonts and glyphs for GlyphRaster and GlyphPaths, and what      *)
(* their operators should come to, evaluated over them.                    *)
(***************************************************************************)
LOCAL INSTANCE Integers
LOCAL INSTANCE Sequences
LOCAL INSTANCE FiniteSets
LOCAL INSTANCE SequencesExt
LOCAL INSTANCE FiniteSetsExt
LOCAL INSTANCE TLC

\* two libraries, two recommendations, a fixed point of 64ths with two shears to recover
Raster == INSTANCE GlyphRaster WITH kSkiaLibrarySlots <- 2, kCachedModes <- 2, One <- 64, kSkews <- {16, 24}

\* a fixed point of halves, and outlines of at most six points
Paths == INSTANCE GlyphPaths WITH One <- 2, kMaxGlyphPathPoints <- 6

----------------------------------------------------------------------------
(* The caller: a thread that is named, draws through Skia and is asked, in any order *)

GrEvents == {"ask", "enter", "leave", "WRWorke", "Composi"}
GrWords == UNION { [1 .. n -> GrEvents] : n \in 0 .. 6 }

GrStep(t, e) ==
    CASE e = "ask" -> Raster!AskedCaller(TRUE, t)
      [] e = "enter" -> Raster!CleartypeEnterSkiaScaler(t)
      [] e = "leave" -> Raster!CleartypeLeaveSkiaScaler(t)
      [] OTHER -> Raster!pthread_setname_np(t, TRUE, TRUE, e)

GrThread(w) == FoldLeft(GrStep, Raster!NewThread, w)

GrNamesBefore(w, i) == { j \in 1 .. i : w[j] \in {"WRWorke", "Composi"} }
GrDepth(w) == FoldLeft(LAMBDA d, e : CASE e = "enter" -> d + 1 [] e = "leave" /\ d > 0 -> d - 1 [] OTHER -> d, 0, w)

\* the first time the thread is asked outside a scaler with a name settles what it is outside one
GrSettles(w, i) == w[i] = "ask" /\ GrDepth(SubSeq(w, 1, i)) = 0 /\ GrNamesBefore(w, i) # {}
GrLastName(w, i) == IF GrNamesBefore(w, i) = {} THEN "" ELSE w[Max(GrNamesBefore(w, i))]

GrReference(w) ==
    LET settled == { i \in DOMAIN w : GrSettles(w, i) }
        at == IF settled = {} THEN Len(w) ELSE Min(settled)
    IN  IF GrDepth(w) > 0 THEN "Skia"
        ELSE IF GrLastName(w, at) = "WRWorke" THEN "WebRender" ELSE "Skia"

\* A scaler on the stack is Skia's; outside, the name the thread bore when it was first asked with one
\* decides for good.  An answer given before there was a name is not kept.
ASSUME TheNameThatSettles ==
    \A w \in GrWords : Raster!CurrentRasterCaller(TRUE, GrThread(w)) = GrReference(w)

\* Outside Gecko nobody is Skia.
ASSUME NobodyOutsideGecko ==
    \A w \in GrWords : Raster!CurrentRasterCaller(FALSE, GrThread(w)) = "WebRender"

----------------------------------------------------------------------------
(* Skia's libraries *)

GrLibraries == {"l1", "l2", "l3"}
GrCalls == {"record", "forget"} \X GrLibraries
GrCallWords == UNION { [1 .. n -> GrCalls] : n \in 0 .. 4 }

GrSlots(w) ==
    FoldLeft(LAMBDA s, c : IF c[1] = "record" THEN Raster!RecordSkiaLibrary(TRUE, s, c[2])
                           ELSE Raster!ForgetSkiaLibrary(s, c[2]),
             Raster!NoSkiaLibraries, w)

GrHolds(w, l) == Cardinality({ i \in 1 .. 2 : GrSlots(w)[i] = l })

\* As long as nothing is destroyed, a library takes one slot, and the first ones to come have them.
ASSUME FirstComeFirstClaimed ==
    \A w \in GrCallWords :
        (\A i \in DOMAIN w : w[i][1] = "record") =>
            LET came == { w[i][2] : i \in DOMAIN w }
            IN  /\ \A l \in GrLibraries : GrHolds(w, l) \in 0 .. 1
                /\ Cardinality({ l \in came : Raster!IsSkiaLibrary(GrSlots(w), l) }) = Min({2, Cardinality(came)})

\* A slot that was vacated before the one a library holds is claimed by it again, and then
\* destroying the library leaves a claim behind.
ASSUME ASecondClaimOutlivesItsLibrary ==
    LET w == << <<"record", "l1">>, <<"record", "l2">>, <<"forget", "l1">>, <<"record", "l2">> >>
    IN  /\ GrHolds(w, "l2") = 2
        /\ Raster!IsSkiaLibrary(Raster!ForgetSkiaLibrary(GrSlots(w), "l2"), "l2")

\* That is the only way: a library held once is forgotten.
ASSUME HeldOnceIsForgotten ==
    \A w \in GrCallWords, l \in GrLibraries :
        Raster!IsSkiaLibrary(Raster!ForgetSkiaLibrary(GrSlots(w), l), l) <=> GrHolds(w, l) = 2

----------------------------------------------------------------------------
(* gasp and strikes *)

GrGasp(version, maxima, flags) ==
    [readable |-> TRUE, version |-> version, rows |-> [i \in DOMAIN maxima |-> [max |-> maxima[i], flags |-> flags[i]]]]
NoGasp == [readable |-> FALSE, version |-> 0, rows |-> <<>>]

GrGasps == { GrGasp(1, m, <<1, 2, 3>>) : m \in [1 .. 3 -> {2, 4, 6}] }

\* In a sorted table the row of a size is the first that reaches it; in any table the range found
\* holds the size, and in a sorted one two ranges are the same or apart.
ASSUME GaspRowOfASize ==
    \A g \in GrGasps, size \in 0 .. 8 :
        LET found == Raster!GetGaspRange(g, size)
            reach == { i \in 1 .. 3 : g.rows[i].max >= size }
            ascending == \A i \in 1 .. 2 : g.rows[i].max <= g.rows[i + 1].max
        IN  /\ \A r \in found : size \in r.min .. r.max
            /\ ascending => IF reach = {} THEN found = {}
                            ELSE \E r \in found : found = {r} /\ r.flags = g.rows[Min(reach)].flags
            /\ ascending => \A other \in 0 .. 8, r \in found :
                               other \in r.min .. r.max <=> Raster!GetGaspRange(g, other) = {r}

GrStrikes == [x : {4, 5}, y : {4, 5}, first : {1}, last : {3, 4}]
GrTable(strikes) == [second |-> TRUE, whole |-> TRUE, strikes |-> strikes]
GrTables == { GrTable(s) : s \in UNION { [1 .. n -> GrStrikes] : n \in 0 .. 2 } }
GrFace(eblc, ebsc, gasp) ==
    [eblc |-> eblc, ebsc |-> ebsc, gasp |-> gasp, maxp |-> [long |-> TRUE, version |-> 1, instructions |-> 0],
     os2 |-> [present |-> TRUE, version |-> 4, codePages |-> {17}], cbdt |-> FALSE, colr |-> FALSE, memory |-> FALSE]

\* A size that Gecko takes for a bitmap's is one Skia takes for a bitmap's.  The other way round it is
\* but where the size's first strike is too short and another one is not: Gecko looks no further.
ASSUME TwoReadingsOfTheStrikes ==
    \A e \in GrTables, s \in {GrTable(<<>>), GrTable(<<[x |-> 4, y |-> 4]>>)}, size \in 4 .. 5 :
        LET face == GrFace(e, s, NoGasp)
            gecko == Raster!HasBitmapStrikeForSize(face, size)
            skia == Raster!HasBitmapStrikeInRange(face, Raster!RangeFrom(size, size, 0, 0))
            sized == SelectSeq(e.strikes, LAMBDA k : k.x = size /\ k.y = size)
        IN  /\ gecko => skia
            /\ skia /\ ~gecko <=> /\ s.strikes = <<>> \/ size # 4
                                  /\ Len(sized) = 2 /\ sized[1].last = 3 /\ sized[2].last = 4

----------------------------------------------------------------------------
(* The analysis, over fonts, options and callers *)

GrStrike4 == GrTable(<<[x |-> 4, y |-> 4, first |-> 1, last |-> 4]>>)
GrFaces ==
    { [GrFace(e, GrTable(<<>>), g) EXCEPT !.cbdt = c, !.maxp.instructions = h, !.colr = k] :
          e \in {GrTable(<<>>), GrStrike4}, g \in {NoGasp, GrGasp(1, <<6, 65535>>, <<1, 8>>)},
          c \in BOOLEAN, h \in 0 .. 1, k \in {FALSE} }

GrEnvs ==
    { [rendering |-> r, measuring |-> m, gridFit |-> f, subpixel |-> s, windowsMetrics |-> ""] :
          r \in {"", "auto", "gdi-natural"}, m \in {""}, f \in {"", "disabled"}, s \in {"", "0"} }

\* sizes around 4 pixels, between, and around the 20 that Skia tells apart
GrSizes == {500, 512, 516, 576, 2560, 2561}

GrUpright == <<64, 16, 0, 64>>
GrQuarter == <<0, 64, -64, -24>>
GrGeneral == <<64, 10, 10, 64>>

GrPending(sims, matrix, dx) == [simulations |-> sims, matrix |-> matrix, dx |-> dx, dy |-> 0, unrepresentable |-> FALSE]

GrGlyph(face, options, caller, em, pending, faceMatrix, gray, factory, system, recommended) ==
    [parity |-> TRUE, options |-> options, caller |-> caller, live |-> TRUE, em |-> em, factory |-> factory,
     pending |-> pending, faceMatrix |-> faceMatrix, dwriteFace |-> TRUE, face |-> face, aspect |-> <<1, 1>>,
     gray |-> gray, measureOnly |-> FALSE, systemMode |-> system, recommended |-> recommended, modes |-> <<>>]

GrPlain == GrPending({}, <<>>, 16)

GrByFont ==
    { GrGlyph(f, Raster!InitOptions(o), c, em, GrPlain, <<>>, y, v, s, r) :
          f \in GrFaces, o \in { e \in GrEnvs : e.subpixel = "" }, c \in {"Skia", "WebRender"}, em \in GrSizes,
          y \in BOOLEAN, v \in {"1", "2"}, s \in {"DEFAULT", "NATURAL"}, r \in {"OUTLINE", "GDI_CLASSIC", "failed"} }

GrByShape ==
    { GrGlyph([f EXCEPT !.colr = k = "colr", !.memory = k = "memory"], Raster!InitOptions(o), c, 512, GrPending(b, p, dx), m, FALSE, "1", "DEFAULT", "NATURAL") :
          f \in { x \in GrFaces : ~x.cbdt /\ x.maxp.instructions = 0 }, k \in {"", "colr", "memory"},
          o \in { e \in GrEnvs : e.gridFit = "" /\ e.measuring = "" /\ e.rendering = "" },
          c \in {"Skia", "WebRender"}, b \in SUBSET {"BOLD", "OBLIQUE"}, dx \in {0, 16, -16, 64},
          p \in {<<>>, GrGeneral}, m \in {<<>>, GrUpright, GrQuarter, <<65, 0, 0, 63>>} }

GrAsked(g) == ~Raster!RasterizeThroughDWrite(g).declined
GrAnalysis(g) == Raster!RasterizeThroughDWrite(g).analysis

\* DirectWrite is never asked for outlines, which its textures divide by zero in, and one channel is
\* never asked of the older factory.
ASSUME NothingIsAskedThatFails ==
    \A g \in GrByFont :
        GrAsked(g) => LET a == GrAnalysis(g)
                      IN  /\ a.rendering # "OUTLINE"
                          /\ a.texture = "1x1" => a.factory2 /\ g.factory = "2"
                          /\ a.factory2 => g.factory = "2"
                          /\ a.factory2 => a.antialias = "GRAYSCALE" \/ g.options.gridFitForced

\* Above 20 pixels, or with a mode of the system's, what the font says of hinting decides nothing;
\* and where no strike draws the glyph, the size that is asked for is the one that is drawn, unless
\* the font is hinted and says nothing of the size.
ASSUME WhatTheFontDecides ==
    \A g \in { x \in GrByFont : x.caller = "Skia" } :
        LET a == GrAnalysis(g)
            strike == Raster!HasBitmapStrikeInRange(g.face, Raster!BitmapRange(g.face, g.em))
            bitmap == Raster!BitmapFont(g) /\ strike
        IN  /\ a.size # g.em => bitmap \/ (g.face.maxp.instructions # 0 /\ g.face.gasp = NoGasp
                                           /\ g.em <= 2560 /\ g.systemMode = "DEFAULT")
            /\ a.size \in {g.em, Raster!GdiSize(g.em)}
            /\ a.measuring = "GDI_CLASSIC" => bitmap /\ ~g.face.cbdt
            /\ (g.em > 2560 \/ g.systemMode # "DEFAULT") /\ ~bitmap =>
                   \A h \in 0 .. 1, s \in {NoGasp, GrGasp(0, <<65535>>, <<2>>)} :
                       GrAnalysis([g EXCEPT !.face.maxp.instructions = h, !.face.gasp = s]).rendering = a.rendering

\* Small text that no strike draws: a new gasp table says whether it is smoothed both ways; without
\* one, hinted text is drawn at a whole 64th and smoothed across, and text without hints as it is.
ASSUME SmallTextThroughSkia ==
    \A v \in 0 .. 1, flags \in {1, 2, 8, 10}, hints \in 0 .. 1, em \in {500, 513, 2560} :
        LET face == [GrFace(GrTable(<<>>), GrTable(<<>>), GrGasp(v, <<65535>>, <<flags>>)) EXCEPT !.maxp.instructions = hints]
            modes == Raster!SkiaDWModes(face, em, TRUE, TRUE, "DEFAULT")
            smooth == IF v = 1 THEN flags >= 8 ELSE hints = 0
        IN  /\ modes.rendering = IF smooth THEN "NATURAL_SYMMETRIC" ELSE "NATURAL"
            /\ modes.measuring = "NATURAL"
            /\ modes.size = IF v = 0 /\ hints = 1 /\ em = 513 THEN 514 ELSE em

\* A GDI mode of rendering measures in the same GDI way unless told otherwise; a word nobody knows
\* leaves things as they were.
ASSUME OptionsGoTogether ==
    \A r \in {"", "auto", "no such", "gdi-classic", "gdi-natural", "natural"}, m \in {"", "no such", "natural"} :
        LET o == Raster!InitOptions([rendering |-> r, measuring |-> m, gridFit |-> "no such", subpixel |-> "", windowsMetrics |-> ""])
        IN  /\ o.renderingForced <=> r \in {"gdi-classic", "gdi-natural", "natural"}
            /\ m # "natural" /\ r \in {"gdi-classic", "gdi-natural"} <=> o.measuring # "NATURAL"
            /\ o.measuring # "NATURAL" => o.measuring = o.rendering
            /\ ~o.gridFitForced

\* The two callers of a bitmap font at its own size differ in what stays of the glyph's phase.
ASSUME OnlyWebRenderDropsThePhase ==
    \A g \in GrByShape :
        LET plan == Raster!RasterizeThroughDWrite(g)
            dropped == ~g.options.subpixel \/ (g.caller = "WebRender" /\ Raster!BitmapFont(g))
        IN  GrAsked(g) => /\ g.caller = "Skia" => plan.shape = Raster!Combined(g)
                          /\ dropped => plan.shift % 64 = 0 /\ plan.shift \in g.pending.dx - 63 .. g.pending.dx
                          /\ ~dropped => plan.shift = g.pending.dx

\* A thickened glyph is thickened once: DirectWrite does it, or the strikes do.  A slanted one is
\* slanted once: by the simulation, or by the matrix of the face, which a bitmap font keeps where it
\* is a slant and loses where it is anything else.
ASSUME OnceBoldOnceSlanted ==
    \A g \in GrByShape :
        LET plan == Raster!RasterizeThroughDWrite(g)
            bold == "BOLD" \in g.pending.simulations
            bitmaps == g.caller = "WebRender" /\ Raster!BitmapFont(g)
        IN  GrAsked(g) =>
                /\ bold <=> ("BOLD" \in plan.simulations) # plan.multistrike
                /\ plan.multistrike <=> bold /\ (g.face.colr \/ g.face.memory)
                /\ "OBLIQUE" \in plan.simulations <=> "OBLIQUE" \in g.pending.simulations /\ g.faceMatrix = <<>>
                /\ plan.oblique # "none" <=> g.faceMatrix \in {GrUpright, GrQuarter}
                /\ plan.shape # Raster!Identity => ~bitmaps

\* A transform that does nothing is not passed for WebRender and always for Skia.
ASSUME TransformWhereThereIsOne ==
    \A g \in GrByShape :
        GrAsked(g) =>
            LET plan == Raster!RasterizeThroughDWrite(g)
                moves == plan.oblique # "none" \/ plan.shape \notin {<<64, 0, 0, 64>>, <<65, 0, 0, 63>>} \/ plan.shift # 0
            IN  plan.analysis.transform <=> moves \/ g.caller = "Skia"

\* What is kept of the recommendations answers as DirectWrite did when it was first asked, in
\* whatever order sizes come, as long as they are no more than are kept; a failure stays one.
GrRecommended(size) == CASE size = 4 -> "failed" [] size = 5 -> "OUTLINE" [] OTHER -> "ALIASED"
ASSUME RecommendationsAreKept ==
    \A w \in UNION { [1 .. n -> 4 .. 7] : n \in 1 .. 5 } :
        LET ask(modes, size) == Raster!ResolveMode(modes, size, GrRecommended(size), Raster!InitOptions(CHOOSE e \in GrEnvs : TRUE))
            after(i) == FoldLeft(LAMBDA m, s : ask(m, s).modes, <<>>, SubSeq(w, 1, i))
            fresh == Raster!ResolveMode(<<>>, w[Len(w)], GrRecommended(w[Len(w)]), Raster!InitOptions(CHOOSE e \in GrEnvs : TRUE))
            kept == after(Len(w))
        IN  /\ ask(after(Len(w) - 1), w[Len(w)]).resolved = fresh.resolved
            /\ Len(kept) <= 2
            /\ Cardinality({ kept[i].size : i \in DOMAIN kept }) = Len(kept)

----------------------------------------------------------------------------
(* Bitmaps and boxes *)

GrBox == [1 .. 4 -> {-3, 0, 4}]
GrBoxes == { b \in GrBox : b[3] > 0 /\ b[4] > 0 }
GrGrown(b, box) == \* b lies in the box with a pixel around it
    /\ b[1] >= box[1] - 1 /\ b[1] + b[3] <= box[1] + box[3] + 1
    /\ b[2] <= box[2] + 1 /\ b[2] - b[4] >= box[2] - box[4] - 1
GrShifted(b) == { [b EXCEPT ![1] = @ + d, ![2] = @ + e] : d \in -1 .. 1, e \in -1 .. 1 }

\* A mask of the control box, from its corner, takes every pixel of either measured bitmap, a
\* pixel to any side.
ASSUME MaskTakesTheGlyph ==
    \A a, b \in GrBoxes :
        LET mask == Raster!FT_Outline_Get_CBox(<<0, 0, 0, 0>>, <<a, b>>, FALSE, TRUE, "Skia")
            width == (mask[3] - mask[1]) \div 64
            rows == (mask[4] - mask[2]) \div 64
        IN  \A drawn \in GrShifted(a) \cup GrShifted(b) :
                Cardinality(Raster!Landing(<<drawn[1] - mask[1] \div 64, drawn[2] - mask[2] \div 64, drawn[3], drawn[4]>>,
                                           width, rows)) = drawn[3] * drawn[4]

----------------------------------------------------------------------------
(* Bold in strikes *)

GrInk == {0, 255}
GrRows == [1 .. 4 -> GrInk]
GrGrays == [1 .. 3 -> {0, 1, 128, 254, 255}]
GrSteps == {128, 192, 256, 320, 512}

\* In whole pixels, the strikes of a bilevel row are the pixels that have ink at most so far to the left.
ASSUME StrikesSpreadInk ==
    \A row \in GrRows, n \in 1 .. 3, step \in {256, 512} :
        LET bold == Raster!ApplyMultistrikeBold(row, n, step)
        IN  bold = [ i \in 1 .. 4 + (n * step) \div 256 |->
                         IF \E k \in 0 .. n : i - k * (step \div 256) \in 1 .. 4 /\ row[i - k * (step \div 256)] = 255
                         THEN 255 ELSE 0 ]

\* In any step the last strike just fits the wider row, ink never lightens, and no pixel leaves a byte.
ASSUME StrikesOnlyDarken ==
    \A row \in GrGrays, n \in 1 .. 2, step \in GrSteps :
        LET bold == Raster!ApplyMultistrikeBold(row, n, step)
            ends(i) == 3 + (i * step) \div 256 + (IF (i * step) % 256 > 0 THEN 1 ELSE 0)
        IN  /\ \A i \in 1 .. n : ends(i) <= Len(bold)
            /\ \A i \in 1 .. 3 : bold[i] >= row[i]
            /\ row[3] = 255 => bold[ends(n)] > 0
            /\ \A i \in DOMAIN bold : bold[i] \in 0 .. 255

\* Up to 48 pixels one strike, then one more for each 48 pixels, from half of them on.
ASSUME OneStrikeIn48Pixels ==
    \A px \in 1 .. 300 :
        Raster!WinExtraStrikes(128 * px) = Max({1, (px + 24) \div 48})

----------------------------------------------------------------------------
(* Outlines and the paths built from them *)

PtAbs(n) == IF n < 0 THEN -n ELSE n
PtFigure(start, segments) == [start |-> start, segments |-> segments]

\* places of which the first two are one in 64ths, lines and curves between them, and a shear
PtPlaces == {<<1, 0>>, <<2, 0>>, <<4, 0>>, <<4, -3>>}
PtLines == { <<p>> : p \in PtPlaces }
PtCurves == { <<p, q, r>> : p \in {<<2, 0>>, <<4, -3>>}, q, r \in {<<1, 0>>, <<2, 0>>, <<4, -3>>} }
PtXforms == {<<2, 0, 0, 2>>, <<2, 1, 0, 2>>}

PtOne == { <<PtFigure(s, w)>> : s \in PtPlaces, w \in UNION { [1 .. n -> PtLines \cup PtCurves] : n \in 0 .. 2 } }
PtTwo == { <<PtFigure(s, v), PtFigure(s, w)>> :
               s \in PtPlaces, v, w \in UNION { [1 .. n -> PtLines] : n \in 0 .. 2 } }
PtOutlines == PtOne \cup PtTwo

PtSink(outline, xform) == Paths!Walk(Paths!NewSink(xform, 0, TRUE, <<>>), outline)

\* What Windows keeps of a figure: the segments that leave the place where the one before ended,
\* and the start if there is one.
PtKept(f) ==
    { i \in DOMAIN f.segments :
          \E p \in Range(f.segments[i]) : p # IF i = 1 THEN f.start ELSE Last(f.segments[i - 1]) }
PtPen(f, i) == IF i = 1 THEN f.start ELSE Last(f.segments[i - 1])
PtWindows(outline) ==
    FlattenSeq([ k \in DOMAIN outline |->
        LET f == outline[k]
        IN  IF PtKept(f) = {} THEN <<>>
            ELSE <<f.start>> \o FlattenSeq([ i \in DOMAIN f.segments |->
                     IF i \in PtKept(f) THEN Paths!KeptPoints(PtPen(f, i), f.segments[i]) ELSE <<>> ]) ])

\* However places fall together in 64ths, the caller keeps the points that Windows keeps, as many and
\* in their order; a walk records them as the caller has them, each with the place it has on Windows.
\* Past its bound it records nothing of use.
ASSUME PathIsRecognised ==
    \A outline \in PtOutlines, xform \in PtXforms :
        LET sink == PtSink(outline, xform)
            windows == PtWindows(outline)
        IN  /\ sink.usable <=> Len(windows) <= 6
            /\ sink.usable =>
                   /\ Paths!Matches(sink.points) = Paths!HostPath(sink.calls)
                   /\ Paths!Places(sink.points) = [ i \in DOMAIN windows |-> Paths!Exact(windows[i], xform) ]
            /\ Len(Paths!HostPath(sink.calls)) = Len(windows)

\* Repaired, the finished path is the one Windows has, and so is its box; nothing else in it changes.
ASSUME PathIsRepaired ==
    \A outline \in { o \in PtOutlines : Len(PtWindows(o)) \in 1 .. 4 }, xform \in PtXforms :
        LET sink == PtSink(outline, xform)
            path == Paths!HostPath(sink.calls)
            other == <<<<77, 77>>>>
            repaired == Paths!RepairGlyphPath(<<other, path>>, <<Paths!Box(other), Paths!Box(path)>>, sink.points)
        IN  /\ repaired.arrays = <<other, Paths!Places(sink.points)>>
            /\ repaired.boxes = <<Paths!Box(other), Paths!Box(Paths!Places(sink.points))>>

\* A path that two arrays could be, or none, is left as it was.
ASSUME DoubtLeavesThePath ==
    \A outline \in { o \in PtOne : Len(PtWindows(o)) \in 1 .. 4 } :
        LET sink == PtSink(outline, <<2, 0, 0, 2>>)
            path == Paths!HostPath(sink.calls)
        IN  \A arrays \in {<<>>, <<path, path>>, <<Tail(path)>>, <<Append(path, <<0, 0>>), Tail(path)>>} :
                Paths!RepairGlyphPath(arrays, <<Paths!Box(path)>>, sink.points) = [arrays |-> arrays, boxes |-> <<Paths!Box(path)>>]

\* A callback that reports an error gets no more calls.
ASSUME ErrorEndsTheWalk ==
    \A outline \in PtTwo, k \in 1 .. 4 :
        LET whole == PtSink(outline, <<2, 0, 0, 2>>).calls
        IN  Paths!Walk(Paths!NewSink(<<2, 0, 0, 2>>, k, TRUE, <<>>), outline).calls = SubSeq(whole, 1, Min({k, Len(whole)}))

\* A quadratic that was elevated to a cubic is found again; a cubic that none elevates to is kept.
ASSUME QuadraticsComeBack ==
    \A a, d \in {0, 3, -6} \X {0, 3}, c \in {-6, 0, 9} \X {3, 6} :
        LET b(p) == [ i \in 1 .. 2 |-> (p[i] + 2 * c[i]) \div 3 ]
            seg == <<b(a), b(d), d>>
        IN  /\ Paths!KeptPoints(a, seg) = <<c, d>>
            /\ \A e \in {<<1, 0>>, <<0, -1>>} :
                   LET moved == [seg EXCEPT ![2] = <<@[1] + e[1], @[2] + e[2]>>]
                   IN  Paths!KeptPoints(a, moved) = moved

\* In DirectWrite's axes the transform moves a place where the matrix moves it in FreeType's.
ASSUME AxesTurnedTwice ==
    \A m \in [1 .. 4 -> -2 .. 2], p \in (-3 .. 3) \X (-3 .. 3) :
        LET free == << m[1] * p[1] - m[2] * p[2], m[3] * p[1] - m[4] * p[2] >>
        IN  Paths!Exact(p, Paths!SkXformFromFTMatrix(m, <<1, 1>>)) = <<free[1], -free[2]>>

\* A place in 64ths is the nearest, the farther from nothing of two.
ASSUME NearestSixtyFourth ==
    \A n \in -20 .. 20, d \in {1, 2, 4} :
        LET q == Paths!HalfAway(n, d)
            off == { PtAbs(n - k * d) : k \in -20 .. 20 }
        IN  /\ PtAbs(n - q * d) = Min(off)
            /\ \A k \in -20 .. 20 : PtAbs(n - k * d) = Min(off) => PtAbs(k) <= PtAbs(q)

\* The calls of one generatePath after another, on a thread: three outlines, plain ones for a path.
PtSquare == <<PtFigure(<<0, 0>>, <<<<<<4, 0>>>>, <<<<4, 4>>>>>>)>>
PtOutline(plain, moved, fails) ==
    [figures |-> PtSquare, plain |-> plain, fails |-> fails, ownSlot |-> TRUE, sized |-> TRUE, live |-> TRUE,
     instance |-> TRUE, faceMatrix |-> <<2, 0, 0, 2>>, faceDelta |-> FALSE, matrix |-> <<>>, faceTransformed |-> FALSE,
     shift |-> <<IF moved THEN 1 ELSE 0, 0>>, simulated |-> FALSE, unrepresentable |-> FALSE]
PtEvents == {"begin", "end", "answered", "moved", "fails", "other"}
PtStep(t, e) ==
    CASE e = "begin" -> Paths!CleartypeBeginGlyphPath(t)
      [] e = "end" -> Paths!CleartypeEndGlyphPath(t)
      [] OTHER -> Paths!FT_Outline_Decompose(t, PtOutline(e # "other", e = "moved", e = "fails"), <<2, 0, 0, 2>>, 0)
PtWords == UNION { [1 .. n -> PtEvents] : n \in 0 .. 4 }

\* Between its begin and its end, a path is repaired from the walks DirectWrite answered for, all of
\* them together, and from none if one could not be or there were too many points; what is asked for
\* elsewhere, or of another outline, neither adds to it nor spoils it.
ASSUME RecordOfOnePath ==
    \A w \in PtWords :
        LET thread == FoldLeft(PtStep, Paths!NewThread, w)
            begun == { i \in DOMAIN w : w[i] = "begin" }
            from == IF begun = {} THEN 0 ELSE Max(begun)
            ended == { i \in DOMAIN w : i > from /\ w[i] = "end" }
            in == { i \in DOMAIN w : from > 0 /\ i > from /\ \A e \in ended : i < e }
            walks == Cardinality({ i \in in : w[i] = "answered" })
            spoilt == \E i \in in : w[i] \in {"moved", "fails"}
        IN  Len(Paths!PointsRecorded(thread)) = IF spoilt \/ walks > 2 THEN 0 ELSE 3 * walks

\* The outlines of which DirectWrite's are not: one word of the list is enough to decline.
ASSUME OutlinesOfItsOwn ==
    LET o == PtOutline(TRUE, FALSE, FALSE)
        t == Paths!CleartypeBeginGlyphPath(Paths!NewThread)
    IN  \A other \in { [o EXCEPT !.sized = FALSE], [o EXCEPT !.live = FALSE], [o EXCEPT !.instance = FALSE],
                       [o EXCEPT !.faceMatrix = <<2, 4, 1, 2>>], [o EXCEPT !.faceDelta = TRUE],
                       [o EXCEPT !.matrix = o.faceMatrix], [o EXCEPT !.matrix = <<2, 1, 0, 2>>, !.faceTransformed = TRUE],
                       [o EXCEPT !.shift = <<0, -1>>], [o EXCEPT !.simulated = TRUE], [o EXCEPT !.unrepresentable = TRUE],
                       [o EXCEPT !.ownSlot = FALSE], [t |-> 0] @@ [o EXCEPT !.faceMatrix = <<0, 0, 0, 0>>] } :
            Paths!Answered(t, o) /\ ~Paths!Answered(t, other)

\* An outcome is reported once, the first time, and the fourth one no more.
ASSUME EachOutcomeOnce ==
    \A w \in UNION { [1 .. n -> {"a", "b", "c", "d"}] : n \in 0 .. 4 } :
        LET said == FoldLeft(Paths!ReportRepairOnce, <<>>, w)
            first == { i \in DOMAIN w : \A j \in 1 .. i - 1 : w[j] # w[i] }
        IN  said = SubSeq([ k \in 1 .. Cardinality(first) |-> w[SetToSortSeq(first, <)[k]] ], 1, Min({3, Cardinality(first)}))

----------------------------------------------------------------------------
(* Masks filled as Skia fills them *)

ASSUME NearestQuarter ==
    \A y \in -200 .. 200 :
        LET q == Paths!Quarter(y) IN
        q % 16 = 0 /\ \A k \in -13 .. 13 : PtAbs(y - 16 * k) > PtAbs(y - q) \/ (PtAbs(y - 16 * k) = PtAbs(y - q) /\ PtAbs(16 * k) <= PtAbs(q))

PtGrid == {0, 65, 192} \X {0, 64, 200}
PtCorners == [1 .. 4 -> PtGrid]
PtRectangle(c) ==
    \E l, r \in {0, 65, 192}, t, b \in {0, 64, 200} :
        /\ l < r /\ t < b
        /\ c \in { << <<l, t>>, <<r, t>>, <<r, b>>, <<l, b>> >>, << <<l, t>>, <<l, b>>, <<r, b>>, <<r, t>> >>,
                   << <<r, b>>, <<l, b>>, <<l, t>>, <<r, t>> >>, << <<r, b>>, <<r, t>>, <<l, t>>, <<l, b>> >>,
                   << <<r, t>>, <<r, b>>, <<l, b>>, <<l, t>> >>, << <<r, t>>, <<l, t>>, <<l, b>>, <<r, b>> >>,
                   << <<l, b>>, <<l, t>>, <<r, t>>, <<r, b>> >>, << <<l, b>>, <<r, b>>, <<r, t>>, <<l, t>> >> }

\* Skia's fat rectangles are the rectangles along the axes, from any corner either way round, closed
\* or not, that touch three columns of pixels: only they keep their edges.
ASSUME FatRectangles ==
    \A c \in PtCorners :
        LET touched == { p \in 0 .. 2 : \E i, j \in 1 .. 4 : c[i][1] < 64 * (p + 1) /\ c[j][1] > 64 * p }
            fat == PtRectangle(c) /\ touched = 0 .. 2
        IN  /\ Paths!SkiaScanlineBitmap(c, FALSE, 32, 32) = c \/ ~fat
            /\ Paths!SkiaBlitsAsFatRect(c, FALSE, 32, 32) <=> fat
            /\ Paths!SkiaBlitsAsFatRect(Append(c, c[1]), FALSE, 32, 32) <=> fat
            /\ ~Paths!SkiaBlitsAsFatRect(Append(c, <<1, 1>>), FALSE, 32, 32)
            /\ ~Paths!SkiaBlitsAsFatRect(c, TRUE, 32, 32) /\ ~Paths!SkiaBlitsAsFatRect(c, FALSE, 33, 1)
            /\ ~Paths!SkiaBlitsAsFatRect(c, FALSE, 29, 33)

\* On the left of the first pixel, where no mask begins, a column too many would be counted.
ASSUME ColumnsLeftOfTheMask ==
    /\ Paths!Spans(<< <<-192, 0>>, <<-65, 0>>, <<-65, 64>>, <<-192, 64>> >>) = 3
    /\ Paths!Spans(<< <<-192, 0>>, <<-128, 0>>, <<-128, 64>>, <<-192, 64>> >>) = 2

================================================================================
