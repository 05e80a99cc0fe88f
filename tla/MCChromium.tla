------------------------------ MODULE MCChromium ------------------------------
(***************************************************************************)
(* Records, fonts and glyphs for ChromiumRec and ChromiumHooks, and what   *)
(* their operators should come to, evaluated over them.                    *)
(***************************************************************************)
LOCAL INSTANCE Integers
LOCAL INSTANCE Sequences
LOCAL INSTANCE FiniteSets
LOCAL INSTANCE SequencesExt
LOCAL INSTANCE FiniteSetsExt
LOCAL INSTANCE TLC

\* one family Windows ships
Cr == INSTANCE ChromiumRec WITH kAvar2Milestone <- 148, kBaseInstall <- {"Segoe UI Emoji"}

\* the tree again, as Gecko's side of the shim takes it
Gr == INSTANCE GlyphRaster WITH kSkiaLibrarySlots <- 2, kCachedModes <- 2, One <- 64, kSkews <- {16, 24}

----------------------------------------------------------------------------
(* Records *)

\* turned by the 3-4-5 triangle, mirrored and stretched
CrPosts == { <<5, 0, 0, 5>>, <<3, -4, 4, 3>>, <<-5, 0, 0, 5>>, <<0, 5, 5, 0>>, <<10, 0, 0, 5>>, <<0, 0, 0, 5>> }
CrFlags == SUBSET {"bitmaps", "genA8", "linear", "bgr"}

CrRec(size, post, mask, hinting, flags, skew) ==
    [size |-> size * 128, scale |-> 1, skew |-> skew, post |-> post, mask |-> mask, hinting |-> hinting,
     flags |-> flags, gamma |-> "other", contrast |-> 51, as_paths |-> FALSE]

CrRecs == { CrRec(size, post, mask, hinting, flags, 0) :
                size \in {12, 48, 49, 64, 70}, post \in {<<5, 0, 0, 5>>, <<3, -4, 4, 3>>, <<10, 0, 0, 5>>},
                mask \in {"BW", "A8", "LCD16"}, hinting \in {"none", "slight"}, flags \in CrFlags }
CrBefore(rec) == [flags |-> rec.flags, hinting |-> rec.hinting]
CrFiltered(rec, plain) == Cr!ApplyWindowsParams(rec, CrBefore(rec), plain)

\* the size at which Skia gives up subpixel text: of the text, or of the square its matrix makes of it
CrTooBig(rec) ==
    LET s == rec.size \div 128 IN CASE rec.post = <<10, 0, 0, 5>> -> s * s * 2 > 48 * 48 [] OTHER -> s > 48

\* A proxy's typeface filters its inner one's record and then its own: what is set stays set.  Gray
\* text is made subpixel where Windows would have it so: not where the surface refuses it, not where
\* it is too big, and not in the strike that paths are scaled from, which is neither hinted nor drawn
\* through ClearType.  Nothing else is gray without being averaged from ClearType, as long as Windows
\* draws the typeface itself.
ASSUME TheRecordWindowsWouldHave ==
    \A rec \in CrRecs, plain \in BOOLEAN :
        LET filtered == CrFiltered(rec, plain)
            refused == "genA8" \in rec.flags
            paths == rec.size = 64 * 128 /\ rec.hinting = "none" /\ "bitmaps" \notin rec.flags
            decided == Cr!Decide(Cr!WithWindowsHinting(filtered), 12 * 128, Cr!NoFacts)
        IN  /\ Cr!ApplyWindowsParams(filtered, CrBefore(rec), plain) = filtered
            /\ filtered.mask = IF rec.mask = "A8" /\ ~refused /\ ~paths /\ ~CrTooBig(rec) THEN "LCD16" ELSE rec.mask
            /\ ~plain => (decided.antialias = "GRAYSCALE" <=> filtered.mask = "A8" /\ paths /\ ~refused)
            /\ ~plain => "bitmaps" \notin filtered.flags
            /\ plain => {"bitmaps", "genA8"} \cap filtered.flags \subseteq rec.flags /\ (filtered.hinting = "normal" <=> ~paths)
            /\ decided.grid_fit = "DISABLED" <=> paths
            /\ "linear" \notin filtered.flags /\ "subpixel" \in filtered.flags

----------------------------------------------------------------------------
(* Matrices *)

CrShapes == { [CrRec(size, post, "A8", "none", {}, skew) EXCEPT !.scale = scale] :
                  size \in {5, 10, 15}, post \in CrPosts, skew \in {-1, 0, 1, 2}, scale \in {1, 2} }

\* The height a glyph is drawn at is that of its text, stretched and not turned, mirrored or sheared;
\* so leaving the shear to DirectWrite's own oblique does not change the size it is asked at, nor the
\* direction and length of an advance.  Nothing flat has a height.  Strikes are for text whose axes are
\* the device's, and so say the record's own fields.
ASSUME TheHeightIsThatOfTheText ==
    \A rec \in CrShapes :
        LET m == Cr!ComputeMatrices(rec)
            flat == Cr!ComputeMatrices(Cr!WithoutSkew(rec))
            straight == { i \in 1 .. 4 : m.remaining[i] = 0 }
        IN  /\ m.ok <=> rec.post # <<0, 0, 0, 5>>
            /\ m.scale_y = IF m.ok THEN rec.size ELSE 128
            /\ m.scale_y = flat.scale_y /\ m.ok = flat.ok
            /\ m.remaining[1] = flat.remaining[1] /\ m.remaining[3] = flat.remaining[3]
            /\ m.ok => (Cr!IsAxisAligned(rec) <=> {1, 4} \subseteq straight \/ {2, 3} \subseteq straight)

----------------------------------------------------------------------------
(* The tree, and Gecko's *)

CrFacts == { [Cr!NoFacts EXCEPT !.is_hinted = hinted, !.gasp_known = gasp # "none",
                                !.gasp_version_1_or_later = gasp \in {"v1", "v1 symmetric"},
                                !.gasp_symmetric_smoothing = gasp \in {"v0 symmetric", "v1 symmetric"},
                                !.has_bitmap_strike = strike, !.has_cbdt = cbdt, !.blocks_embedded_bitmaps = blocks] :
                 hinted, strike, cbdt, blocks \in BOOLEAN, gasp \in {"none", "v0", "v0 symmetric", "v1", "v1 symmetric"} }

\* a face that Gecko reads the same of, at every size
CrGeckoFace(facts) ==
    [ gasp |-> [readable |-> facts.gasp_known, version |-> IF facts.gasp_version_1_or_later THEN 1 ELSE 0,
                rows |-> <<[max |-> 65535, flags |-> IF facts.gasp_symmetric_smoothing THEN 10 ELSE 2]>>],
      maxp |-> [long |-> TRUE, version |-> 1, instructions |-> IF facts.is_hinted THEN 1 ELSE 0],
      eblc |-> [second |-> TRUE, whole |-> TRUE,
                strikes |-> IF facts.has_bitmap_strike
                            THEN [n \in 1 .. 65 |-> [x |-> n, y |-> n, first |-> 1, last |-> 9]] ELSE <<>>],
      ebsc |-> [second |-> FALSE, whole |-> TRUE, strikes |-> <<>>],
      cbdt |-> facts.has_cbdt ]

CrSizes == {12 * 128, 12 * 128 + 1, 20 * 128, 20 * 128 + 1, 30 * 128 + 63}

CrGecko(rec, size, facts) ==
    Gr!SkiaDWParams(CrGeckoFace(facts), size, rec.mask = "A8" /\ "genA8" \notin rec.flags,
                    ~facts.blocks_embedded_bitmaps, Cr!IsAxisAligned(rec), TRUE, "DEFAULT")

\* Two halves of the shim walk Skia's tree, Gecko's for the glyphs of a canvas and Chromium's for all of
\* them, and come to the same but in one place: above twenty pixels Gecko's smooths in both directions
\* whatever the gasp table says, and Chromium's asks the table first.
ASSUME TwoReadingsOfTheTree ==
    \A size \in CrSizes, facts \in CrFacts, post \in {<<5, 0, 0, 5>>, <<3, -4, 4, 3>>}, mask \in {"A8", "LCD16"},
       flags \in {{}, {"genA8"}} :
        LET rec == CrRec(12, post, mask, "normal", flags, 0)
            mine == Cr!Decide(rec, size, facts)
            theirs == CrGecko(rec, size, facts)
            apart == size > 20 * 128 /\ mine.branch = "gasp-v1" /\ ~facts.gasp_symmetric_smoothing
        IN  /\ mine.measuring = theirs.modes.measuring /\ mine.render = theirs.modes.size
            /\ mine.texture = theirs.texture /\ mine.antialias = theirs.antialias /\ mine.grid_fit = theirs.gridFit
            /\ IF apart THEN mine.rendering = "NATURAL" /\ theirs.modes.rendering = "NATURAL_SYMMETRIC"
                        ELSE mine.rendering = theirs.modes.rendering

----------------------------------------------------------------------------
(* Fonts *)

CrEntry(tag, table) == [tag |-> tag, inside |-> TRUE, table |-> table]
CrFont(entries) == [empty |-> FALSE, collection |-> FALSE, listed |-> TRUE, faces |-> <<entries>>]

CrGaspRow(max, flags) == [max |-> max, flags |-> flags]
CrGasps == { <<>>, <<CrGaspRow(8, 2), CrGaspRow(12, 1), CrGaspRow(65535, 10)>>, <<CrGaspRow(12, 1), CrGaspRow(9, 9)>>,
             <<CrGaspRow(10, 1), CrGaspRow(14, 1)>> }
CrStrike(x, y, glyphs) == [x |-> x, y |-> y, first |-> 5, last |-> 4 + glyphs]
CrStrikeLists == { <<>>, <<CrStrike(10, 10, 4)>>, <<CrStrike(10, 10, 3)>>, <<CrStrike(10, 11, 9)>>,
                   <<CrStrike(12, 12, 2), CrStrike(12, 12, 9)>>, <<CrStrike(11, 11, 4), CrStrike(14, 14, 5)>> }

CrTables(rows, version, strikes) ==
    << CrEntry("maxp", [size |-> 32, version |-> 1, instructions |-> 9]),
       CrEntry("gasp", [size |-> 4 + 4 * Len(rows), version |-> version, whole |-> TRUE, rows |-> rows]),
       CrEntry("EBLC", [size |-> 8 + 48 * Len(strikes), second |-> TRUE, whole |-> TRUE, strikes |-> strikes]) >>

\* the same tables as Gecko has them
CrGeckoTables(rows, version, strikes) ==
    [ gasp |-> [readable |-> TRUE, version |-> version, rows |-> rows],
      maxp |-> [long |-> TRUE, version |-> 1, instructions |-> 9],
      eblc |-> [second |-> TRUE, whole |-> TRUE, strikes |-> strikes],
      ebsc |-> [second |-> FALSE, whole |-> TRUE, strikes |-> <<>>] ]

\* Both halves read the same of the same font: the range a size falls in, though the rows be out of
\* order, whether the face is hinted, and whether a strike draws the size.
ASSUME TwoReadingsOfTheTables ==
    \A rows \in CrGasps, version \in 0 .. 2, strikes \in CrStrikeLists, size \in { n * 64 : n \in 14 .. 32 } :
        LET font == CrFont(CrTables(rows, version, strikes))
            face == CrGeckoTables(rows, version, strikes)
            facts == Cr!Describe(font, Cr!GaspPpem(size), Cr!BitmapPpem(size), 0)
        IN  /\ Cr!GaspRangeFor(font, Cr!GaspPpem(size), 0) = Gr!GetGaspRange(face.gasp, Cr!GaspPpem(size))
            /\ facts.is_hinted = Gr!FaceIsHinted(face.maxp)
            /\ facts.has_bitmap_strike = Gr!HasBitmapStrikeInRange(face, Gr!BitmapRange(face, size))

\* What draws a size is a square strike of four glyphs, of that size or of one the gasp table ranges
\* with it and would only have grid fitted.
ASSUME TheStrikeThatDrawsASize ==
    \A rows \in CrGasps, strikes \in CrStrikeLists, ppem \in 7 .. 16 :
        LET first(n) == { i \in DOMAIN rows : n <= rows[i].max /\ \A j \in 1 .. i - 1 : n > rows[j].max }
            with(n) == n = ppem \/ \E i \in first(ppem) : rows[i].flags = 1 /\ n \in (IF i = 1 THEN 0 ELSE rows[i - 1].max + 1) .. rows[i].max
            without == \E i \in first(ppem) : rows[i].flags = 1 /\ ppem \notin (IF i = 1 THEN 0 ELSE rows[i - 1].max + 1) .. rows[i].max
        IN  ~without =>
            (Cr!Describe(CrFont(CrTables(rows, 0, strikes)), ppem, ppem, 0).has_bitmap_strike
                <=> \E i \in DOMAIN strikes : LET s == strikes[i] IN s.x = s.y /\ s.last - s.first >= 3 /\ with(s.x))

----------------------------------------------------------------------------
(* Names *)

CrName(platform, encoding, text, ascii, even) ==
    [platform |-> platform, encoding |-> encoding, id |-> 1, inside |-> TRUE, even |-> even, text |-> text, ascii |-> ascii]
CrNames == { CrName(1, 0, "Segoe UI Emoji", TRUE, TRUE), CrName(3, 1, "Segoe UI Emoji", TRUE, TRUE),
             CrName(3, 1, "Calibri", TRUE, TRUE), CrName(3, 1, "?", FALSE, TRUE), CrName(3, 1, "", TRUE, TRUE),
             CrName(3, 1, "Calibri", TRUE, FALSE), [CrName(3, 1, "Calibri", TRUE, TRUE) EXCEPT !.id = 4] }
CrNameLists == UNION { [1 .. n -> CrNames] : n \in 0 .. 3 }
CrNamed(records, whole) ==
    CrFont(<<CrEntry("name", [size |-> 6 + 12 * Len(records), whole |-> whole, records |-> records]),
             CrEntry("COLR", [size |-> 14, version |-> 1])>>)

CrFamilyRecords(records) == SelectSeq(records, LAMBDA r : r.id = 1)

\* The name that blocks bitmaps and the name that keeps a color font with DirectWrite are read by two
\* rules, and agree where the first family name is Windows's, whole and in ASCII.
ASSUME TheFamilyIsReadTwice ==
    \A records \in CrNameLists :
        LET font == CrNamed(records, TRUE)
            names == CrFamilyRecords(records)
        IN  names # <<>> /\ names[1].platform = 3 /\ names[1].even /\ names[1].ascii /\ names[1].text # ""
                => Cr!FamilyName(font, 0) = Cr!WindowsFamilyName(font, 0)

\* Elsewhere they need not: after a Macintosh name, an empty one, one of an odd length or one in other
\* letters, and where the table is cut off, the two find different names or none.
ASSUME WhereTheFamilyDiffers ==
    LET emoji == CrName(3, 1, "Segoe UI Emoji", TRUE, TRUE)
        mac == CrNamed(<<CrName(1, 0, "Segoe UI Emoji", TRUE, TRUE)>>, TRUE)
        empty == CrNamed(<<CrName(3, 1, "", TRUE, TRUE), emoji>>, TRUE)
        cut == CrNamed(<<emoji>>, FALSE)
        odd == CrNamed(<<CrName(3, 1, "Calibri", TRUE, FALSE), emoji>>, TRUE)
        other == CrNamed(<<CrName(3, 1, "?", FALSE, TRUE), emoji>>, TRUE)
    IN  /\ Cr!FamilyName(mac, 0) = "Segoe UI Emoji" /\ Cr!FontationsPreferred(mac, 0, 0)
        /\ Cr!FamilyName(empty, 0) = "Segoe UI Emoji" /\ Cr!FontationsPreferred(empty, 0, 0)
        /\ Cr!FamilyName(odd, 0) = "Calibri" /\ ~Cr!FontationsPreferred(odd, 0, 0)
        /\ Cr!FamilyName(other, 0) = "?" /\ Cr!FontationsPreferred(other, 0, 0)
        /\ Cr!FamilyName(cut, 0) = "" /\ ~Cr!FontationsPreferred(cut, 0, 0)

\* Windows takes Fontations for a variation axis map of two, from the version that does, for CFF2, for
\* color bitmaps and for color layers of one, unless the family is one it ships; not for its own emoji.
ASSUME WhomFontationsDraws ==
    \A avar \in {0, 1, 2}, cff2, cbdt \in BOOLEAN, colr \in {-1, 0, 1}, ships \in BOOLEAN, milestone \in {0, 147, 148} :
        LET entries == SelectSeq(<< CrEntry("avar", [size |-> 8, version |-> avar]),
                                    CrEntry("CFF2", [size |-> 9]), CrEntry("CBDT", [size |-> 9]),
                                    CrEntry("COLR", [size |-> 14, version |-> colr]),
                                    CrEntry("name", [size |-> 18, whole |-> TRUE,
                                        records |-> <<CrName(3, 1, IF ships THEN "Segoe UI Emoji" ELSE "Calibri", TRUE, TRUE)>>]) >>,
                                 LAMBDA e : /\ e.tag = "CFF2" => cff2
                                            /\ e.tag = "CBDT" => cbdt
                                            /\ e.tag = "avar" => avar # 0
                                            /\ e.tag = "COLR" => colr # -1)
        IN  Cr!FontationsPreferred(CrFont(entries), milestone, 0)
                <=> (avar = 2 /\ milestone # 147) \/ cff2 \/ cbdt \/ (colr = 1 /\ ~ships)

\* A face of a collection is read from its own directory, one past the last has no table, and neither
\* has any face but the first of a font that is no collection; an entry that is cut off hides the next.
ASSUME TheDirectoryOfAFace ==
    LET avar(version) == CrEntry("avar", [size |-> 8, version |-> version])
        both == [CrFont(<<avar(1)>>) EXCEPT !.collection = TRUE, !.faces = <<<<avar(1)>>, <<avar(2)>>>>]
        hidden == CrFont(<<[avar(2) EXCEPT !.inside = FALSE], avar(2)>>)
    IN  /\ \A i \in 0 .. 2 : Cr!FontationsPreferred(both, 0, i) <=> i = 1
        /\ ~Cr!FontationsPreferred([both EXCEPT !.listed = FALSE], 0, 1)
        /\ \A i \in 0 .. 1 : Cr!FontationsPreferred(CrFont(<<avar(2)>>), 0, i) <=> i = 0
        /\ ~Cr!FontationsPreferred(hidden, 0, 0)

----------------------------------------------------------------------------
(* The hooks *)

Hk == INSTANCE ChromiumHooks WITH kAvar2Milestone <- 148, kBaseInstall <- {"Segoe UI Emoji"},
                                  kMaxPainters <- 2, kPathExtractionReserve <- 4

\* Gecko's walk over the same figures, of an identity transform
Gp == INSTANCE GlyphPaths WITH One <- 1, kMaxGlyphPathPoints <- 64

HkFont(rows, strikes, ebdt) ==
    CrFont(CrTables(rows, 0, strikes) \o IF ebdt THEN <<CrEntry("EBDT", [size |-> 9])>> ELSE <<>>)
HkRows == <<CrGaspRow(8, 2), CrGaspRow(12, 1), CrGaspRow(65535, 10)>>
HkPlain == HkFont(HkRows, <<CrStrike(10, 10, 4)>>, FALSE)
HkStruck == HkFont(HkRows, <<CrStrike(10, 10, 4)>>, TRUE)
HkEmpty == [HkPlain EXCEPT !.empty = TRUE, !.faces = <<>>]
HkBold == [bytes |-> {HkFont(<<>>, <<CrStrike(11, 11, 4)>>, TRUE)}, index |-> 0, simulate |-> FALSE]
HkStroked == [bytes |-> {}, index |-> 0, simulate |-> TRUE]

HkContext(rec, font, marked, bold) ==
    [parity |-> TRUE, typeface |-> TRUE, rec |-> rec, marked |-> marked, font |-> font, plain |-> FALSE, heavy |-> FALSE,
     bolds |-> [oblique \in BOOLEAN |-> bold]]
HkContexts ==
    { HkContext(CrRec(size, post, mask, "none", flags, skew), font, bold # Hk!NoBold, bold) :
          size \in {10, 11}, post \in {<<5, 0, 0, 5>>, <<3, -4, 4, 3>>, <<0, 0, 0, 5>>}, mask \in {"BW", "A8", "LCD16"},
          flags \in {{}, {"genA8"}, {"subpixel", "bgr"}}, skew \in {0, 1}, font \in {HkPlain, HkStruck},
          bold \in {Hk!NoBold, HkBold, HkStroked} }

\* A glyph is drawn, boxed, measured and outlined by one decision, though each hook takes its own: of
\* the same size, since the shear that is left to DirectWrite does not change it, and of the same face.
\* Where the matrix is flat the outline and the box stay Skia's, and an advance of nothing is given out.
ASSUME OneDecisionOfFourHooks ==
    \A c \in HkContexts :
        LET ok == Cr!ComputeMatrices(c.rec).ok
            dw == [measures |-> TRUE, advance |-> 600, upem |-> 1000, box |-> [k \in {} |-> {}]]
        IN  /\ Hk!DecideToMeasure(c) = Hk!DecideToDraw(c) /\ Hk!DecideToMeasure(c) = Hk!DecideFontMetrics(c)
            /\ ~ok => /\ Hk!GlyphAdvance(c, Hk!DecideToMeasure(c), dw) = <<0, 0>>
                      /\ Hk!Boxed(c, Hk!DecideToMeasure(c), dw).box = {}
            /\ Hk!Oblique(c) => c.rec.skew # 0 /\ Hk!Flat(c).skew = 0
            /\ Cr!IsAxisAligned(Hk!Flat(c)) # Cr!IsAxisAligned(c.rec) => Hk!Oblique(c)

HkFiltered(c) ==
    LET before == Hk!OnChromiumFilterRec(c)
    IN  [rec |-> Hk!OnChromiumFilterRecDone(before.context.rec, before.probe), context |-> before.context]

\* Text that was to be emboldened is drawn once: by a face that carries the weight, by a face that had it,
\* or not at all by DirectWrite; never stroked over a bold face.  The glyph of the last is not Skia's
\* either, for the hook says that it is handled.
ASSUME OneWayToBeBold ==
    \A c \in HkContexts, heavy \in BOOLEAN :
        LET asked == [c EXCEPT !.rec.flags = @ \cup {"embolden"}, !.marked = FALSE, !.heavy = heavy]
            now == HkFiltered(asked).context
            g == [width |-> 1, height |-> 1, mask |-> c.rec.mask, bits |-> "path"]
            dw == [measures |-> TRUE, covers |-> <<<<255, 255, 255>>>>]
            image == Hk!OnChromiumGenerateImage(now, g, dw, [r |-> <<>>, g |-> <<>>, b |-> <<>>])
        IN  /\ now.marked => "embolden" \notin now.rec.flags /\ ~heavy
            /\ "embolden" \in now.rec.flags => ~heavy /\ ~Hk!Finds(c.bolds[TRUE]) /\ image.handled /\ ~image.drawn
            /\ "embolden" \notin now.rec.flags => image.handled = image.drawn

\* What the first probe leaves is read by the second, whichever thread left it: text that its surface
\* refuses is averaged to gray, and is made subpixel if another thread's probe came between.
ASSUME AnotherThreadsProbe ==
    LET refused == HkContext(CrRec(12, <<5, 0, 0, 5>>, "A8", "none", {"genA8"}, 0), HkPlain, FALSE, Hk!NoBold)
        other == [refused EXCEPT !.rec.flags = {}]
        probe(c) == Hk!OnChromiumFilterRec(c).probe
        \* the filter of Fontations clears it
        filtered == [refused.rec EXCEPT !.flags = {}]
    IN  /\ Hk!OnChromiumFilterRecDone(filtered, probe(refused)).mask = "A8"
        /\ Hk!OnChromiumFilterRecDone(filtered, probe(other)).mask = "LCD16"
        /\ Hk!OnChromiumFilterRecDone(filtered, probe([refused EXCEPT !.plain = TRUE])).hinting = "normal"

----------------------------------------------------------------------------
(* Outlines *)

HkLine(p) == <<p>>
\* from <<0, 0>>: a quadratic raised to a cubic, and a cubic that is none
HkRaised == <<<<128, 256>>, <<256, 256>>, <<384, 0>>>>
HkCubic == <<<<128, 256>>, <<256, 512>>, <<384, 0>>>>
HkSegments == {HkLine(<<0, 0>>), HkLine(<<384, 0>>), HkLine(<<0, 384>>), HkRaised, HkCubic, <<<<0, 0>>, <<0, 0>>, <<0, 0>>>>}
HkFigures == { <<[start |-> start, segments |-> segments]>> : start \in {<<0, 0>>, <<384, 0>>},
                                                              segments \in UNION { [1 .. n -> HkSegments] : n \in 0 .. 3 } }
HkTwice == { <<a, [start |-> <<0, 384>>, segments |-> <<HkLine(<<384, 0>>)>>]>> : a \in { f[1] : f \in HkFigures } }

\* Gecko's walk records the points Chromium's sink keeps, of any figures: both leave out what does not
\* leave the pen and bring back the quadratics.
ASSUME TwoReplaysOfAnOutline ==
    \A figures \in HkFigures \cup HkTwice :
        LET mine == Hk!GlyphOutline(figures)
            theirs == Gp!Walk(Gp!NewSink(<<1, 0, 0, 1>>, 0, TRUE, <<>>), figures)
            opened == SelectSeq(mine.verbs, LAMBDA v : v = "move")
            closed == SelectSeq(mine.verbs, LAMBDA v : v = "close")
        IN  mine.points = Gp!Places(theirs.points) /\ Len(opened) = Len(closed)

HkData(verbs, points) ==
    [refs |-> 1, plausible |-> TRUE, general |-> TRUE, conics |-> 0, contiguous |-> TRUE, listCopyable |-> TRUE,
     verbs |-> verbs, points |-> points, bounds |-> IF points = <<>> THEN <<>> ELSE Hk!PointBounds(points),
     mask |-> Hk!SegmentMaskFor(verbs), convexity |-> "convex"]

\* what skrifa may have of a triangle: the same, moved a pixel or more, unclosed, closed twice, of other
\* verbs, of fewer points, nothing
HkAt(d) == << <<d, 0>>, <<384 + d, 0>>, <<d, 384>> >>
HkTriangle == <<[start |-> <<0, 0>>, segments |-> <<HkLine(<<384, 0>>), HkLine(<<0, 384>>)>>]>>
HkVerbs == { <<"move", "line", "line", "close">>, <<"move", "line", "line">>, <<"move", "line", "line", "close", "close">>,
             <<"move", "quad", "close">>, <<"move", "line", "close">>, <<>> }
HkPaths == { LET n == IF verbs = <<>> THEN 0 ELSE IF Len(verbs) = 3 /\ verbs[3] = "close" /\ verbs[2] = "line" THEN 2 ELSE 3
             IN  [engaged |-> TRUE, modified |-> FALSE,
                  data |-> [HkData(verbs, SubSeq(HkAt(d), 1, n)) EXCEPT !.listCopyable = copyable]] :
                 verbs \in HkVerbs, d \in {0, 64, 128, 129}, copyable \in BOOLEAN }

HkUpright(font, marked) == HkContext(CrRec(10, <<5, 0, 0, 5>>, "A8", "none", {}, 0), font, marked, HkBold)

\* A path that is touched has DirectWrite's points, a pixel from where Skia had them or drawn from another
\* face, and all that is kept of them is of them; it is whole again, with its verbs and as many points.
\* It says that it was modified when its verbs were.
ASSUME APathIsTouchedWhole ==
    \A path \in HkPaths, alike \in BOOLEAN, marked \in BOOLEAN :
        LET dw == [outlines |-> TRUE, figures |-> HkTriangle]
            after == Hk!OnChromiumPath(HkUpright(HkPlain, marked), TRUE, path, dw, alike)
            data == after.data
        IN  after = path \/
            /\ data.points = HkAt(0) /\ Hk!MirrorHolds(data)
            /\ data.bounds = <<0, 0, 384, 384>> /\ data.mask = {"line"} /\ data.convexity = "unknown"
            /\ after.modified <=> data.verbs = <<"move", "line", "line", "close">> /\ (data.verbs # path.data.verbs \/ marked)
            /\ ~marked /\ path.data.points # <<>> =>
                   path.data.bounds[1] \in -128 .. 128 /\ path.data.bounds[3] \in 256 .. 512

\* Nothing is touched of a path whose data is not as it is thought to be, and one that has a face of its
\* own to be drawn with is always drawn so.
ASSUME DoubtKeepsThePath ==
    \A path \in HkPaths, marked \in BOOLEAN :
        LET dw == [outlines |-> TRUE, figures |-> HkTriangle]
            after(p) == Hk!OnChromiumPath(HkUpright(HkPlain, marked), TRUE, p, dw, TRUE)
            doubts == { [path EXCEPT !.engaged = FALSE], [path EXCEPT !.data.refs = 2], [path EXCEPT !.data.general = FALSE],
                        [path EXCEPT !.data.conics = 1], [path EXCEPT !.data.plausible = FALSE],
                        [path EXCEPT !.data.contiguous = FALSE], [path EXCEPT !.data.verbs = Append(@, "line")],
                        [path EXCEPT !.data.points = Append(@, <<0, 0>>)] }
        IN  /\ after(path).modified => path.data.listCopyable
            /\ \A doubted \in doubts : after(doubted) = doubted
            /\ marked /\ path.data.listCopyable => after(path).data.points = HkAt(0)

\* As many verbs are compared as Skia's path has: one that is closed twice is compared with what lies
\* beyond, and alike or not its points are DirectWrite's, but then its verbs are not.
ASSUME VerbsPastTheEnd ==
    LET twice == [engaged |-> TRUE, modified |-> FALSE, data |-> HkData(<<"move", "line", "line", "close", "close">>, HkAt(0))]
        after(alike) == Hk!OnChromiumPath(HkUpright(HkPlain, FALSE), TRUE, twice,
                                          [outlines |-> TRUE, figures |-> HkTriangle], alike)
    IN  after(TRUE).data.points = after(FALSE).data.points /\ Len(after(TRUE).data.verbs) = 5 /\ Len(after(FALSE).data.verbs) = 4

----------------------------------------------------------------------------
(* Metrics and images *)

HkRenderings == {"ALIASED", "GDI_CLASSIC", "NATURAL", "NATURAL_SYMMETRIC"}
HkBox == <<0, -3, 2, 1>>
HkTiny == [k \in HkRenderings \X {"1x1", "3x1"} |-> IF k = <<"ALIASED", "1x1">> THEN {HkBox} ELSE {}]
HkFull == [k \in HkRenderings \X {"1x1", "3x1"} |-> {HkBox}]
HkMeasured(box) == [measures |-> TRUE, advance |-> 600, upem |-> 1000, box |-> box, covers |-> <<<<255, 255, 255>>, <<0, 0, 0>>>>]
HkSkia(rec, bits) == [advance |-> <<7, 7>>, bounds |-> <<>>, from_path |-> TRUE, mask |-> rec.mask, bits |-> bits]
HkNoBlend == [r |-> <<>>, g |-> <<>>, b |-> <<>>]

\* An advance lies along the text's baseline; measured for GDI it is of whole pixels before it is turned.
ASSUME AnAdvanceAlongTheBaseline ==
    \A c \in HkContexts :
        LET d == Hk!DecideToMeasure(c)
            a == Hk!GlyphAdvance(c, d, HkMeasured(HkFull))
            p == c.rec.post
        IN  Cr!ComputeMatrices(c.rec).ok =>
            /\ a[1] * p[3] - a[2] * p[1] \in -5 .. 5
            /\ p = <<5, 0, 0, 5>> => a[2] = 0 /\ (d.measuring = "GDI_CLASSIC" => a[1] % 128 = 0)
                                     /\ a[1] - (c.rec.size * 6) \div 10 \in -64 .. 64

HkDrawn(c, box) ==
    LET metrics == Hk!OnChromiumMetrics(c, TRUE, HkSkia(c.rec, "path"), HkMeasured(box))
        g == [width |-> 2, height |-> 1, mask |-> metrics.mask, bits |-> "path"]
    IN  [metrics |-> metrics, image |-> Hk!OnChromiumGenerateImage(c, g, HkMeasured(box), HkNoBlend)]

\* A glyph that has a box is drawn into a mask of the kind it was measured for: its bits to a pixel and
\* its bytes to a row.
ASSUME TheMaskThatWasMeasured ==
    \A c \in HkContexts :
        LET drawn == HkDrawn(c, HkFull)
        IN  Cr!ComputeMatrices(c.rec).ok =>
            /\ drawn.metrics.bounds = HkBox /\ ~drawn.metrics.from_path /\ drawn.metrics.mask = c.rec.mask
            /\ drawn.image.drawn /\ drawn.image.bits = Hk!BitsOf(c.rec.mask)
            /\ drawn.image.stride = Hk!RowBytes(c.rec.mask, 2)

\* A glyph that only the aliased texture has a box of is measured for that one and its mask made of bits,
\* which the image is not told: gray text is still drawn a byte to a pixel, in the rows of bits, and
\* subpixel text is left to Skia.
ASSUME TheBoxOfAnotherTexture ==
    \A c \in HkContexts :
        LET drawn == HkDrawn(c, HkTiny)
        IN  Cr!ComputeMatrices(c.rec).ok /\ c.rec.mask # "BW" =>
            /\ drawn.metrics.mask = "BW" /\ drawn.metrics.bounds = HkBox
            /\ drawn.image.drawn <=> c.rec.mask = "A8"
            /\ c.rec.mask = "A8" => drawn.image.bits = 8 /\ drawn.image.stride = 1

\* Skia keeps its own box for what DirectWrite is not to draw, and its own metrics where it is not asked.
ASSUME OthersKeepTheirBox ==
    \A c \in HkContexts, bits \in {"path", "colr", "bitmap"}, mask \in {"A8", "ARGB32"} :
        LET skia == [HkSkia(c.rec, bits) EXCEPT !.mask = mask]
            after == Hk!OnChromiumMetrics(c, TRUE, skia, HkMeasured(HkFull))
            boxed == mask # "ARGB32" /\ (bits = "path" \/ (c.marked /\ c.bolds[TRUE].bytes # {})) /\ Cr!ComputeMatrices(c.rec).ok
        IN  /\ after.bounds = HkBox <=> boxed
            /\ boxed <=> ~after.from_path
            /\ Hk!OnChromiumMetrics([c EXCEPT !.plain = TRUE], TRUE, skia, HkMeasured(HkFull)) = skia
            /\ Hk!OnChromiumMetrics(c, FALSE, skia, HkMeasured(HkFull)) = skia

\* Coverage reaches the pixel in its own channel, by that channel's table, or is averaged from all three.
HkLut(v) == [n \in 0 .. 255 |-> IF n = 0 THEN 0 ELSE v]
ASSUME CoverageByChannel ==
    LET blend == [r |-> HkLut(8), g |-> HkLut(16), b |-> HkLut(24)]
        texel(rec, covers) == Hk!Texel(rec, Cr!Decide(Cr!WithWindowsHinting(rec), rec.size, Cr!NoFacts), blend, covers)
        rec(mask, flags) == CrRec(12, <<5, 0, 0, 5>>, mask, "none", flags, 0)
    IN  /\ texel(rec("LCD16", {}), <<255, 0, 0>>) = <<1, 0, 0>> /\ texel(rec("LCD16", {}), <<0, 0, 255>>) = <<0, 0, 3>>
        /\ texel(rec("LCD16", {"bgr"}), <<255, 0, 0>>) = <<0, 0, 3>> /\ texel(rec("LCD16", {"bgr"}), <<255, 255, 0>>) = <<0, 4, 3>>
        /\ texel(rec("A8", {}), <<255, 0, 0>>) = 16 /\ texel(rec("BW", {}), <<255, 0, 0>>) = 1
        /\ Hk!Texel(rec("A8", {"genA8"}), Cr!Decide(rec("A8", {"genA8"}), 12 * 128, Cr!NoFacts), HkNoBlend, <<255, 255, 0>>) = 170

HkFace(k) == [ascent |-> 900 + k, descent |-> 200 + k, leading |-> 50, x_height |-> 500, cap_height |-> 700,
              underline_thickness |-> 60, underline_position |-> -100, strikeout_thickness |-> 70, strikeout_position |-> 300]
HkLines == DOMAIN HkFace(0) \cup {"avg_char_width", "top", "bottom"}

\* What lies above the baseline is negative and what lies below it positive; the bounds stay Skia's.
ASSUME LinesAroundTheBaseline ==
    \A c \in HkContexts :
        LET skia == [fields |-> [f \in HkLines |-> 9999], valid |-> {"bounds"}]
            dw == [measures |-> TRUE, upem |-> 1000, gdi |-> HkFace(0), design |-> HkFace(100)]
            after == Hk!OnChromiumFontMetrics(c, skia, dw)
            f == after.fields
            gdi == Hk!DecideFontMetrics(c).measuring = "GDI_CLASSIC"
        IN  /\ f["ascent"] < f["strikeout_position"] /\ f["strikeout_position"] < 0
            /\ 0 < f["underline_position"] /\ f["underline_position"] < f["descent"]
            /\ f["descent"] - f["ascent"] <= (Hk!DecideFontMetrics(c).render * (IF gdi THEN 1100 ELSE 1300)) \div 1000 + 1
            /\ f["descent"] - f["ascent"] >= (Hk!DecideFontMetrics(c).render * (IF gdi THEN 1100 ELSE 1300)) \div 1000 - 1
            /\ f["top"] = 9999 /\ f["bottom"] = 9999 /\ f["avg_char_width"] = 0 /\ Cardinality(after.valid) = 5

----------------------------------------------------------------------------
(* Color *)

HkSource(sub, shift) == [Hk!NoSource EXCEPT !.key = "emoji", !.upem = 1024, !.size = 2048, !.sub = sub, !.shift = shift]
HkSubs == (0 .. 3) \X (0 .. 3)

\* A glyph's place between pixels goes through the matrix and back.
ASSUME ThePlaceBetweenPixels ==
    \A rec \in CrShapes, sub \in HkSubs :
        LET phase == Hk!ColorGlyphPhase([rec EXCEPT !.flags = {"subpixel"}], TRUE, sub)
            p == rec.post
            m == << p[1] * rec.scale, p[1] * rec.skew + p[2], p[3] * rec.scale, p[3] * rec.skew + p[4] >>
            x == m[1] * phase.shift[1] + m[2] * phase.shift[2]
            y == m[3] * phase.shift[1] + m[4] * phase.shift[2]
            ok == Cr!ComputeMatrices(rec).ok
        IN  /\ phase.sub = IF ok THEN sub ELSE <<0, 0>>
            /\ ok => Hk!Abs(x - 5 * 32 * sub[1]) <= 45 /\ Hk!Abs(y - 5 * 32 * sub[2]) <= 45
            /\ Hk!ColorGlyphPhase(rec, TRUE, sub).shift = <<0, 0>>

HkBoxes == { <<x, y, x + 300, y + 500>> : x \in {-200, -64, 0, 63, 64, 65, 100}, y \in {-500, -65, -64, -63, 0, 64, 300} }
HkBody == << [op |-> "fill glyph", transformed |-> TRUE], [op |-> "fill glyph", transformed |-> FALSE],
             Hk!PushClip(<<1, 2, 301, 402>>), Hk!Call("pop clip") >>

HkOpens == {"push transform", "push clip", "push clip glyph"}
HkCloses == [o \in {"pop transform", "pop clip"} |-> IF o = "pop transform" THEN {"push transform"} ELSE {"push clip", "push clip glyph"}]
HkNested(calls) ==
    LET step(stack, c) ==
            IF stack = <<"broken">> THEN stack
            ELSE IF c.op \in HkOpens THEN Append(stack, c.op)
            ELSE IF c.op \notin DOMAIN HkCloses THEN stack
            ELSE IF stack # <<>> /\ Last(stack) \in HkCloses[c.op] THEN Front(stack) ELSE <<"broken">>
    IN  FoldLeft(step, <<>>, calls) = <<>>
HkClips(calls) == SelectSeq(calls, LAMBDA c : c.op = "push clip")

\* A clip lands on whole pixels of the device, half a pixel from where it was at most, once: a hook that
\* sees the snapped box leaves it.  Everything pushed is popped, in order; what only takes bounds is
\* neither snapped nor split.
ASSUME ClipsOnWholePixels ==
    \A box \in HkBoxes, sub \in HkSubs, bounds \in BOOLEAN, hooked \in BOOLEAN :
        LET s == HkSource(sub, <<32 * sub[1], 32 * sub[2]>>)
            calls == Hk!DrawReplacement(s, bounds, hooked, box, HkBody)
            clips == HkClips(calls)
            own == clips[1].box
            off == <<32 * sub[1], -32 * sub[2], 32 * sub[1], -32 * sub[2]>>
            places == <<box[1], box[4], box[3], box[2]>>
        IN  /\ HkNested(calls)
            /\ calls[1].op = "push transform" <=> sub # <<0, 0>>
            /\ Len(clips) = IF bounds THEN 1 ELSE 2
            /\ bounds => own = <<1, 2, 301, 402>> /\ Len(calls) = Len(HkBody) + IF sub = <<0, 0>> THEN 0 ELSE 2
            /\ ~bounds => \A i \in 1 .. 4 : (own[i] + off[i]) % 128 = 0 /\ Hk!Abs(own[i] - places[i]) <= 64
            \* halves go right, and down
            /\ ~bounds => \A i \in {1, 3} : own[i] - places[i] # -64
            /\ ~bounds => \A i \in {2, 4} : own[i] - places[i] # 64
            /\ ~bounds /\ hooked => \A i \in 1 .. 4 : (clips[2].box[i] + off[i]) % 128 = 0

\* The box Skia asks for is where the glyph is drawn.
ASSUME TheBoxMovesWithTheGlyph ==
    \A box \in HkBoxes, sub \in HkSubs :
        LET moved == Hk!ClipBoxReplacement(HkSource(sub, <<32 * sub[1], 32 * sub[2]>>), box)
            snapped == Hk!Snapped(HkSource(sub, <<32 * sub[1], 32 * sub[2]>>), TRUE, box)
        IN  /\ moved[1] - (snapped[1] + 32 * sub[1]) \in -64 .. 64 /\ (snapped[1] + 32 * sub[1]) % 128 = 0
            /\ moved[4] - (snapped[4] - 32 * sub[2]) \in -64 .. 64
            /\ moved[3] - moved[1] = box[3] - box[1] /\ moved[4] - moved[2] = box[4] - box[2]

HkColor(color, font_key) == [context |-> HkUpright(HkPlain, FALSE), key |-> font_key,
                             g |-> [known |-> TRUE, sub |-> <<0, 0>>, width |-> 9, height |-> 9, mask |-> color, bits |-> "colr"]]
HkImage(s, of) == Hk!SourceOfImage(s, of.context, of.g, of.key, 1000)
HkMetrics(s, of) == Hk!OnChromiumMetricsPre(s, of.context, TRUE, <<0, 0>>)
HkOutline(s) == Hk!SubstitutedBy(s, 1000, TRUE, <<3, 3>>, FALSE)

\* A color glyph is drawn from its own font's outlines; a glyph with no color leaves the last source, and
\* so do the metrics that come before an image: until its first image on a thread, the outlines a color
\* font is measured by are those of the last font drawn there, if their ems are the same.
ASSUME TheSourceOfTheLastImage ==
    \A first, last \in {"emoji", "icons"}, mask \in {"ARGB32", "A8"} :
        LET drawn == HkImage(Hk!NoSource, HkColor("ARGB32", first))
            then == HkImage(drawn, HkColor(mask, last))
            plain == [HkColor("ARGB32", last) EXCEPT !.context.plain = TRUE]
        IN  /\ HkOutline(then) = IF mask = "ARGB32" THEN last ELSE first
            /\ HkOutline(HkMetrics(drawn, HkColor("ARGB32", last))) = first
            /\ HkOutline(HkImage(drawn, plain)) = "the font's own"
            /\ Hk!SubstitutedBy(drawn, 2048, TRUE, <<3, 3>>, FALSE) = "the font's own"
            /\ Hk!SubstitutedBy(drawn, 1000, TRUE, <<3, 5>>, FALSE) = "the font's own"
            /\ Hk!SubstitutedBy(drawn, 1000, TRUE, <<3, 5>>, TRUE) = first

\* A color glyph is measured where it is drawn, though its phase is told twice.
ASSUME MeasuredWhereItIsDrawn ==
    \A rec \in CrShapes, sub \in HkSubs, flags \in {{}, {"subpixel"}} :
        LET of == [HkColor("ARGB32", "emoji") EXCEPT !.context.rec = [rec EXCEPT !.flags = flags], !.g.sub = sub]
            before == Hk!OnChromiumMetricsPre(Hk!NoSource, of.context, TRUE, sub)
            drawn == HkImage(Hk!NoSource, of)
        IN  /\ <<before.sub, before.shift>> = <<drawn.sub, drawn.shift>>
            /\ before.sub = IF flags = {} \/ ~Cr!ComputeMatrices(rec).ok THEN <<0, 0>> ELSE sub

HkTables == {"t1", "t2", "t3"}
HkVisits == UNION { [1 .. n -> HkTables \X BOOLEAN] : n \in 0 .. 4 }
HkPatched(visits) ==
    FoldLeft(LAMBDA p, v : Hk!PatchPainter(p, v[1], v[2]),
             [kept |-> <<>>, tables |-> [t \in HkTables |-> [s \in Hk!Slots |-> "original"]]], visits)

\* A hook never calls itself: what it calls is what was in the table the first time, however often the
\* table is met, whether or not its page could be written.
ASSUME NoHookCallsItself ==
    \A visits \in HkVisits :
        LET p == HkPatched(visits)
        IN  /\ \A t \in HkTables, s \in Hk!Slots : p.tables[t][s] = "hook" => Hk!CalledBy(p, t, s) = "original"
            /\ Len(p.kept) = Min({2, Cardinality({ visits[i][1] : i \in DOMAIN visits })})
=============================================================================
