---------------------------- MODULE ChromiumHooks ----------------------------
(***************************************************************************)
(* What the hooks on Chromium's scaler do with one glyph: the probe on     *)
(* either side of the filter and the hooks on the path, the metrics, the   *)
(* font metrics and the image (src/chromium/vtable_patch.cpp), the outline *)
(* and the image DirectWrite makes (dwrite_raster.cpp), and the drawing of *)
(* color glyphs (colr_outline.cpp).                                        *)
(*                                                                         *)
(* A context is the record of a scaler and what is known of its typeface:  *)
(*   parity, typeface   the shim is wanted; the typeface is not null       *)
(*   rec, marked        the record; the filter marked it for a real bold   *)
(*   font, plain        its bytes; Windows draws it through Fontations too *)
(*   bolds              what RealBoldFor finds, upright and oblique        *)
(* Lengths are in 128ths of a pixel.                                       *)
(***************************************************************************)
EXTENDS ChromiumRec
LOCAL INSTANCE SequencesExt
LOCAL INSTANCE FiniteSetsExt

CONSTANTS kMaxPainters,            \* the painters' tables whose slots are kept
          kPathExtractionReserve   \* what Fontations reserves for an outline

----------------------------------------------------------------------------
(* The filter, between two probes.  What the first leaves for the second   *)
(* is one word for all threads.                                            *)

\* a face with the bytes of another font, or one that DirectWrite emboldens
NoBold == [bytes |-> {}, index |-> 0, simulate |-> FALSE]
Finds(bold) == bold.bytes # {} \/ bold.simulate

Cleared(c) ==
    IF "embolden" \notin c.rec.flags THEN c
    ELSE IF c.heavy THEN [c EXCEPT !.rec.flags = @ \ {"embolden"}]
    ELSE IF Finds(c.bolds[c.rec.skew # 0]) THEN [c EXCEPT !.rec.flags = @ \ {"embolden"}, !.marked = TRUE]
    ELSE c

OnChromiumFilterRec(c) ==
    LET asked == c.typeface /\ c.parity
        plain == asked /\ c.plain
        after == IF asked /\ ~plain /\ ~c.font.empty THEN Cleared(c) ELSE c
    IN  [context |-> after, probe |-> [flags |-> after.rec.flags, hinting |-> after.rec.hinting, plain |-> plain]]

OnChromiumFilterRecDone(rec, probe) == ApplyWindowsParams(rec, probe, probe.plain)

----------------------------------------------------------------------------
(* The face a context is drawn with, and how *)

BoldSubstitute(c) == IF c.marked THEN c.bolds[c.rec.skew # 0] ELSE NoBold
SimulatesOblique(rec, font, index) == rec.skew # 0 /\ HasEbdt(font, index)

Use(c) ==
    LET bold == BoldSubstitute(c)
    IN  IF bold.bytes = {} THEN [font |-> c.font, substituted |-> FALSE, index |-> 0, bold |-> bold.simulate]
        ELSE [font |-> CHOOSE f \in bold.bytes : TRUE, substituted |-> TRUE, index |-> bold.index, bold |-> bold.simulate]

Oblique(c) == SimulatesOblique(c.rec, Use(c).font, Use(c).index)
Flat(c) == IF Oblique(c) THEN WithoutSkew(c.rec) ELSE c.rec

DescribeAt(font, size, index) == Describe(font, GaspPpem(size), BitmapPpem(size), index)
DecideFor(c, facts) == Decide(WithWindowsHinting(Flat(c)), DeviceScaleY(Flat(c)), facts)

\* the path and the metrics read the tables at the size the flattened text has
DecideToMeasure(c) == DecideFor(c, DescribeAt(Use(c).font, DeviceScaleY(Flat(c)), Use(c).index))

\* the font's metrics at that of the text as it is
DecideFontMetrics(c) == DecideFor(c, DescribeAt(Use(c).font, DeviceScaleY(c.rec), Use(c).index))

\* so does the image, of the typeface's own font through a cache, and without parity of none
DecideToDraw(c) ==
    DecideFor(c, IF ~c.parity THEN NoFacts
                 ELSE IF Use(c).substituted THEN DescribeAt(Use(c).font, DeviceScaleY(c.rec), Use(c).index)
                 ELSE DescribeAt(c.font, DeviceScaleY(c.rec), 0))

MayAsk(c) == c.parity /\ c.typeface /\ ~c.plain /\ ~c.font.empty

----------------------------------------------------------------------------
(* The outline, from DirectWrite's figures: of each the start and the      *)
(* segments, a line's one point or a cubic's three.                        *)

Emit(s, verb, points) == [s EXCEPT !.verbs = Append(@, verb), !.points = @ \o points]

\* a contour opens with its first segment that leaves the pen
GoingTo(s, to) ==
    [(IF s.started THEN s ELSE Emit(s, "move", <<s.pen>>)) EXCEPT !.started = TRUE, !.pen = to]

Middle(a, b) == [i \in 1 .. 2 |-> a[i] + ((b[i] - a[i]) * 3) \div 2]
IsQuadratic(pen, seg) == Middle(pen, seg[1]) = Middle(seg[3], seg[2])

AddTo(s, seg) ==
    IF \A i \in DOMAIN seg : seg[i] = s.pen THEN s
    ELSE LET gone == GoingTo(s, Last(seg))
         IN  IF Len(seg) = 1 THEN Emit(gone, "line", seg)
             ELSE IF IsQuadratic(s.pen, seg) THEN Emit(gone, "quad", <<Middle(s.pen, seg[1]), seg[3]>>)
             ELSE Emit(gone, "cubic", seg)

SinkFigure(s, figure) ==
    LET drawn == FoldLeft(AddTo, [s EXCEPT !.started = FALSE, !.pen = figure.start], figure.segments)
    IN  IF drawn.started THEN Emit(drawn, "close", <<>>) ELSE drawn

GlyphOutline(figures) ==
    FoldLeft(SinkFigure, [verbs |-> <<>>, points |-> <<>>, started |-> FALSE, pen |-> <<0, 0>>], figures)

----------------------------------------------------------------------------
(* The path hook.  Skia's path data: who holds it, its points and verbs,   *)
(* and what it caches of them.                                             *)

PointsForVerb == [move |-> 1, line |-> 1, quad |-> 2, conic |-> 2, cubic |-> 3, close |-> 0]

MirrorHolds(data) ==
    /\ data.refs = 1 /\ data.plausible /\ data.general /\ data.conics = 0 /\ data.contiguous
    /\ \A i \in DOMAIN data.verbs : data.verbs[i] \in DOMAIN PointsForVerb
    /\ FoldLeft(LAMBDA n, v : n + PointsForVerb[v], 0, data.verbs) = Len(data.points)

PointBounds(points) ==
    LET on(i) == { points[p][i] : p \in DOMAIN points }
    IN  << Min(on(1)), Min(on(2)), Max(on(1)), Max(on(2)) >>

SegmentMaskFor(verbs) == Range(verbs) \cap {"line", "quad", "conic", "cubic"}

kMaxPointDelta == Pixel
Near(a, b) == \A i \in DOMAIN a : Abs(a[i] - b[i]) <= kMaxPointDelta
AllNear(ps, qs) == \A i \in DOMAIN ps : Near(ps[i], qs[i])

\* the points of an outline at the render size, through what remains of the matrix
Through(m, points) ==
    LET along(i, p) == (m.remaining[2 * i - 1] * p[1] + m.remaining[2 * i] * p[2]) \div (One * m.scale_y)
    IN  [i \in DOMAIN points |-> << along(1, points[i]), along(2, points[i]) >>]

\* As many verbs are compared as Skia's path has; past the end of DirectWrite's it is other memory that
\* is read, and alike tells how that comes out.
SameVerbs(verbs, data, alike) ==
    /\ \A i \in DOMAIN data.verbs : i <= Len(verbs) => data.verbs[i] = verbs[i]
    /\ Len(data.verbs) > Len(verbs) => alike

InPlace(data, points) ==
    [data EXCEPT !.points = points, !.bounds = PointBounds(points), !.convexity = "unknown"]

\* ReplacePathData: a copy with room for the new points, in place of the old
Regrown(data, verbs, points) ==
    [InPlace(data, points) EXCEPT !.verbs = verbs, !.mask = SegmentMaskFor(verbs)]

\* path is whether one was generated, its data and whether it was modified; dw what DirectWrite says
OnChromiumPath(c, known, path, dw, alike) ==
    LET data == path.data
        m == ComputeMatrices(Flat(c))
        outline == GlyphOutline(dw.figures)
        points == Through(m, outline.points)
        compared == ~Use(c).substituted /\ Len(points) = Len(data.points) /\ SameVerbs(outline.verbs, data, alike)
        near == IF compared THEN AllNear(points, data.points)
                ELSE Use(c).substituted \/ data.points = <<>> \/ Near(PointBounds(points), PointBounds(data.points))
    IN  IF \/ ~path.engaged \/ ~MayAsk(c) \/ ~known
           \/ ~MirrorHolds(data) \/ ~ComputeMatrices(c.rec).ok
           \/ ~dw.outlines \/ outline.verbs = <<>>
           \/ ~near
        THEN path
        ELSE IF compared THEN [path EXCEPT !.data = InPlace(data, points)]
        ELSE IF data.listCopyable THEN [path EXCEPT !.data = Regrown(data, outline.verbs, points), !.modified = TRUE]
        ELSE path

----------------------------------------------------------------------------
(* The metrics.  dw tells the advance in design units, those of an em, and *)
(* the box of each way of drawing, {} for none.                            *)

MeasuresGdi(d) == d.measuring \in {"GDI_CLASSIC", "GDI_NATURAL"}
WholePixels(x) == Pixel * ((2 * x + Pixel) \div (2 * Pixel))

\* what remains of a flat matrix is nothing, and so is the advance
GlyphAdvance(c, d, dw) ==
    LET m == ComputeMatrices(Flat(c))
        along == (d.measure * dw.advance) \div dw.upem
        x == IF MeasuresGdi(d) THEN WholePixels(along) ELSE along
    IN  << (m.remaining[1] * x) \div (One * m.scale_y), (m.remaining[3] * x) \div (One * m.scale_y) >>

GlyphBounds(c, dw, rendering, texture) ==
    IF ComputeMatrices(Flat(c)).ok THEN dw.box[<<rendering, texture>>] ELSE {}

\* an empty box is asked for again of the aliased texture, unless that is what was asked
Boxed(c, d, dw) ==
    LET first == GlyphBounds(c, dw, d.rendering, d.texture)
        again == d.texture # "1x1" \/ d.antialias = "GRAYSCALE"
    IN  IF first # {} \/ ~again THEN [box |-> first, aliased |-> FALSE]
        ELSE LET second == GlyphBounds(c, dw, "ALIASED", "1x1") IN [box |-> second, aliased |-> second # {}]

OnChromiumMetrics(c, known, metrics, dw) ==
    LET d == DecideToMeasure(c)
        boxed == Boxed(c, d, dw)
        moved == [metrics EXCEPT !.advance = GlyphAdvance(c, d, dw)]
        asks == metrics.mask # "ARGB32" /\ (metrics.bits = "path" \/ Use(c).substituted)
    IN  IF ~MayAsk(c) \/ ~known \/ ~dw.measures \/ dw.upem = 0 THEN metrics
        ELSE IF ~asks \/ boxed.box = {} THEN moved
        ELSE [moved EXCEPT !.bounds = CHOOSE b \in boxed.box : TRUE, !.from_path = FALSE, !.mask = IF boxed.aliased THEN "BW" ELSE @]

\* Above the line is negative in Skia and positive in DirectWrite, underlines below it the other way.
kScaled == {"descent", "leading", "x_height", "cap_height", "underline_thickness", "strikeout_thickness"}
kTurned == {"ascent", "underline_position", "strikeout_position"}
kValid == {"underline_thickness", "underline_position", "strikeout_thickness", "strikeout_position"}

\* face are the metrics DirectWrite has of a face, those it has for GDI or its design
OnChromiumFontMetrics(c, metrics, dw) ==
    LET d == DecideFontMetrics(c)
        face == IF MeasuresGdi(d) THEN dw.gdi ELSE dw.design
        scaled(f) == (d.render * face[f]) \div dw.upem
    IN  IF ~MayAsk(c) \/ ~dw.measures \/ dw.upem = 0 THEN metrics
        ELSE [ fields |-> [f \in DOMAIN metrics.fields |-> IF f \in kScaled THEN scaled(f)
                                                           ELSE IF f \in kTurned THEN -scaled(f)
                                                           ELSE IF f = "avg_char_width" THEN 0
                                                           ELSE metrics.fields[f]],
               valid |-> metrics.valid \cup kValid ]

----------------------------------------------------------------------------
(* The image.  A glyph has a mask, a size, and what Fontations would draw  *)
(* it from; what is drawn is in rows of so many bytes and so many bits to  *)
(* a pixel.                                                                *)

kMaxGlyphDimension == 8192
LooksPlausible(g) ==
    g.width <= kMaxGlyphDimension /\ g.height <= kMaxGlyphDimension /\ g.mask \in {"BW", "A8", "ARGB32", "LCD16"}

BitsOf(mask) == CASE mask = "BW" -> 1 [] mask = "LCD16" -> 16 [] mask = "ARGB32" -> 32 [] OTHER -> 8
RowBytes(mask, width) == (width * BitsOf(mask) + 7) \div 8

ApplyLut(v, table) == IF table = <<>> THEN v ELSE table[v]
Pack888ToRGB16(p) == << p[1] \div 8, p[2] \div 4, p[3] \div 8 >>

\* covers is the coverage of a pixel, one number or three as the texture has it
Texel(rec, d, blend, covers) ==
    LET through(i, channel) == ApplyLut(covers[i], blend[channel])
        rgb == IF "bgr" \in rec.flags THEN <<through(3, "r"), through(2, "g"), through(1, "b")>>
               ELSE <<through(1, "r"), through(2, "g"), through(3, "b")>>
    IN  CASE d.rendering = "ALIASED" -> covers[1] \div 128
          [] rec.mask = "LCD16" -> Pack888ToRGB16(rgb)
          [] d.texture = "1x1" -> ApplyLut(covers[1], blend.g)
          [] OTHER -> ApplyLut((covers[1] + covers[2] + covers[3]) \div 3, blend.g)

Declined == [handled |-> FALSE, drawn |-> FALSE]

RenderGlyph(rec, d, g, dw, blend) ==
    IF \/ g.bits # "path" \/ g.mask = "ARGB32" \/ g.width = 0 \/ g.height = 0 \/ ~dw.measures
       \/ rec.mask = "LCD16" /\ d.rendering # "ALIASED" /\ (d.texture # "3x1" \/ g.mask # "LCD16")
    THEN Declined
    ELSE [ handled |-> TRUE, drawn |-> TRUE,
           bits |-> IF d.rendering = "ALIASED" THEN 1 ELSE IF rec.mask = "LCD16" THEN 16 ELSE 8,
           stride |-> RowBytes(IF d.rendering = "ALIASED" THEN "BW" ELSE g.mask, g.width),
           pixels |-> [i \in DOMAIN dw.covers |-> Texel(rec, d, blend, dw.covers[i])] ]

\* an emboldened glyph that no bold face was found for is said to be handled, and is not drawn
OnChromiumGenerateImage(c, g, dw, blend) ==
    IF ~LooksPlausible(g) \/ (c.parity /\ c.plain) THEN Declined
    ELSE IF ~Finds(BoldSubstitute(c)) /\ "embolden" \in c.rec.flags THEN [handled |-> TRUE, drawn |-> FALSE]
    ELSE RenderGlyph(Flat(c), DecideToDraw(c), g, dw, blend)

----------------------------------------------------------------------------
(* Color glyphs: what a thread draws from.  sub is the glyph's place       *)
(* between pixels in quarters; shift the same through the matrix and back, *)
(* in 128ths of a pixel at the size of the text.                           *)

NoSource == [key |-> "nothing", upem |-> 0, size |-> 0, sub |-> <<0, 0>>, shift |-> <<0, 0>>]

SetSource(s, key, upem, size) == [s EXCEPT !.key = key, !.upem = upem, !.size = size]
SetPhase(s, shift, sub) == [s EXCEPT !.shift = shift, !.sub = sub]
NoPhase(s) == SetPhase(s, <<0, 0>>, <<0, 0>>)

\* DeviceOffsetToEm: nothing where the matrix has no inverse
ColorGlyphPhase(rec, known, sub) ==
    LET p == rec.post
        det == Det(p) * rec.scale
        d == << 32 * sub[1], 32 * sub[2] >>
        \* the record's matrix over its size
        m == << p[1] * rec.scale, p[1] * rec.skew + p[2], p[3] * rec.scale, p[3] * rec.skew + p[4] >>
    IN  IF "subpixel" \notin rec.flags \/ ~known \/ sub = <<0, 0>> \/ det = 0 \/ rec.size = 0
        THEN [shift |-> <<0, 0>>, sub |-> <<0, 0>>]
        ELSE [shift |-> << (One * (m[4] * d[1] - m[2] * d[2])) \div det, (One * (m[1] * d[2] - m[3] * d[1])) \div det >>,
              sub |-> sub]

\* before the metrics only the phase is told, and the source stays what the last image left
OnChromiumMetricsPre(s, c, known, sub) ==
    IF c.typeface /\ c.plain THEN NoPhase(s)
    ELSE LET phase == ColorGlyphPhase(c.rec, known, sub) IN SetPhase(s, phase.shift, phase.sub)

SourceOfImage(s, c, g, key, upem) ==
    LET phase == ColorGlyphPhase(c.rec, g.known, g.sub)
    IN  IF ~LooksPlausible(g) THEN s
        ELSE IF c.parity /\ c.plain THEN SetSource(s, "nothing", 0, 0)
        ELSE IF (~Finds(BoldSubstitute(c)) /\ "embolden" \in c.rec.flags) \/ g.mask # "ARGB32" THEN s
        ELSE SetSource(SetPhase(s, phase.shift, phase.sub), key, upem, DecideToDraw(c).render)

\* An outline asked of a font at the size of the source's em is taken for one of the source's glyphs.
\* lengths are those of DirectWrite's outline, reserves whether the vectors can be made to grow
SubstitutedBy(s, asked_size, found, lengths, reserves) ==
    IF /\ found /\ s.upem # 0 /\ asked_size = s.upem /\ s.size > 0
       /\ reserves \/ \A i \in DOMAIN lengths : lengths[i] <= kPathExtractionReserve
    THEN s.key ELSE "the font's own"

----------------------------------------------------------------------------
(* A painter is a table and whether it only takes bounds; tables, what is  *)
(* in their slots.  The slots kept are those of the first time it is seen. *)

Slots == {"fill_glyph", "push_clip"}
NoPainters == [kept |-> <<>>, tables |-> << >>]

Kept(p, table) == { i \in DOMAIN p.kept : p.kept[i].table = table }
PatchPainter(p, table, writable) ==
    IF Kept(p, table) # {} \/ Len(p.kept) >= kMaxPainters THEN p
    ELSE [ kept |-> Append(p.kept, [table |-> table, slots |-> p.tables[table]]),
           tables |-> IF writable THEN [p.tables EXCEPT ![table] = [s \in Slots |-> "hook"]] ELSE p.tables ]

\* OpsFor: what a hook calls
CalledBy(p, table, slot) == IF Kept(p, table) = {} THEN "nothing" ELSE p.kept[CHOOSE i \in Kept(p, table) : TRUE].slots[slot]

----------------------------------------------------------------------------
(* What reaches a painter.  A call is its name and, of a clip, its edges   *)
(* <<x min, y min, x max, y max>>, y up, in 128ths of a pixel.             *)

Call(name) == [op |-> name]
PushClip(box) == [op |-> "push clip", box |-> box]

SkRound(v) == Pixel * ((2 * v + Pixel) \div (2 * Pixel))
SkRoundNegated(v) == -SkRound(-v)

\* the edges of the device the box has once it is at its place between pixels
SnapX(s, phased, v) == LET o == IF phased THEN 32 * s.sub[1] ELSE 0 IN SkRound(v + o) - o
SnapY(s, phased, v) == LET o == IF phased THEN 32 * s.sub[2] ELSE 0 IN SkRoundNegated(v - o) + o
Snapped(s, phased, box) ==
    << SnapX(s, phased, box[1]), SnapY(s, phased, box[2]), SnapX(s, phased, box[3]), SnapY(s, phased, box[4]) >>

Sourced(s) == s.upem # 0 /\ s.size > 0

\* the four hooks of a painter
ThroughHook(s, phased, bounds, call) ==
    IF call.op = "push clip" /\ Sourced(s) /\ ~bounds THEN << PushClip(Snapped(s, phased, call.box)) >>
    ELSE IF call.op = "fill glyph" /\ call.transformed /\ s.upem # 0 /\ ~bounds
    THEN << Call("push clip glyph"), Call("push transform"), Call("fill"), Call("pop transform"), Call("pop clip") >>
    ELSE << call >>

ReachesPainter(s, phased, bounds, hooked, call) == IF hooked THEN ThroughHook(s, phased, bounds, call) ELSE << call >>

\* body is what Fontations calls to draw the glyph, box its clip box or none
DrawReplacement(s, bounds, hooked, box, body) ==
    LET phased == s.upem # 0 /\ s.shift # <<0, 0>>
        clipped == Sourced(s) /\ ~bounds /\ box # <<>>
        reaches(call) == ReachesPainter(s, phased, bounds, hooked, call)
        around(before, middle, after) == << before >> \o middle \o << after >>
        drawn == FlattenSeq([i \in DOMAIN body |-> reaches(body[i])])
        inside == IF ~clipped THEN drawn
                  ELSE reaches(PushClip(<< SnapX(s, phased, box[1]), SnapY(s, phased, box[4]),
                                           SnapX(s, phased, box[3]), SnapY(s, phased, box[2]) >>))
                       \o drawn \o << Call("pop clip") >>
    IN  IF phased THEN around(Call("push transform"), inside, Call("pop transform")) ELSE inside

\* the box itself, when it is asked for
ClipBoxReplacement(s, box) ==
    << box[1] + s.shift[1], box[2] - s.shift[2], box[3] + s.shift[1], box[4] - s.shift[2] >>
=============================================================================
