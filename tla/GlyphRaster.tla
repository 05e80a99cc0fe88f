------------------------------ MODULE GlyphRaster ------------------------------
(***************************************************************************)
(* How one glyph is asked of DirectWrite (src/freetype.cpp): which of      *)
(* Gecko's two rasterizers is calling, what the font's gasp, maxp and      *)
(* strike tables say about its size, and from both the modes, the texture  *)
(* and the transform of the glyph run analysis, or that FreeType draws it. *)
(*                                                                         *)
(* Sizes are in 128ths of a pixel, matrices four fixed-point numbers       *)
(* <<xx, xy, yx, yy>>.  A thread's name stands for its first seven         *)
(* characters.  What a table says is cached on the face it is read from,   *)
(* and the tables of a face do not change, so the caches are left out but  *)
(* for the one whose size is bounded.                                      *)
(***************************************************************************)
EXTENDS Integers, Sequences, FiniteSets
LOCAL INSTANCE SequencesExt
LOCAL INSTANCE FiniteSetsExt

CONSTANTS
    kSkiaLibrarySlots,  \* the libraries that may be taken for Skia's
    kCachedModes,       \* the recommendations a face keeps
    One,                \* 1 in the fixed point of a matrix: 65536
    kSkews              \* the shears SyntheticItalics can send, in that fixed point

----------------------------------------------------------------------------
(* Which rasterizer is calling *)

kWebRenderThreadPrefixes == {"WRWorke", "WrGlyph", "WRRende"}
kBlobThreadPrefixes == {"WRWorke", "WRScene", "WRRende"}

NoName == ""
NewThread == [scalers |-> 0, name |-> NoName, cached |-> "unasked"]

\* a thread is told of only when it names itself
pthread_setname_np(t, self, accepted, name) ==
    IF self /\ accepted THEN [t EXCEPT !.name = name] ELSE t

CleartypeEnterSkiaScaler(t) == [t EXCEPT !.scalers = @ + 1]
CleartypeLeaveSkiaScaler(t) == [t EXCEPT !.scalers = IF @ > 0 THEN @ - 1 ELSE 0]

CallerNamed(name) == IF name \in kWebRenderThreadPrefixes THEN "WebRender" ELSE "Skia"

CurrentRasterCaller(parity, t) ==
    CASE ~parity -> "WebRender"
      [] t.scalers > 0 -> "Skia"
      [] t.cached # "unasked" -> t.cached
      [] OTHER -> CallerNamed(t.name)

\* the thread once it has been asked: an answer from a name is kept, one from the want of a name is not
AskedCaller(parity, t) ==
    IF parity /\ t.scalers = 0 /\ t.cached = "unasked" /\ t.name # NoName
    THEN [t EXCEPT !.cached = CallerNamed(t.name)] ELSE t

OnBlobRasterThread(t) == t.name \in kBlobThreadPrefixes

NoLibrary == "no library"
NoSkiaLibraries == [i \in 1 .. kSkiaLibrarySlots |-> NoLibrary]

RecordSkiaLibrary(parity, slots, library) ==
    LET open == { i \in DOMAIN slots : slots[i] \in {NoLibrary, library} }
    IN  IF library = NoLibrary \/ ~parity \/ open = {} THEN slots
        ELSE [slots EXCEPT ![Min(open)] = library]

ForgetSkiaLibrary(slots, library) ==
    LET held == { i \in DOMAIN slots : slots[i] = library }
    IN  IF library = NoLibrary \/ held = {} THEN slots
        ELSE [slots EXCEPT ![Min(held)] = NoLibrary]

IsSkiaLibrary(slots, library) == library # NoLibrary /\ \E i \in DOMAIN slots : slots[i] = library

CallerForFace(parity, t, slots, library) ==
    IF IsSkiaLibrary(slots, library) THEN "Skia" ELSE CurrentRasterCaller(parity, t)

----------------------------------------------------------------------------
(* What the font's tables say of a size *)

\* an unreadable or cut-off table has no rows; neither has one of a version not known
GaspRows(gasp) == IF gasp.readable /\ gasp.version \in {0, 1} THEN gasp.rows ELSE <<>>

RangeFrom(min, max, version, flags) ==
    [min |-> min, max |-> max, version |-> version, flags |-> flags]

\* the set of the range the size falls in: one range or none
GetGaspRange(gasp, size) ==
    LET rows == GaspRows(gasp)
        below(i) == IF i = 1 THEN -1 ELSE rows[i - 1].max
        fits == { i \in DOMAIN rows : below(i) < size /\ size <= rows[i].max }
    IN  { RangeFrom(below(i) + 1, rows[i].max, gasp.version, rows[i].flags) :
              i \in IF fits = {} THEN {} ELSE {Min(fits)} }

Gridfit == 1
SymmetricSmoothing == 8
GaspIsGridfitOnly(flags) == flags = Gridfit
HasSymmetricSmoothing(flags) == (flags \div SymmetricSmoothing) % 2 = 1

FaceIsHinted(maxp) == maxp.long /\ maxp.version = 1 /\ maxp.instructions # 0

kCJKCodePageBits == 17 .. 21
FaceIsCJK(os2) == os2.present /\ os2.version # 65535 /\ os2.codePages \cap kCJKCodePageBits # {}

\* EBLC and EBSC count in their second version and when no row is cut off
ReadStrikes(table) == IF table.second /\ table.whole THEN table.strikes ELSE <<>>

SpansFour(strike) == strike.last >= strike.first + 3
At(strike, size) == strike.x = size /\ strike.y = size
Within(strike, range) == strike.x = strike.y /\ strike.x \in range.min .. range.max

\* the first strike of the size decides
HasBitmapStrikeForSize(face, size) ==
    LET eblc == ReadStrikes(face.eblc)
        ebsc == ReadStrikes(face.ebsc)
        sized == { i \in DOMAIN eblc : At(eblc[i], size) }
    IN  \/ sized # {} /\ SpansFour(eblc[Min(sized)])
        \/ \E i \in DOMAIN ebsc : At(ebsc[i], size)

\* any strike in the range decides
HasBitmapStrikeInRange(face, range) ==
    \/ \E i \in DOMAIN ReadStrikes(face.eblc) :
           LET strike == ReadStrikes(face.eblc)[i] IN Within(strike, range) /\ SpansFour(strike)
    \/ \E i \in DOMAIN ReadStrikes(face.ebsc) : Within(ReadStrikes(face.ebsc)[i], range)

\* a half is rounded away from zero
NSlround(size) ==
    IF size >= 0 THEN (size + 64) \div 128 ELSE -((64 - size) \div 128)

IsBitmapFont(face, size, windowsMetrics) ==
    windowsMetrics /\ size > 0 /\ FaceIsCJK(face.os2) /\ HasBitmapStrikeForSize(face, NSlround(size))

----------------------------------------------------------------------------
(* The options, from the environment; an unset variable is "" *)

EnvIsOff(word, fallback) ==
    IF word = "" THEN fallback ELSE word \notin {"0", "off", "false", "no"}

RenderingModes ==
    { <<"aliased", "ALIASED">>, <<"gdi-classic", "GDI_CLASSIC">>, <<"gdi-natural", "GDI_NATURAL">>,
      <<"natural", "NATURAL">>, <<"natural-symmetric", "NATURAL_SYMMETRIC">> }
MeasuringModes ==
    { <<"natural", "NATURAL">>, <<"gdi-classic", "GDI_CLASSIC">>, <<"gdi-natural", "GDI_NATURAL">> }
GridFitModes == { <<"enabled", "ENABLED">>, <<"disabled", "DISABLED">>, <<"default", "DEFAULT">> }

Means(modes, word, fallback) ==
    IF \E m \in modes : m[1] = word THEN (CHOOSE m \in modes : m[1] = word)[2] ELSE fallback
Knows(modes, word) == \E m \in modes : m[1] = word

\* a GDI rendering mode measures its own way, unless a measuring mode is asked for besides
InitOptions(env) ==
    LET implied == IF env.rendering \in {"gdi-classic", "gdi-natural"}
                   THEN Means(MeasuringModes, env.rendering, "NATURAL") ELSE "NATURAL"
    IN  [ renderingForced |-> Knows(RenderingModes, env.rendering),
          rendering |-> Means(RenderingModes, env.rendering, "NATURAL"),
          measuring |-> Means(MeasuringModes, env.measuring, implied),
          gridFitForced |-> Knows(GridFitModes, env.gridFit),
          gridFit |-> Means(GridFitModes, env.gridFit, "DEFAULT"),
          subpixel |-> EnvIsOff(env.subpixel, TRUE),
          windowsMetrics |-> EnvIsOff(env.windowsMetrics, TRUE) ]

WindowsMetrics(parity, options) == parity /\ options.windowsMetrics

\* What DirectWrite recommends for a size is kept, a failure like an answer, and the oldest makes
\* room.  modes is oldest first; the result holds the new list and the answer.
ResolveMode(modes, size, recommended, options) ==
    LET known == { i \in DOMAIN modes : modes[i].size = size }
        resolved == [ size |-> size, answered |-> recommended # "failed", gridFit |-> options.gridFit,
                      mode |-> CASE recommended = "failed" -> "DEFAULT"
                                 [] recommended = "OUTLINE" -> "NATURAL_SYMMETRIC"
                                 [] OTHER -> recommended ]
        kept == IF Len(modes) >= kCachedModes THEN Tail(modes) ELSE modes
    IN  IF known # {} THEN [modes |-> modes, resolved |-> modes[Min(known)]]
        ELSE [modes |-> Append(kept, resolved), resolved |-> resolved]

----------------------------------------------------------------------------
(* The constructor of Skia's DirectWrite scaler, as it decides on Windows *)

\* to the nearest 64th, and never nothing
GdiSize(size) == LET s == 2 * ((size + 1) \div 2) IN IF s = 0 THEN 128 ELSE s

\* the sizes whose strikes draw this one: a whole gasp range, where all it asks is grid fitting
BitmapRange(face, size) ==
    LET ppem == GdiSize(size) \div 128
        fitted == { r \in GetGaspRange(face.gasp, ppem) : GaspIsGridfitOnly(r.flags) }
    IN  IF fitted # {} THEN CHOOSE r \in fitted : TRUE ELSE RangeFrom(ppem, ppem, 0, 0)

SkiaModes(render, measure, size) == [rendering |-> render, measuring |-> measure, size |-> size]

SmallModes(face, size) ==
    LET ranges == { r \in GetGaspRange(face.gasp, (GdiSize(size) + 64) \div 128) : r.version >= 1 }
    IN  IF ranges # {}
        THEN SkiaModes(IF \A r \in ranges : HasSymmetricSmoothing(r.flags)
                       THEN "NATURAL_SYMMETRIC" ELSE "NATURAL", "NATURAL", size)
        ELSE IF FaceIsHinted(face.maxp) THEN SkiaModes("NATURAL", "NATURAL", GdiSize(size))
        ELSE SkiaModes("NATURAL_SYMMETRIC", "NATURAL", size)

SkiaDWModes(face, size, embeddedBitmaps, axisAligned, systemMode) ==
    LET asBitmap == embeddedBitmaps /\ HasBitmapStrikeInRange(face, BitmapRange(face, size))
        modes == IF asBitmap /\ axisAligned THEN SkiaModes("GDI_CLASSIC", "GDI_CLASSIC", GdiSize(size))
                 ELSE IF asBitmap THEN SkiaModes("NATURAL_SYMMETRIC", "GDI_CLASSIC", GdiSize(size))
                 ELSE IF systemMode = "NATURAL" THEN SkiaModes("NATURAL", "NATURAL", size)
                 ELSE IF size > 20 * 128 \/ systemMode = "NATURAL_SYMMETRIC"
                 THEN SkiaModes("NATURAL_SYMMETRIC", "NATURAL", size)
                 ELSE SmallModes(face, size)
    IN  IF face.cbdt THEN [modes EXCEPT !.measuring = "NATURAL"] ELSE modes

\* gray without LCD takes the newer factory, which alone can be asked for it
SkiaDWParams(face, size, a8, embeddedBitmaps, axisAligned, haveFactory2, systemMode) ==
    LET gray == haveFactory2 /\ a8
    IN  [ modes |-> SkiaDWModes(face, size, embeddedBitmaps, axisAligned, systemMode),
          gridFit |-> "ENABLED",
          antialias |-> IF gray THEN "GRAYSCALE" ELSE "CLEARTYPE",
          texture |-> IF gray THEN "1x1" ELSE "3x1",
          factory2 |-> gray ]

----------------------------------------------------------------------------
(* The shape of the glyph.  em is the size once what is known of the shape *)
(* is taken into account, and the shift recovered for a slanted vertical   *)
(* origin is part of dx and dy.                                            *)

NoMatrix == <<>>
Identity == <<One, 0, 0, One>>
Near(a, b) == a \in b - 1 .. b + 1

\* a caller's 1 may be one step off
MatrixIsIdentity(m) == \A i \in 1 .. 4 : Near(m[i], Identity[i])
MatrixIsSingular(m) == m[1] * m[4] = m[2] * m[3]
AxisAligned(m) == (m[2] = 0 /\ m[3] = 0) \/ (m[1] = 0 /\ m[4] = 0)

\* the shear of a synthetic oblique, alone or behind the quarter turn of vertical text
ExactObliqueSkew(m) ==
    CASE m[1] = One /\ m[4] = One /\ m[3] = 0 /\ m[2] \in kSkews \ {0} -> "upright"
      [] m[1] = 0 /\ m[2] = One /\ m[3] = -One /\ -m[4] \in kSkews \ {0} -> "quarter turn"
      [] OTHER -> "none"

\* y grows downward in DirectWrite and a vector stands before its matrix: <<m11, m12, m21, m22>>, the
\* pixel aspect x / y on what the x size scaled
ToDWriteMatrix(m, aspect) ==
    << <<m[1] * aspect[1], aspect[2]>>, <<-m[3] * aspect[1], aspect[2]>>, <<-m[2], 1>>, <<m[4], 1>> >>

\* What FT_Set_Transform set replaces what the outline went through, the slant it carries among it;
\* the thickening stays.
Combined(g) ==
    IF g.faceMatrix # NoMatrix THEN g.faceMatrix
    ELSE IF g.pending.matrix # NoMatrix THEN g.pending.matrix ELSE Identity

Simulations(g) ==
    IF g.faceMatrix # NoMatrix THEN g.pending.simulations \ {"OBLIQUE"} ELSE g.pending.simulations

\* A bold that Windows would not simulate is drawn in strikes: of a font from memory, or of one with
\* colours (kDirectWriteBoldSimulation is 1).
Multistrike(g) ==
    g.parity /\ "BOLD" \in g.pending.simulations /\ (g.face.memory \/ g.face.colr)

BitmapFont(g) == IsBitmapFont(g.face, g.em, WindowsMetrics(g.parity, g.options))
IsSkia(g) == g.caller = "Skia"
WebRenderBitmaps(g) == BitmapFont(g) /\ ~IsSkia(g)
Shape(g) == IF WebRenderBitmaps(g) THEN Identity ELSE Combined(g)

\* the form is read before a bitmap font loses its shape, so its italics stay
ObliqueForm(g) == IF g.parity THEN ExactObliqueSkew(Combined(g)) ELSE "none"

\* whole pixels stay, the rest goes with a bitmap font or with subpixel positioning off; dx in 64ths
Shift(g) ==
    IF g.options.subpixel /\ ~WebRenderBitmaps(g) THEN g.pending.dx
    ELSE 64 * (g.pending.dx \div 64)

NeedsTransform(g) ==
    \/ ~MatrixIsIdentity(Shape(g)) \/ ObliqueForm(g) # "none" \/ g.aspect[1] # g.aspect[2]
    \/ Shift(g) # 0 \/ g.pending.dy # 0

----------------------------------------------------------------------------
(* The analysis asked for.  A glyph DirectWrite is not asked for is declined, and FreeType draws it. *)

Declined == [declined |-> TRUE]

ReachesPending(g) == g.live /\ g.em > 0 /\ g.factory # "none"
ConsumesPending(g) == ReachesPending(g) /\ ~g.measureOnly

CanAsk(g) ==
    /\ ReachesPending(g)
    /\ ~g.pending.unrepresentable
    /\ g.faceMatrix = NoMatrix \/ ~MatrixIsSingular(g.faceMatrix)
    /\ g.dwriteFace

\* What the recommendation says is asked only where neither an option nor the system has a mode.
AsksRecommendation(g) ==
    /\ ~IsSkia(g) /\ ~g.options.renderingForced /\ ~BitmapFont(g)
    /\ g.systemMode \notin {"NATURAL", "NATURAL_SYMMETRIC"}
Resolved(g) == ResolveMode(g.modes, g.em, g.recommended, g.options)

WebRenderMode(g) ==
    IF g.options.renderingForced THEN g.options.rendering
    ELSE IF BitmapFont(g) THEN "GDI_CLASSIC"
    ELSE IF AsksRecommendation(g) THEN Resolved(g).resolved.mode ELSE g.systemMode

SkiaParams(g) ==
    SkiaDWParams(g.face, g.em, g.gray, BitmapFont(g),
                 ObliqueForm(g) = "none" /\ AxisAligned(Shape(g)), g.factory = "2", g.systemMode)

SkiaAnalysis(g) ==
    LET p == SkiaParams(g)
        two == g.factory = "2" /\ (p.factory2 \/ g.options.gridFitForced)
    IN  [ size |-> p.modes.size, measuring |-> p.modes.measuring,
          rendering |-> IF g.options.renderingForced THEN g.options.rendering ELSE p.modes.rendering,
          gridFit |-> IF g.options.gridFitForced THEN g.options.gridFit ELSE p.gridFit,
          antialias |-> p.antialias, texture |-> IF two THEN p.texture ELSE "3x1",
          factory2 |-> two, transform |-> TRUE ]

WebRenderAnalysis(g) ==
    [ size |-> g.em,
      measuring |-> IF BitmapFont(g) THEN "GDI_CLASSIC" ELSE g.options.measuring,
      rendering |-> WebRenderMode(g), gridFit |-> g.options.gridFit, antialias |-> "CLEARTYPE",
      texture |-> "3x1", factory2 |-> g.factory = "2" /\ g.options.gridFitForced,
      transform |-> NeedsTransform(g) ]

ModesAfter(g) == IF CanAsk(g) /\ AsksRecommendation(g) THEN Resolved(g).modes ELSE g.modes

RasterizeThroughDWrite(g) ==
    IF ~CanAsk(g) \/ (AsksRecommendation(g) /\ ~Resolved(g).resolved.answered) THEN Declined
    ELSE [ declined |-> FALSE,
           analysis |-> IF IsSkia(g) THEN SkiaAnalysis(g) ELSE WebRenderAnalysis(g),
           simulations |-> IF Multistrike(g) THEN Simulations(g) \ {"BOLD"} ELSE Simulations(g),
           multistrike |-> Multistrike(g),
           shape |-> Shape(g), oblique |-> ObliqueForm(g), shift |-> Shift(g) ]

\* the bounds of a texture without ink send the glyph to an aliased analysis, if that has ink;
\* bounds are <<width, height>>
Inked(bounds) == bounds[1] # 0 /\ bounds[2] # 0
FinalTexture(texture, bounds, aliased) ==
    IF ~Inked(bounds) /\ Inked(aliased) THEN [texture |-> "1x1", bounds |-> aliased]
    ELSE [texture |-> texture, bounds |-> bounds]

\* a subpixel texture stays one only for a caller of subpixels, and not for WebRender's bitmaps
Channels(g, texture) ==
    IF texture = "3x1" /\ ~(g.gray \/ WebRenderBitmaps(g)) THEN 3 ELSE 1

PixelMode(channels) == IF channels = 1 THEN "GRAY" ELSE "LCD"

----------------------------------------------------------------------------
(* The entry points that hand a bitmap out *)

\* what FT_Render_Glyph asks DirectWrite for; LCD_V and the rest are FreeType's
FT_Render_Glyph(mode, parity, wanted, outlined, forced) ==
    IF ~wanted \/ ~outlined \/ forced THEN "FreeType"
    ELSE IF mode = "LCD" THEN "subpixel"
    ELSE IF mode = "NORMAL" /\ parity THEN "gray" ELSE "FreeType"

BlobPrefersDWriteMask(face) == face.sized /\ face.unitsPerEm # 0

\* target: the pixel mode, the grays and whether there is a buffer; owner: the glyph's face, if known
FT_Outline_Get_Bitmap(target, parity, wanted, forced, t, owner) ==
    LET gray == parity /\ target.mode = "GRAY" /\ target.grays = 256
        lcd == target.mode = "LCD"
    IN  IF ~wanted \/ ~target.buffer \/ forced THEN "FreeType"
        ELSE IF gray /\ OnBlobRasterThread(t) /\ ~(owner.known /\ BlobPrefersDWriteMask(owner))
        THEN "scanline"
        ELSE IF ~(gray \/ lcd) \/ ~owner.known THEN "FreeType"
        ELSE IF lcd THEN "subpixel" ELSE "gray"

\* A glyph box is <<left, top, width, height>>, rows counted up from the baseline; the target's bottom
\* left corner is the origin.  The part of it that lands, in the target's rows from the top.
Landing(box, width, rows) ==
    { <<c, r>> \in (0 .. width - 1) \X (0 .. rows - 1) :
          c - box[1] \in 0 .. box[3] - 1 /\ r - (rows - box[2]) \in 0 .. box[4] - 1 }

AddSaturating(a, b) == IF a + b > 255 THEN 255 ELSE a + b

\* the control box Skia sizes its mask from, in 64ths <<xMin, yMin, xMax, yMax>>: both measurements,
\* and a pixel around for the phase that is added later
UnionBox(a, b) ==
    LET left == Min({a[1], b[1]})
        top == Max({a[2], b[2]})
    IN  << left, top, Max({a[1] + a[3], b[1] + b[3]}) - left, top - Min({a[2] - a[4], b[2] - b[4]}) >>

ControlBox(box) ==
    << 64 * box[1] - 64, 64 * (box[2] - box[4]) - 64, 64 * (box[1] + box[3]) + 64, 64 * box[2] + 64 >>

\* boxes: the measured ones, of the subpixel target first
FT_Outline_Get_CBox(real, boxes, inFreeType, wanted, caller) ==
    IF inFreeType \/ ~wanted \/ caller # "Skia" \/ boxes = <<>> THEN real
    ELSE ControlBox(IF Len(boxes) = 1 THEN boxes[1] ELSE UnionBox(boxes[1], boxes[2]))

----------------------------------------------------------------------------
(* A bold drawn in strikes; the step from strike to strike in 256ths of a pixel *)

\* the size in 128ths; a half strike is a whole one
WinExtraStrikes(size) ==
    LET thin == size < 48 * 128     \* offset in (1 / 4 * 48 * 128)ths
        offset == IF thin THEN 48 * 128 + 3 * size ELSE 4 * size
        unit == 4 * 48 * 128
    IN  (2 * Max({offset, unit}) + unit) \div (2 * unit)

BlendStrikePixel(dest, src, alpha) ==
    LET x == src * 255 + dest * (255 - alpha) + 128
    IN  ((x + x \div 256) \div 256) % 256

\* one row under one more strike of itself, offset by 256ths
Strike(dest, row, offset) ==
    LET shift == offset \div 256
        fract == offset % 256
        px(i) == IF i \in DOMAIN row THEN row[i] ELSE 0
        moved(i) == (256 * px(i) - px(i) * fract + px(i - 1) * fract + 128) \div 256
        last == Len(row) + IF fract > 0 THEN 1 ELSE 0
    IN  [ i \in DOMAIN dest |->
              IF i - shift \in 1 .. last
              THEN BlendStrikePixel(dest[i], moved(i - shift), moved(i - shift)) ELSE dest[i] ]

Wider(row, extra) == row \o [i \in 1 .. extra |-> 0]

ApplyMultistrikeBold(row, strikes, step) ==
    FoldLeft(LAMBDA dest, i : Strike(dest, row, i * step),
             Wider(row, (strikes * step + 255) \div 256),
             [i \in 1 .. strikes |-> i])

================================================================================
