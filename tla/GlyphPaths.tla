------------------------------ MODULE GlyphPaths ------------------------------
(***************************************************************************)
(* The outlines Skia builds paths from in Gecko (src/freetype.cpp and the  *)
(* thunks over SkScalerContext in src/libxul_patch.cpp).  DirectWrite's    *)
(* outline is replayed through FreeType's callbacks, which carry 64ths of  *)
(* a pixel; every point the caller will keep is recorded with its exact    *)
(* place, and the finished path, recognised by the 64ths in it, is given   *)
(* the exact ones.                                                         *)
(*                                                                         *)
(* An exact coordinate is in 128ths of a pixel, y down, as DirectWrite has *)
(* it; a quantized one in 64ths, y up, as FreeType has it.  The floats of  *)
(* the code hold either without rounding.                                  *)
(***************************************************************************)
EXTENDS Integers, Sequences, FiniteSets
LOCAL INSTANCE SequencesExt
LOCAL INSTANCE FiniteSetsExt

CONSTANTS
    One,                    \* 1 in the fixed point of a matrix
    kMaxGlyphPathPoints     \* the points a walk may record

----------------------------------------------------------------------------
(* Places.  A transform is <<scale x, skew x, skew y, scale y>> in units   *)
(* of One, of DirectWrite's axes.                                          *)

HalfAway(n, d) == IF n >= 0 THEN (2 * n + d) \div (2 * d) ELSE -((d - 2 * n) \div (2 * d))

\* the aspect is <<x, y>>
SkXformFromFTMatrix(m, aspect) ==
    << (m[1] * aspect[1]) \div aspect[2], -m[2], -(m[3] * aspect[1]) \div aspect[2], m[4] >>

Exact(p, xform) == << p[1] * xform[1] + p[2] * xform[2], p[2] * xform[4] + p[1] * xform[3] >>

Point(p, xform) ==
    << HalfAway(Exact(p, xform)[1], 2 * One), HalfAway(-Exact(p, xform)[2], 2 * One) >>

\* Elevated from a quadratic, a cubic has its control points two thirds of the way to one point.
\* (Compared within a few units of the last place of a float; here there is no such place.)
Elevated(a, b, c, d) == 2 * a + 3 * (b - a) = 3 * (c - d) + 2 * d
CheckQuadratic(pen, seg) == \A i \in 1 .. 2 : Elevated(pen[i], seg[1][i], seg[2][i], seg[3][i])
Control(pen, seg) == [ i \in 1 .. 2 |-> (2 * pen[i] + 3 * (seg[1][i] - pen[i])) \div 2 ]

----------------------------------------------------------------------------
(* DecomposeSink.  A segment is the sequence of its points: one of a line, *)
(* three of a cubic.  A call is of move or not, with its points.  failsAt  *)
(* is the callback that reports an error, if it is reached; 0 for none.    *)

NewSink(xform, failsAt, usable, points) ==
    [xform |-> xform, pen |-> <<0, 0>>, penExact |-> <<0, 0>>, started |-> FALSE,
     points |-> points, usable |-> usable, calls |-> <<>>, failsAt |-> failsAt]

Error(s) == s.failsAt # 0 /\ Len(s.calls) >= s.failsAt

Call(s, move, points) == [s EXCEPT !.calls = Append(@, [move |-> move, points |-> points])]

Record(s, quantized, exact) ==
    IF ~s.usable THEN s
    ELSE IF Len(s.points) >= kMaxGlyphPathPoints THEN [s EXCEPT !.usable = FALSE]
    ELSE [s EXCEPT !.points = Append(@, [match |-> <<quantized[1], -quantized[2]>>, exact |-> Exact(exact, s.xform)])]

BeginFigure(s, start) ==
    IF Error(s) THEN s
    ELSE Call([s EXCEPT !.started = FALSE, !.pen = Point(start, s.xform), !.penExact = start],
              TRUE, <<Point(start, s.xform)>>)

\* the pen's own place, recorded with the first segment that is kept
OpenContour(s) == IF s.started THEN s ELSE Record([s EXCEPT !.started = TRUE], s.pen, s.penExact)

\* points that all fall on the pen would be dropped: the last of them goes a 64th aside
Separate(points, pen) ==
    IF \E i \in DOMAIN points : points[i] # pen THEN points
    ELSE [points EXCEPT ![Len(points)][1] = @ + 1]

Differs(s, seg) == \E i \in DOMAIN seg : seg[i] # s.penExact
KeptPoints(pen, seg) ==
    IF Len(seg) = 3 /\ CheckQuadratic(pen, seg) THEN <<Control(pen, seg), seg[3]>> ELSE seg

\* AddLines and AddBeziers, a segment at a time
AddSegment(s, seg) ==
    LET exact == KeptPoints(s.penExact, seg)
        quantized == Separate([i \in DOMAIN exact |-> Point(exact[i], s.xform)], s.pen)
        opened == FoldLeft(LAMBDA t, i : Record(t, quantized[i], exact[i]), OpenContour(s), [i \in DOMAIN exact |-> i])
    IN  IF Error(s) \/ ~Differs(s, seg) THEN s
        ELSE Call([opened EXCEPT !.pen = Last(quantized), !.penExact = Last(exact)], FALSE, quantized)

\* a figure has a start and segments
AddFigure(s, figure) == FoldLeft(AddSegment, BeginFigure(s, figure.start), figure.segments)
Walk(s, figures) == FoldLeft(AddFigure, s, figures)

----------------------------------------------------------------------------
(* SkFTGeometrySink, the callbacks of the caller: a contour opens with its *)
(* first segment that leaves the pen.  It turns y around.                  *)

HostStart == [pen |-> <<0, 0>>, started |-> FALSE, path |-> <<>>]
Flip(p) == <<p[1], -p[2]>>

MoveTo(h, p) == [h EXCEPT !.pen = p, !.started = FALSE]
SegmentTo(h, points) ==
    LET opened == IF h.started THEN h.path ELSE Append(h.path, Flip(h.pen))
    IN  IF \A i \in DOMAIN points : points[i] = h.pen THEN h
        ELSE [pen |-> Last(points), started |-> TRUE,
              path |-> opened \o [i \in DOMAIN points |-> Flip(points[i])]]

HostPath(calls) ==
    FoldLeft(LAMBDA h, c : IF c.move THEN MoveTo(h, c.points[1]) ELSE SegmentTo(h, c.points), HostStart, calls).path

----------------------------------------------------------------------------
(* One generatePath, on its thread *)

NewThread == [armed |-> FALSE, usable |-> FALSE, points |-> <<>>]

CleartypeBeginGlyphPath(t) == [armed |-> TRUE, usable |-> TRUE, points |-> <<>>]
CleartypeEndGlyphPath(t) == [t EXCEPT !.armed = FALSE]
PointsRecorded(t) == IF t.usable THEN t.points ELSE <<>>

Singular(m) == m[1] * m[4] = m[2] * m[3]

\* whether DirectWrite's outline can stand for this one
CanWalk(o) ==
    /\ o.sized /\ o.live /\ o.instance
    /\ ~Singular(o.faceMatrix) /\ ~o.faceDelta
    /\ o.matrix \in {<<>>, o.faceMatrix} /\ (o.matrix = <<>> \/ o.faceTransformed)

Unmoved(o) == o.shift = <<0, 0>> /\ ~o.simulated /\ ~o.unrepresentable

Asked(t, o) == t.armed /\ o.plain
Answered(t, o) == Asked(t, o) /\ o.ownSlot /\ Unmoved(o) /\ CanWalk(o)

\* The walk is FreeType's wherever DirectWrite's cannot be; fails is that it failed half way.
FT_Outline_Decompose(t, o, xform, failsAt) ==
    LET sink == Walk(NewSink(xform, failsAt, t.usable, t.points), o.figures)
        after == [t EXCEPT !.points = sink.points, !.usable = sink.usable]
    IN  CASE ~Asked(t, o) -> t
          [] Answered(t, o) /\ ~o.fails -> after
          [] Answered(t, o) /\ o.fails -> [after EXCEPT !.usable = FALSE]
          [] OTHER -> [t EXCEPT !.usable = FALSE]

\* Arrays that the finished path holds, each a sequence of points, of which one is its points', and
\* the box around them that it keeps; quantized places.  What became of them.
Matches(points) == [i \in DOMAIN points |-> points[i].match]
Places(points) == [i \in DOMAIN points |-> points[i].exact]

Box(places) ==
    LET xs == { places[i][1] : i \in DOMAIN places }
        ys == { places[i][2] : i \in DOMAIN places }
    IN  << Min(xs), Min(ys), Max(xs), Max(ys) >>

RepairGlyphPath(arrays, boxes, points) ==
    LET alike == { i \in DOMAIN arrays : arrays[i] = Matches(points) }
        box == { i \in DOMAIN boxes : boxes[i] = Box(Matches(points)) }
    IN  IF points = <<>> \/ Cardinality(alike) # 1 THEN [arrays |-> arrays, boxes |-> boxes]
        ELSE [ arrays |-> [i \in DOMAIN arrays |-> IF i \in alike THEN Places(points) ELSE arrays[i]],
               boxes |-> [i \in DOMAIN boxes |-> IF box # {} /\ i = Min(box) THEN Box(Places(points)) ELSE boxes[i]] ]

\* three outcomes are reported, each once
ReportRepairOnce(said, what) ==
    IF Len(said) >= 3 \/ (\E i \in DOMAIN said : said[i] = what) THEN said ELSE Append(said, what)

----------------------------------------------------------------------------
(* The scaler.  rec is what its first 96 bytes say, if they can be read.   *)

SizeFits(size) == size > 0 /\ size <= 4096
TypefaceFits(rec) == rec.typeface >= 65536 /\ rec.typeface % 8 = 0

NoRec == [valid |-> FALSE]

\* the terms of the matrix are finite or not
ReportScalerTextSize(rec) ==
    IF rec.readable /\ rec.finite /\ SizeFits(rec.size) /\ TypefaceFits(rec)
    THEN [valid |-> TRUE, size |-> rec.size, terms |-> rec.terms] ELSE NoRec

DrawGlyphsFromPath(rec, onBlobRaster, prefersMask) ==
    IF /\ onBlobRaster /\ rec.readable /\ SizeFits(rec.size) /\ TypefaceFits(rec)
       /\ ~rec.effect /\ ~rec.filter /\ ~prefersMask /\ rec.fromPath = 0
    THEN [rec EXCEPT !.fromPath = 1] ELSE rec

----------------------------------------------------------------------------
(* A gray mask that FreeType fills as Skia's scan converter would; an      *)
(* outline is one contour, a sequence of points in 64ths.                  *)

\* to a quarter of a pixel, a half away from nothing
Quarter(y) == IF y >= 0 THEN 16 * ((y + 8) \div 16) ELSE -(16 * ((8 - y) \div 16))

Align4(n) == 4 * ((n + 3) \div 4)
FitsMaskBlitter(width, rows) == width <= 32 /\ Align4(width) * rows <= 1024

Edge(a, b) ==
    CASE a[2] = b[2] /\ a[1] # b[1] -> "horizontal"
      [] a[1] = b[1] /\ a[2] # b[2] -> "vertical"
      [] OTHER -> "neither"

IsRect(points) ==
    LET corners == SubSeq(points, 1, 4)
        edge(i) == Edge(corners[i], corners[(i % 4) + 1])
    IN  /\ Len(points) \in 4 .. 5
        /\ Len(points) = 5 => points[5] = points[1]
        /\ \A i \in 1 .. 4 : edge(i) # "neither"
        /\ \A i \in 2 .. 4 : edge(i) # edge(i - 1)

\* whole pixels from the left edge down to the right edge up; C divides toward zero
Truncated(n, d) == IF n >= 0 THEN n \div d ELSE -(-n \div d)
Spans(points) ==
    LET left == Min({ points[i][1] : i \in 1 .. 4 })
        right == Max({ points[i][1] : i \in 1 .. 4 })
    IN  Truncated(right + 63, 64) - (IF left >= 0 THEN Truncated(left, 64) ELSE Truncated(left - 63, 64))

SkiaBlitsAsFatRect(points, curved, width, rows) ==
    FitsMaskBlitter(width, rows) /\ ~curved /\ IsRect(points) /\ Spans(points) >= 3

\* the outline that is filled; afterwards the caller has his own back
SkiaScanlineBitmap(points, curved, width, rows) ==
    IF SkiaBlitsAsFatRect(points, curved, width, rows) THEN points
    ELSE [i \in DOMAIN points |-> <<points[i][1], Quarter(points[i][2])>>]

================================================================================
