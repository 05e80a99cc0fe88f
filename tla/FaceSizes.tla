------------------------------- MODULE FaceSizes -------------------------------
(***************************************************************************)
(* The size a glyph is drawn at in Gecko, recovered from the size FreeType *)
(* was set to (src/freetype.cpp).  FreeType takes 64ths of a pixel; Gecko  *)
(* lays out in app units, and reduces a size for sub- and superscripts and *)
(* for small capitals, so what FreeType is told is a rounding.  The table  *)
(* of claimed sizes keeps what Gecko named; what nobody named is searched  *)
(* for.                                                                    *)
(*                                                                         *)
(* A size is a fraction <<n, d>> of 64ths of a pixel.  The code holds it   *)
(* in a float or a double; below a thousand pixels neither is coarse       *)
(* enough to round to another 64th.  Axes are set alike.                   *)
(***************************************************************************)
EXTENDS Integers, SequencesExt

CONSTANTS
    kClaimedFaces,      \* the rows of the table of claimed sizes
    kClaimedPerFace,    \* the sizes in a row
    kWrSlots            \* the floats of a WebRender instance that may be its size

NoSize == <<0, 1>>
NoFace == "no face"

Positive(px) == px[1] > 0
InRange(px) == Positive(px) /\ px[1] \div px[2] < 64 * 65536
OnePixel == <<64, 1>>
LessThanOnePixel(px) == px[1] \div px[2] < 64

\* a half is rounded up
CharSize26_6(px) ==
    px[1] \div px[2] + (IF 2 * (px[1] % px[2]) >= px[2] THEN 1 ELSE 0)

----------------------------------------------------------------------------
(* Undoing the rounding.  per is how many app units a device pixel has     *)

AppUnits(units, per) == <<64 * units, per>>

\* what the host reads out of a shaped text; s is described below
CleartypeSetAppUnitsPerDevPixel(s, units) ==
    IF units \in 1 .. 240 THEN [s EXCEPT !.per = units] ELSE s

\* the app units nearest to the size, if they round to it
ExactEmSize(em, per) ==
    LET px == AppUnits((em * per + 32) \div 64, per)
    IN  IF em > 0 /\ Positive(px) /\ CharSize26_6(px) = em THEN px ELSE NoSize

\* 0.82 of a size below 20 CSS pixels, 0.667 of one from 45, and a line between the two.  A CSS pixel
\* is 60 of the units that the size is counted in, whatever a device pixel is
SubSuperSize(units, per) ==
    IF units < 1200 THEN <<1312 * units, 25 * per>>
    ELSE IF units < 2700 THEN <<2 * units * (471200 - 51 * units), 15625 * per>>
    ELSE <<5336 * units, 125 * per>>

SmallCapsSize(units, per) == <<256 * units, 5 * per>>

\* the one size of either kind that rounds to em, a sub- or superscript before a small capital
SearchReduced(em, per) ==
    LET units == Max({1, (em * per * 25) \div 1312}) .. ((em * per * 125 + 5335) \div 5336) + 1
        scripts == { u \in units : CharSize26_6(SubSuperSize(u, per)) = em }
        capitals == { u \in units : CharSize26_6(SmallCapsSize(u, per)) = em }
    IN  IF Cardinality(scripts) = 1 THEN SubSuperSize(Max(scripts), per)
        ELSE IF Cardinality(capitals) = 1 THEN SmallCapsSize(Max(capitals), per)
        ELSE NoSize

NoMemo == [size |-> 0, px |-> NoSize]

\* the last answer of the thread stands for the next question about the same size
ReducedEmSize(memo, em, per) ==
    LET px == IF memo.size = em THEN memo.px ELSE SearchReduced(em, per)
    IN  IF em <= 0 THEN [px |-> NoSize, memo |-> memo]
        ELSE [px |-> px, memo |-> [size |-> em, px |-> px]]

\* the 1024ths by which two axes differ, if they are what was asked for; 0 when they are not
SnapPixelAspect(x, y) ==
    LET snapped == (2048 * x + y) \div (2 * y)
    IN  IF snapped > 0 /\ (2 * y * snapped + 1024) \div 2048 = x THEN snapped ELSE 0

----------------------------------------------------------------------------
(* The table of claimed sizes *)

NoClaim == [size |-> 0, px |-> NoSize, ft |-> 0, from_adjusted |-> FALSE, used |-> 0]

\* (a function that is appended to is a tuple to TLC)
NoRow ==
    [face |-> NoFace, next |-> 1, sizes |-> <<>> \o [i \in 1 .. kClaimedPerFace |-> NoClaim]]

NoClaims == [rows |-> [i \in 1 .. kClaimedFaces |-> NoRow], next |-> 1, clock |-> 0]

\* the row of a face, 0 when it has none
FindClaimedFaceLocked(claims, face) ==
    LET rows == { i \in 1 .. kClaimedFaces : claims.rows[i].face = face }
    IN  IF rows = {} THEN 0 ELSE Min(rows)

\* its own row, a free one, or the next in turn with what it held gone
ClaimRowLocked(claims, face) ==
    LET own == FindClaimedFaceLocked(claims, face)
        free == FindClaimedFaceLocked(claims, NoFace)
        row == IF own # 0 THEN own ELSE IF free # 0 THEN free ELSE claims.next
    IN  [row |-> row,
         claims |-> IF own # 0 THEN claims
                    ELSE [claims EXCEPT !.rows[row] = [NoRow EXCEPT !.face = face],
                                        !.next = IF free # 0 THEN @ ELSE (@ % kClaimedFaces) + 1]]

\* where a row has a size, 0 for nowhere
SlotOf(row, size) ==
    LET slots == { i \in 1 .. kClaimedPerFace :
                       Positive(row.sizes[i].px) /\ row.sizes[i].size = size }
    IN  IF slots = {} THEN 0 ELSE Min(slots)

RecordClaimedSize(claims, face, px, ft_px, from_adjusted) ==
    LET claimed == ClaimRowLocked(claims, face)
        size == CharSize26_6(px)
        row == claimed.claims.rows[claimed.row]
        slot == SlotOf(row, size)
        at == IF slot # 0 THEN slot ELSE row.next
        claim == [size |-> size, px |-> px, used |-> claims.clock + 1,
                  ft |-> IF InRange(ft_px) THEN CharSize26_6(ft_px) ELSE size,
                  from_adjusted |-> from_adjusted \/ (slot # 0 /\ row.sizes[at].from_adjusted)]
        written == [row EXCEPT !.sizes[at] = claim,
                               !.next = IF slot # 0 THEN @ ELSE (@ % kClaimedPerFace) + 1]
    IN  IF face = NoFace \/ ~InRange(px) THEN claims
        ELSE [claimed.claims EXCEPT !.rows[claimed.row] = written, !.clock = @ + 1]

TouchClaimedSize(claims, face, size) ==
    LET row == FindClaimedFaceLocked(claims, face)
        slot == IF row = 0 THEN 0 ELSE SlotOf(claims.rows[row], size)
    IN  IF face = NoFace \/ size <= 0 \/ slot = 0 THEN claims
        ELSE [claims EXCEPT !.rows[row].sizes[slot].used = claims.clock + 1, !.clock = @ + 1]

ForgetClaimedSizes(claims, face) ==
    LET row == FindClaimedFaceLocked(claims, face)
    IN  IF row = 0 THEN claims ELSE [claims EXCEPT !.rows[row] = NoRow]

ClaimedSizeFor(claims, face, size) ==
    LET row == FindClaimedFaceLocked(claims, face)
        slot == IF row = 0 THEN 0 ELSE SlotOf(claims.rows[row], size)
    IN  IF slot = 0 THEN NoSize ELSE claims.rows[row].sizes[slot].px

\* the claims of a face in the order of its row; no two have one size, so none is left out
ClaimedSizesFor(claims, face) ==
    LET row == FindClaimedFaceLocked(claims, face)
    IN  IF row = 0 THEN <<>>
        ELSE SelectSeq(claims.rows[row].sizes, LAMBDA claim : Positive(claim.px))

\* the size a font measures at where its face is set to another one; the last used of those claimed
AdjustedSizeForFace(claims, face, ft) ==
    LET named == { claim \in ToSet(ClaimedSizesFor(claims, face)) :
                       claim.from_adjusted /\ claim.ft = ft }
        newest == CHOOSE claim \in named : \A other \in named : other.used <= claim.used
    IN  IF named = {} THEN NoSize
        ELSE IF CharSize26_6(newest.px) = ft THEN NoSize ELSE newest.px

----------------------------------------------------------------------------
(* Sizes that Skia scaled, in whole 1024ths of the font's own *)

Product(units, size) == <<units * size[1], 1024 * size[2]>>

\* the product that rounds to em, if there is one and no other
ProductOfSize(size, em) ==
    LET seed == (2048 * em * size[2] + size[1]) \div (2 * size[1])
        units == { u \in seed - 1 .. seed + 1 : u > 0 /\ CharSize26_6(Product(u, size)) = em }
    IN  IF Positive(size) /\ Cardinality(units) = 1 THEN Product(Max(units), size) ELSE NoSize

\* Skia's path requests come at this size
kSkiaPathSize == 64 * 64

\* The size the scaler was made with, or the claim of the face used last.  A claim whose product is
\* the one in hand takes its place, with when it was used
ScaledEmSize(claims, face, scaler, em) ==
    LET better(best, claim) ==
            LET px == ProductOfSize(claim.px, em)
            IN  IF Positive(px) /\ (best.px \in {NoSize, px} \/ claim.used >= best.used)
                THEN [px |-> px, used |-> claim.used] ELSE best
        own == IF Positive(scaler) THEN ProductOfSize(scaler, em) ELSE NoSize
    IN  IF em <= 0 THEN NoSize
        ELSE IF Positive(own) THEN own
        ELSE FoldLeft(better, [px |-> NoSize, used |-> 0], ClaimedSizesFor(claims, face)).px

----------------------------------------------------------------------------
(* The size in WebRender's instance.  fields are the floats it begins      *)
(* with, NoSize for one that is no size                                    *)

kWrSizeAgreements == 4
NoInstance == <<>>

WrUnknown == [instance |-> NoInstance, offset |-> 0, candidates |-> 1 .. kWrSlots,
              agreed |-> 0, last |-> 0]

CleartypeNoteWebRenderInstance(s, fields) == [s EXCEPT !.wr.instance = fields]

\* An instance is spent on one question.  Where its size sits is learned from sizes that agree, and
\* answered with from the next question on
WebRenderInstanceSize(wr, em) ==
    LET fields == wr.instance
        spent == [wr EXCEPT !.instance = NoInstance]
        Holds(i) == InRange(fields[i]) /\ CharSize26_6(fields[i]) = em
        here == { i \in 1 .. kWrSlots : Holds(i) }
        left == wr.candidates \cap here
        agreed == wr.agreed + (IF em # wr.last THEN 1 ELSE 0)
    IN  IF fields = NoInstance \/ em <= 0 THEN [px |-> NoSize, wr |-> spent]
        ELSE IF wr.offset # 0
        THEN [px |-> IF Holds(wr.offset) THEN fields[wr.offset] ELSE NoSize, wr |-> spent]
        ELSE [px |-> NoSize,
              wr |-> IF here = {} THEN spent
                     ELSE [spent EXCEPT !.candidates = left, !.agreed = agreed, !.last = em,
                               !.offset = IF agreed >= kWrSizeAgreements /\ Cardinality(left) = 1
                                          THEN Max(left) ELSE 0]]

----------------------------------------------------------------------------
(* A process with one thread: what it knows of sizes, and the faces that   *)
(* the face table has: the size asked of each, the one FreeType settled on *)
(* with its whole pixels, whether it is scalable and whether Skia draws it *)

NewFace(scalable, skia) ==
    [requested |-> 0, em |-> 0, ppem |-> 0, scalable |-> scalable, skia |-> skia]

NewProcess(faces) ==
    [faces |-> faces, claims |-> NoClaims, memo |-> NoMemo, per |-> 60, wr |-> WrUnknown,
     scaler |-> NoSize, claimed_face |-> NoFace, claimed_em |-> 0, claimed_px |-> NoSize]

\* FreeType sets no size below a pixel, and a font may ask for whole pixels
Settled(size, whole) ==
    LET em == Max({64, size})
        ppem == (em + 32) \div 64
    IN  [em |-> IF whole THEN 64 * ppem ELSE em, ppem |-> ppem]

RecordRequestedEmSize(s, f, size) ==
    IF f \in DOMAIN s.faces THEN [s EXCEPT !.faces[f].requested = size] ELSE s

Installed(s, f, size, whole) ==
    [s EXCEPT !.faces[f].em = Settled(size, whole).em, !.faces[f].ppem = Settled(size, whole).ppem]

\* The claim from WebRender goes ahead of FreeType, which may refuse.  When FreeType's own call to
\* FT_Request_Size is seen, that call has recorded what FreeType makes of the request, and nothing
\* else is done.  how is one of "refused", "nested" and "alone"
FT_Set_Char_Size(s, f, size, whole, how) ==
    LET asked == WebRenderInstanceSize(s.wr, size)
        ft_px == IF LessThanOnePixel(asked.px) THEN OnePixel ELSE asked.px
        claims == IF Positive(asked.px) /\ s.faces[f].scalable
                  THEN RecordClaimedSize(s.claims, f, asked.px, ft_px, TRUE)
                  ELSE s.claims
        claimed == [s EXCEPT !.wr = asked.wr, !.claims = claims]
        set == Installed(claimed, f, size, whole)
    IN  IF how = "refused" THEN claimed
        ELSE IF how = "nested" THEN RecordRequestedEmSize(set, f, Max({64, size}))
        ELSE [RecordRequestedEmSize(set, f, size) EXCEPT
                  !.claims = TouchClaimedSize(claims, f, size)]

FT_Set_Pixel_Sizes(s, f, pixels) ==
    RecordRequestedEmSize(Installed(s, f, 64 * pixels, TRUE), f, 64 * pixels)

\* a strike is chosen without a word to the interposer
FT_Select_Size(s, f, pixels) == Installed(s, f, 64 * pixels, TRUE)

\* before a font is measured, and once it has said at which size
CleartypeClaimSize(s, f, px) ==
    IF f \notin DOMAIN s.faces THEN s
    ELSE IF ~s.faces[f].scalable THEN s
    ELSE [s EXCEPT !.claims = RecordClaimedSize(@, f, px,
                                  IF LessThanOnePixel(px) THEN OnePixel ELSE px, TRUE)]

CleartypeClaimFace(s, f, ft_size) ==
    LET em == IF InRange(ft_size) THEN CharSize26_6(ft_size) ELSE 0
        px == IF em > 0 /\ s.faces[f].scalable THEN ft_size ELSE NoSize
    IN  IF f \notin DOMAIN s.faces THEN s
        ELSE [s EXCEPT !.claimed_face = f, !.claimed_em = em, !.claimed_px = px,
                       !.claims = IF Positive(px) THEN RecordClaimedSize(@, f, px, ft_size, FALSE)
                                  ELSE @]

CleartypeEndInitMetrics(s) ==
    [s EXCEPT !.claimed_face = NoFace, !.claimed_em = 0, !.claimed_px = NoSize]

\* the face table drops a face, and its claims with it
EraseFace(s, f) ==
    [s EXCEPT !.claims = ForgetClaimedSizes(@, f),
              !.faces = [g \in DOMAIN s.faces \ {f} |-> s.faces[g]]]

\* the request counts only while it is the size FreeType has
SizeNow(face) ==
    IF face.requested > 0 /\ (face.requested + 32) \div 64 = face.ppem
    THEN face.requested ELSE face.em

\* a whole app unit, or a reduction of one, or the size as it came
Reconstructed(s, em) ==
    LET exact == ExactEmSize(em, s.per)
        reduced == ReducedEmSize(s.memo, em, s.per)
    IN  IF Positive(exact) THEN [px |-> exact, memo |-> s.memo]
        ELSE [px |-> IF Positive(reduced.px) THEN reduced.px ELSE <<em, 1>>,
              memo |-> reduced.memo]

GetEmSize(s, f) ==
    LET face == s.faces[f]
        em == SizeNow(face)
        claimed == ClaimedSizeFor(s.claims, f, em)
        scaled == ScaledEmSize(s.claims, f, s.scaler, em)
    IN  IF Positive(claimed) THEN [px |-> claimed, memo |-> s.memo]
        ELSE IF face.skia /\ em = kSkiaPathSize THEN [px |-> <<em, 1>>, memo |-> s.memo]
        ELSE IF face.skia /\ Positive(scaled) THEN [px |-> scaled, memo |-> s.memo]
        ELSE Reconstructed(s, em)

\* for what InitMetrics is told, the claim of the running InitMetrics comes first
GetEmSizeClaimed(s, f) ==
    IF s.claimed_em = 0 THEN GetEmSize(s, f)
    ELSE IF Positive(s.claimed_px) THEN [px |-> s.claimed_px, memo |-> s.memo]
    ELSE Reconstructed(s, s.claimed_em)
===============================================================================
