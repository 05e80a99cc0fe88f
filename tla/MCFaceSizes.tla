------------------------------ MODULE MCFaceSizes ------------------------------
(***************************************************************************)
(* Sizes and short histories of claims for FaceSizes, and what its         *)
(* operators should come to, evaluated over them.                          *)
(***************************************************************************)
LOCAL INSTANCE Integers
LOCAL INSTANCE Sequences
LOCAL INSTANCE FiniteSets
LOCAL INSTANCE SequencesExt
LOCAL INSTANCE FiniteSetsExt
LOCAL INSTANCE TLC

\* two rows of two sizes; an instance of three floats
Sizes == INSTANCE FaceSizes WITH kClaimedFaces <- 2, kClaimedPerFace <- 2, kWrSlots <- 3

\* device pixels of 60 app units at 100 %, 48 at 125 %, 40 at 150 %, 30 at 200 %
FsRatios == {30, 40, 48, 60}

\* A size of whole app units is given back exactly, as long as a device pixel has no more of them
\* than of 64ths.
ASSUME WholeUnitsComeBack ==
    \A per \in 1 .. 64, n \in 1 .. 1000 :
        LET px == Sizes!AppUnits(n, per)
        IN  Sizes!ExactEmSize(Sizes!CharSize26_6(px), per) = px

\* Zoomed out, where units are finer than 64ths, one of the neighbours answers, and no size is
\* declined although none is known.
ASSUME FinerUnitsCollide ==
    \A per \in {80, 120} :
        LET back(n) == Sizes!ExactEmSize(Sizes!CharSize26_6(Sizes!AppUnits(n, per)), per)
        IN  /\ \A n \in 2 .. 1000 : back(n) \in { Sizes!AppUnits(m, per) : m \in n - 1 .. n + 1 }
            /\ \E n \in 2 .. 1000 : back(n) # Sizes!AppUnits(n, per)

----------------------------------------------------------------------------
(* Reduced sizes, of text between 5 and 50 CSS pixels *)

FsUnits == { 10 * n + (n % 10) : n \in 30 .. 300 }

FsScript(u, per) == Sizes!CharSize26_6(Sizes!SubSuperSize(u, per))
FsCapital(u, per) == Sizes!CharSize26_6(Sizes!SmallCapsSize(u, per))

\* another size of the kind that rounds alike; sizes grow with their units
FsScriptTwins(u, per) ==
    { v \in u - 3 .. u + 3 : v # u /\ FsScript(v, per) = FsScript(u, per) }
FsCapitalTwins(u, per) ==
    { v \in u - 3 .. u + 3 : v # u /\ FsCapital(v, per) = FsCapital(u, per) }

\* The search reaches every size it could have been: a script size is found unless another rounds
\* alike, and a small capital where besides no script size does.
ASSUME SearchIsWideEnough ==
    \A per \in FsRatios :
        LET scripts == { FsScript(u, per) : u \in 250 .. 3800 }
        IN  \A u \in FsUnits :
                /\ FsScriptTwins(u, per) = {} =>
                       Sizes!SearchReduced(FsScript(u, per), per) = Sizes!SubSuperSize(u, per)
                /\ FsCapitalTwins(u, per) = {} /\ FsCapital(u, per) \notin scripts =>
                       Sizes!SearchReduced(FsCapital(u, per), per) = Sizes!SmallCapsSize(u, per)

\* Whatever is found rounds to what FreeType was told.
ASSUME SearchRoundsBack ==
    \A per \in FsRatios, em \in { 7 * n : n \in 30 .. 300 } :
        LET px == Sizes!SearchReduced(em, per)
        IN  px # Sizes!NoSize => Sizes!CharSize26_6(px) = em

\* Two script sizes that disagree do not leave FreeType's own value: the superscript of text of 44
\* pixels is answered as a small capital.  Most, like that of 15 pixels, are taken for whole units
\* before any search; that of 16 is not.
ASSUME ScriptTakenForAnother ==
    /\ FsScriptTwins(2640, 60) # {}
    /\ \E v \in 1 .. 3000 :
           Sizes!SearchReduced(FsScript(2640, 60), 60) = Sizes!SmallCapsSize(v, 60)
    /\ \E v \in 1 .. 900 : Sizes!ExactEmSize(FsScript(900, 60), 60) = Sizes!AppUnits(v, 60)
    /\ Sizes!ExactEmSize(FsScript(960, 60), 60) = Sizes!NoSize
    /\ Sizes!SearchReduced(FsScript(960, 60), 60) = Sizes!SubSuperSize(960, 60)

\* The last answer stands although the units of a pixel changed: a window moved to a screen of 150 %
\* keeps the answer of 100 % for a size the thread asks about next.
ASSUME MemoOutlivesTheRatio ==
    \E u \in FsUnits :
        LET em == FsScript(u, 60)
            first == Sizes!ReducedEmSize(Sizes!NoMemo, em, 60)
        IN  Sizes!ReducedEmSize(first.memo, em, 40).px # Sizes!SearchReduced(em, 40)

\* A ratio of whole 1024ths is given back where the smaller axis has 1024 64ths, and where it has
\* less, one that stretches it alike.
ASSUME AspectsComeBack ==
    \A y \in {300, 700, 1023, 1024, 1100, 2500}, k \in 512 .. 2048 :
        LET x == (2 * y * k + 1024) \div 2048
            back == Sizes!SnapPixelAspect(x, y)
        IN  /\ y >= 1024 => back = k
            /\ back # 0 /\ (2 * y * back + 1024) \div 2048 = x

\* What Skia scaled is given back or declined, never taken for a neighbour; from 16 pixels up it is
\* always given back.
ASSUME ProductsComeBack ==
    \A n \in {240, 600, 959, 960, 1000, 1440}, k \in 512 .. 2500 :
        LET size == Sizes!AppUnits(n, 60)
            product == Sizes!Product(k, size)
            back == Sizes!ProductOfSize(size, Sizes!CharSize26_6(product))
        IN  back = product \/ (n < 960 /\ back = Sizes!NoSize)

----------------------------------------------------------------------------
(* Histories of the table: a claims three sizes, two of which are the      *)
(* same 64ths, and two other faces want rows                               *)

FsClaim(f, px, adjusted) == [op |-> "claim", face |-> f, px |-> px, adjusted |-> adjusted]
FsTouch(f, size) == [op |-> "touch", face |-> f, size |-> size]
FsForget(f) == [op |-> "forget", face |-> f]

FsNear == <<3361, 4>>       \* 840 64ths and a quarter
FsTableOps ==
    { FsClaim("a", <<3360, 4>>, TRUE), FsClaim("a", FsNear, FALSE), FsClaim("a", <<4096, 4>>, TRUE),
      FsClaim("a", <<5000, 4>>, TRUE), FsClaim("b", <<3360, 4>>, TRUE), FsClaim("c", FsNear, TRUE),
      FsForget("a"), FsForget("b"), FsTouch("a", 840) }

FsTable(claims, op) ==
    IF op.op = "claim" THEN Sizes!RecordClaimedSize(claims, op.face, op.px, op.px, op.adjusted)
    ELSE IF op.op = "touch" THEN Sizes!TouchClaimedSize(claims, op.face, op.size)
    ELSE Sizes!ForgetClaimedSizes(claims, op.face)

FsTableAfter(history) == FoldLeft(FsTable, Sizes!NoClaims, history)

\* where in a history the face was last forgotten, and its claims since
FsLife(history, f) ==
    LET forgets == { i \in DOMAIN history : history[i] = FsForget(f) }
        from == IF forgets = {} THEN 1 ELSE Max(forgets) + 1
    IN  { i \in from .. Len(history) : history[i].op = "claim" /\ history[i].face = f }

FsSize(op) == Sizes!CharSize26_6(op.px)

\* A face is never told another face's size, nor one from before its address was used again, nor one
\* that a later claim replaced; it is told what it claimed as long as rows and slots suffice; and the
\* rows belong to different faces and hold different sizes.
FsTableIsRight(history) ==
    LET claims == FsTableAfter(history)
        faces == { history[i].face : i \in { j \in DOMAIN history : history[j].op = "claim" } }
    IN  /\ \A f \in {"a", "b", "c"} :
               LET life == FsLife(history, f)
                   named == { FsSize(history[i]) : i \in life }
               IN  \A size \in {840, 1024, 1250} :
                       LET answer == Sizes!ClaimedSizeFor(claims, f, size)
                           of == { i \in life : FsSize(history[i]) = size }
                       IN  /\ answer # Sizes!NoSize => of # {} /\ answer = history[Max(of)].px
                           /\ of # {} /\ Cardinality(named) <= 2 /\ Cardinality(faces) <= 2
                                  => answer # Sizes!NoSize
        /\ \A i, j \in 1 .. 2 :
               LET row == claims.rows[i]
               IN  /\ i # j /\ row.face # Sizes!NoFace => row.face # claims.rows[j].face
                   /\ i # j /\ row.sizes[i].size # 0 => row.sizes[i].size # row.sizes[j].size
                   /\ row.face = Sizes!NoFace => row = Sizes!NoRow

ASSUME ClaimsAreKept ==
    \A history \in UNION { [1 .. n -> FsTableOps] : n \in {3, 4} } : FsTableIsRight(history)

\* The size measured at is the one claimed last of those that fonts named as their own, now or
\* before, for what the face is set to.
ASSUME AdjustedIsTheNewest ==
    \A history \in [1 .. 5 -> { FsClaim("a", px, own) : px \in {<<200, 4>>, <<256, 4>>}, own \in BOOLEAN }] :
        LET claim(claims, op) ==
                Sizes!RecordClaimedSize(claims, "a", op.px, <<64, 1>>, op.adjusted)
            own == { i \in DOMAIN history : \E j \in DOMAIN history :
                         history[j].adjusted /\ history[j].px = history[i].px }
        IN  Sizes!AdjustedSizeForFace(FoldLeft(claim, Sizes!NoClaims, history), "a", 64)
                = IF own = {} THEN Sizes!NoSize
                  ELSE IF history[Max(own)].px = <<256, 4>> THEN Sizes!NoSize
                  ELSE <<200, 4>>

\* Rows go in turn, not to the face that has gone longest without one: a row freed and taken again
\* is taken from the face that came last.  A row loses the size that came first, used or not.
ASSUME WhoLosesARow ==
    LET claims(fs) == [i \in DOMAIN fs |-> FsClaim(fs[i], <<4096, 4>>, TRUE)]
        turn == FsTableAfter(claims(<<"a", "b", "c">>) \o <<FsForget("b")>> \o claims(<<"d", "e">>))
        row == FsTableAfter(<< FsClaim("a", <<3360, 4>>, TRUE), FsClaim("a", <<4096, 4>>, TRUE),
                               FsTouch("a", 840), FsClaim("a", <<5000, 4>>, TRUE) >>)
    IN  /\ Sizes!FindClaimedFaceLocked(turn, "d") = 0
        /\ Sizes!FindClaimedFaceLocked(turn, "c") # 0
        /\ Sizes!ClaimedSizeFor(row, "a", 840) = Sizes!NoSize
        /\ Sizes!ClaimedSizeFor(row, "a", 1024) # Sizes!NoSize

----------------------------------------------------------------------------
(* Histories of a process: one face Gecko draws, one Skia draws, and a     *)
(* bitmap font; a superscript of two pixels, which rounds to 105 64ths as  *)
(* a whole unit does, a size of 107, half a pixel and one pixel            *)

Wide == INSTANCE FaceSizes WITH kClaimedFaces <- 3, kClaimedPerFace <- 3, kWrSlots <- 3

FsScript2 == Wide!SubSuperSize(120, 60)
FsPlain == Wide!AppUnits(100, 60)
FsHalf == <<32, 1>>
FsOne == <<64, 1>>

FsFaces == [f \in {"a", "s", "m"} |-> Wide!NewFace(f # "m", f = "s")]
FsStart ==
    Wide!FT_Set_Char_Size(
        Wide!FT_Set_Char_Size(
            Wide!FT_Set_Char_Size(Wide!NewProcess(FsFaces), "a", 107, FALSE, "alone"),
            "s", 168, FALSE, "nested"),
        "m", 107, TRUE, "alone")

\* FreeType is set to what a font claims, as Gecko rounds it
FsSet(s, f, px, how) ==
    Wide!FT_Set_Char_Size(s, f,
        IF Wide!LessThanOnePixel(px) THEN 64 ELSE Wide!CharSize26_6(px), FALSE, how)

FsOps == { "claim script", "claim plain", "claim half", "claim m", "claim s", "measure", "measured",
           "set script", "set plain", "set half", "set odd", "refused", "pixels", "strike", "draw",
           "instance", "again", "ratio" }

\* an instance whose second float is its size
FsNote(s, first, px) == Wide!CleartypeNoteWebRenderInstance(s, <<first, px, Wide!NoSize>>)

FsDo(s, op) ==
    CASE op = "claim script" -> Wide!CleartypeClaimSize(s, "a", FsScript2)
      [] op = "claim plain" -> Wide!CleartypeClaimSize(s, "a", FsPlain)
      [] op = "claim half" -> Wide!CleartypeClaimSize(s, "a", FsHalf)
      [] op = "claim m" -> Wide!CleartypeClaimSize(s, "m", FsPlain)
      [] op = "claim s" -> Wide!CleartypeClaimSize(s, "s", FsPlain)
      [] op = "measure" -> Wide!CleartypeClaimFace(s, "a", FsScript2)
      [] op = "measured" -> Wide!CleartypeEndInitMetrics(s)
      [] op = "set script" -> FsSet(s, "a", FsScript2, "nested")
      [] op = "set plain" -> FsSet(s, "a", FsPlain, "alone")
      [] op = "set half" -> FsSet(s, "a", FsHalf, "alone")
      [] op = "set odd" -> Wide!FT_Set_Char_Size(s, "a", 104, FALSE, "alone")
      [] op = "draw" -> [s EXCEPT !.memo = Wide!GetEmSize(s, "s").memo]
      [] op = "refused" -> FsSet(s, "a", FsScript2, "refused")
      [] op = "pixels" -> Wide!FT_Set_Pixel_Sizes(s, "a", 2)
      [] op = "strike" -> Wide!FT_Select_Size(s, "a", 4)
      [] op = "instance" -> FsNote(s, FsPlain, FsScript2)
      [] op = "again" -> FsSet([Wide!EraseFace(s, "a") EXCEPT !.faces = ("a" :> FsFaces["a"]) @@ @],
                               "a", FsScript2, "alone")
      [] op = "ratio" -> Wide!CleartypeSetAppUnitsPerDevPixel(s, 48)

FsAfter(s, ops) == FoldLeft(FsDo, s, ops)

\* However a size is found, it rounds to the one asked of FreeType, and is within half a pixel of what
\* FreeType made of it: a request that another size has replaced is not taken up again.
ASSUME EverySizeRoundsBack ==
    \A ops \in [1 .. 3 -> FsOps] :
        LET s == FsAfter(FsStart, ops)
        IN  \A f \in DOMAIN s.faces :
                LET size == Wide!CharSize26_6(Wide!GetEmSize(s, f).px)
                IN  /\ size = Wide!SizeNow(s.faces[f])
                    /\ size \in s.faces[f].em - 32 .. s.faces[f].em + 32

\* What a font named is what it is drawn at when FreeType is set to it, whatever came before and
\* whatever other fonts of the face claim and set in between, until the face is closed.
ASSUME FontsDrawAtTheirSize ==
    \A before \in FsOps, between \in [1 .. 2 -> FsOps \ {"again"}], how \in {"alone", "nested"} :
        LET claimed == FsDo(FsDo(FsStart, before), "claim script")
            s == FsSet(FsAfter(claimed, between), "a", FsScript2, how)
        IN  Wide!GetEmSize(s, "a").px = FsScript2

\* A face at an address used again inherits no claim: 105 64ths is a whole unit to it.
ASSUME ClaimsEndWithTheFace ==
    \A before \in [1 .. 2 -> FsOps] :
        LET s == FsDo(FsAfter(FsStart, before), "again")
        IN  s.wr.offset = 0 => Wide!GetEmSize(s, "a").px = Wide!Reconstructed(s, 105).px

\* While a font is measured its own size answers, whatever the face is set to for other fonts.
ASSUME MeasuredAtItsOwnSize ==
    \A before, after \in FsOps \ {"measured"}, last \in FsOps \ {"measured"} :
        LET s == FsAfter(FsDo(FsDo(FsStart, before), "measure"), <<after, last>>)
        IN  Wide!GetEmSizeClaimed(s, "a").px = FsScript2

\* A face whose fonts are half a pixel and one pixel large is set to one pixel for both, which marks
\* the larger claim as the last used: the half is measured at one pixel unless FreeType's own
\* request was seen.
ASSUME HalfAPixelLosesToOne ==
    LET claims(s) == Wide!CleartypeClaimSize(Wide!CleartypeClaimSize(s, "a", FsOne), "a", FsHalf)
        measured(how) ==
            Wide!AdjustedSizeForFace(FsSet(claims(FsStart), "a", FsHalf, how).claims, "a", 64)
        alone == FsDo(FsDo(FsStart, "claim half"), "set half")
    IN  /\ measured("nested") = FsHalf
        /\ measured("alone") = Wide!NoSize
        /\ Wide!AdjustedSizeForFace(alone.claims, "a", 64) = FsHalf

\* Skia's scalings of a claimed size are found among the claims, and the path size is its own.
ASSUME SkiaFindsItsSize ==
    LET claimed == FsDo(FsStart, "claim s")
        at(em) == Wide!GetEmSize(Wide!FT_Set_Char_Size(claimed, "s", em, FALSE, "alone"), "s").px
        big == Wide!CleartypeClaimSize(FsStart, "s", Wide!AppUnits(1000, 60))
        double == Wide!FT_Set_Char_Size(big, "s", 2133, FALSE, "alone")
    IN  /\ at(4096) = <<4096, 1>>
        /\ at(107) = FsPlain
        /\ Wide!GetEmSize(double, "s").px = Wide!Product(2048, Wide!AppUnits(1000, 60))

\* Of two claims with one product the later in the row says when that product was used: a claim used
\* between the two answers, although the product's other claim was used last.
ASSUME OneProductOfTwoClaims ==
    LET claim(c, px) == Wide!RecordClaimedSize(c, "s", px, px, TRUE)
        last(claims) == Wide!TouchClaimedSize(FoldLeft(claim, Wide!NoClaims, claims), "s", 1024)
        found(claims) == Wide!ScaledEmSize(last(claims), "s", Wide!NoSize, 2558)
    IN  /\ found(<< <<1024, 1>>, <<1536, 1>> >>) = Wide!Product(2558, <<1024, 1>>)
        /\ found(<< <<1024, 1>>, <<2048, 1>>, <<1536, 1>> >>) = Wide!Product(1705, <<1536, 1>>)

----------------------------------------------------------------------------
(* WebRender's instances: the second float is the size, the first happens  *)
(* to be a size too                                                        *)

FsGlyph(s, first, px) ==
    FsSet(FsNote(s, first, px), "a", px, "nested")

FsWrSizes == { <<107, 1>>, <<130, 1>>, <<161, 1>> }

\* As long as FreeType is set to the size of the instance no other float is taken for it, and once it
\* is known, a size is drawn at exactly as the instance has it; a transformed glyph, set to no size of
\* its instance, names none.
ASSUME InstanceIsRead ==
    \A glyphs \in [1 .. 5 -> FsWrSizes], first \in { <<130, 1>>, <<90, 1>> } :
        LET draw(s, px) == FsGlyph(s, first, px)
            s == FoldLeft(draw, FsStart, glyphs)
            changes == Cardinality({ i \in 1 .. 5 : i = 1 \/ glyphs[i] # glyphs[i - 1] })
            exact == <<1051, 10>>
            noted == FsNote(s, first, exact)
        IN  /\ s.wr.offset \in {0, 2}
            /\ s.wr.offset = 2 <=> changes >= 4 /\ \E i \in 1 .. 5 : glyphs[i] # first
            /\ s.wr.offset = 2 => Wide!GetEmSize(FsGlyph(s, first, exact), "a").px = exact
            /\ Wide!FT_Set_Char_Size(noted, "a", 200, FALSE, "nested").claims = s.claims

\* What has to change is the size, not to be new: two sizes in turn are enough.  And a glyph that is
\* transformed to a size another float holds leaves no candidate, for good.
ASSUME InstanceIsMissed ==
    LET turns == [i \in 1 .. 4 |-> IF i % 2 = 0 THEN <<107, 1>> ELSE <<161, 1>>]
        draw(s, px) == FsGlyph(s, <<90, 1>>, px)
        other == FsSet(FsNote(FsStart, <<90, 1>>, <<161, 1>>), "a", <<90, 1>>, "nested")
    IN  /\ FoldLeft(draw, FsStart, turns).wr.offset = 2
        /\ draw(other, <<161, 1>>).wr.candidates = {}
        /\ FoldLeft(draw, other, turns \o turns).wr.offset = 0

\* An instance names one glyph: the next size set on the thread is not answered from it.
ASSUME InstanceIsSpent ==
    \A ops \in [1 .. 2 -> FsOps \ {"instance"}] :
        LET s == FsAfter(FsDo(FsStart, "instance"), ops)
            sets == { "set script", "set plain", "set half", "set odd", "refused", "again" }
        IN  ops[1] \in sets \/ ops[2] \in sets
                => s.wr.instance = Wide!NoInstance
===============================================================================
