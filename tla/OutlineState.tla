----------------------------- MODULE OutlineState -----------------------------
(***************************************************************************)
(* The three side tables of cleartype/src/freetype.cpp that are keyed by   *)
(* the address of an outline: what the caller did to it since it was       *)
(* loaded (g_shifts), which glyph of which face it holds (g_owners), and   *)
(* the bitmap this library installed in its glyph slot (g_tracked).        *)
(* DirectWrite draws from the font file, so the tables are all it knows of *)
(* the caller's outline.                                                   *)
(*                                                                         *)
(* A glyph slot is freed with its face, an outline the caller owns when it *)
(* likes, and the allocator hands their addresses out again; the face's    *)
(* entries are dropped only when EraseFaceLocked runs, after the real      *)
(* FT_Done_Face has returned (module FaceTable).  Here the address of the  *)
(* face itself is not reused before that: what happens then is FaceTable's *)
(* subject.  Each face is driven by one thread, so a whole call on it is   *)
(* one step; the tables are shared by all of them.                         *)
(*                                                                         *)
(* The vectors erase by moving the last entry into the hole, which leaves  *)
(* them in no particular order: a full table drops any one entry.          *)
(***************************************************************************)
EXTENDS Naturals, FiniteSets

CONSTANTS
    Faces,        \* addresses of an FT_Face
    Outlines,     \* addresses of an FT_Outline: inside a glyph slot, or the caller's own
    Glyphs,       \* glyph indices
    Reshapes,     \* what a caller does to an outline in place
    Buffers,      \* addresses of the bitmaps InstallBitmap allocates
    ShiftsCap,    \* 64 in the code
    OwnersCap,    \* 128 in the code
    None          \* a null pointer, or no entry

\* FT_Set_Transform's delta, which a load applies to the outline it fills.
Delta == "delta"
\* The translate FreeType makes to put an outline on the grid as it renders it.
Grid == "grid"

ASSUME NoneAssumption ==
    None \notin Faces \cup Outlines \cup Glyphs \cup Buffers
ASSUME NoEntryAssumption ==
    /\ None \notin [face : Faces \cup {None}, reshapes : SUBSET Reshapes]
    /\ None \notin [face : Faces, glyph : Glyphs]
    /\ None \notin [face : Faces, buffer : Buffers]
ASSUME CapsAssumption == ShiftsCap \in Nat \ {0} /\ OwnersCap \in Nat \ {0}
ASSUME ReshapesAssumption == {Delta, Grid} \subseteq Reshapes

VARIABLES
    parity,     \* dwcft::ParityActive(), settled by the installation's layout
    lateHost,   \* external: the host's FreeType importer is found only later
    wanted,     \* InterposerWanted()
    slot,       \* external: the outline in a live face's glyph slot, None for no face
    bare,       \* external: outlines the caller owns
    loaded,     \* external: the glyph an outline in a slot holds as an outline
    reshape,    \* external: reshapes of a slot's outline since its load or last rasterization
    bitmap,     \* external: slot->bitmap.buffer where this library installed it
    known,      \* faces with an entry in g_faces
    closing,    \* faces FT_Done_Face has destroyed but EraseFaceLocked has not forgotten
    g_shifts,   \* pending outline state: outline -> [face, reshapes]
    g_owners,   \* outline -> [face, glyph]
    g_tracked,  \* glyph slot -> [face, buffer]
    heap,       \* buffers that are allocated
    dropped     \* history: outlines whose pending entry a full table dropped

host == <<parity, lateHost, slot, bare>>
tables == <<g_shifts, g_owners, g_tracked, heap>>
vars == <<parity, lateHost, wanted, slot, bare, loaded, reshape, bitmap, known, closing,
          g_shifts, g_owners, g_tracked, heap, dropped>>

-----------------------------------------------------------------------------
(* Types *)

Pending == [face : Faces \cup {None}, reshapes : SUBSET Reshapes]
Owner == [face : Faces, glyph : Glyphs]
Tracked == [face : Faces, buffer : Buffers]

TypeOK ==
    /\ parity \in BOOLEAN /\ lateHost \in BOOLEAN /\ wanted \in BOOLEAN
    /\ slot \in [Faces -> Outlines \cup {None}]
    /\ bare \in SUBSET Outlines
    /\ loaded \in [Outlines -> Glyphs \cup {None}]
    /\ reshape \in [Outlines -> SUBSET Reshapes]
    /\ bitmap \in [Outlines -> Buffers \cup {None}]
    /\ known \in SUBSET Faces /\ closing \in SUBSET Faces
    /\ g_shifts \in [Outlines -> Pending \cup {None}]
    /\ g_owners \in [Outlines -> Owner \cup {None}]
    /\ g_tracked \in [Outlines -> Tracked \cup {None}]
    /\ heap \in SUBSET Buffers
    /\ dropped \in SUBSET Outlines

-----------------------------------------------------------------------------
(* Tables *)

Occupied(table) == {o \in Outlines : table[o] # None}

\* The entries a full table may drop to make room for o: none if o has one.
Victims(table, o, cap) ==
    IF table[o] = None /\ Cardinality(Occupied(table)) >= cap
    THEN Occupied(table) ELSE {None}

Without(table, victim) == [o \in Outlines |-> IF o = victim THEN None ELSE table[o]]

\* What drops every entry that names a face: ForgetPendingOutlines,
\* ForgetOutlineOwners and FreeTrackedBuffersForFace.
ForgetFace(table, face) ==
    [o \in Outlines |-> IF table[o] # None /\ table[o].face = face THEN None ELSE table[o]]

Reshaped(o) == IF g_shifts[o] = None THEN {} ELSE g_shifts[o].reshapes

\* RecordShift, RecordSimulation, RecordMatrix and RecordUnrepresentable: find or
\* create the entry, and add to it.  A new entry names no face.
Record(table, o, reshapes) ==
    [table EXCEPT ![o] = IF @ = None THEN [face |-> None, reshapes |-> reshapes]
                         ELSE [face |-> @.face, reshapes |-> @.reshapes \cup reshapes]]

MutantNamesNoFace(table, o, face) == table

\* Says which face's slot o lives in, once a load or a render has shown it.
SetPendingOutlineFace(table, o, face) ==
    [table EXCEPT ![o] = IF @ = None \/ ~wanted THEN @
                         ELSE [face |-> face, reshapes |-> @.reshapes]]

\* (Mutants, here and below, are plausible bugs of the definition they precede.)
MutantDiscardsNothing(table, o) == table

\* DiscardOutlineState, and TakeOutlineState's removal.
Discard(table, o) == [table EXCEPT ![o] = None]

-----------------------------------------------------------------------------
(* The allocator and the host *)

SlotOutlines == {slot[f] : f \in Faces} \ {None}
Drawable(o) == o \in bare \/ loaded[o] # None
UsedOutlines == bare \cup SlotOutlines

Init ==
    /\ parity \in BOOLEAN /\ lateHost \in BOOLEAN
    /\ wanted = ~lateHost
    /\ slot = [f \in Faces |-> None]
    /\ bare = {}
    /\ loaded = [o \in Outlines |-> None]
    /\ reshape = [o \in Outlines |-> {}]
    /\ bitmap = [o \in Outlines |-> None]
    /\ known = {} /\ closing = {}
    /\ g_shifts = [o \in Outlines |-> None]
    /\ g_owners = [o \in Outlines |-> None]
    /\ g_tracked = [o \in Outlines |-> None]
    /\ heap = {} /\ dropped = {}

\* HostUsesThisFreeType finds an importer.
DetectHost ==
    /\ ~wanted
    /\ wanted' = TRUE
    /\ UNCHANGED <<host, loaded, reshape, bitmap, known, closing, tables, dropped>>

\* FT_New_Face and its kin: a face and its slot, at addresses nothing is at.
OpenFace(f, o) ==
    /\ slot[f] = None /\ f \notin closing
    /\ o \notin UsedOutlines
    /\ slot' = [slot EXCEPT ![f] = o]
    /\ known' = IF wanted THEN known \cup {f} ELSE known
    /\ loaded' = [loaded EXCEPT ![o] = None]
    /\ bitmap' = [bitmap EXCEPT ![o] = None]
    /\ UNCHANGED <<parity, lateHost, wanted, bare, reshape, closing, tables, dropped>>

\* FT_Done_Face of the last reference, its real half: the slot is freed.
CloseFace(f) ==
    /\ slot[f] # None
    /\ slot' = [slot EXCEPT ![f] = None]
    /\ loaded' = [loaded EXCEPT ![slot[f]] = None]
    /\ bitmap' = [bitmap EXCEPT ![slot[f]] = None]
    /\ reshape' = [reshape EXCEPT ![slot[f]] = {}]
    /\ closing' = closing \cup {f}
    /\ dropped' = dropped \ {slot[f]}
    /\ UNCHANGED <<parity, lateHost, wanted, bare, known, tables>>

BuffersOf(f) == {b \in Buffers : \E o \in Outlines : g_tracked[o] = [face |-> f, buffer |-> b]}

\* Its table half: nothing for a face that was not recorded.
EraseFaceLocked(f) ==
    /\ f \in closing
    /\ closing' = closing \ {f}
    /\ known' = known \ {f}
    /\ IF f \in known
       THEN /\ g_owners' = ForgetFace(g_owners, f)
            /\ g_tracked' = ForgetFace(g_tracked, f)
            /\ heap' = heap \ BuffersOf(f)
            /\ g_shifts' = ForgetFace(g_shifts, f)
       ELSE UNCHANGED tables
    /\ UNCHANGED <<host, wanted, loaded, reshape, bitmap, dropped>>

\* An outline of the caller's own: FT_Outline_New, FT_Glyph_Copy, or its memory.
NewOutline(o) ==
    /\ o \notin UsedOutlines
    /\ bare' = bare \cup {o}
    /\ UNCHANGED <<parity, lateHost, wanted, slot, reshape, loaded, bitmap, known, closing, tables,
                   dropped>>

\* FT_Outline_Done and FT_Done_Glyph.
DoneOutline(o) ==
    /\ o \in bare
    /\ bare' = bare \ {o}
    /\ g_shifts' = Discard(g_shifts, o)
    /\ UNCHANGED <<parity, lateHost, wanted, slot, loaded, reshape, bitmap, known, closing,
                   g_owners, g_tracked, heap, dropped>>

\* An outline over the caller's own arrays just goes away.
AbandonOutline(o) ==
    /\ o \in bare
    /\ bare' = bare \ {o}
    /\ UNCHANGED <<parity, lateHost, wanted, slot, loaded, reshape, bitmap, known, closing,
                   tables, dropped>>

-----------------------------------------------------------------------------
(* Loading, reshaping, rendering *)

MutantOwnersOnce(f, g, victim) ==
    /\ victim \in Victims(g_owners, slot[f], OwnersCap)
    /\ g_owners' = [Without(g_owners, victim) EXCEPT
                       ![slot[f]] = IF @ = None THEN [face |-> f, glyph |-> g] ELSE @]

MutantOwnsGlyphBefore(f, g, victim) ==
    /\ victim \in Victims(g_owners, slot[f], OwnersCap)
    /\ g_owners' = [Without(g_owners, victim) EXCEPT
                       ![slot[f]] = [face |-> f, glyph |-> loaded[slot[f]]]]

\* Gated on dwcft::Enabled() alone, so a face that was never recorded has owners.
RecordOutlineOwner(f, g, victim) ==
    /\ victim \in Victims(g_owners, slot[f], OwnersCap)
    /\ g_owners' = [Without(g_owners, victim) EXCEPT ![slot[f]] = [face |-> f, glyph |-> g]]

\* What one call may record in g_shifts for o, dropping an entry for it if need be.
Recorded(table, o, reshapes, victim) ==
    IF reshapes = {} THEN table ELSE Record(Without(table, victim), o, reshapes)
Dropping(table, o, reshapes, victim) ==
    victim \in IF reshapes = {} \/ ~wanted THEN {None} ELSE Victims(table, o, ShiftsCap)
Drop(victim) == dropped \cup ({victim} \cap SlotOutlines)

\* A face's delta reaches g_shifts by the translate FreeType makes in the load,
\* which names the face once the load is over, or, under parity, from the face's
\* entry after it (RecordTransformDelta), with no face.
InLoad(delta) == IF delta /\ wanted /\ ~parity THEN {Delta} ELSE {}
AfterLoad(f, delta) == IF delta /\ wanted /\ parity /\ f \in known THEN {Delta} ELSE {}
Applied(delta) == IF delta THEN {Delta} ELSE {}

\* The same of the translate FreeType makes as it renders, if it moves the outline.
InRender(moves) == IF moves /\ wanted /\ ~parity THEN {Grid} ELSE {}

\* FT_Load_Glyph and FT_Load_Char.
LoadGlyph(f, g, delta, victim) ==
    LET o == slot[f]
        emptied == Discard(g_shifts, o)
    IN  /\ o # None
        /\ Dropping(emptied, o, InLoad(delta) \cup AfterLoad(f, delta), victim)
        /\ g_shifts' = Recorded(
                           SetPendingOutlineFace(Recorded(emptied, o, InLoad(delta), victim), o, f),
                           o, AfterLoad(f, delta), victim)
        /\ loaded' = [loaded EXCEPT ![o] = g]
        /\ reshape' = [reshape EXCEPT ![o] = Applied(delta)]
        /\ bitmap' = [bitmap EXCEPT ![o] = None]
        /\ dropped' = Drop(victim) \ {o}
        /\ \E gone \in Outlines \cup {None} : RecordOutlineOwner(f, g, gone)
        /\ UNCHANGED <<host, wanted, known, closing, g_tracked, heap>>

\* A load that fails leaves no glyph, and the owner of the one before.
LoadFails(f) ==
    /\ slot[f] # None
    /\ g_shifts' = Discard(g_shifts, slot[f])
    /\ loaded' = [loaded EXCEPT ![slot[f]] = None]
    /\ bitmap' = [bitmap EXCEPT ![slot[f]] = None]
    /\ reshape' = [reshape EXCEPT ![slot[f]] = {}]
    /\ UNCHANGED <<host, wanted, known, closing, g_owners, g_tracked, heap, dropped>>

\* FT_Outline_Translate, FT_Outline_Embolden(XY), FT_GlyphSlot_Embolden and _Oblique,
\* FT_Outline_Transform: FreeType reshapes the outline, and the table says how.
Reshape(o, r, victim) ==
    /\ Drawable(o)
    /\ Dropping(g_shifts, o, {r}, victim)
    /\ g_shifts' = IF wanted THEN Recorded(g_shifts, o, {r}, victim) ELSE g_shifts
    /\ reshape' = IF o \in bare THEN reshape ELSE [reshape EXCEPT ![o] = @ \cup {r}]
    /\ dropped' = Drop(victim)
    /\ UNCHANGED <<host, wanted, loaded, bitmap, known, closing, g_owners, g_tracked, heap>>

MutantLeaksPrevious(o) == heap

\* The bitmap this library installed in the slot before is freed, and only then
\* is the new one tracked.
FreeTrackedBuffer(o) == IF g_tracked[o] = None THEN heap ELSE heap \ {g_tracked[o].buffer}
InstallBitmap(f, b) ==
    /\ b \notin heap
    /\ heap' = FreeTrackedBuffer(slot[f]) \cup {b}
    /\ g_tracked' = [g_tracked EXCEPT ![slot[f]] = [face |-> f, buffer |-> b]]
    /\ bitmap' = [bitmap EXCEPT ![slot[f]] = b]

\* The slot holds a bitmap and no outline once it is rendered.
Rendered(o) ==
    /\ loaded' = [loaded EXCEPT ![o] = None]
    /\ reshape' = [reshape EXCEPT ![o] = {}]

\* FT_Render_Glyph through RasterizeThroughDWrite, which takes the pending state
\* once the face is known.  Here it draws the glyph.
RenderGlyph(f) ==
    LET o == slot[f] IN
    /\ o # None /\ loaded[o] # None
    /\ f \in known /\ wanted
    /\ g_shifts' = Discard(g_shifts, o)
    /\ \E b \in Buffers : InstallBitmap(f, b)
    /\ Rendered(o)
    /\ UNCHANGED <<host, wanted, known, closing, g_owners, dropped>>

\* What the real FT_Render_Glyph adds to a table, its outline named after it.
FreeTypeRenders(table, f, moves, victim) ==
    SetPendingOutlineFace(Recorded(table, slot[f], InRender(moves), victim), slot[f], f)

\* FT_Render_Glyph where DirectWrite is asked and declines, the state taken all the
\* same, or, with asked FALSE, where it is not: another mode, another face.
FallThrough(f, asked, moves, victim) ==
    LET o == slot[f]
        left == IF asked THEN Discard(g_shifts, o) ELSE g_shifts
    IN  /\ o # None /\ loaded[o] # None
        /\ asked => f \in known /\ wanted
        /\ Dropping(left, o, InRender(moves), victim)
        /\ g_shifts' = FreeTypeRenders(left, f, moves, victim)
        /\ Rendered(o)
        /\ dropped' = Drop(victim)
        /\ UNCHANGED <<host, wanted, bitmap, known, closing, g_owners, g_tracked, heap>>

\* FT_Load_Glyph with FT_LOAD_RENDER: real FreeType calls FT_Render_Glyph back
\* before it returns, hence before the delta of a parity load is recorded.
TakenAtRender(delta) == InLoad(delta)

LoadRenderGlyph(f, g, delta, moves, victim) ==
    LET o == slot[f]
        emptied == Discard(g_shifts, o)
        taken == Discard(Without(emptied, victim), o)
    IN  /\ o # None /\ f \in known /\ wanted
        /\ Dropping(emptied, o, InLoad(delta) \cup InRender(moves) \cup AfterLoad(f, delta), victim)
        /\ g_shifts' = Recorded(FreeTypeRenders(taken, f, moves, None),
                                o, AfterLoad(f, delta), None)
        /\ \/ ~moves /\ \E b \in Buffers : InstallBitmap(f, b)
           \/ bitmap' = [bitmap EXCEPT ![o] = None] /\ UNCHANGED <<g_tracked, heap>>
        /\ Rendered(o)
        /\ dropped' = Drop(victim) \ {o}
        /\ \E gone \in Outlines \cup {None} : RecordOutlineOwner(f, g, gone)
        /\ UNCHANGED <<host, wanted, known, closing>>

\* FT_Outline_Get_Bitmap: the face comes from g_owners, and g_faces says whether
\* it is still one of ours.  The outline stays loaded, its reshape is spent.
GetBitmap(o) ==
    /\ Drawable(o)
    /\ wanted /\ g_owners[o] # None
    /\ g_owners[o].face \in known
    /\ g_shifts' = Discard(g_shifts, o)
    /\ reshape' = [reshape EXCEPT ![o] = {}]
    /\ UNCHANGED <<host, wanted, loaded, bitmap, known, closing, g_owners, g_tracked, heap,
                   dropped>>

-----------------------------------------------------------------------------
Next ==
    \/ DetectHost
    \/ \E f \in Faces :
          \/ \E o \in Outlines : OpenFace(f, o)
          \/ CloseFace(f)
          \/ EraseFaceLocked(f)
          \/ LoadFails(f)
          \/ RenderGlyph(f)
          \/ \E asked, moves \in BOOLEAN, victim \in Outlines \cup {None} :
                FallThrough(f, asked, moves, victim)
          \/ \E g \in Glyphs, delta, moves \in BOOLEAN, victim \in Outlines \cup {None} :
                \/ LoadGlyph(f, g, delta, victim)
                \/ LoadRenderGlyph(f, g, delta, moves, victim)
    \/ \E o \in Outlines :
          \/ NewOutline(o)
          \/ DoneOutline(o)
          \/ AbandonOutline(o)
          \/ GetBitmap(o)
          \/ \E r \in Reshapes \ {Delta, Grid}, victim \in Outlines \cup {None} :
                Reshape(o, r, victim)

Spec == Init /\ [][Next]_vars

-----------------------------------------------------------------------------
(* Properties *)

\* A render is asked for the reshapes the caller made since the load of the glyph
\* in the slot, never for one meant for another glyph or another outline at that
\* address, and for all of them unless a full table dropped some
\* (DiscardOutlineState in FT_Load_Glyph, TakeOutlineState, the Record functions).
RenderTakesReshape ==
    \A f \in known : slot[f] # None /\ loaded[slot[f]] # None =>
        /\ Reshaped(slot[f]) \subseteq reshape[slot[f]]
        /\ slot[f] \notin dropped => Reshaped(slot[f]) = reshape[slot[f]]

\* The glyph FT_Outline_Get_Bitmap has DirectWrite draw for an outline is the one
\* the outline holds: an owner never speaks for another outline at its address.
DrawsTheGlyphHeld ==
    \A o \in Outlines :
        Drawable(o) /\ g_owners[o] # None /\ g_owners[o].face \in known \ closing =>
            slot[g_owners[o].face] = o /\ loaded[o] = g_owners[o].glyph

\* So it is where the host's FreeType is found before the host opens a face.
EarlyHostDrawsTheGlyphHeld == ~lateHost => DrawsTheGlyphHeld

\* The bitmaps this library allocated are exactly those it can still free, one
\* at most for each face it knows, and a slot that shows one still owns it
\* (InstallBitmap, FreeTrackedBuffersForFace).
BitmapsAccountedFor ==
    /\ heap = {g_tracked[o].buffer : o \in Occupied(g_tracked)}
    /\ \A o \in Occupied(g_tracked) :
          LET f == g_tracked[o].face IN f \in known /\ (slot[f] = o \/ f \in closing)
    /\ \A o, p \in Occupied(g_tracked) : g_tracked[o].buffer = g_tracked[p].buffer => o = p
    /\ \A f \in Faces : slot[f] # None /\ bitmap[slot[f]] # None =>
          g_tracked[slot[f]] = [face |-> f, buffer |-> bitmap[slot[f]]]

\* What FreeType's own rendering left in the table names the face it rendered, so
\* it goes when the face does and the next slot at that address starts clean
\* (SetPendingOutlineFace after a render, ForgetPendingOutlines).
GridGoesWithFace ==
    ~lateHost => \A o \in Outlines : g_shifts[o] # None /\ Grid \in g_shifts[o].reshapes =>
        LET f == g_shifts[o].face IN f # None /\ (slot[f] = o \/ f \in closing)

\* FT_LOAD_RENDER draws the delta of FT_Set_Transform: "The one in-load translate
\* that does belong to the caller is FT_Set_Transform's delta, which FT_Load_Glyph
\* puts back from the face entry" (freetype.cpp:7511).
LoadRenderTakesDelta ==
    [][\A f \in Faces, g \in Glyphs, delta, moves \in BOOLEAN, v \in Outlines \cup {None} :
          LoadRenderGlyph(f, g, delta, moves, v) => TakenAtRender(delta) = Applied(delta)]_vars
=============================================================================
