------------------------- MODULE OutlineStateProofs -------------------------
(***************************************************************************)
(* Proofs about OutlineState, for any number of faces, outlines and        *)
(* buffers and any capacity of the tables.  What the properties rest on is *)
(* that a slot belongs to one live face, that an outline is loaded only in *)
(* a slot, and that a load renames whatever its slot's entry said.         *)
(***************************************************************************)
EXTENDS OutlineState, TLAPS

\* Faces and outlines as the host has them: every slot is one live face's, and
\* a face whose destruction is still to be noticed has none.
HostInv ==
    /\ \A f, h \in Faces : slot[f] # None /\ slot[f] = slot[h] => f = h
    /\ \A f \in Faces : slot[f] # None => slot[f] \notin bare /\ f \notin closing
    /\ \A f \in known : slot[f] # None \/ f \in closing
    /\ \A o \in Outlines : loaded[o] # None => \E f \in Faces : slot[f] = o
    /\ known # {} => wanted

\* A pending entry for a loaded outline names the face of the slot, or none yet.
PendingInv ==
    \A f \in Faces : slot[f] # None /\ loaded[slot[f]] # None /\ g_shifts[slot[f]] # None =>
        g_shifts[slot[f]].face \in {None, f}

\* Where the host is found early every live face is recorded, and an owner speaks for
\* a slot of its face and for what the slot last loaded, until the face is erased.
OwnerInv ==
    ~lateHost =>
        /\ wanted
        /\ \A f \in Faces : slot[f] # None \/ f \in closing => f \in known
        /\ \A o \in Outlines : g_owners[o] # None =>
              /\ g_owners[o].face \in known
              /\ \/ g_owners[o].face \in closing
                 \/ /\ slot[g_owners[o].face] = o
                    /\ loaded[o] \in {None, g_owners[o].glyph}

\* There a pending entry that names a face is for its slot, and what FreeType's own
\* rendering adds always names one.
GridInv ==
    ~lateHost => \A o \in Outlines : g_shifts[o] # None =>
        /\ g_shifts[o].face # None => slot[g_shifts[o].face] = o \/ g_shifts[o].face \in closing
        /\ Grid \in g_shifts[o].reshapes => g_shifts[o].face # None

IInv ==
    /\ TypeOK
    /\ HostInv
    /\ PendingInv
    /\ OwnerInv
    /\ GridInv
    /\ RenderTakesReshape
    /\ BitmapsAccountedFor

-----------------------------------------------------------------------------
(* Type correctness *)

LEMMA TableTypes ==
    ASSUME TypeOK, NEW o \in Outlines, NEW table \in [Outlines -> Pending \cup {None}],
           NEW victim \in Outlines \cup {None}, NEW reshapes \in SUBSET Reshapes
    PROVE  /\ Discard(table, o) \in [Outlines -> Pending \cup {None}]
           /\ Without(table, victim) \in [Outlines -> Pending \cup {None}]
           /\ Record(table, o, reshapes) \in [Outlines -> Pending \cup {None}]
           /\ Recorded(table, o, reshapes, victim) \in [Outlines -> Pending \cup {None}]
           /\ \A f \in Faces :
                 SetPendingOutlineFace(table, o, f) \in [Outlines -> Pending \cup {None}]
<1> USE DEF Pending
<1>1. Discard(table, o) \in [Outlines -> Pending \cup {None}]
  BY DEF Discard
<1>2. Without(table, victim) \in [Outlines -> Pending \cup {None}]
  BY DEF Without
<1>3. \A t2 \in [Outlines -> Pending \cup {None}] :
         Record(t2, o, reshapes) \in [Outlines -> Pending \cup {None}]
  BY DEF Record
<1>4. \A f \in Faces :
         SetPendingOutlineFace(table, o, f) \in [Outlines -> Pending \cup {None}]
  BY DEF SetPendingOutlineFace
<1> QED
  BY <1>1, <1>2, <1>3, <1>4 DEF Recorded

LEMMA DropType ==
    ASSUME TypeOK, NEW victim PROVE Drop(victim) \in SUBSET Outlines
BY DEF Drop, SlotOutlines, TypeOK

LEMMA OwnersType ==
    ASSUME TypeOK, NEW f \in Faces, slot[f] # None, NEW g \in Glyphs, NEW victim,
           RecordOutlineOwner(f, g, victim)
    PROVE  g_owners' \in [Outlines -> Owner \cup {None}]
BY DEF RecordOutlineOwner, Without, Owner, TypeOK

LEMMA DrawsType ==
    ASSUME TypeOK, NEW f \in Faces, slot[f] # None, NEW b \in Buffers, InstallBitmap(f, b)
    PROVE  /\ heap' \in SUBSET Buffers
           /\ g_tracked' \in [Outlines -> Tracked \cup {None}]
           /\ bitmap' \in [Outlines -> Buffers \cup {None}]
BY DEF InstallBitmap, FreeTrackedBuffer, Tracked, TypeOK

LEMMA LoadTypes ==
    ASSUME NEW f, NEW delta
    PROVE  /\ InLoad(delta) \in SUBSET Reshapes
           /\ AfterLoad(f, delta) \in SUBSET Reshapes
           /\ Applied(delta) \in SUBSET Reshapes
           /\ InRender(delta) \in SUBSET Reshapes
BY ReshapesAssumption DEF InLoad, AfterLoad, Applied, InRender

LEMMA FreeTypeRendersType ==
    ASSUME TypeOK, NEW f \in Faces, slot[f] # None, NEW moves \in BOOLEAN,
           NEW table \in [Outlines -> Pending \cup {None}], NEW victim \in Outlines \cup {None}
    PROVE  FreeTypeRenders(table, f, moves, victim) \in [Outlines -> Pending \cup {None}]
<1>1. slot[f] \in Outlines
  BY DEF TypeOK
<1>2. Recorded(table, slot[f], InRender(moves), victim) \in [Outlines -> Pending \cup {None}]
  BY <1>1, TableTypes, LoadTypes
<1> QED
  BY <1>1, <1>2, TableTypes DEF FreeTypeRenders

\* Every variable keeps its type (all operations on the three tables).
THEOREM TypeCorrect == Spec => []TypeOK
<1>1. Init => TypeOK
  BY DEF Init, TypeOK
<1>2. TypeOK /\ [Next]_vars => TypeOK'
  <2> SUFFICES ASSUME TypeOK, [Next]_vars PROVE TypeOK'
    OBVIOUS
  <2>1. CASE UNCHANGED vars
    BY <2>1 DEF vars, TypeOK
  <2>2. CASE DetectHost
    BY <2>2 DEF DetectHost, host, tables, TypeOK
  <2>3. ASSUME NEW f \in Faces, NEW o \in Outlines, OpenFace(f, o) PROVE TypeOK'
    BY <2>3 DEF OpenFace, tables, TypeOK
  <2>4. ASSUME NEW f \in Faces, CloseFace(f) PROVE TypeOK'
    BY <2>4 DEF CloseFace, tables, TypeOK
  <2>5. ASSUME NEW f \in Faces, EraseFaceLocked(f) PROVE TypeOK'
    BY <2>5 DEF EraseFaceLocked, ForgetFace, host, tables, TypeOK
  <2>6. ASSUME NEW f \in Faces, LoadFails(f) PROVE TypeOK'
    BY <2>6 DEF LoadFails, Discard, host, TypeOK
  <2>7. ASSUME NEW f \in Faces, RenderGlyph(f) PROVE TypeOK'
    BY <2>7, DrawsType DEF RenderGlyph, Rendered, Discard, host, TypeOK
  <2>8. ASSUME NEW f \in Faces, NEW asked \in BOOLEAN, NEW moves \in BOOLEAN,
               NEW victim \in Outlines \cup {None}, FallThrough(f, asked, moves, victim)
        PROVE  TypeOK'
    <3> DEFINE left == IF asked THEN Discard(g_shifts, slot[f]) ELSE g_shifts
    <3>1. slot[f] \in Outlines /\ slot[f] # None
      BY <2>8 DEF FallThrough, TypeOK
    <3>2. left \in [Outlines -> Pending \cup {None}]
      BY <3>1, TableTypes, LoadTypes DEF TypeOK
    <3> HIDE DEF left
    <3>3. FreeTypeRenders(left, f, moves, victim) \in [Outlines -> Pending \cup {None}]
      BY <3>1, <3>2, FreeTypeRendersType
    <3>4. g_shifts' \in [Outlines -> Pending \cup {None}]
      BY <2>8, <3>3 DEF FallThrough, left
    <3> QED
      BY <2>8, <3>1, <3>4, DropType DEF FallThrough, Rendered, host, TypeOK
  <2>9. ASSUME NEW f \in Faces, NEW g \in Glyphs, NEW delta \in BOOLEAN,
               NEW victim \in Outlines \cup {None}, LoadGlyph(f, g, delta, victim)
        PROVE  TypeOK'
    <3>1. slot[f] \in Outlines /\ slot[f] # None
      BY <2>9 DEF LoadGlyph, TypeOK
    <3>2. g_shifts' \in [Outlines -> Pending \cup {None}]
      <4> DEFINE o == slot[f]
                 t1 == Discard(g_shifts, o)
                 t2 == Recorded(t1, o, InLoad(delta), victim)
                 t3 == SetPendingOutlineFace(t2, o, f)
      <4>1. t1 \in [Outlines -> Pending \cup {None}]
        BY <3>1, TableTypes, LoadTypes DEF TypeOK
      <4>2. t2 \in [Outlines -> Pending \cup {None}]
        BY <3>1, <4>1, TableTypes, LoadTypes
      <4>3. t3 \in [Outlines -> Pending \cup {None}]
        BY <3>1, <4>2, TableTypes, LoadTypes
      <4> HIDE DEF t3
      <4>4. Recorded(t3, o, AfterLoad(f, delta), victim) \in [Outlines -> Pending \cup {None}]
        BY <3>1, <4>3, TableTypes, LoadTypes
      <4> QED
        BY <2>9, <4>4 DEF LoadGlyph, t3
    <3>3. g_owners' \in [Outlines -> Owner \cup {None}]
      BY <2>9, <3>1, OwnersType DEF LoadGlyph
    <3> QED
      BY <2>9, <3>1, <3>2, <3>3, LoadTypes, DropType DEF LoadGlyph, host, TypeOK
  <2>10. ASSUME NEW f \in Faces, NEW g \in Glyphs, NEW delta \in BOOLEAN, NEW moves \in BOOLEAN,
                NEW victim \in Outlines \cup {None}, LoadRenderGlyph(f, g, delta, moves, victim)
         PROVE  TypeOK'
    <3>1. slot[f] \in Outlines /\ slot[f] # None
      BY <2>10 DEF LoadRenderGlyph, TypeOK
    <3>2. g_shifts' \in [Outlines -> Pending \cup {None}]
      <4> DEFINE o == slot[f]
                 t1 == Discard(g_shifts, o)
                 t2 == Without(t1, victim)
                 t3 == Discard(t2, o)
                 t4 == FreeTypeRenders(t3, f, moves, None)
      <4>1. t1 \in [Outlines -> Pending \cup {None}]
        BY <3>1, TableTypes, LoadTypes DEF TypeOK
      <4>2. t2 \in [Outlines -> Pending \cup {None}]
        BY <3>1, <4>1, TableTypes, LoadTypes
      <4>3. t3 \in [Outlines -> Pending \cup {None}]
        BY <3>1, <4>2, TableTypes, LoadTypes
      <4> HIDE DEF t3
      <4>4. t4 \in [Outlines -> Pending \cup {None}]
        BY <3>1, <4>3, FreeTypeRendersType
      <4> HIDE DEF t4
      <4>5. Recorded(t4, o, AfterLoad(f, delta), None) \in [Outlines -> Pending \cup {None}]
        BY <3>1, <4>4, TableTypes, LoadTypes
      <4> QED
        BY <2>10, <4>5 DEF LoadRenderGlyph, t3, t4
    <3>3. g_owners' \in [Outlines -> Owner \cup {None}]
      BY <2>10, <3>1, OwnersType DEF LoadRenderGlyph
    <3>4. /\ heap' \in SUBSET Buffers
          /\ g_tracked' \in [Outlines -> Tracked \cup {None}]
          /\ bitmap' \in [Outlines -> Buffers \cup {None}]
      <4>1. CASE \E b \in Buffers : InstallBitmap(f, b)
        BY <3>1, <4>1, DrawsType
      <4>2. CASE bitmap' = [bitmap EXCEPT ![slot[f]] = None] /\ UNCHANGED <<g_tracked, heap>>
        BY <4>2 DEF TypeOK
      <4> QED
        BY <2>10, <4>1, <4>2 DEF LoadRenderGlyph
    <3>5. dropped' \in SUBSET Outlines
      BY <2>10, DropType DEF LoadRenderGlyph
    <3> QED
      BY <2>10, <3>1, <3>2, <3>3, <3>4, <3>5 DEF LoadRenderGlyph, Rendered, host, TypeOK
  <2>11. ASSUME NEW o \in Outlines, NewOutline(o) \/ DoneOutline(o) \/ AbandonOutline(o)
         PROVE  TypeOK'
    BY <2>11 DEF NewOutline, DoneOutline, AbandonOutline, Discard, tables, TypeOK
  <2>12. ASSUME NEW o \in Outlines, GetBitmap(o) PROVE TypeOK'
    BY <2>12 DEF GetBitmap, Discard, host, TypeOK
  <2>13. ASSUME NEW o \in Outlines, NEW r \in Reshapes, NEW victim \in Outlines \cup {None},
                Reshape(o, r, victim)
         PROVE  TypeOK'
    <3>1. Recorded(g_shifts, o, {r}, victim) \in [Outlines -> Pending \cup {None}]
      <4>1. {r} \in SUBSET Reshapes /\ g_shifts \in [Outlines -> Pending \cup {None}]
        BY DEF TypeOK
      <4> QED
        BY <4>1, TableTypes
    <3>2. g_shifts' \in [Outlines -> Pending \cup {None}]
      BY <2>13, <3>1 DEF Reshape, TypeOK
    <3>3. reshape' \in [Outlines -> SUBSET Reshapes]
      BY <2>13 DEF Reshape, TypeOK
    <3> QED
      BY <2>13, <3>2, <3>3, DropType DEF Reshape, host, TypeOK
  <2> QED
    BY <2>1, <2>2, <2>3, <2>4, <2>5, <2>6, <2>7, <2>8, <2>9, <2>10, <2>11, <2>12, <2>13
       DEF Next
<1> QED
  BY <1>1, <1>2, PTL DEF Spec

-----------------------------------------------------------------------------
(* The inductive invariant *)

\* Addresses are only handed out again once nothing live is at them.
LEMMA HostStep ==
    ASSUME IInv, TypeOK', [Next]_vars
    PROVE  HostInv'
<1> USE NoneAssumption DEF IInv, TypeOK, HostInv
<1>1. CASE UNCHANGED vars
  BY <1>1 DEF vars
<1>2. CASE DetectHost
  BY <1>2 DEF DetectHost, host, tables
<1>3. ASSUME NEW f \in Faces, NEW o \in Outlines, OpenFace(f, o)
      PROVE  HostInv'
  BY <1>3 DEF OpenFace, tables, UsedOutlines, SlotOutlines
<1>4. ASSUME NEW f \in Faces, CloseFace(f)
      PROVE  HostInv'
  BY <1>4 DEF CloseFace, tables
<1>5. ASSUME NEW f \in Faces, EraseFaceLocked(f)
      PROVE  HostInv'
  BY <1>5 DEF EraseFaceLocked, ForgetFace, host, tables
<1>6. ASSUME NEW f \in Faces, LoadFails(f)
      PROVE  HostInv'
  BY <1>6 DEF LoadFails, Discard, host
<1>7. ASSUME NEW f \in Faces, RenderGlyph(f)
      PROVE  HostInv'
  BY <1>7 DEF RenderGlyph, Rendered, Discard, host
<1>8. ASSUME NEW f \in Faces, NEW asked \in BOOLEAN, NEW moves \in BOOLEAN,
             NEW victim \in Outlines \cup {None}, FallThrough(f, asked, moves, victim)
      PROVE  HostInv'
  BY <1>8 DEF FallThrough, Rendered, host
<1>9. ASSUME NEW f \in Faces, NEW g \in Glyphs, NEW delta \in BOOLEAN,
             NEW victim \in Outlines \cup {None}, LoadGlyph(f, g, delta, victim)
      PROVE  HostInv'
  BY <1>9 DEF LoadGlyph, host
<1>10. ASSUME NEW f \in Faces, NEW g \in Glyphs, NEW delta \in BOOLEAN, NEW moves \in BOOLEAN,
              NEW victim \in Outlines \cup {None}, LoadRenderGlyph(f, g, delta, moves, victim)
       PROVE  HostInv'
  BY <1>10 DEF LoadRenderGlyph, Rendered, host
<1>11. ASSUME NEW o \in Outlines, NewOutline(o)
      PROVE  HostInv'
  BY <1>11 DEF NewOutline, UsedOutlines, SlotOutlines, tables
<1>12. ASSUME NEW o \in Outlines, DoneOutline(o) \/ AbandonOutline(o)
      PROVE  HostInv'
  BY <1>12 DEF DoneOutline, AbandonOutline, Discard, tables
<1>13. ASSUME NEW o \in Outlines, GetBitmap(o)
      PROVE  HostInv'
  BY <1>13 DEF GetBitmap, Drawable, Discard, host
<1>14. ASSUME NEW o \in Outlines, NEW r \in Reshapes, NEW victim \in Outlines \cup {None},
             Reshape(o, r, victim)
      PROVE  HostInv'
  BY <1>14 DEF Reshape, Drawable, host
<1> QED
  BY <1>1, <1>2, <1>3, <1>4, <1>5, <1>6, <1>7, <1>8, <1>9, <1>10, <1>11, <1>12, <1>13, <1>14
     DEF Next

-----------------------------------------------------------------------------
(* What a load and a reshape leave in g_shifts, entry by entry *)

Just(r) == {r}

\* The slot's entry after a load: none, or the face's delta alone.
Restarted(f, delta) ==
    \/ /\ InLoad(delta) = {} /\ AfterLoad(f, delta) = {}
       /\ g_shifts'[slot[f]] = None
    \/ /\ InLoad(delta) = Just(Delta) \/ AfterLoad(f, delta) = Just(Delta)
       /\ \E face \in {None, f} :
             g_shifts'[slot[f]] = [face |-> face, reshapes |-> Just(Delta)]

LEMMA DeltaCases ==
    ASSUME NEW f, NEW delta
    PROVE  \/ InLoad(delta) = {} /\ AfterLoad(f, delta) = {}
           \/ InLoad(delta) = Just(Delta) /\ AfterLoad(f, delta) = {} /\ wanted
           \/ InLoad(delta) = {} /\ AfterLoad(f, delta) = Just(Delta) /\ wanted
BY DEF InLoad, AfterLoad, Just

\* The slot's own entry starts afresh with the face's delta; another slot's is
\* either untouched or dropped.
LEMMA LoadShifts ==
    ASSUME TypeOK, NEW f \in Faces, NEW g \in Glyphs, NEW delta \in BOOLEAN,
           NEW victim \in Outlines \cup {None}, LoadGlyph(f, g, delta, victim)
    PROVE  /\ \A p \in Outlines \ {slot[f]} :
                 g_shifts'[p] = g_shifts[p] \/ (g_shifts'[p] = None /\ p = victim)
           /\ Restarted(f, delta)
<1> USE NoneAssumption DEF Restarted
<1> DEFINE o == slot[f]
           t1 == Discard(g_shifts, o)
<1>0. /\ o \in Outlines /\ o # None
      /\ g_shifts' = Recorded(
                         SetPendingOutlineFace(Recorded(t1, o, InLoad(delta), victim), o, f),
                         o, AfterLoad(f, delta), victim)
      /\ Dropping(t1, o, InLoad(delta) \cup AfterLoad(f, delta), victim)
  BY DEF LoadGlyph, TypeOK
<1>1. t1 \in [Outlines -> Pending \cup {None}] /\ t1 = [g_shifts EXCEPT ![o] = None]
  BY <1>0 DEF TypeOK, Discard
<1>2. t1[o] = None
  BY <1>0, <1>1 DEF TypeOK
<1>3. victim # o
  BY <1>0, <1>2 DEF Dropping, Victims, Occupied
<1>4. \A p \in Outlines \ {o} : t1[p] = g_shifts[p]
  BY <1>1 DEF TypeOK
<1> HIDE DEF t1
<1>5. CASE InLoad(delta) = {} /\ AfterLoad(f, delta) = {}
  <2>1. g_shifts' = SetPendingOutlineFace(t1, o, f)
    BY <1>0, <1>5 DEF Recorded
  <2>2. g_shifts' = t1
    BY <1>0, <1>1, <1>2, <2>1 DEF SetPendingOutlineFace
  <2> QED
    BY <1>2, <1>4, <1>5, <2>2
<1>6. CASE InLoad(delta) = Just(Delta) /\ AfterLoad(f, delta) = {} /\ wanted
  <2> DEFINE t2 == Recorded(t1, o, Just(Delta), victim)
  <2>1. g_shifts' = SetPendingOutlineFace(t2, o, f)
    BY <1>0, <1>6 DEF Recorded, Just
  <2>2. /\ t2[o] = [face |-> None, reshapes |-> Just(Delta)]
        /\ \A p \in Outlines \ {o} : t2[p] = IF p = victim THEN None ELSE t1[p]
    BY <1>0, <1>1, <1>2, <1>3 DEF Recorded, Record, Without, Just
  <2>3. t2 = [p \in Outlines |-> t2[p]]
    BY <1>1 DEF Recorded, Record, Without, Just
  <2> HIDE DEF t2
  <2>4. /\ g_shifts'[o] = [face |-> f, reshapes |-> Just(Delta)]
        /\ \A p \in Outlines \ {o} : g_shifts'[p] = t2[p]
    <3>1. t2[o] # None /\ wanted
      BY <1>6, <2>2, NoEntryAssumption, ReshapesAssumption DEF Just
    <3>2. g_shifts' = [t2 EXCEPT ![o] = [face |-> f, reshapes |-> t2[o].reshapes]]
      BY <2>1, <3>1 DEF SetPendingOutlineFace
    <3> QED
      BY <1>0, <2>2, <2>3, <3>2
  <2> QED
    BY <1>4, <1>6, <2>2, <2>4
<1>7. CASE InLoad(delta) = {} /\ AfterLoad(f, delta) = Just(Delta) /\ wanted
  <2>1. SetPendingOutlineFace(t1, o, f) = t1
    BY <1>0, <1>1, <1>2 DEF SetPendingOutlineFace
  <2>2. g_shifts' = Recorded(t1, o, Just(Delta), victim)
    BY <1>0, <1>7, <2>1 DEF Recorded, Just
  <2>3. /\ g_shifts'[o] = [face |-> None, reshapes |-> Just(Delta)]
        /\ \A p \in Outlines \ {o} : g_shifts'[p] = IF p = victim THEN None ELSE t1[p]
    BY <1>0, <1>1, <1>2, <1>3, <2>2 DEF Recorded, Record, Without, Just
  <2> QED
    BY <1>4, <1>7, <2>3
<1> QED
  BY <1>5, <1>6, <1>7, DeltaCases

LEMMA LoadedFace ==
    ASSUME TypeOK, NEW f \in Faces, NEW g \in Glyphs, NEW delta \in BOOLEAN,
           NEW victim \in Outlines \cup {None}, LoadGlyph(f, g, delta, victim)
    PROVE  g_shifts'[slot[f]] # None => g_shifts'[slot[f]].face \in {None, f}
<1>1. Restarted(f, delta)
  BY LoadShifts
<1> QED
  BY <1>1 DEF Restarted

LEMMA LoadedEntry ==
    ASSUME TypeOK, NEW f \in Faces, NEW g \in Glyphs, NEW delta \in BOOLEAN, Grid # Delta,
           NEW victim \in Outlines \cup {None}, LoadGlyph(f, g, delta, victim)
    PROVE  g_shifts'[slot[f]] # None =>
              /\ g_shifts'[slot[f]].face \in {None, f}
              /\ Grid \notin g_shifts'[slot[f]].reshapes
<1>1. Restarted(f, delta)
  BY LoadShifts
<1> QED
  BY <1>1 DEF Restarted, Just

LEMMA LoadedReshapes ==
    ASSUME TypeOK, NEW f \in known, NEW g \in Glyphs, NEW delta \in BOOLEAN, wanted,
           NEW victim \in Outlines \cup {None}, LoadGlyph(f, g, delta, victim)
    PROVE  Reshaped(slot[f])' = Applied(delta)
<1>1. f \in Faces /\ slot' = slot
  BY DEF TypeOK, LoadGlyph, host
<1>2. InLoad(delta) \cup AfterLoad(f, delta) = Applied(delta)
  BY DEF InLoad, AfterLoad, Applied, Just
<1>3. CASE InLoad(delta) = {} /\ AfterLoad(f, delta) = {} /\ g_shifts'[slot[f]] = None
  BY <1>1, <1>2, <1>3 DEF Reshaped
<1>4. ASSUME InLoad(delta) = Just(Delta) \/ AfterLoad(f, delta) = Just(Delta),
             NEW face \in {None, f},
             g_shifts'[slot[f]] = [face |-> face, reshapes |-> Just(Delta)]
      PROVE  Reshaped(slot[f])' = Applied(delta)
  <2>1. Applied(delta) = Just(Delta)
    BY <1>4 DEF InLoad, AfterLoad, Applied, Just
  <2>2. g_shifts'[slot[f]] # None
    BY <1>1, <1>4, NoEntryAssumption, ReshapesAssumption DEF Just
  <2> QED
    BY <1>1, <1>4, <2>1, <2>2 DEF Reshaped
<1>5. Restarted(f, delta)
  BY <1>1, LoadShifts
<1> QED
  BY <1>3, <1>4, <1>5 DEF Restarted

LEMMA LoadSpares ==
    ASSUME TypeOK, NEW f \in Faces, NEW g \in Glyphs, NEW delta \in BOOLEAN,
           NEW victim \in Outlines \cup {None}, LoadGlyph(f, g, delta, victim)
    PROVE  \A p \in Outlines \ {slot[f]} :
              g_shifts'[p] = g_shifts[p] \/ (g_shifts'[p] = None /\ p = victim)
BY LoadShifts

\* FreeType's rendering touches its own outline's entry, and leaves it named.
LEMMA RenderShifts ==
    ASSUME NEW f \in Faces, slot[f] \in Outlines, NEW moves \in BOOLEAN,
           NEW table \in [Outlines -> Pending \cup {None}], NEW victim \in Outlines \cup {None}
    PROVE  LET after == FreeTypeRenders(table, f, moves, victim) IN
           /\ \A p \in Outlines \ {slot[f]} :
                 after[p] = table[p] \/ (after[p] = None /\ p = victim)
           /\ wanted => after[slot[f]] = None \/ after[slot[f]].face = f
           /\ table[slot[f]] = None /\ InRender(moves) = {} => after[slot[f]] = None
<1> USE NoneAssumption
<1> DEFINE o == slot[f]
           t == Recorded(table, o, InRender(moves), victim)
<1>1. \A p \in Outlines \ {o} : t[p] = table[p] \/ (t[p] = None /\ p = victim)
  <2>1. CASE InRender(moves) = {}
    BY <2>1 DEF Recorded
  <2>2. CASE InRender(moves) # {}
    BY <2>2 DEF Recorded, Record, Without
  <2> QED
    BY <2>1, <2>2
<1>2. t = [p \in Outlines |-> t[p]]
  BY DEF Recorded, Record, Without
<1>3. InRender(moves) = {} => t = table
  BY DEF Recorded
<1> HIDE DEF t
<1>4. FreeTypeRenders(table, f, moves, victim) = SetPendingOutlineFace(t, o, f)
  BY DEF FreeTypeRenders, t
<1> QED
  BY <1>1, <1>2, <1>3, <1>4 DEF SetPendingOutlineFace

LEMMA FallThroughShifts ==
    ASSUME TypeOK, NEW f \in Faces, NEW asked \in BOOLEAN, NEW moves \in BOOLEAN,
           NEW victim \in Outlines \cup {None}, FallThrough(f, asked, moves, victim)
    PROVE  /\ \A p \in Outlines \ {slot[f]} :
                 g_shifts'[p] = g_shifts[p] \/ (g_shifts'[p] = None /\ p = victim)
           /\ wanted => g_shifts'[slot[f]] = None \/ g_shifts'[slot[f]].face = f
<1> USE NoneAssumption
<1> DEFINE left == IF asked THEN Discard(g_shifts, slot[f]) ELSE g_shifts
<1>1. slot[f] \in Outlines /\ g_shifts' = FreeTypeRenders(left, f, moves, victim)
  BY DEF FallThrough, TypeOK
<1>2. /\ left \in [Outlines -> Pending \cup {None}]
      /\ \A p \in Outlines \ {slot[f]} : left[p] = g_shifts[p]
  BY <1>1 DEF Discard, TypeOK
<1> HIDE DEF left
<1> QED
  BY <1>1, <1>2, RenderShifts

\* FT_LOAD_RENDER leaves what FreeType's rendering did, or the delta recorded after it.
LEMMA LoadRenderShifts ==
    ASSUME TypeOK, NEW f \in Faces, NEW g \in Glyphs, NEW delta \in BOOLEAN, NEW moves \in BOOLEAN,
           NEW victim \in Outlines \cup {None}, LoadRenderGlyph(f, g, delta, moves, victim)
    PROVE  /\ \A p \in Outlines \ {slot[f]} :
                 g_shifts'[p] = g_shifts[p] \/ (g_shifts'[p] = None /\ p = victim)
           /\ \/ g_shifts'[slot[f]] = None
              \/ g_shifts'[slot[f]].face = f
              \/ g_shifts'[slot[f]] = [face |-> None, reshapes |-> Just(Delta)]
<1> USE NoneAssumption
<1> DEFINE o == slot[f]
           t3 == Discard(Without(Discard(g_shifts, o), victim), o)
           t4 == FreeTypeRenders(t3, f, moves, None)
<1>1. /\ o \in Outlines /\ o # None /\ wanted
      /\ g_shifts' = Recorded(t4, o, AfterLoad(f, delta), None)
  BY DEF LoadRenderGlyph, TypeOK
<1>2. /\ t3 \in [Outlines -> Pending \cup {None}]
      /\ \A p \in Outlines \ {o} : t3[p] = IF p = victim THEN None ELSE g_shifts[p]
      /\ t3[o] = None
  BY <1>1 DEF TypeOK, Discard, Without
<1> HIDE DEF t3
<1>3. /\ \A p \in Outlines \ {o} : t4[p] = t3[p]
      /\ t4[o] = None \/ t4[o].face = f
      /\ InRender(moves) = {} => t4[o] = None
  BY <1>1, <1>2, RenderShifts
<1>4. t4 \in [Outlines -> Pending \cup {None}]
  BY <1>1, <1>2, FreeTypeRendersType
<1> HIDE DEF t4
<1>5. CASE AfterLoad(f, delta) = {}
  <2>1. g_shifts' = t4
    BY <1>1, <1>5 DEF Recorded
  <2> QED
    BY <1>1, <1>2, <1>3, <2>1
<1>6. CASE AfterLoad(f, delta) = Just(Delta)
  <2>1. t4[o] = None
    <3>1. InRender(moves) = {}
      BY <1>6 DEF AfterLoad, InRender, Just
    <3> QED
      BY <1>3, <3>1
  <2>2. /\ \A p \in Outlines \ {o} : Recorded(t4, o, Just(Delta), None)[p] = t4[p]
        /\ Recorded(t4, o, Just(Delta), None)[o] = [face |-> None, reshapes |-> Just(Delta)]
    BY <1>1, <1>4, <2>1 DEF Recorded, Record, Without, Just
  <2> QED
    BY <1>1, <1>2, <1>3, <1>6, <2>2
<1> QED
  BY <1>5, <1>6, DeltaCases

LEMMA LoadRenderSpares ==
    ASSUME TypeOK, NEW f \in Faces, NEW g \in Glyphs, NEW delta \in BOOLEAN, NEW moves \in BOOLEAN,
           NEW victim \in Outlines \cup {None}, LoadRenderGlyph(f, g, delta, moves, victim)
    PROVE  \A p \in Outlines \ {slot[f]} :
              g_shifts'[p] = g_shifts[p] \/ (g_shifts'[p] = None /\ p = victim)
BY LoadRenderShifts

LEMMA LoadRenderEntry ==
    ASSUME TypeOK, NEW f \in Faces, NEW g \in Glyphs, NEW delta \in BOOLEAN, NEW moves \in BOOLEAN,
           NEW victim \in Outlines \cup {None}, LoadRenderGlyph(f, g, delta, moves, victim)
    PROVE  \/ g_shifts'[slot[f]] = None
           \/ g_shifts'[slot[f]].face = f
           \/ g_shifts'[slot[f]].face = None /\ Grid \notin g_shifts'[slot[f]].reshapes
<1>1. Grid \notin Just(Delta)
  BY DEF Grid, Delta, Just
<1> QED
  BY <1>1, LoadRenderShifts

\* A reshape is added to the outline's entry, and to no other.
LEMMA ReshapeShifts ==
    ASSUME TypeOK, NEW o \in Outlines, NEW r \in Reshapes,
           NEW victim \in Outlines \cup {None}, Reshape(o, r, victim)
    PROVE  /\ \A p \in Outlines \ {o} :
                 g_shifts'[p] = g_shifts[p] \/ (g_shifts'[p] = None /\ p = victim)
           /\ ~wanted => g_shifts' = g_shifts
           /\ wanted /\ g_shifts[o] = None => g_shifts'[o] = [face |-> None, reshapes |-> Just(r)]
           /\ wanted /\ g_shifts[o] # None => g_shifts'[o] =
                 [face |-> g_shifts[o].face, reshapes |-> g_shifts[o].reshapes \cup Just(r)]
<1> USE NoneAssumption
<1>1. victim = o => g_shifts[o] = None
  BY DEF Reshape, Dropping, Victims, Occupied
<1>2. CASE ~wanted
  BY <1>2 DEF Reshape
<1>3. CASE wanted
  <2>1. g_shifts \in [Outlines -> Pending \cup {None}]
    BY DEF TypeOK
  <2>2. g_shifts' = Recorded(g_shifts, o, Just(r), victim)
    BY <1>3 DEF Reshape, Just
  <2> QED
    BY <1>1, <1>3, <2>1, <2>2 DEF Recorded, Record, Without, Just
<1> QED
  BY <1>2, <1>3

-----------------------------------------------------------------------------
(* The rest of the inductive invariant *)

\* An entry names the face a load found it in, or none yet.
LEMMA PendingStep ==
    ASSUME IInv, TypeOK', [Next]_vars
    PROVE  PendingInv'
<1> USE NoneAssumption DEF IInv, TypeOK, HostInv, PendingInv
<1>1. CASE UNCHANGED vars
  BY <1>1 DEF vars
<1>2. CASE DetectHost
  BY <1>2 DEF DetectHost, host, tables
<1>3. ASSUME NEW f \in Faces, NEW o \in Outlines, OpenFace(f, o)
      PROVE  PendingInv'
  BY <1>3 DEF OpenFace, tables, UsedOutlines, SlotOutlines
<1>4. ASSUME NEW f \in Faces, CloseFace(f)
      PROVE  PendingInv'
  BY <1>4 DEF CloseFace, tables
<1>5. ASSUME NEW f \in Faces, EraseFaceLocked(f)
      PROVE  PendingInv'
  BY <1>5 DEF EraseFaceLocked, ForgetFace, host, tables
<1>6. ASSUME NEW f \in Faces, LoadFails(f)
      PROVE  PendingInv'
  BY <1>6 DEF LoadFails, Discard, host
<1>7. ASSUME NEW f \in Faces, RenderGlyph(f)
      PROVE  PendingInv'
  BY <1>7 DEF RenderGlyph, Rendered, Discard, host
<1>8. ASSUME NEW f \in Faces, NEW asked \in BOOLEAN, NEW moves \in BOOLEAN,
             NEW victim \in Outlines \cup {None}, FallThrough(f, asked, moves, victim)
      PROVE  PendingInv'
  <2>1. /\ slot' = slot /\ \A p \in Outlines \ {slot[f]} : loaded'[p] = loaded[p]
        /\ slot[f] \in Outlines /\ loaded'[slot[f]] = None
    BY <1>8 DEF FallThrough, Rendered, host
  <2> QED
    BY <1>8, <2>1, FallThroughShifts
<1>9. ASSUME NEW f \in Faces, NEW g \in Glyphs, NEW delta \in BOOLEAN,
             NEW victim \in Outlines \cup {None}, LoadGlyph(f, g, delta, victim)
      PROVE  PendingInv'
  <2>1. /\ slot' = slot /\ \A p \in Outlines \ {slot[f]} : loaded'[p] = loaded[p]
        /\ slot[f] \in Outlines
    BY <1>9 DEF LoadGlyph, host
  <2> QED
    BY <1>9, <2>1, LoadSpares, LoadedFace
<1>10. ASSUME NEW f \in Faces, NEW g \in Glyphs, NEW delta \in BOOLEAN, NEW moves \in BOOLEAN,
              NEW victim \in Outlines \cup {None}, LoadRenderGlyph(f, g, delta, moves, victim)
       PROVE  PendingInv'
  <2>1. /\ slot' = slot /\ \A p \in Outlines \ {slot[f]} : loaded'[p] = loaded[p]
        /\ slot[f] \in Outlines /\ loaded'[slot[f]] = None
    BY <1>10 DEF LoadRenderGlyph, Rendered, host
  <2> QED
    BY <1>10, <2>1, LoadRenderSpares
<1>11. ASSUME NEW o \in Outlines, NewOutline(o)
       PROVE  PendingInv'
  BY <1>11 DEF NewOutline, UsedOutlines, SlotOutlines, tables
<1>12. ASSUME NEW o \in Outlines, DoneOutline(o) \/ AbandonOutline(o)
       PROVE  PendingInv'
  BY <1>12 DEF DoneOutline, AbandonOutline, Discard, tables
<1>13. ASSUME NEW o \in Outlines, GetBitmap(o)
       PROVE  PendingInv'
  BY <1>13 DEF GetBitmap, Drawable, Discard, host
<1>14. ASSUME NEW o \in Outlines, NEW r \in Reshapes, NEW victim \in Outlines \cup {None},
              Reshape(o, r, victim)
       PROVE  PendingInv'
  <2>1. slot' = slot /\ loaded' = loaded
    BY <1>14 DEF Reshape, host
  <2> QED
    BY <1>14, <2>1, ReshapeShifts DEF Pending
<1> QED
  BY <1>1, <1>2, <1>3, <1>4, <1>5, <1>6, <1>7, <1>8, <1>9, <1>10, <1>11, <1>12, <1>13, <1>14
     DEF Next

\* A load starts each glyph afresh; after it the table and the outline change
\* together, except for the entries a full table drops.
LEMMA ReshapeStep ==
    ASSUME IInv, TypeOK', [Next]_vars
    PROVE  RenderTakesReshape'
<1> USE NoneAssumption DEF IInv, TypeOK, HostInv, RenderTakesReshape, Reshaped
<1>1. CASE UNCHANGED vars
  BY <1>1 DEF vars
<1>2. CASE DetectHost
  BY <1>2 DEF DetectHost, host, tables
<1>3. ASSUME NEW f \in Faces, NEW o \in Outlines, OpenFace(f, o)
      PROVE  RenderTakesReshape'
  BY <1>3 DEF OpenFace, tables, UsedOutlines, SlotOutlines
<1>4. ASSUME NEW f \in Faces, CloseFace(f)
      PROVE  RenderTakesReshape'
  BY <1>4 DEF CloseFace, tables
<1>5. ASSUME NEW f \in Faces, EraseFaceLocked(f)
      PROVE  RenderTakesReshape'
  BY <1>5 DEF EraseFaceLocked, ForgetFace, host, tables, PendingInv
<1>6. ASSUME NEW f \in Faces, LoadFails(f)
      PROVE  RenderTakesReshape'
  BY <1>6 DEF LoadFails, Discard, host
<1>7. ASSUME NEW f \in Faces, RenderGlyph(f)
      PROVE  RenderTakesReshape'
  BY <1>7 DEF RenderGlyph, Rendered, Discard, host
<1>8. ASSUME NEW f \in Faces, NEW asked \in BOOLEAN, NEW moves \in BOOLEAN,
             NEW victim \in Outlines \cup {None}, FallThrough(f, asked, moves, victim)
      PROVE  RenderTakesReshape'
  <2>1. /\ slot' = slot /\ known' = known /\ slot[f] \in Outlines
        /\ \A p \in Outlines \ {slot[f]} : loaded'[p] = loaded[p] /\ reshape'[p] = reshape[p]
        /\ loaded'[slot[f]] = None
        /\ dropped' = Drop(victim)
    BY <1>8 DEF FallThrough, Rendered, host
  <2>2. ASSUME NEW h \in known, slot[h] # None, loaded[slot[h]] # None, slot[h] # slot[f]
        PROVE  /\ Reshaped(slot[h])' \subseteq reshape'[slot[h]]
               /\ slot[h] \notin dropped' => Reshaped(slot[h])' = reshape'[slot[h]]
    <3>1. slot[h] \in Outlines \ {slot[f]} /\ slot'[h] = slot[h]
      BY <2>1, <2>2
    <3>2. \/ g_shifts'[slot[h]] = g_shifts[slot[h]]
          \/ g_shifts'[slot[h]] = None /\ slot[h] = victim
      BY <1>8, <3>1, FallThroughShifts
    <3>3. slot[h] \notin dropped' => slot[h] \notin dropped /\ slot[h] # victim
      BY <2>1, <2>2, <3>1 DEF Drop, SlotOutlines
    <3> QED
      BY <2>1, <2>2, <3>1, <3>2, <3>3
  <2> QED
    BY <2>1, <2>2
<1>9. ASSUME NEW f \in Faces, NEW g \in Glyphs, NEW delta \in BOOLEAN,
             NEW victim \in Outlines \cup {None}, LoadGlyph(f, g, delta, victim)
      PROVE  RenderTakesReshape'
  <2>1. /\ slot' = slot /\ known' = known /\ slot[f] \in Outlines
        /\ \A p \in Outlines \ {slot[f]} : loaded'[p] = loaded[p] /\ reshape'[p] = reshape[p]
        /\ reshape'[slot[f]] = Applied(delta)
        /\ dropped' = Drop(victim) \ {slot[f]}
    BY <1>9 DEF LoadGlyph, host
  <2>2. f \in known => Reshaped(slot[f])' = reshape'[slot[f]]
    <3> HIDE DEF Reshaped
    <3> QED
      BY <1>9, <2>1, LoadedReshapes
  <2>4. ASSUME NEW h \in known, slot[h] # None, loaded[slot[h]] # None, slot[h] # slot[f]
        PROVE  /\ Reshaped(slot[h])' \subseteq reshape'[slot[h]]
               /\ slot[h] \notin dropped' => Reshaped(slot[h])' = reshape'[slot[h]]
    <3>1. slot[h] \in Outlines \ {slot[f]} /\ slot'[h] = slot[h]
      BY <2>1, <2>4
    <3>2. \/ g_shifts'[slot[h]] = g_shifts[slot[h]]
          \/ g_shifts'[slot[h]] = None /\ slot[h] = victim
      BY <1>9, <3>1, LoadSpares
    <3>3. slot[h] \notin dropped' => slot[h] \notin dropped /\ slot[h] # victim
      BY <2>1, <2>4, <3>1 DEF Drop, SlotOutlines
    <3> QED
      BY <2>1, <2>4, <3>1, <3>2, <3>3
  <2>5. \A h \in known : slot[h] # None /\ slot[h] = slot[f] => h = f
    OBVIOUS
  <2> SUFFICES ASSUME NEW h \in known, slot[h] # None, loaded'[slot[h]] # None
               PROVE  /\ Reshaped(slot[h])' \subseteq reshape'[slot[h]]
                      /\ slot[h] \notin dropped' => Reshaped(slot[h])' = reshape'[slot[h]]
    BY <2>1
  <2>6. CASE slot[h] = slot[f]
    <3> HIDE DEF Reshaped
    <3> QED
      BY <2>2, <2>5, <2>6
  <2>7. CASE slot[h] # slot[f]
    <3>1. slot[h] \in Outlines \ {slot[f]}
      BY <2>7
    <3> HIDE DEF Reshaped
    <3> QED
      BY <2>1, <2>4, <2>7, <3>1
  <2> QED
    BY <2>6, <2>7
<1>10. ASSUME NEW f \in Faces, NEW g \in Glyphs, NEW delta \in BOOLEAN, NEW moves \in BOOLEAN,
              NEW victim \in Outlines \cup {None}, LoadRenderGlyph(f, g, delta, moves, victim)
       PROVE  RenderTakesReshape'
  <2>1. /\ slot' = slot /\ known' = known /\ slot[f] \in Outlines
        /\ \A p \in Outlines \ {slot[f]} : loaded'[p] = loaded[p] /\ reshape'[p] = reshape[p]
        /\ loaded'[slot[f]] = None
        /\ dropped' = Drop(victim) \ {slot[f]}
    BY <1>10 DEF LoadRenderGlyph, Rendered, host
  <2>2. ASSUME NEW h \in known, slot[h] # None, loaded[slot[h]] # None, slot[h] # slot[f]
        PROVE  /\ Reshaped(slot[h])' \subseteq reshape'[slot[h]]
               /\ slot[h] \notin dropped' => Reshaped(slot[h])' = reshape'[slot[h]]
    <3>1. slot[h] \in Outlines \ {slot[f]} /\ slot'[h] = slot[h]
      BY <2>1, <2>2
    <3>2. \/ g_shifts'[slot[h]] = g_shifts[slot[h]]
          \/ g_shifts'[slot[h]] = None /\ slot[h] = victim
      BY <1>10, <3>1, LoadRenderSpares
    <3>3. slot[h] \notin dropped' => slot[h] \notin dropped /\ slot[h] # victim
      BY <2>1, <2>2, <3>1 DEF Drop, SlotOutlines
    <3> QED
      BY <2>1, <2>2, <3>1, <3>2, <3>3
  <2> QED
    BY <2>1, <2>2
<1>11. ASSUME NEW o \in Outlines, NewOutline(o)
       PROVE  RenderTakesReshape'
  BY <1>11 DEF NewOutline, UsedOutlines, SlotOutlines, tables
<1>12. ASSUME NEW o \in Outlines, DoneOutline(o) \/ AbandonOutline(o)
       PROVE  RenderTakesReshape'
  BY <1>12 DEF DoneOutline, AbandonOutline, Discard, tables
<1>13. ASSUME NEW o \in Outlines, GetBitmap(o)
       PROVE  RenderTakesReshape'
  BY <1>13 DEF GetBitmap, Drawable, Discard, host
<1>14. ASSUME NEW o \in Outlines, NEW r \in Reshapes, NEW victim \in Outlines \cup {None},
              Reshape(o, r, victim)
       PROVE  RenderTakesReshape'
  <2>1. slot' = slot /\ known' = known /\ loaded' = loaded /\ dropped' = Drop(victim)
    BY <1>14 DEF Reshape, host
  <2> SUFFICES ASSUME NEW h \in known, slot[h] # None, loaded[slot[h]] # None
               PROVE  /\ Reshaped(slot[h])' \subseteq reshape'[slot[h]]
                      /\ slot[h] \notin dropped' => Reshaped(slot[h])' = reshape'[slot[h]]
    BY <2>1
  <2>2. slot[h] \in Outlines /\ slot[h] \notin bare /\ wanted /\ slot'[h] = slot[h]
    BY <2>1
  <2>3. slot[h] \notin dropped' => slot[h] \notin dropped /\ slot[h] # victim
    BY <2>1, <2>2 DEF Drop, SlotOutlines
  <2>4. CASE slot[h] = o
    <3>1. reshape'[o] = reshape[o] \cup {r}
      BY <1>14, <2>2, <2>4 DEF Reshape
    <3>2. o \notin dropped' => o \notin dropped
      BY <2>1 DEF Drop
    <3>3. CASE g_shifts[o] = None
      <4>1. g_shifts'[o] = [face |-> None, reshapes |-> Just(r)] /\ g_shifts'[o] # None
        BY <1>14, <2>2, <3>3, ReshapeShifts, NoEntryAssumption DEF Just
      <4>2. slot'[h] = o /\ r \in reshape'[o] /\ (o \notin dropped => reshape[o] = {})
        BY <2>2, <2>4, <3>1, <3>3
      <4> QED
        BY <2>4, <3>1, <3>2, <4>1, <4>2 DEF Just
    <3>4. CASE g_shifts[o] # None
      <4>1. /\ g_shifts'[o] =
                  [face |-> g_shifts[o].face, reshapes |-> g_shifts[o].reshapes \cup Just(r)]
            /\ g_shifts'[o] # None
        BY <1>14, <2>2, <3>4, ReshapeShifts, NoEntryAssumption DEF Just, Pending
      <4>2. slot'[h] = o /\ (o \notin dropped => reshape[o] = g_shifts[o].reshapes)
            /\ g_shifts[o].reshapes \subseteq reshape[o]
        BY <2>2, <2>4, <3>4
      <4> QED
        BY <2>4, <3>1, <3>2, <4>1, <4>2 DEF Just
    <3> QED
      BY <3>3, <3>4
  <2>5. CASE slot[h] # o
    <3>1. reshape'[slot[h]] = reshape[slot[h]]
      BY <1>14, <2>2, <2>5 DEF Reshape
    <3>2. \/ g_shifts'[slot[h]] = g_shifts[slot[h]]
          \/ g_shifts'[slot[h]] = None /\ slot[h] = victim
      BY <1>14, <2>2, <2>5, ReshapeShifts
    <3> QED
      BY <2>2, <2>3, <3>1, <3>2
  <2> QED
    BY <2>4, <2>5
<1> QED
  BY <1>1, <1>2, <1>3, <1>4, <1>5, <1>6, <1>7, <1>8, <1>9, <1>10, <1>11, <1>12, <1>13, <1>14
     DEF Next

\* The parts of BitmapsAccountedFor a rendered bitmap disturbs.
LEMMA DrawsStep ==
    ASSUME IInv, TypeOK', NEW f \in known, slot[f] # None, NEW b \in Buffers,
           InstallBitmap(f, b),
           slot' = slot, known' = known, closing' = closing
    PROVE  BitmapsAccountedFor'
<1> USE NoneAssumption DEF IInv, TypeOK, HostInv, BitmapsAccountedFor, Occupied
<1>0. f \in Faces
  OBVIOUS
<1> DEFINE o == slot[f]
<1>1. /\ o \in Outlines /\ b \notin heap
      /\ heap' = FreeTrackedBuffer(o) \cup {b}
      /\ g_tracked' = [g_tracked EXCEPT ![o] = [face |-> f, buffer |-> b]]
      /\ bitmap' = [bitmap EXCEPT ![o] = b]
  BY DEF InstallBitmap
<1>2. [face |-> f, buffer |-> b] # None
  BY NoEntryAssumption
<1>3. /\ \A p \in Outlines \ {o} : g_tracked'[p] = g_tracked[p]
      /\ g_tracked'[o] = [face |-> f, buffer |-> b]
  BY <1>1
<1>4. \A p \in Outlines : g_tracked[p] # None => g_tracked[p].buffer \in heap
  OBVIOUS
<1>5. heap' = {g_tracked'[p].buffer : p \in Occupied(g_tracked)'}
  <2>1. \A c \in heap' : \E p \in Occupied(g_tracked)' : c = g_tracked'[p].buffer
    BY <1>1, <1>2, <1>3 DEF FreeTrackedBuffer
  <2>2. \A p \in Occupied(g_tracked)' : g_tracked'[p].buffer \in heap'
    BY <1>1, <1>2, <1>3, <1>4 DEF FreeTrackedBuffer
  <2> QED
    BY <2>1, <2>2
<1>6. \A p \in Occupied(g_tracked)' :
         /\ g_tracked'[p].face \in known
         /\ slot[g_tracked'[p].face] = p \/ g_tracked'[p].face \in closing
  BY <1>1, <1>3
<1>7. \A p, q \in Occupied(g_tracked)' :
         g_tracked'[p].buffer = g_tracked'[q].buffer => p = q
  BY <1>1, <1>3, <1>4
<1>8. \A h \in Faces : slot[h] # None /\ bitmap'[slot[h]] # None =>
         g_tracked'[slot[h]] = [face |-> h, buffer |-> bitmap'[slot[h]]]
  BY <1>1, <1>3
<1> HIDE DEF Occupied
<1> QED
  BY <1>5, <1>6, <1>7, <1>8

\* A buffer is allocated as it is tracked and freed as it is forgotten.
LEMMA BitmapStep ==
    ASSUME IInv, TypeOK', [Next]_vars
    PROVE  BitmapsAccountedFor'
<1> USE NoneAssumption DEF IInv, TypeOK, HostInv, BitmapsAccountedFor, Occupied
<1>1. CASE UNCHANGED vars
  BY <1>1 DEF vars
<1>2. CASE DetectHost
  BY <1>2 DEF DetectHost, host, tables
<1>3. ASSUME NEW f \in Faces, NEW o \in Outlines, OpenFace(f, o)
      PROVE  BitmapsAccountedFor'
  BY <1>3 DEF OpenFace, tables, UsedOutlines, SlotOutlines
<1>4. ASSUME NEW f \in Faces, CloseFace(f)
      PROVE  BitmapsAccountedFor'
  BY <1>4 DEF CloseFace, tables
<1>5. ASSUME NEW f \in Faces, EraseFaceLocked(f)
      PROVE  BitmapsAccountedFor'
  <2>1. CASE f \notin known
    BY <1>5, <2>1 DEF EraseFaceLocked, tables, host
  <2>2. CASE f \in known
    <3>1. /\ slot' = slot /\ bitmap' = bitmap /\ known' = known \ {f}
          /\ closing' = closing \ {f}
          /\ heap' = heap \ BuffersOf(f)
          /\ \A o \in Outlines : g_tracked'[o] =
                IF g_tracked[o] # None /\ g_tracked[o].face = f THEN None ELSE g_tracked[o]
      BY <1>5, <2>2 DEF EraseFaceLocked, ForgetFace, host
    <3>2. \A o \in Outlines : (g_tracked[o] # None /\ g_tracked[o].face = f) <=>
             \E b \in Buffers : g_tracked[o] = [face |-> f, buffer |-> b]
      <4>1. \A b \in Buffers : [face |-> f, buffer |-> b] # None
        BY NoEntryAssumption
      <4>2. \A o \in Outlines : g_tracked[o] # None => \E b \in Buffers :
               g_tracked[o] = [face |-> g_tracked[o].face, buffer |-> b]
        BY DEF Tracked
      <4> QED
        BY <4>1, <4>2
    <3>3. heap' = {g_tracked'[o].buffer : o \in Occupied(g_tracked)'}
      <4>1. \A c \in heap' : \E o \in Occupied(g_tracked)' : c = g_tracked'[o].buffer
        BY <3>1, <3>2 DEF BuffersOf, Tracked
      <4>2. \A o \in Occupied(g_tracked)' : g_tracked'[o].buffer \in heap'
        BY <3>1, <3>2 DEF BuffersOf, Tracked
      <4> QED
        BY <4>1, <4>2
    <3>4. \A o \in Occupied(g_tracked)' :
             /\ g_tracked'[o].face \in known'
             /\ slot[g_tracked'[o].face] = o \/ g_tracked'[o].face \in closing'
      BY <3>1
    <3>5. \A o, p \in Occupied(g_tracked)' :
             g_tracked'[o].buffer = g_tracked'[p].buffer => o = p
      BY <3>1
    <3>6. \A h \in Faces : slot[h] # None /\ bitmap[slot[h]] # None =>
             g_tracked'[slot[h]] = [face |-> h, buffer |-> bitmap[slot[h]]]
      BY <1>5, <3>1 DEF EraseFaceLocked
    <3> HIDE DEF Occupied
    <3> QED
      BY <3>1, <3>3, <3>4, <3>5, <3>6
  <2> QED
    BY <2>1, <2>2
<1>6. ASSUME NEW f \in Faces, LoadFails(f)
      PROVE  BitmapsAccountedFor'
  BY <1>6 DEF LoadFails, Discard, host
<1>7. ASSUME NEW f \in Faces, RenderGlyph(f)
      PROVE  BitmapsAccountedFor'
  BY <1>7, DrawsStep DEF RenderGlyph, host
<1>8. ASSUME NEW f \in Faces, NEW asked \in BOOLEAN, NEW moves \in BOOLEAN,
             NEW victim \in Outlines \cup {None}, FallThrough(f, asked, moves, victim)
      PROVE  BitmapsAccountedFor'
  BY <1>8 DEF FallThrough, Rendered, host
<1>9. ASSUME NEW f \in Faces, NEW g \in Glyphs, NEW delta \in BOOLEAN,
             NEW victim \in Outlines \cup {None}, LoadGlyph(f, g, delta, victim)
      PROVE  BitmapsAccountedFor'
  BY <1>9 DEF LoadGlyph, host
<1>10. ASSUME NEW f \in Faces, NEW g \in Glyphs, NEW delta \in BOOLEAN, NEW moves \in BOOLEAN,
              NEW victim \in Outlines \cup {None}, LoadRenderGlyph(f, g, delta, moves, victim)
       PROVE  BitmapsAccountedFor'
  <2>1. /\ f \in known /\ slot[f] # None
        /\ slot' = slot /\ known' = known /\ closing' = closing
    BY <1>10 DEF LoadRenderGlyph, host
  <2>2. CASE \E b \in Buffers : InstallBitmap(f, b)
    BY <2>1, <2>2, DrawsStep
  <2>3. CASE bitmap' = [bitmap EXCEPT ![slot[f]] = None] /\ UNCHANGED <<g_tracked, heap>>
    BY <2>1, <2>3
  <2> QED
    BY <1>10, <2>2, <2>3 DEF LoadRenderGlyph
<1>11. ASSUME NEW o \in Outlines, NewOutline(o)
       PROVE  BitmapsAccountedFor'
  BY <1>11 DEF NewOutline, UsedOutlines, SlotOutlines, tables
<1>12. ASSUME NEW o \in Outlines, DoneOutline(o) \/ AbandonOutline(o)
       PROVE  BitmapsAccountedFor'
  BY <1>12 DEF DoneOutline, AbandonOutline, Discard, tables
<1>13. ASSUME NEW o \in Outlines, GetBitmap(o)
       PROVE  BitmapsAccountedFor'
  BY <1>13 DEF GetBitmap, Drawable, Discard, host
<1>14. ASSUME NEW o \in Outlines, NEW r \in Reshapes, NEW victim \in Outlines \cup {None},
              Reshape(o, r, victim)
       PROVE  BitmapsAccountedFor'
  BY <1>14 DEF Reshape, Drawable, host
<1> QED
  BY <1>1, <1>2, <1>3, <1>4, <1>5, <1>6, <1>7, <1>8, <1>9, <1>10, <1>11, <1>12, <1>13, <1>14
     DEF Next

\* After a load the slot's owner is the face and the glyph just loaded; another
\* outline's is either untouched or dropped.
LEMMA OwnedBy ==
    ASSUME TypeOK, NEW f \in Faces, slot[f] # None, NEW g \in Glyphs,
           \E victim \in Outlines \cup {None} : RecordOutlineOwner(f, g, victim)
    PROVE  /\ g_owners'[slot[f]] = [face |-> f, glyph |-> g]
           /\ \A p \in Outlines \ {slot[f]} : g_owners'[p] \in {None, g_owners[p]}
BY DEF RecordOutlineOwner, Without, TypeOK

\* A face is recorded all its life, so its owners go with it and each load renames
\* its slot's.
LEMMA OwnerStep ==
    ASSUME IInv, TypeOK', [Next]_vars
    PROVE  OwnerInv'
<1> USE NoneAssumption DEF IInv, TypeOK, HostInv, OwnerInv
<1>1. CASE UNCHANGED vars
  BY <1>1 DEF vars
<1>2. CASE DetectHost
  BY <1>2 DEF DetectHost, host, tables
<1>3. ASSUME NEW f \in Faces, NEW o \in Outlines, OpenFace(f, o)
      PROVE  OwnerInv'
  BY <1>3 DEF OpenFace, tables, UsedOutlines, SlotOutlines
<1>4. ASSUME NEW f \in Faces, CloseFace(f)
      PROVE  OwnerInv'
  BY <1>4 DEF CloseFace, tables
<1>5. ASSUME NEW f \in Faces, EraseFaceLocked(f)
      PROVE  OwnerInv'
  BY <1>5 DEF EraseFaceLocked, ForgetFace, host, tables
<1>6. ASSUME NEW f \in Faces, LoadFails(f)
      PROVE  OwnerInv'
  BY <1>6 DEF LoadFails, Discard, host
<1>7. ASSUME NEW f \in Faces, RenderGlyph(f)
      PROVE  OwnerInv'
  BY <1>7 DEF RenderGlyph, Rendered, Discard, host
<1>8. ASSUME NEW f \in Faces, NEW asked \in BOOLEAN, NEW moves \in BOOLEAN,
             NEW victim \in Outlines \cup {None}, FallThrough(f, asked, moves, victim)
      PROVE  OwnerInv'
  BY <1>8 DEF FallThrough, Rendered, host
<1>9. ASSUME NEW f \in Faces, NEW g \in Glyphs, NEW delta \in BOOLEAN,
             NEW victim \in Outlines \cup {None}, LoadGlyph(f, g, delta, victim)
      PROVE  OwnerInv'
  <2>1. /\ slot' = slot /\ known' = known /\ closing' = closing /\ wanted' = wanted
        /\ lateHost' = lateHost /\ slot[f] # None /\ slot[f] \in Outlines
        /\ \A p \in Outlines \ {slot[f]} : loaded'[p] = loaded[p]
        /\ loaded'[slot[f]] = g
    BY <1>9 DEF LoadGlyph, host
  <2>2. \E gone \in Outlines \cup {None} : RecordOutlineOwner(f, g, gone)
    BY <1>9 DEF LoadGlyph
  <2>3. /\ g_owners'[slot[f]] = [face |-> f, glyph |-> g]
        /\ \A p \in Outlines \ {slot[f]} : g_owners'[p] \in {None, g_owners[p]}
    BY <2>1, <2>2, OwnedBy
  <2> QED
    BY <2>1, <2>3
<1>10. ASSUME NEW f \in Faces, NEW g \in Glyphs, NEW delta \in BOOLEAN, NEW moves \in BOOLEAN,
              NEW victim \in Outlines \cup {None}, LoadRenderGlyph(f, g, delta, moves, victim)
       PROVE  OwnerInv'
  <2>1. /\ slot' = slot /\ known' = known /\ closing' = closing /\ wanted' = wanted
        /\ lateHost' = lateHost /\ slot[f] # None /\ slot[f] \in Outlines
        /\ \A p \in Outlines \ {slot[f]} : loaded'[p] = loaded[p]
        /\ loaded'[slot[f]] = None
    BY <1>10 DEF LoadRenderGlyph, Rendered, host
  <2>2. \E gone \in Outlines \cup {None} : RecordOutlineOwner(f, g, gone)
    BY <1>10 DEF LoadRenderGlyph
  <2>3. /\ g_owners'[slot[f]] = [face |-> f, glyph |-> g]
        /\ \A p \in Outlines \ {slot[f]} : g_owners'[p] \in {None, g_owners[p]}
    BY <2>1, <2>2, OwnedBy
  <2> QED
    BY <2>1, <2>3
<1>11. ASSUME NEW o \in Outlines, NewOutline(o)
       PROVE  OwnerInv'
  BY <1>11 DEF NewOutline, UsedOutlines, SlotOutlines, tables
<1>12. ASSUME NEW o \in Outlines, DoneOutline(o) \/ AbandonOutline(o)
       PROVE  OwnerInv'
  BY <1>12 DEF DoneOutline, AbandonOutline, Discard, tables
<1>13. ASSUME NEW o \in Outlines, GetBitmap(o)
       PROVE  OwnerInv'
  BY <1>13 DEF GetBitmap, Drawable, Discard, host
<1>14. ASSUME NEW o \in Outlines, NEW r \in Reshapes, NEW victim \in Outlines \cup {None},
              Reshape(o, r, victim)
       PROVE  OwnerInv'
  BY <1>14 DEF Reshape, Drawable, host
<1> QED
  BY <1>1, <1>2, <1>3, <1>4, <1>5, <1>6, <1>7, <1>8, <1>9, <1>10, <1>11, <1>12, <1>13, <1>14
     DEF Next


\* A named entry goes with its face.
LEMMA GridStep ==
    ASSUME IInv, TypeOK', [Next]_vars
    PROVE  GridInv'
<1> USE NoneAssumption DEF IInv, TypeOK, HostInv, OwnerInv, GridInv
<1>1. CASE UNCHANGED vars
  BY <1>1 DEF vars
<1>2. CASE DetectHost
  BY <1>2 DEF DetectHost, host, tables
<1>3. ASSUME NEW f \in Faces, NEW o \in Outlines, OpenFace(f, o)
      PROVE  GridInv'
  BY <1>3 DEF OpenFace, tables, UsedOutlines, SlotOutlines
<1>4. ASSUME NEW f \in Faces, CloseFace(f)
      PROVE  GridInv'
  BY <1>4 DEF CloseFace, tables
<1>5. ASSUME NEW f \in Faces, EraseFaceLocked(f)
      PROVE  GridInv'
  BY <1>5 DEF EraseFaceLocked, ForgetFace, host, tables
<1>6. ASSUME NEW f \in Faces, LoadFails(f)
      PROVE  GridInv'
  BY <1>6 DEF LoadFails, Discard, host
<1>7. ASSUME NEW f \in Faces, RenderGlyph(f)
      PROVE  GridInv'
  BY <1>7 DEF RenderGlyph, Rendered, Discard, host
<1>8. ASSUME NEW f \in Faces, NEW asked \in BOOLEAN, NEW moves \in BOOLEAN,
             NEW victim \in Outlines \cup {None}, FallThrough(f, asked, moves, victim)
      PROVE  GridInv'
  <2>1. /\ slot' = slot /\ closing' = closing /\ lateHost' = lateHost
        /\ slot[f] # None /\ slot[f] \in Outlines
    BY <1>8 DEF FallThrough, host
  <2>2. ~lateHost => wanted
    OBVIOUS
  <2> QED
    BY <1>8, <2>1, <2>2, FallThroughShifts
<1>9. ASSUME NEW f \in Faces, NEW g \in Glyphs, NEW delta \in BOOLEAN,
             NEW victim \in Outlines \cup {None}, LoadGlyph(f, g, delta, victim)
      PROVE  GridInv'
  <2>1. /\ slot' = slot /\ closing' = closing /\ lateHost' = lateHost
        /\ slot[f] # None /\ slot[f] \in Outlines
    BY <1>9 DEF LoadGlyph, host
  <2>2. Grid # Delta
    BY DEF Grid, Delta
  <2>3. g_shifts'[slot[f]] # None =>
           /\ g_shifts'[slot[f]].face \in {None, f}
           /\ Grid \notin g_shifts'[slot[f]].reshapes
    BY <1>9, <2>2, LoadedEntry
  <2> QED
    BY <1>9, <2>1, <2>3, LoadSpares
<1>10. ASSUME NEW f \in Faces, NEW g \in Glyphs, NEW delta \in BOOLEAN, NEW moves \in BOOLEAN,
              NEW victim \in Outlines \cup {None}, LoadRenderGlyph(f, g, delta, moves, victim)
       PROVE  GridInv'
  <2>1. /\ slot' = slot /\ closing' = closing /\ lateHost' = lateHost
        /\ slot[f] # None /\ slot[f] \in Outlines
    BY <1>10 DEF LoadRenderGlyph, host
  <2>2. \/ g_shifts'[slot[f]] = None
        \/ g_shifts'[slot[f]].face = f
        \/ g_shifts'[slot[f]].face = None /\ Grid \notin g_shifts'[slot[f]].reshapes
    BY <1>10, LoadRenderEntry
  <2>3. \A p \in Outlines \ {slot[f]} : g_shifts'[p] = g_shifts[p] \/ g_shifts'[p] = None
    BY <1>10, LoadRenderSpares
  <2> QED
    BY <2>1, <2>2, <2>3
<1>11. ASSUME NEW o \in Outlines, NewOutline(o)
       PROVE  GridInv'
  BY <1>11 DEF NewOutline, UsedOutlines, SlotOutlines, tables
<1>12. ASSUME NEW o \in Outlines, DoneOutline(o) \/ AbandonOutline(o)
       PROVE  GridInv'
  BY <1>12 DEF DoneOutline, AbandonOutline, Discard, tables
<1>13. ASSUME NEW o \in Outlines, GetBitmap(o)
       PROVE  GridInv'
  BY <1>13 DEF GetBitmap, Drawable, Discard, host
<1>14. ASSUME NEW o \in Outlines, NEW r \in Reshapes \ {Delta, Grid},
              NEW victim \in Outlines \cup {None}, Reshape(o, r, victim)
       PROVE  GridInv'
  <2>1. slot' = slot /\ closing' = closing /\ lateHost' = lateHost
    BY <1>14 DEF Reshape, host
  <2>2. Grid \notin Just(r)
    BY DEF Just
  <2> QED
    BY <1>14, <2>1, <2>2, ReshapeShifts, NoEntryAssumption DEF Just, Pending
<1> QED
  BY <1>1, <1>2, <1>3, <1>4, <1>5, <1>6, <1>7, <1>8, <1>9, <1>10, <1>11, <1>12, <1>13, <1>14
     DEF Next

-----------------------------------------------------------------------------
(* The theorems *)

LEMMA Inductive == Spec => []IInv
<1>1. Init => IInv
  <2> SUFFICES ASSUME Init PROVE IInv
    OBVIOUS
  <2>1. HostInv /\ PendingInv /\ OwnerInv /\ GridInv /\ RenderTakesReshape
    BY DEF Init, HostInv, PendingInv, OwnerInv, GridInv, RenderTakesReshape
  <2>2. BitmapsAccountedFor
    BY DEF Init, BitmapsAccountedFor, Occupied
  <2>3. TypeOK
    BY DEF Init, TypeOK
  <2> QED
    BY <2>1, <2>2, <2>3 DEF IInv
<1>2. IInv /\ TypeOK' /\ [Next]_vars => IInv'
  BY HostStep, PendingStep, ReshapeStep, BitmapStep, OwnerStep, GridStep DEF IInv
<1> QED
  BY <1>1, <1>2, TypeCorrect, PTL DEF Spec

\* A render is asked for the reshapes of the glyph in its slot and for no other's
\* (DiscardOutlineState, TakeOutlineState, SetPendingOutlineFace).
THEOREM RendersTakeTheirReshapes == Spec => []RenderTakesReshape
<1>1. IInv => RenderTakesReshape
  BY DEF IInv
<1> QED
  BY <1>1, Inductive, PTL

\* No bitmap is leaked, shared by two slots, or freed while a slot shows it
\* (InstallBitmap, FreeTrackedBuffersForFace).
THEOREM BitmapsAreAccountedFor == Spec => []BitmapsAccountedFor
<1>1. IInv => BitmapsAccountedFor
  BY DEF IInv
<1> QED
  BY <1>1, Inductive, PTL

\* Where the host's FreeType is found before the host opens a face, an outline is
\* only ever drawn as the glyph it holds (RecordOutlineOwner, ForgetOutlineOwners).
THEOREM EarlyHostDraws == Spec => []EarlyHostDrawsTheGlyphHeld
<1>1. IInv => EarlyHostDrawsTheGlyphHeld
  <2> SUFFICES ASSUME IInv, ~lateHost, NEW o \in Outlines, Drawable(o), g_owners[o] # None,
                      g_owners[o].face \in known \ closing
               PROVE  slot[g_owners[o].face] = o /\ loaded[o] = g_owners[o].glyph
    BY DEF EarlyHostDrawsTheGlyphHeld, DrawsTheGlyphHeld
  <2> QED
    BY NoneAssumption DEF IInv, HostInv, OwnerInv, Drawable, TypeOK
<1> QED
  BY <1>1, Inductive, PTL

\* There too, what FreeType's own rendering left behind goes with the face it names
\* (SetPendingOutlineFace, ForgetPendingOutlines).
THEOREM GridEntriesGo == Spec => []GridGoesWithFace
<1>1. IInv => GridGoesWithFace
  BY DEF IInv, GridInv, GridGoesWithFace
<1> QED
  BY <1>1, Inductive, PTL
=============================================================================
