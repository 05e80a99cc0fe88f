--------------------------- MODULE FaceTableProofs ---------------------------
(***************************************************************************)
(* Proofs about FaceTable, for any number of threads, addresses and        *)
(* references.  The inductive invariant adds to the accounting of          *)
(* references what FreeType's contract gives: a library is used by one     *)
(* call at a time, and that call's face belongs to it.                     *)
(* Then, about FaceSizes, what is claimed for the faces and reported of    *)
(* their sizes.                                                            *)
(***************************************************************************)
EXTENDS FaceTable, FaceSizes, FiniteSetTheorems, SequenceTheorems, TLAPS

Using(t) == call[t].op \in {"record", "reference", "release"}

\* Two calls in flight never share a library, and the library of each exists.
OneCallPerLibrary ==
    /\ \A t \in Threads : Using(t) => call[t].library \in open
    /\ \A t, u \in Threads :
          Using(t) /\ Using(u) /\ call[t].library = call[u].library => t = u

\* What a call in flight knows of its face: a face being opened has its first
\* reference only, one being referenced is alive, in the library of the call.
CallsMatchFaces ==
    \A t \in Threads :
        /\ call[t].op = "record" =>
              real[call[t].face] = 1 /\ home[call[t].face] = call[t].library
        /\ call[t].op = "reference" =>
              Alive(call[t].face) /\ home[call[t].face] = call[t].library

\* A live face belongs to an existing library, and its settled entry says which.
LibrariesMatch ==
    \A f \in Faces :
        /\ Alive(f) => home[f] \in open
        /\ Known(f) => wanted
        /\ Known(f) /\ Alive(f) /\ Recording(f) = {} => g_faces[f].library = home[f]
        /\ Known(f) => g_faces[f].refcount > 0

IInv ==
    /\ TypeOK
    /\ OneCallPerLibrary
    /\ CallsMatchFaces
    /\ LibrariesMatch
    /\ Accounting

-----------------------------------------------------------------------------
(* Type correctness *)

\* Every variable keeps its type (all handlers of the face table).
THEOREM TypeCorrect == Spec => []TypeOK
<1>1. Init => TypeOK
  BY DEF Init, TypeOK
<1>2. TypeOK /\ [Next]_vars => TypeOK'
  <2> SUFFICES ASSUME TypeOK, [Next]_vars PROVE TypeOK'
    OBVIOUS
  <2> USE DEF TypeOK, Entry, NoEntry, Call, Idle
  <2>1. CASE UNCHANGED vars
    BY <2>1 DEF vars
  <2>2. ASSUME NEW t \in Threads, NEW l \in Libs, InitFreeType(t, l) PROVE TypeOK'
    BY <2>2 DEF InitFreeType
  <2>3. ASSUME NEW t \in Threads, NEW l \in Libs, FT_Done_FreeType(t, l) PROVE TypeOK'
    BY <2>3 DEF FT_Done_FreeType
  <2>4. ASSUME NEW t \in Threads, NEW f \in Faces, NEW l \in Libs, OpenFace(t, f, l)
        PROVE  TypeOK'
    BY <2>4 DEF OpenFace
  <2>5. ASSUME NEW t \in Threads, NEW f \in Faces, FT_Reference_Face(t, f) PROVE TypeOK'
    BY <2>5, MaxRefsAssumption DEF FT_Reference_Face
  <2>6. ASSUME NEW t \in Threads, NEW f \in Faces, FT_Done_Face(t, f) PROVE TypeOK'
    BY <2>6 DEF FT_Done_Face, Alive
  <2>7. ASSUME NEW t \in Threads, RecordFace(t) PROVE TypeOK'
    BY <2>7 DEF RecordFace, Returns
  <2>8. ASSUME NEW t \in Threads, ReferenceFace(t) PROVE TypeOK'
    BY <2>8 DEF ReferenceFace, Returns, Known
  <2>9. ASSUME NEW t \in Threads, ReleaseFace(t) PROVE TypeOK'
    BY <2>9 DEF ReleaseFace, Returns, OneLess
  <2>10. ASSUME NEW t \in Threads, ForgetLibrary(t) PROVE TypeOK'
    BY <2>10 DEF ForgetLibrary, Returns, OpenedFrom
  <2>11. CASE DetectHost
    BY <2>11 DEF DetectHost
  <2> QED
    BY <2>1, <2>2, <2>3, <2>4, <2>5, <2>6, <2>7, <2>8, <2>9, <2>10, <2>11 DEF Next, TableHalf
<1> QED
  BY <1>1, <1>2, PTL DEF Spec

-----------------------------------------------------------------------------
(* Sets of calls in flight *)

LEMMA CallSetsFinite ==
    ASSUME NEW f
    PROVE  /\ IsFiniteSet(Releasing(f)) /\ Cardinality(Releasing(f)) \in Nat
           /\ IsFiniteSet(Referencing(f)) /\ Cardinality(Referencing(f)) \in Nat
BY ThreadsAssumption, FS_Subset, FS_CardinalityType DEF Releasing, Referencing

\* Starting a call with op and face changes one of the sets by its thread.
LEMMA OneMore ==
    ASSUME NEW S, NEW T, NEW x, IsFiniteSet(S), x \notin S, T = S \cup {x}
    PROVE  Cardinality(T) = Cardinality(S) + 1
BY FS_AddElement

LEMMA OneFewer ==
    ASSUME NEW S, NEW T, NEW x, IsFiniteSet(S), x \in S, T = S \ {x}
    PROVE  Cardinality(S) = Cardinality(T) + 1 /\ Cardinality(T) \in Nat
BY FS_RemoveElement, FS_CardinalityType, FS_Subset

-----------------------------------------------------------------------------
(* The inductive invariant *)

LEMMA InitIInv == Init => IInv
<1> SUFFICES ASSUME Init PROVE IInv
  OBVIOUS
<1>1. TypeOK
  BY DEF Init, TypeOK
<1>2. OneCallPerLibrary /\ CallsMatchFaces
  BY DEF Init, OneCallPerLibrary, CallsMatchFaces, Using, Idle
<1>3. LibrariesMatch /\ Accounting
  BY DEF Init, LibrariesMatch, Accounting, Known, Alive
<1> QED
  BY <1>1, <1>2, <1>3 DEF IInv

\* Each action's effect on who is in flight keeps a library to one call, and the
\* call's face where it was.
LEMMA CallsStep ==
    ASSUME IInv, [Next]_vars, TypeOK'
    PROVE  OneCallPerLibrary' /\ CallsMatchFaces'
<1> USE DEF IInv, TypeOK, Call, Idle, Using, OneCallPerLibrary, CallsMatchFaces, Alive
<1>1. CASE UNCHANGED vars
  BY <1>1 DEF vars
<1>2. ASSUME NEW t \in Threads, NEW l \in Libs, InitFreeType(t, l)
      PROVE  OneCallPerLibrary' /\ CallsMatchFaces'
  BY <1>2 DEF InitFreeType
<1>3. ASSUME NEW t \in Threads, NEW l \in Libs, FT_Done_FreeType(t, l)
      PROVE  OneCallPerLibrary' /\ CallsMatchFaces'
  BY <1>3 DEF FT_Done_FreeType, MayUse, MayCall, InUse
<1>4. ASSUME NEW t \in Threads, NEW f \in Faces, NEW l \in Libs, OpenFace(t, f, l)
      PROVE  OneCallPerLibrary' /\ CallsMatchFaces'
  BY <1>4 DEF OpenFace, MayUse, MayCall, InUse
<1>5. ASSUME NEW t \in Threads, NEW f \in Faces, FT_Reference_Face(t, f)
      PROVE  OneCallPerLibrary' /\ CallsMatchFaces'
  BY <1>5 DEF FT_Reference_Face, MayUse, MayCall, InUse
<1>6. ASSUME NEW t \in Threads, NEW f \in Faces, FT_Done_Face(t, f)
      PROVE  OneCallPerLibrary' /\ CallsMatchFaces'
  BY <1>6 DEF FT_Done_Face, MayUse, MayCall, InUse
<1>7. ASSUME NEW t \in Threads, TableHalf(t)
      PROVE  OneCallPerLibrary' /\ CallsMatchFaces'
  <2>1. /\ UNCHANGED <<open, real, home>>
        /\ call' = [call EXCEPT ![t] = Idle]
    BY <1>7 DEF TableHalf, RecordFace, ReferenceFace, ReleaseFace, ForgetLibrary, Returns
  <2> QED
    BY <2>1
<1>8. CASE DetectHost
  BY <1>8 DEF DetectHost
<1> QED
  BY <1>1, <1>2, <1>3, <1>4, <1>5, <1>6, <1>7, <1>8 DEF Next

LEMMA LibrariesStep ==
    ASSUME IInv, [Next]_vars, TypeOK'
    PROVE  LibrariesMatch'
<1> USE DEF IInv, TypeOK, Entry, NoEntry, Call, Idle, Using, LibrariesMatch, Known, Alive,
            Recording
<1>1. CASE UNCHANGED vars
  BY <1>1 DEF vars
<1>2. ASSUME NEW t \in Threads, NEW l \in Libs, InitFreeType(t, l) PROVE LibrariesMatch'
  BY <1>2 DEF InitFreeType
<1>3. ASSUME NEW t \in Threads, NEW l \in Libs, FT_Done_FreeType(t, l) PROVE LibrariesMatch'
  BY <1>3 DEF FT_Done_FreeType, MayUse, MayCall, InUse
<1>4. ASSUME NEW t \in Threads, NEW f \in Faces, NEW l \in Libs, OpenFace(t, f, l)
      PROVE  LibrariesMatch'
  BY <1>4 DEF OpenFace, MayUse, MayCall, InUse
<1>5. ASSUME NEW t \in Threads, NEW f \in Faces, FT_Reference_Face(t, f) PROVE LibrariesMatch'
  BY <1>5 DEF FT_Reference_Face, MayUse, MayCall, InUse
<1>6. ASSUME NEW t \in Threads, NEW f \in Faces, FT_Done_Face(t, f) PROVE LibrariesMatch'
  BY <1>6 DEF FT_Done_Face, MayUse, MayCall, InUse
<1>7. ASSUME NEW t \in Threads, RecordFace(t) PROVE LibrariesMatch'
  BY <1>7 DEF RecordFace, Returns, CallsMatchFaces
<1>8. ASSUME NEW t \in Threads, ReferenceFace(t) PROVE LibrariesMatch'
  BY <1>8 DEF ReferenceFace, Returns
<1>9. ASSUME NEW t \in Threads, ReleaseFace(t) PROVE LibrariesMatch'
  BY <1>9 DEF ReleaseFace, Returns, OneLess
<1>10. ASSUME NEW t \in Threads, ForgetLibrary(t) PROVE LibrariesMatch'
  BY <1>10 DEF ForgetLibrary, Returns, OpenedFrom
<1>11. CASE DetectHost
  BY <1>11 DEF DetectHost
<1> QED
  BY <1>1, <1>2, <1>3, <1>4, <1>5, <1>6, <1>7, <1>8, <1>9, <1>10, <1>11 DEF Next, TableHalf

\* Of the two halves of a call, the real half moves a reference from FreeType's
\* count to the set of calls in flight, or back, and the table half moves it on.
LEMMA AccountingStep ==
    ASSUME IInv, [Next]_vars, TypeOK'
    PROVE  Accounting'
<1> SUFFICES ASSUME NEW g \in Faces,
                    (Known(g) /\ ~Forgetting(g_faces[g].library))'
             PROVE  (g_faces[g].refcount + Cardinality(Referencing(g))
                        <= real[g] + Cardinality(Releasing(g)))'
  BY DEF Accounting
<1> DEFINE Out == Cardinality(Releasing(g))
           In == Cardinality(Referencing(g))
<1> USE CallSetsFinite DEF IInv, TypeOK, Entry, NoEntry, Call, Idle, Known
<1>0. /\ In \in Nat /\ Out \in Nat /\ In' \in Nat /\ Out' \in Nat
      /\ g_faces[g]' \in Entry
      /\ Known(g) => g_faces[g] \in Entry
  <2>1. In \in Nat /\ Out \in Nat /\ g_faces[g]' \in Entry
    OBVIOUS
  <2>2. IsFiniteSet(Releasing(g)') /\ IsFiniteSet(Referencing(g)')
    BY ThreadsAssumption, FS_Subset DEF Releasing, Referencing
  <2> QED
    BY <2>1, <2>2, FS_CardinalityType
<1>old. Known(g) /\ ~Forgetting(g_faces[g].library) => g_faces[g].refcount + In <= real[g] + Out
  BY DEF Accounting
<1>1. CASE UNCHANGED vars
  BY <1>1, <1>old DEF vars, Forgetting, Referencing, Releasing
<1>2. ASSUME NEW t \in Threads, NEW l \in Libs, InitFreeType(t, l)
      PROVE  (g_faces[g].refcount + In <= real[g] + Out)'
  BY <1>2, <1>old DEF InitFreeType, Forgetting, Referencing, Releasing
<1>3. ASSUME NEW t \in Threads, NEW l \in Libs, FT_Done_FreeType(t, l)
      PROVE  (g_faces[g].refcount + In <= real[g] + Out)'
  <2>1. call[t] = Idle /\ ~InUse(l) /\ t \in Threads
    BY <1>3 DEF FT_Done_FreeType, MayUse, MayCall
  <2>2. Referencing(g)' = Referencing(g) /\ Releasing(g)' = Releasing(g)
    BY <1>3, <2>1 DEF FT_Done_FreeType, Referencing, Releasing
  <2>3. g_faces[g].library # l /\ ~Forgetting(g_faces[g].library) /\ g_faces' = g_faces
    BY <1>3, <2>1 DEF FT_Done_FreeType, Forgetting
  <2>4. real[g]' = real[g]
    <3>1. CASE home[g] # l \/ ~Alive(g)
      BY <1>3, <3>1 DEF FT_Done_FreeType, Alive
    <3>2. CASE home[g] = l /\ Alive(g)
      BY <1>3, <2>1, <2>3, <3>2
      DEF FT_Done_FreeType, LibrariesMatch, CallsMatchFaces, Recording, InUse
    <3> QED
      BY <3>1, <3>2
  <2> QED
    BY <2>2, <2>3, <2>4, <1>old, <1>0
<1>4. ASSUME NEW t \in Threads, NEW f \in Faces, NEW l \in Libs, OpenFace(t, f, l)
      PROVE  (g_faces[g].refcount + In <= real[g] + Out)'
  <2>1. Referencing(g)' = Referencing(g) /\ Releasing(g)' = Releasing(g)
    BY <1>4 DEF OpenFace, MayUse, MayCall, Referencing, Releasing
  <2>2. real[g]' >= real[g] /\ g_faces' = g_faces /\ ~Forgetting(g_faces[g].library)
    BY <1>4 DEF OpenFace, MayUse, MayCall, Alive, Forgetting
  <2> QED
    BY <2>1, <2>2, <1>old, <1>0
<1>5. ASSUME NEW t \in Threads, NEW f \in Faces, FT_Reference_Face(t, f)
      PROVE  (g_faces[g].refcount + In <= real[g] + Out)'
  <2>1. /\ Releasing(g)' = Releasing(g) /\ t \notin Referencing(g)
        /\ Referencing(g)' = IF f = g THEN Referencing(g) \cup {t} ELSE Referencing(g)
    BY <1>5 DEF FT_Reference_Face, MayUse, MayCall, Referencing, Releasing
  <2>2. /\ real[g]' = IF f = g THEN real[g] + 1 ELSE real[g]
        /\ g_faces' = g_faces /\ ~Forgetting(g_faces[g].library)
    BY <1>5 DEF FT_Reference_Face, MayUse, MayCall, Forgetting
  <2>3. In' = IF f = g THEN In + 1 ELSE In
    BY <2>1, OneMore
  <2> QED
    BY <2>1, <2>2, <2>3, <1>old, <1>0
<1>6. ASSUME NEW t \in Threads, NEW f \in Faces, FT_Done_Face(t, f)
      PROVE  (g_faces[g].refcount + In <= real[g] + Out)'
  <2>1. /\ Referencing(g)' = Referencing(g) /\ t \notin Releasing(g)
        /\ Releasing(g)' = IF f = g THEN Releasing(g) \cup {t} ELSE Releasing(g)
    BY <1>6 DEF FT_Done_Face, MayUse, MayCall, Referencing, Releasing
  <2>2. /\ real[g]' = IF f = g THEN real[g] - 1 ELSE real[g]
        /\ g_faces' = g_faces /\ ~Forgetting(g_faces[g].library)
    BY <1>6 DEF FT_Done_Face, MayUse, MayCall, Forgetting
  <2>3. Out' = IF f = g THEN Out + 1 ELSE Out
    BY <2>1, OneMore
  <2> QED
    BY <2>1, <2>2, <2>3, <1>old, <1>0
<1>7. ASSUME NEW t \in Threads, RecordFace(t)
      PROVE  (g_faces[g].refcount + In <= real[g] + Out)'
  <2>1. /\ Referencing(g)' = Referencing(g) /\ Releasing(g)' = Releasing(g)
        /\ call[t].op = "record" /\ real' = real
    BY <1>7 DEF RecordFace, Returns, Referencing, Releasing
  <2>2. CASE call[t].face = g /\ wanted
    <3>1. Referencing(g) = {}
      BY <2>1, <2>2 DEF OneCallPerLibrary, CallsMatchFaces, Using, Referencing
    <3>2. real[g] = 1 /\ g_faces[g].refcount' = 1
      BY <1>7, <2>1, <2>2 DEF CallsMatchFaces, RecordFace
    <3> QED
      BY <2>1, <3>1, <3>2, <1>0, FS_EmptySet
  <2>3. CASE ~(call[t].face = g /\ wanted)
    <3>1. g_faces[g]' = g_faces[g]
      BY <1>7, <2>3 DEF RecordFace
    <3>2. ~Forgetting(g_faces[g].library)
      BY <1>7, <3>1 DEF RecordFace, Returns, Forgetting
    <3> QED
      BY <2>1, <3>1, <3>2, <1>old, <1>0
  <2> QED
    BY <2>2, <2>3
<1>8. ASSUME NEW t \in Threads, ReferenceFace(t)
      PROVE  (g_faces[g].refcount + In <= real[g] + Out)'
  <2>1. /\ Releasing(g)' = Releasing(g) /\ real' = real
        /\ Referencing(g)' = Referencing(g) \ {t}
        /\ call[t].face = g => t \in Referencing(g)
        /\ call[t].face # g => t \notin Referencing(g)
    BY <1>8 DEF ReferenceFace, Returns, Referencing, Releasing
  <2>2. /\ Known(g) /\ ~Forgetting(g_faces[g].library)
        /\ g_faces[g].refcount' = IF call[t].face = g THEN g_faces[g].refcount + 1
                                                       ELSE g_faces[g].refcount
    <3>1. CASE call[t].face = g /\ Known(g)
      BY <1>8, <3>1 DEF ReferenceFace, Returns, Forgetting
    <3>2. CASE ~(call[t].face = g /\ Known(g))
      BY <1>8, <3>2 DEF ReferenceFace, Returns, Forgetting
    <3> QED
      BY <3>1, <3>2
  <2>3. In = IF call[t].face = g THEN In' + 1 ELSE In'
    <3>1. CASE call[t].face = g
      BY <2>1, <3>1, OneFewer
    <3>2. CASE call[t].face # g
      <4>1. Referencing(g)' = Referencing(g)
        BY <2>1, <3>2
      <4> QED
        BY <4>1, <3>2
    <3> QED
      BY <3>1, <3>2
  <2> QED
    BY <2>1, <2>2, <2>3, <1>old, <1>0
<1>9. ASSUME NEW t \in Threads, ReleaseFace(t)
      PROVE  (g_faces[g].refcount + In <= real[g] + Out)'
  <2>1. /\ Referencing(g)' = Referencing(g) /\ real' = real
        /\ Releasing(g)' = Releasing(g) \ {t}
        /\ call[t].face = g => t \in Releasing(g)
        /\ call[t].face # g => t \notin Releasing(g)
    BY <1>9 DEF ReleaseFace, Returns, Referencing, Releasing
  <2>2. /\ Known(g) /\ ~Forgetting(g_faces[g].library)
        /\ g_faces[g].refcount' = IF call[t].face = g THEN g_faces[g].refcount - 1
                                                       ELSE g_faces[g].refcount
    <3>1. CASE call[t].face = g
      BY <1>9, <3>1 DEF ReleaseFace, Returns, Forgetting, OneLess
    <3>2. CASE call[t].face # g
      BY <1>9, <3>2 DEF ReleaseFace, Returns, Forgetting
    <3> QED
      BY <3>1, <3>2
  <2>3. Out = IF call[t].face = g THEN Out' + 1 ELSE Out'
    <3>1. CASE call[t].face = g
      BY <2>1, <3>1, OneFewer
    <3>2. CASE call[t].face # g
      <4>1. Releasing(g)' = Releasing(g)
        BY <2>1, <3>2
      <4> QED
        BY <4>1, <3>2
    <3> QED
      BY <3>1, <3>2
  <2> QED
    BY <2>1, <2>2, <2>3, <1>old, <1>0
<1>10. ASSUME NEW t \in Threads, ForgetLibrary(t)
       PROVE  (g_faces[g].refcount + In <= real[g] + Out)'
  <2>1. Referencing(g)' = Referencing(g) /\ Releasing(g)' = Releasing(g) /\ real' = real
    BY <1>10 DEF ForgetLibrary, Returns, Referencing, Releasing
  <2>2. /\ Known(g) /\ g_faces[g]' = g_faces[g]
        /\ g_faces[g].library # call[t].library
    BY <1>10 DEF ForgetLibrary, OpenedFrom
  <2>3. ~Forgetting(g_faces[g].library)
    BY <1>10, <2>2 DEF ForgetLibrary, Returns, Forgetting
  <2> QED
    BY <2>1, <2>2, <2>3, <1>old, <1>0
<1>11. CASE DetectHost
  BY <1>11, <1>old DEF DetectHost, Forgetting, Referencing, Releasing
<1> QED
  BY <1>1, <1>2, <1>3, <1>4, <1>5, <1>6, <1>7, <1>8, <1>9, <1>10, <1>11 DEF Next, TableHalf

LEMMA Inductive == Spec => []IInv
<1>1. IInv /\ TypeOK' /\ [Next]_vars => IInv'
  BY CallsStep, LibrariesStep, AccountingStep DEF IInv
<1> QED
  BY <1>1, InitIInv, TypeCorrect, PTL DEF Spec

\* However calls interleave, the table counts at most the references FreeType
\* has or has just given up (RecordFace, ReferenceFace, ReleaseFace).
THEOREM AccountingHolds == Spec => []Accounting
<1>1. IInv => Accounting
  BY DEF IInv
<1> QED
  BY <1>1, Inductive, PTL

\* Once no call is left to correct an entry, its face is alive.
THEOREM EntriesDoNotOutliveFaces == Spec => []NeverOutlivesFace
<1>1. IInv => NeverOutlivesFace
  <2> SUFFICES ASSUME IInv, NEW f \in Faces, Known(f), ~Unsettled(f)
               PROVE  Alive(f) /\ g_faces[f].refcount <= real[f]
    BY DEF NeverOutlivesFace
  <2>1. Releasing(f) = {} /\ Referencing(f) = {} /\ ~Forgetting(g_faces[f].library)
    BY DEF Unsettled
  <2>2. g_faces[f].refcount + 0 <= real[f] + 0
    BY <2>1, FS_EmptySet DEF IInv, Accounting
  <2>3. g_faces[f] \in Entry /\ g_faces[f].refcount > 0 /\ real[f] \in Nat
    BY DEF IInv, TypeOK, LibrariesMatch, Known
  <2> QED
    BY <2>2, <2>3 DEF Alive, Entry
<1> QED
  BY <1>1, Inductive, PTL

-----------------------------------------------------------------------------
(* A host that makes one call at a time *)

\* No call in flight concerns the entry of f.
Quiet(f) == \A t \in Threads :
    /\ call[t].op \in {"record", "reference", "release"} => call[t].face # f
    /\ call[t].op = "forget" => g_faces[f].library # call[t].library

\* The one call in flight is the only difference between the table and FreeType.
SerialInv == serialized =>
    /\ \A t, u \in Threads : call[t] # Idle /\ call[u] # Idle => t = u
    /\ \A t \in Threads : call[t].op = "forget" => call[t].library \notin open
    /\ \A f \in Faces : Known(f) /\ Quiet(f) =>
          g_faces[f].refcount = real[f] /\ g_faces[f].library = home[f]
    /\ \A t \in Threads : call[t] # Idle /\ call[t].op # "forget" /\ Known(call[t].face) =>
          /\ call[t].op # "record"
          /\ g_faces[call[t].face].library = home[call[t].face]
          /\ call[t].op = "reference" => g_faces[call[t].face].refcount + 1 = real[call[t].face]
          /\ call[t].op = "release" => g_faces[call[t].face].refcount = real[call[t].face] + 1

LEMMA SerialStep ==
    ASSUME IInv, SerialInv, [Next]_vars, TypeOK'
    PROVE  SerialInv'
<1> SUFFICES ASSUME serialized PROVE SerialInv'
  BY DEF SerialInv, Next, vars, InitFreeType, FT_Done_FreeType, OpenFace, FT_Reference_Face,
         FT_Done_Face, TableHalf, RecordFace, ReferenceFace, ReleaseFace, ForgetLibrary,
         DetectHost
<1> USE DEF IInv, TypeOK, Entry, NoEntry, Call, Idle, Known, Alive, Quiet, SerialInv
<1>1. CASE UNCHANGED vars
  BY <1>1 DEF vars
<1>2. ASSUME NEW t \in Threads, NEW l \in Libs, InitFreeType(t, l) PROVE SerialInv'
  BY <1>2 DEF InitFreeType, MayCall
<1>3. ASSUME NEW t \in Threads, NEW l \in Libs, FT_Done_FreeType(t, l) PROVE SerialInv'
  BY <1>3 DEF FT_Done_FreeType, MayUse, MayCall
<1>4. ASSUME NEW t \in Threads, NEW f \in Faces, NEW l \in Libs, OpenFace(t, f, l)
      PROVE  SerialInv'
  BY <1>4 DEF OpenFace, MayUse, MayCall, LibrariesMatch
<1>5. ASSUME NEW t \in Threads, NEW f \in Faces, FT_Reference_Face(t, f) PROVE SerialInv'
  BY <1>5 DEF FT_Reference_Face, MayUse, MayCall
<1>6. ASSUME NEW t \in Threads, NEW f \in Faces, FT_Done_Face(t, f) PROVE SerialInv'
  BY <1>6 DEF FT_Done_Face, MayUse, MayCall
<1>7. ASSUME NEW t \in Threads, RecordFace(t) PROVE SerialInv'
  BY <1>7 DEF RecordFace, Returns, CallsMatchFaces
<1>8. ASSUME NEW t \in Threads, ReferenceFace(t) PROVE SerialInv'
  BY <1>8 DEF ReferenceFace, Returns
<1>9. ASSUME NEW t \in Threads, ReleaseFace(t) PROVE SerialInv'
  BY <1>9 DEF ReleaseFace, Returns, OneLess
<1>10. ASSUME NEW t \in Threads, ForgetLibrary(t) PROVE SerialInv'
  BY <1>10 DEF ForgetLibrary, Returns, OpenedFrom
<1>11. CASE DetectHost
  BY <1>11 DEF DetectHost
<1> QED
  BY <1>1, <1>2, <1>3, <1>4, <1>5, <1>6, <1>7, <1>8, <1>9, <1>10, <1>11 DEF Next, TableHalf

LEMMA SerialInductive == Spec => []SerialInv
<1>1. Init => SerialInv
  BY DEF Init, SerialInv, Idle, Known
<1>2. IInv /\ TypeOK' /\ SerialInv /\ [Next]_vars => SerialInv'
  BY SerialStep
<1> QED
  BY <1>1, <1>2, Inductive, TypeCorrect, PTL DEF Spec

\* Between its calls a serialised host finds FreeType's own counts in the table.
THEOREM MirrorHolds == Spec => []MirrorsFreeType
<1>1. IInv /\ SerialInv => MirrorsFreeType
  <2> SUFFICES ASSUME IInv, SerialInv, serialized, \A t \in Threads : call[t] = Idle,
                      NEW f \in Faces, Known(f)
               PROVE  g_faces[f] = [refcount |-> real[f], library |-> home[f]]
    BY DEF MirrorsFreeType
  <2>1. g_faces[f].refcount = real[f] /\ g_faces[f].library = home[f]
    BY DEF SerialInv, Quiet, Idle
  <2>2. g_faces[f] \in Entry
    BY DEF IInv, TypeOK, Known
  <2> QED
    BY <2>1, <2>2 DEF Entry
<1> QED
  BY <1>1, Inductive, SerialInductive, PTL

\* A serialised host never loses the entry of a face that lives on.
THEOREM EntryKept == Spec => SerializedKeepsEntry
<1>1. IInv /\ SerialInv /\ [Next]_vars => [serialized => OnlyDeathErases]_vars
  <2> SUFFICES ASSUME IInv, SerialInv, Next, serialized, NEW f \in Faces,
                      Known(f), Alive(f), Recording(f) = {}
               PROVE  Known(f)' \/ ~Alive(f)'
    BY DEF OnlyDeathErases, vars
  <2> USE DEF IInv, TypeOK, Entry, NoEntry, Call, Idle, Known, Alive, SerialInv
  <2>1. ASSUME NEW t \in Threads, ReleaseFace(t) PROVE Known(f)'
    BY <2>1 DEF ReleaseFace, OneLess
  <2>2. ASSUME NEW t \in Threads, ForgetLibrary(t) PROVE Known(f)'
    BY <2>2 DEF ForgetLibrary, OpenedFrom, LibrariesMatch
  <2>3. ASSUME NEW t \in Threads, RecordFace(t) \/ ReferenceFace(t) PROVE Known(f)'
    <3>1. CASE RecordFace(t)
      BY <3>1 DEF RecordFace, Recording
    <3>2. CASE ReferenceFace(t)
      <4>1. g_faces'[f] = g_faces[f] \/ g_faces'[f].refcount = g_faces[f].refcount + 1
        BY <3>2 DEF ReferenceFace
      <4>2. g_faces[f] \in Entry
        OBVIOUS
      <4> QED
        BY <4>1, <4>2
    <3> QED
      BY <2>3, <3>1, <3>2
  <2>4. ASSUME g_faces' = g_faces PROVE Known(f)'
    BY <2>4
  <2> QED
    BY <2>1, <2>2, <2>3, <2>4 DEF Next, TableHalf, InitFreeType, FT_Done_FreeType, OpenFace,
       FT_Reference_Face, FT_Done_Face, DetectHost
<1> QED
  BY <1>1, Inductive, SerialInductive, PTL DEF Spec, SerializedKeepsEntry

----------------------------------------------------------------------------
(* The sizes claimed for the faces of the table, for any number of rows,   *)
(* slots and faces, and every size.  Names are the addresses of faces.     *)

\* Sizes: 64ths of a pixel, as fractions
Fractions == Int \X (Nat \ {0})

\* What \div and % come to.
LEMMA Divides ==
  ASSUME NEW n \in Int, NEW d \in Nat \ {0}
  PROVE  /\ n \div d \in Int /\ n % d \in 0 .. d - 1
         /\ n = d * (n \div d) + (n % d)
  OBVIOUS

LEMMA Quotient ==
  ASSUME NEW n \in Int, NEW d \in Nat \ {0}, NEW q \in Int, d * q <= n, n < d * q + d
  PROVE  n \div d = q
<1> DEFINE p == n \div d
<1>1. p \in Int /\ d * p <= n /\ n < d * p + d
  BY Divides
<1>2. d * (p - q) < d /\ d * (q - p) < d
  BY <1>1
<1>3. p - q < 1 /\ q - p < 1
  BY <1>1, <1>2
<1> QED BY <1>1, <1>3

\* A size of n / d rounds to within half a 64th of it, a half upwards.
LEMMA Rounding ==
  ASSUME NEW px \in Fractions
  PROVE  /\ CharSize26_6(px) \in Int
         /\ 2 * (px[2] * CharSize26_6(px)) <= 2 * px[1] + px[2]
         /\ 2 * px[1] < 2 * (px[2] * CharSize26_6(px)) + px[2]
<1> DEFINE n == px[1]
           d == px[2]
           q == n \div d
           r == n % d
<1>1. n \in Int /\ d \in Nat \ {0}
  BY DEF Fractions
<1>2. q \in Int /\ r \in 0 .. d - 1 /\ n = d * q + r
  BY <1>1, Divides
<1>3. CharSize26_6(px) = q + (IF 2 * r >= d THEN 1 ELSE 0)
  BY DEF CharSize26_6
<1> HIDE DEF n, d, q, r
<1>4. CASE 2 * r >= d
  <2>1. CharSize26_6(px) = q + 1 /\ d * (q + 1) = d * q + d
    BY <1>1, <1>2, <1>3, <1>4
  <2> QED BY <1>1, <1>2, <1>4, <2>1 DEF n, d
<1>5. CASE ~(2 * r >= d)
  BY <1>1, <1>2, <1>3, <1>5 DEF n, d
<1> QED BY <1>4, <1>5

LEMMA RoundedIsWhole ==
  ASSUME NEW px \in Fractions
  PROVE  CharSize26_6(px) \in Int
  BY DEF CharSize26_6, Fractions

LEMMA AppUnitsAreSizes ==
  ASSUME NEW n \in Int, NEW per \in Nat \ {0}
  PROVE  AppUnits(n, per) \in Fractions /\ AppUnits(n, per)[1] = 64 * n /\ AppUnits(n, per)[2] = per
  BY DEF AppUnits, Fractions

\* A size of whole app units is given back exactly, whatever FreeType rounded it to, where a device
\* pixel has no more app units than 64ths: no other whole number of units rounds to the same 64ths.
THEOREM WholeUnitsAreRecovered ==
  ASSUME NEW n \in Nat \ {0}, NEW per \in 1 .. 64
  PROVE  ExactEmSize(CharSize26_6(AppUnits(n, per)), per) = AppUnits(n, per)
<1> DEFINE px == AppUnits(n, per)
           em == CharSize26_6(px)
<1>1. /\ em \in Int
      /\ 2 * (per * em) <= 128 * n + per
      /\ 128 * n < 2 * (per * em) + per
  <2>1. px \in Fractions /\ px[1] = 64 * n /\ px[2] = per
    <3>1. n \in Int /\ per \in Nat \ {0}
      OBVIOUS
    <3> QED BY <3>1, AppUnitsAreSizes
  <2> HIDE DEF px
  <2>2. /\ em \in Int
        /\ 2 * (px[2] * em) <= 2 * px[1] + px[2]
        /\ 2 * px[1] < 2 * (px[2] * em) + px[2]
    BY <2>1, Rounding
  <2> HIDE DEF em
  <2> QED BY <2>1, <2>2
<1> HIDE DEF em
<1>2. per = 64 => em = n
  BY <1>1
<1>3. em > 0
  <2>1. per * em > 0
    BY <1>1
  <2> QED BY <1>1, <2>1
<1>4. (em * per + 32) \div 64 = n
  <2>1. em * per = per * em /\ per * em \in Int
    BY <1>1
  <2>2. CASE per = 64
    BY <1>1, <1>2, <2>1, <2>2, Quotient
  <2>3. CASE per # 64
    <3>1. 64 * n <= per * em + 32 /\ per * em + 32 < 64 * n + 64
      BY <1>1, <2>1, <2>3
    <3> QED BY <2>1, <3>1, Quotient
  <2> QED BY <2>2, <2>3
<1>5. Positive(AppUnits(n, per))
  BY DEF Positive, AppUnits
<1> QED
  BY <1>3, <1>4, <1>5 DEF ExactEmSize, em

\* A ratio of whole 1024ths between the axes is given back where the smaller one has at least 1024
\* 64ths: SnapPixelAspect of the axis FreeType rounded is the ratio it was made with.
THEOREM AspectsAreRecovered ==
  ASSUME NEW y \in Nat, y >= 1024, NEW k \in Nat \ {0}
  PROVE  SnapPixelAspect((2 * y * k + 1024) \div 2048, y) = k
<1> DEFINE x == (2 * y * k + 1024) \div 2048
           s == (2048 * x + y) \div (2 * y)
<1>1. y * k \in Nat /\ 2 * y * k = 2 * (y * k)
  OBVIOUS
<1>2. x \in Int /\ 2048 * x <= 2 * (y * k) + 1024 /\ 2 * (y * k) + 1024 < 2048 * x + 2048
  BY <1>1, Divides
<1>3. y = 1024 => x = k
  BY <1>2
<1>4. s = k
  <2>1. (2 * y) * k <= 2048 * x + y /\ 2048 * x + y < (2 * y) * k + 2 * y
    BY <1>1, <1>2, <1>3
  <2> QED BY <1>2, <2>1, Quotient
<1> QED BY <1>4 DEF SnapPixelAspect

\* Where it has fewer, the ratio SnapPixelAspect answers stretches the axis to the same 64ths, and
\* there always is one.
THEOREM AspectsStretchAlike ==
  ASSUME NEW x \in Nat \ {0}, NEW y \in 1 .. 1023
  PROVE  /\ SnapPixelAspect(x, y) # 0
         /\ (2 * y * SnapPixelAspect(x, y) + 1024) \div 2048 = x
<1> DEFINE s == (2048 * x + y) \div (2 * y)
<1>1. s \in Int /\ (2 * y) * s <= 2048 * x + y /\ 2048 * x + y < (2 * y) * s + 2 * y
  <2> DEFINE n == 2048 * x + y
             d == 2 * y
  <2>1. n \in Int /\ d \in Nat \ {0}
    OBVIOUS
  <2> HIDE DEF n, d
  <2>2. n \div d \in Int /\ d * (n \div d) <= n /\ n < d * (n \div d) + d
    BY <2>1, Divides
  <2> QED BY <2>2 DEF n, d
<1> HIDE DEF s
<1>2. s > 0
  <2>1. (2 * y) * s > 0
    BY <1>1
  <2> QED BY <1>1, <2>1
<1>3. 2 * y * s = (2 * y) * s /\ (2 * y) * s \in Int
  BY <1>1
<1>4. (2 * y * s + 1024) \div 2048 = x
  <2>1. 2048 * x <= 2 * y * s + 1024 /\ 2 * y * s + 1024 < 2048 * x + 2048
    BY <1>1, <1>3
  <2> QED BY <1>3, <2>1, Quotient
<1>5. SnapPixelAspect(x, y) = s
  BY <1>2, <1>4 DEF SnapPixelAspect, s
<1> QED BY <1>2, <1>4, <1>5

----------------------------------------------------------------------------
(* The table of claimed sizes *)

\* Room for one claim at least
Caps == kClaimedFaces \in Nat \ {0} /\ kClaimedPerFace \in Nat \ {0}

Claim == [size : Int, px : Fractions, ft : Int, from_adjusted : BOOLEAN, used : Nat]

Row(Names) == [face : Names \cup {NoFace}, next : 1 .. kClaimedPerFace,
               sizes : [1 .. kClaimedPerFace -> Claim]]

Tables(Names) == [rows : [1 .. kClaimedFaces -> Row(Names)], next : 1 .. kClaimedFaces, clock : Nat]

OneRowEach(claims) == \A i, j \in 1 .. kClaimedFaces :
    claims.rows[i].face = claims.rows[j].face /\ claims.rows[i].face # NoFace => i = j

OneClaimEach(row) == \A a, b \in 1 .. kClaimedPerFace :
    /\ Positive(row.sizes[a].px) /\ Positive(row.sizes[b].px)
    /\ row.sizes[a].size = row.sizes[b].size
    => a = b

RoundsToItsSize(row) == \A a \in 1 .. kClaimedPerFace :
    Positive(row.sizes[a].px) => row.sizes[a].size = CharSize26_6(row.sizes[a].px)

UsedInTurn(claims) == \A i, j \in 1 .. kClaimedFaces, a, b \in 1 .. kClaimedPerFace :
    Positive(claims.rows[i].sizes[a].px) =>
        /\ claims.rows[i].sizes[a].used <= claims.clock
        /\ Positive(claims.rows[j].sizes[b].px)
           /\ claims.rows[i].sizes[a].used = claims.rows[j].sizes[b].used => i = j /\ a = b

\* A face has one row and a size one claim in it, which rounds to it; no two claims were used at the
\* same moment
SoundTable(claims, Names) ==
    /\ claims \in Tables(Names)
    /\ OneRowEach(claims)
    /\ \A i \in 1 .. kClaimedFaces : OneClaimEach(claims.rows[i]) /\ RoundsToItsSize(claims.rows[i])
    /\ UsedInTurn(claims)

\* Min of a set of naturals is its least member.
LEMMA LeastIsMember ==
  ASSUME NEW S, S \subseteq Nat, S # {}
  PROVE  Min(S) \in S
<1> DEFINE R == OpToRel(<, Nat)
<1>1. IsWellFoundedOn(R, Nat)
  BY NatLessThanWellFounded
<1>2. \A x, y \in Nat : <<y, x>> \notin R => x <= y
  BY DEF OpToRel
<1> HIDE DEF R
<1>3. PICK x \in S : \A y \in S : ~(<<y, x>> \in R)
  BY <1>1, WFMin
<1>4. \A y \in S : x <= y
  BY <1>2, <1>3
<1> QED BY <1>3, <1>4 DEF Min

\* A row of nobody claims nothing.
LEMMA FreeRow ==
  ASSUME Caps, NEW Names
  PROVE  /\ NoRow \in Row(Names) /\ NoRow.face = NoFace
         /\ NoRow.sizes = [i \in 1 .. kClaimedPerFace |-> NoClaim]
         /\ NoClaim \in Claim /\ ~Positive(NoClaim.px)
<1>1. NoClaim \in Claim /\ ~Positive(NoClaim.px)
  BY DEF NoClaim, Claim, NoSize, Fractions, Positive
<1> DEFINE f == [i \in 1 .. kClaimedPerFace |-> NoClaim]
<1>2. f \in Seq({NoClaim})
  BY DEF Caps
<1> HIDE DEF f
<1>3. <<>> \o f = f
  BY <1>2, ConcatEmptySeq
<1>4. NoRow = [face |-> NoFace, next |-> 1, sizes |-> f]
  BY <1>3 DEF NoRow, f
<1> QED BY <1>1, <1>4 DEF f, Row, Caps

\* FindClaimedFaceLocked finds the one row of a face.
LEMMA RowOfFace ==
  ASSUME Caps, NEW Names, NEW claims, SoundTable(claims, Names), NEW face, face # NoFace
  PROVE  LET row == FindClaimedFaceLocked(claims, face)
         IN  /\ row \in 0 .. kClaimedFaces
             /\ row # 0 => claims.rows[row].face = face
             /\ \A i \in 1 .. kClaimedFaces : claims.rows[i].face = face => i = row
<1> DEFINE rows == { i \in 1 .. kClaimedFaces : claims.rows[i].face = face }
<1>1. CASE rows = {}
  BY <1>1 DEF FindClaimedFaceLocked, Caps
<1>2. CASE rows # {}
  <2>1. Min(rows) \in rows /\ FindClaimedFaceLocked(claims, face) = Min(rows)
    <3>1. rows \subseteq Nat
      OBVIOUS
    <3> HIDE DEF rows
    <3>2. Min(rows) \in rows
      BY <1>2, <3>1, LeastIsMember
    <3> QED BY <1>2, <3>2 DEF FindClaimedFaceLocked, rows
  <2> DEFINE m == Min(rows)
  <2>2. m \in 1 .. kClaimedFaces /\ claims.rows[m].face = face /\ FindClaimedFaceLocked(claims, face) = m
    BY <2>1
  <2> HIDE DEF m, rows
  <2> QED BY <2>2 DEF SoundTable, OneRowEach, Caps
<1> QED BY <1>1, <1>2

LEMMA FreeRowFound ==
  ASSUME Caps, NEW claims
  PROVE  LET row == FindClaimedFaceLocked(claims, NoFace)
         IN  /\ row \in 0 .. kClaimedFaces
<1> DEFINE rows == { i \in 1 .. kClaimedFaces : claims.rows[i].face = NoFace }
<1>1. CASE rows = {}
  BY <1>1 DEF FindClaimedFaceLocked, Caps
<1>2. CASE rows # {}
  <2>1. rows \subseteq Nat /\ rows \subseteq 1 .. kClaimedFaces
    OBVIOUS
  <2>2. FindClaimedFaceLocked(claims, NoFace) = Min(rows)
    BY <1>2 DEF FindClaimedFaceLocked
  <2> HIDE DEF rows
  <2>3. Min(rows) \in 1 .. kClaimedFaces
    BY <1>2, <2>1, LeastIsMember
  <2>4. Min(rows) \in 0 .. kClaimedFaces
    BY <2>3 DEF Caps
  <2> QED BY <2>2, <2>4
<1> QED BY <1>1, <1>2

\* SlotOf finds the one claim of a size.
LEMMA SlotOfSize ==
  ASSUME Caps, NEW row, OneClaimEach(row), NEW size
  PROVE  LET slot == SlotOf(row, size)
         IN  /\ slot \in 0 .. kClaimedPerFace
             /\ slot # 0 => Positive(row.sizes[slot].px) /\ row.sizes[slot].size = size
             /\ \A a \in 1 .. kClaimedPerFace :
                    Positive(row.sizes[a].px) /\ row.sizes[a].size = size => a = slot
<1> DEFINE slots == { i \in 1 .. kClaimedPerFace : Positive(row.sizes[i].px) /\ row.sizes[i].size = size }
<1>1. CASE slots = {}
  BY <1>1 DEF SlotOf, Caps
<1>2. CASE slots # {}
  <2>1. Min(slots) \in slots /\ SlotOf(row, size) = Min(slots)
    <3>1. slots \subseteq Nat
      OBVIOUS
    <3> HIDE DEF slots
    <3>2. Min(slots) \in slots
      BY <1>2, <3>1, LeastIsMember
    <3> QED BY <1>2, <3>2 DEF SlotOf, slots
  <2> DEFINE m == Min(slots)
  <2>2. /\ m \in 1 .. kClaimedPerFace /\ Positive(row.sizes[m].px) /\ row.sizes[m].size = size
        /\ SlotOf(row, size) = m
    BY <2>1
  <2> HIDE DEF m, slots
  <2> QED BY <2>2 DEF OneClaimEach, Caps
<1> QED BY <1>1, <1>2

\* The claim of a face for a size is the a-th of row i
Claimed(claims, face, size, i, a) ==
    /\ i \in 1 .. kClaimedFaces /\ a \in 1 .. kClaimedPerFace
    /\ claims.rows[i].face = face
    /\ Positive(claims.rows[i].sizes[a].px) /\ claims.rows[i].sizes[a].size = size

\* ClaimedSizeFor answers with the claim of the face and the size, when there is one.
LEMMA ClaimAnswers ==
  ASSUME Caps, NEW Names, NEW claims, SoundTable(claims, Names), NEW face, face # NoFace, NEW size
  PROVE  /\ \A i, a : Claimed(claims, face, size, i, a)
                        => ClaimedSizeFor(claims, face, size) = claims.rows[i].sizes[a].px
         /\ (\A i, a : ~Claimed(claims, face, size, i, a)) => ClaimedSizeFor(claims, face, size) = NoSize
<1> DEFINE row == FindClaimedFaceLocked(claims, face)
           slot == IF row = 0 THEN 0 ELSE SlotOf(claims.rows[row], size)
<1>1. /\ row \in 0 .. kClaimedFaces
      /\ row # 0 => claims.rows[row].face = face
      /\ \A i \in 1 .. kClaimedFaces : claims.rows[i].face = face => i = row
  BY RowOfFace
<1>2. ClaimedSizeFor(claims, face, size) =
          IF slot = 0 THEN NoSize ELSE claims.rows[row].sizes[slot].px
  BY DEF ClaimedSizeFor
<1> HIDE DEF row
<1>3. CASE row = 0
  BY <1>1, <1>2, <1>3 DEF Claimed, Caps
<1>4. CASE row # 0
  <2>1. row \in 1 .. kClaimedFaces /\ OneClaimEach(claims.rows[row]) /\ slot = SlotOf(claims.rows[row], size)
    BY <1>1, <1>4 DEF SoundTable, Caps
  <2> HIDE DEF slot
  <2>2. /\ slot \in 0 .. kClaimedPerFace
        /\ slot # 0 => Positive(claims.rows[row].sizes[slot].px) /\ claims.rows[row].sizes[slot].size = size
        /\ \A a \in 1 .. kClaimedPerFace :
               Positive(claims.rows[row].sizes[a].px) /\ claims.rows[row].sizes[a].size = size => a = slot
    BY <2>1, SlotOfSize
  <2>3. \A i, a : Claimed(claims, face, size, i, a) => i = row /\ a = slot /\ slot # 0
    BY <1>1, <2>2 DEF Claimed, Caps
  <2>4. slot # 0 => Claimed(claims, face, size, row, slot)
    BY <1>1, <1>4, <2>1, <2>2 DEF Claimed, Caps
  <2> QED BY <1>2, <2>3, <2>4
<1> QED BY <1>3, <1>4

\* new is the table with one row emptied for a face that has none, or for nobody
RowEmptied(claims, new, row, face, next) ==
    /\ row \in 1 .. kClaimedFaces /\ next \in 1 .. kClaimedFaces
    /\ face # NoFace => \A i \in 1 .. kClaimedFaces : claims.rows[i].face # face
    /\ new = [claims EXCEPT !.rows[row] = [NoRow EXCEPT !.face = face], !.next = next]

LEMMA RowReplaced ==
  ASSUME Caps, NEW Names, NoFace \notin Names, NEW claims, SoundTable(claims, Names),
         NEW face \in Names \cup {NoFace}, NEW row, NEW next, NEW new,
         RowEmptied(claims, new, row, face, next)
  PROVE  /\ SoundTable(new, Names)
         /\ new.clock = claims.clock
         /\ new.rows[row].face = face
         /\ \A a \in 1 .. kClaimedPerFace : ~Positive(new.rows[row].sizes[a].px)
         /\ \A i \in 1 .. kClaimedFaces \ {row} : new.rows[i] = claims.rows[i]
<1> DEFINE empty == [NoRow EXCEPT !.face = face]
<1>0. /\ row \in 1 .. kClaimedFaces /\ next \in 1 .. kClaimedFaces
      /\ face # NoFace => \A i \in 1 .. kClaimedFaces : claims.rows[i].face # face
      /\ new = [claims EXCEPT !.rows[row] = empty, !.next = next]
  BY DEF RowEmptied
<1>1. /\ empty \in Row(Names) /\ empty.face = face
      /\ \A a \in 1 .. kClaimedPerFace : ~Positive(empty.sizes[a].px)
  <2>1. empty \in Row(Names) /\ empty.face = face /\ empty.sizes = NoRow.sizes
    BY FreeRow DEF Row
  <2> HIDE DEF empty
  <2> QED BY <2>1, FreeRow
<1> HIDE DEF empty
<1>2. claims \in Tables(Names)
  BY DEF SoundTable
<1>3. /\ new \in Tables(Names) /\ new.clock = claims.clock /\ new.rows[row] = empty
      /\ \A i \in 1 .. kClaimedFaces \ {row} : new.rows[i] = claims.rows[i]
  BY <1>0, <1>1, <1>2 DEF Tables
<1>4. OneRowEach(new)
  BY <1>0, <1>1, <1>3 DEF SoundTable, OneRowEach
<1>5. ASSUME NEW i \in 1 .. kClaimedFaces PROVE OneClaimEach(new.rows[i]) /\ RoundsToItsSize(new.rows[i])
  <2>1. CASE i = row
    BY <1>0, <1>1, <1>3, <2>1 DEF OneClaimEach, RoundsToItsSize
  <2>2. CASE i # row
    BY <1>0, <1>3, <2>2 DEF SoundTable
  <2> QED BY <2>1, <2>2
<1>6. UsedInTurn(new)
  BY <1>0, <1>1, <1>3 DEF SoundTable, UsedInTurn
<1>7. SoundTable(new, Names)
  BY <1>3, <1>4, <1>5, <1>6 DEF SoundTable
<1> QED BY <1>1, <1>3, <1>7

\* new is the table with one claim written, used at the moment after the last
ClaimPut(claims, new, row, at, claim) ==
    /\ row \in 1 .. kClaimedFaces /\ at \in 1 .. kClaimedPerFace
    /\ claim \in Claim /\ claim.used = claims.clock + 1
    /\ Positive(claim.px) /\ claim.size = CharSize26_6(claim.px)
    /\ \A a \in 1 .. kClaimedPerFace \ {at} :
           Positive(claims.rows[row].sizes[a].px) => claims.rows[row].sizes[a].size # claim.size
    /\ new.clock = claims.clock + 1
    /\ \A i \in 1 .. kClaimedFaces : new.rows[i].face = claims.rows[i].face
    /\ \A i \in 1 .. kClaimedFaces, a \in 1 .. kClaimedPerFace :
           new.rows[i].sizes[a] = IF i = row /\ a = at THEN claim ELSE claims.rows[i].sizes[a]

LEMMA ClaimWritten ==
  ASSUME Caps, NEW Names, NEW claims, SoundTable(claims, Names),
         NEW row, NEW at, NEW claim, NEW new \in Tables(Names), ClaimPut(claims, new, row, at, claim)
  PROVE  SoundTable(new, Names)
<1> USE DEF ClaimPut
<1>0. claims \in Tables(Names) /\ claims.clock \in Nat
  BY DEF SoundTable, Tables
<1>1. OneRowEach(new)
  BY DEF SoundTable, OneRowEach
<1>2. ASSUME NEW i \in 1 .. kClaimedFaces PROVE OneClaimEach(new.rows[i]) /\ RoundsToItsSize(new.rows[i])
  <2>1. OneClaimEach(claims.rows[i]) /\ RoundsToItsSize(claims.rows[i])
    BY DEF SoundTable
  <2>2. RoundsToItsSize(new.rows[i])
    BY <2>1 DEF RoundsToItsSize
  <2>3. CASE i = row
    <3>1. \A a \in 1 .. kClaimedPerFace :
              new.rows[i].sizes[a] = IF a = at THEN claim ELSE claims.rows[row].sizes[a]
      BY <2>3
    <3> QED BY <2>1, <2>2, <2>3, <3>1 DEF OneClaimEach
  <2>4. CASE i # row
    <3>1. \A a \in 1 .. kClaimedPerFace : new.rows[i].sizes[a] = claims.rows[i].sizes[a]
      BY <2>4
    <3> QED BY <2>1, <2>2, <3>1 DEF OneClaimEach
  <2> QED BY <2>3, <2>4
<1>3. UsedInTurn(new)
  <2>1. UsedInTurn(claims)
    BY DEF SoundTable
  <2> SUFFICES ASSUME NEW i \in 1 .. kClaimedFaces, NEW j \in 1 .. kClaimedFaces,
                      NEW a \in 1 .. kClaimedPerFace, NEW b \in 1 .. kClaimedPerFace,
                      Positive(new.rows[i].sizes[a].px)
               PROVE  /\ new.rows[i].sizes[a].used <= new.clock
                      /\ Positive(new.rows[j].sizes[b].px)
                         /\ new.rows[i].sizes[a].used = new.rows[j].sizes[b].used => i = j /\ a = b
    BY DEF UsedInTurn
  <2>2. \A k \in 1 .. kClaimedFaces, c \in 1 .. kClaimedPerFace :
            Positive(claims.rows[k].sizes[c].px) =>
                claims.rows[k].sizes[c].used \in Nat /\ claims.rows[k].sizes[c].used <= claims.clock
    <3> SUFFICES ASSUME NEW k \in 1 .. kClaimedFaces, NEW c \in 1 .. kClaimedPerFace,
                        Positive(claims.rows[k].sizes[c].px)
                 PROVE  claims.rows[k].sizes[c].used \in Nat /\ claims.rows[k].sizes[c].used <= claims.clock
      OBVIOUS
    <3>1. claims.rows[k] \in Row(Names)
      BY <1>0 DEF Tables
    <3>2. claims.rows[k].sizes[c] \in Claim
      BY <3>1 DEF Row
    <3> QED BY <2>1, <3>2 DEF UsedInTurn, Claim
  <2>3. CASE i = row /\ a = at /\ j = row /\ b = at
    BY <1>0, <2>3
  <2>4. CASE i = row /\ a = at /\ ~(j = row /\ b = at)
    BY <1>0, <2>2, <2>4
  <2>5. CASE ~(i = row /\ a = at) /\ j = row /\ b = at
    BY <1>0, <2>2, <2>5
  <2>6. CASE ~(i = row /\ a = at) /\ ~(j = row /\ b = at)
    <3>1. /\ new.rows[i].sizes[a] = claims.rows[i].sizes[a] /\ new.rows[j].sizes[b] = claims.rows[j].sizes[b]
          /\ new.clock = claims.clock + 1
      BY <2>6
    <3>2. claims.rows[i].sizes[a].used \in Nat
      BY <2>2, <3>1
    <3> QED BY <1>0, <2>1, <3>1, <3>2 DEF UsedInTurn
  <2> QED BY <2>3, <2>4, <2>5, <2>6
<1> QED BY <1>1, <1>2, <1>3 DEF SoundTable

\* A face that claims gets a row of its own; the one who had it has nothing left.
LEMMA RowOfItsOwn ==
  ASSUME Caps, NEW Names, NoFace \notin Names, NEW claims, SoundTable(claims, Names), NEW face \in Names
  PROVE  LET own == ClaimRowLocked(claims, face)
         IN  /\ own.row \in 1 .. kClaimedFaces
             /\ SoundTable(own.claims, Names)
             /\ own.claims.clock = claims.clock
             /\ own.claims.rows[own.row].face = face
             /\ \A i \in 1 .. kClaimedFaces : \/ own.claims.rows[i] = claims.rows[i]
                                              \/ \A a \in 1 .. kClaimedPerFace :
                                                     ~Positive(own.claims.rows[i].sizes[a].px)
<1> DEFINE own == FindClaimedFaceLocked(claims, face)
           free == FindClaimedFaceLocked(claims, NoFace)
           row == IF own # 0 THEN own ELSE IF free # 0 THEN free ELSE claims.next
           next == IF free # 0 THEN claims.next ELSE (claims.next % kClaimedFaces) + 1
           new == [claims EXCEPT !.rows[row] = [NoRow EXCEPT !.face = face], !.next = next]
<1>1. face # NoFace /\ claims.next \in 1 .. kClaimedFaces
  BY DEF SoundTable, Tables
<1>2. /\ own \in 0 .. kClaimedFaces
      /\ own # 0 => claims.rows[own].face = face
      /\ \A i \in 1 .. kClaimedFaces : claims.rows[i].face = face => i = own
  BY <1>1, RowOfFace
<1>3. free \in 0 .. kClaimedFaces
  BY FreeRowFound
<1>4. /\ ClaimRowLocked(claims, face).row = row
      /\ ClaimRowLocked(claims, face).claims = IF own # 0 THEN claims ELSE new
  <2>1. claims \in Tables(Names)
    BY DEF SoundTable
  <2>2. new = [claims EXCEPT !.rows[row] = [NoRow EXCEPT !.face = face],
                             !.next = IF free # 0 THEN @ ELSE (@ % kClaimedFaces) + 1]
    BY <2>1 DEF Tables
  <2> QED BY <2>2 DEF ClaimRowLocked
<1> HIDE DEF own, free
<1>5. next \in 1 .. kClaimedFaces /\ row \in 1 .. kClaimedFaces
  <2>1. claims.next % kClaimedFaces \in 0 .. kClaimedFaces - 1
    BY <1>1 DEF Caps
  <2> QED BY <1>1, <1>2, <1>3, <2>1 DEF Caps
<1> HIDE DEF next, row
<1>6. CASE own # 0
  BY <1>2, <1>4, <1>5, <1>6 DEF row
<1>7. CASE own = 0
  <2>1. \A i \in 1 .. kClaimedFaces : claims.rows[i].face # face
    BY <1>2, <1>7 DEF Caps
  <2>2. /\ SoundTable(new, Names)
        /\ new.clock = claims.clock
        /\ new.rows[row].face = face
        /\ \A a \in 1 .. kClaimedPerFace : ~Positive(new.rows[row].sizes[a].px)
        /\ \A i \in 1 .. kClaimedFaces \ {row} : new.rows[i] = claims.rows[i]
    <3>1. face \in Names \cup {NoFace}
      OBVIOUS
    <3>2. face # NoFace => \A i \in 1 .. kClaimedFaces : claims.rows[i].face # face
      BY <2>1
    <3>3. RowEmptied(claims, new, row, face, next)
      BY <1>5, <3>2 DEF RowEmptied
    <3> HIDE DEF new
    <3> QED BY <1>1, <3>1, <3>3, RowReplaced
  <2> HIDE DEF new
  <2> QED BY <1>4, <1>5, <1>7, <2>2
<1> QED BY <1>6, <1>7

\* What RecordClaimedSize leaves: the claim, and of the others no new one.
LEMMA SizeRecorded ==
  ASSUME Caps, NEW Names, NoFace \notin Names, NEW claims, SoundTable(claims, Names), NEW face \in Names,
         NEW px \in Fractions, InRange(px), NEW ft_px \in Fractions, NEW from_adjusted \in BOOLEAN
  PROVE  LET new == RecordClaimedSize(claims, face, px, ft_px, from_adjusted)
         IN  /\ SoundTable(new, Names)
             /\ \E i, a : Claimed(new, face, CharSize26_6(px), i, a) /\ new.rows[i].sizes[a].px = px
             /\ \A g, size, i, a : Claimed(new, g, size, i, a) =>
                    \/ g = face /\ size = CharSize26_6(px)
                    \/ Claimed(claims, g, size, i, a)
                       /\ new.rows[i].sizes[a].px = claims.rows[i].sizes[a].px
<1> DEFINE own == ClaimRowLocked(claims, face)
           c == own.claims
           r == own.row
           row == c.rows[r]
           size == CharSize26_6(px)
           slot == SlotOf(row, size)
           at == IF slot # 0 THEN slot ELSE row.next
           claim == [size |-> size, px |-> px, used |-> claims.clock + 1,
                     ft |-> IF InRange(ft_px) THEN CharSize26_6(ft_px) ELSE size,
                     from_adjusted |-> from_adjusted \/ (slot # 0 /\ row.sizes[at].from_adjusted)]
           next == IF slot # 0 THEN row.next ELSE (row.next % kClaimedPerFace) + 1
           written == [row EXCEPT !.sizes[at] = claim, !.next = next]
           new == [c EXCEPT !.rows[r] = written, !.clock = c.clock + 1]
<1>1. /\ r \in 1 .. kClaimedFaces /\ SoundTable(c, Names) /\ c.clock = claims.clock
      /\ row.face = face
      /\ \A i \in 1 .. kClaimedFaces : \/ c.rows[i] = claims.rows[i]
                                       \/ \A a \in 1 .. kClaimedPerFace : ~Positive(c.rows[i].sizes[a].px)
  BY RowOfItsOwn
<1>2. RecordClaimedSize(claims, face, px, ft_px, from_adjusted) = new
  <2>1. c \in Tables(Names) /\ row \in Row(Names)
    BY <1>1 DEF SoundTable, Tables
  <2>2. face # NoFace
    OBVIOUS
  <2>3. written = [row EXCEPT !.sizes[at] = claim,
                              !.next = IF slot # 0 THEN @ ELSE (@ % kClaimedPerFace) + 1]
    BY <2>1 DEF Row
  <2>4. new = [c EXCEPT !.rows[r] = written, !.clock = @ + 1]
    BY <2>1 DEF Tables
  <2> QED BY <2>2, <2>3, <2>4 DEF RecordClaimedSize
<1> HIDE DEF c, r
<1>3. c \in Tables(Names) /\ row \in Row(Names) /\ OneClaimEach(row) /\ c.clock \in Nat
  BY <1>1 DEF SoundTable, Tables
<1> HIDE DEF row
<1>4. size \in Int /\ Positive(px)
  BY RoundedIsWhole DEF InRange
<1> HIDE DEF size
<1>5. /\ slot \in 0 .. kClaimedPerFace
      /\ slot # 0 => Positive(row.sizes[slot].px) /\ row.sizes[slot].size = size
      /\ \A a \in 1 .. kClaimedPerFace :
             Positive(row.sizes[a].px) /\ row.sizes[a].size = size => a = slot
  BY <1>3, SlotOfSize
<1> HIDE DEF slot
<1>6. /\ at \in 1 .. kClaimedPerFace /\ next \in 1 .. kClaimedPerFace
      /\ \A a \in 1 .. kClaimedPerFace \ {at} : Positive(row.sizes[a].px) => row.sizes[a].size # size
  <2>1. row.next \in 1 .. kClaimedPerFace
    BY <1>3 DEF Row
  <2>2. row.next % kClaimedPerFace \in 0 .. kClaimedPerFace - 1
    BY <2>1 DEF Caps
  <2> QED BY <1>5, <2>1, <2>2 DEF Caps
<1> HIDE DEF at, next
<1>7. claim \in Claim /\ claim.used = c.clock + 1 /\ claim.px = px /\ claim.size = size
  <2>1. (IF InRange(ft_px) THEN CharSize26_6(ft_px) ELSE size) \in Int
    BY <1>4, RoundedIsWhole
  <2>2. (from_adjusted \/ (slot # 0 /\ row.sizes[at].from_adjusted)) \in BOOLEAN
    OBVIOUS
  <2>3. claims.clock + 1 \in Nat /\ claims.clock + 1 = c.clock + 1
    BY <1>1, <1>3
  <2> QED BY <1>4, <2>1, <2>2, <2>3 DEF Claim
<1> HIDE DEF claim
<1>8. /\ new \in Tables(Names) /\ new.clock = c.clock + 1
      /\ \A i \in 1 .. kClaimedFaces : new.rows[i].face = c.rows[i].face
      /\ \A i \in 1 .. kClaimedFaces, a \in 1 .. kClaimedPerFace :
             new.rows[i].sizes[a] = IF i = r /\ a = at THEN claim ELSE c.rows[i].sizes[a]
  <2>1. /\ written \in Row(Names) /\ written.face = row.face
        /\ \A a \in 1 .. kClaimedPerFace : written.sizes[a] = IF a = at THEN claim ELSE row.sizes[a]
    BY <1>3, <1>6, <1>7 DEF Row
  <2> HIDE DEF written
  <2>2. /\ new \in Tables(Names) /\ new.clock = c.clock + 1
        /\ \A i \in 1 .. kClaimedFaces : new.rows[i] = IF i = r THEN written ELSE c.rows[i]
    <3>1. r \in 1 .. kClaimedFaces /\ written \in Row(Names)
      BY <1>1, <2>1
    <3> DEFINE clock == c.clock + 1
    <3>2. clock \in Nat
      BY <1>3
    <3> HIDE DEF clock
    <3>3. new = [c EXCEPT !.rows[r] = written, !.clock = clock]
      BY DEF clock
    <3> HIDE DEF new
    <3>4. /\ new \in Tables(Names) /\ new.clock = clock
          /\ \A i \in 1 .. kClaimedFaces : new.rows[i] = IF i = r THEN written ELSE c.rows[i]
      BY ONLY <1>3, <3>1, <3>2, <3>3 DEF Tables
    <3> QED BY <3>4 DEF clock
  <2> HIDE DEF new
  <2> QED BY <2>1, <2>2 DEF row
<1> HIDE DEF new, written
<1>9. SoundTable(new, Names)
  <2>1. claim.size = CharSize26_6(claim.px)
    BY <1>7 DEF size
  <2>2. \A a \in 1 .. kClaimedPerFace \ {at} :
            Positive(c.rows[r].sizes[a].px) => c.rows[r].sizes[a].size # claim.size
    BY <1>6, <1>7 DEF row
  <2>3. ClaimPut(c, new, r, at, claim)
    BY <1>1, <1>4, <1>6, <1>7, <1>8, <2>1, <2>2 DEF ClaimPut
  <2> QED BY <1>1, <1>8, <2>3, ClaimWritten
<1>10. Claimed(new, face, size, r, at) /\ new.rows[r].sizes[at].px = px
  BY <1>1, <1>4, <1>6, <1>7, <1>8 DEF Claimed, row
<1>11. ASSUME NEW g, NEW n, NEW i, NEW a, Claimed(new, g, n, i, a)
       PROVE  \/ g = face /\ n = size
              \/ Claimed(claims, g, n, i, a) /\ new.rows[i].sizes[a].px = claims.rows[i].sizes[a].px
  <2>1. /\ i \in 1 .. kClaimedFaces /\ a \in 1 .. kClaimedPerFace
        /\ c.rows[i].face = g /\ Positive(new.rows[i].sizes[a].px) /\ new.rows[i].sizes[a].size = n
    BY <1>8, <1>11 DEF Claimed
  <2>2. CASE i = r /\ a = at
    BY <1>1, <1>7, <1>8, <2>1, <2>2 DEF row
  <2>3. CASE ~(i = r /\ a = at)
    <3>1. new.rows[i].sizes[a] = c.rows[i].sizes[a]
      BY <1>8, <2>1, <2>3
    <3>2. c.rows[i] = claims.rows[i]
      BY <1>1, <2>1, <3>1
    <3> QED BY <2>1, <3>1, <3>2 DEF Claimed
  <2> QED BY <2>2, <2>3
<1> QED BY <1>2, <1>9, <1>10, <1>11 DEF size

\* What TouchClaimedSize leaves: every claim.
LEMMA ClaimTouched ==
  ASSUME Caps, NEW Names, NoFace \notin Names, NEW claims, SoundTable(claims, Names), NEW face \in Names,
         NEW size
  PROVE  LET new == TouchClaimedSize(claims, face, size)
         IN  /\ SoundTable(new, Names)
             /\ \A g, n, i, a : Claimed(new, g, n, i, a) <=> Claimed(claims, g, n, i, a)
             /\ \A g, n, i, a : Claimed(claims, g, n, i, a) =>
                    new.rows[i].sizes[a].px = claims.rows[i].sizes[a].px
<1> DEFINE r == FindClaimedFaceLocked(claims, face)
           slot == IF r = 0 THEN 0 ELSE SlotOf(claims.rows[r], size)
           clock == claims.clock + 1
           claim == [claims.rows[r].sizes[slot] EXCEPT !.used = clock]
           written == [claims.rows[r] EXCEPT !.sizes[slot] = claim]
           new == [claims EXCEPT !.rows[r] = written, !.clock = clock]
<1>1. TouchClaimedSize(claims, face, size) =
          IF face = NoFace \/ size <= 0 \/ slot = 0 THEN claims
          ELSE [claims EXCEPT !.rows[r].sizes[slot].used = clock, !.clock = @ + 1]
  BY DEF TouchClaimedSize
<1>2. claims \in Tables(Names) /\ face # NoFace
  BY DEF SoundTable
<1>3. r \in 0 .. kClaimedFaces
  BY <1>2, RowOfFace
<1> HIDE DEF r
<1>4. CASE slot = 0
  BY <1>1, <1>4
<1>5. CASE slot # 0 /\ TouchClaimedSize(claims, face, size) # claims
  <2>1. r \in 1 .. kClaimedFaces /\ slot = SlotOf(claims.rows[r], size)
    BY <1>3, <1>5 DEF Caps
  <2>2. /\ claims.rows[r] \in Row(Names) /\ OneClaimEach(claims.rows[r])
        /\ RoundsToItsSize(claims.rows[r])
    BY <1>2, <2>1 DEF SoundTable, Tables
  <2> HIDE DEF slot
  <2>3. /\ slot \in 1 .. kClaimedPerFace
        /\ Positive(claims.rows[r].sizes[slot].px) /\ claims.rows[r].sizes[slot].size = size
    <3>1. /\ slot \in 0 .. kClaimedPerFace
          /\ slot # 0 => Positive(claims.rows[r].sizes[slot].px) /\ claims.rows[r].sizes[slot].size = size
      BY <2>1, <2>2, SlotOfSize
    <3> QED BY <1>5, <3>1 DEF Caps
  <2>4. claims.rows[r].sizes[slot] \in Claim /\ clock \in Nat
    <3>1. claims.rows[r].sizes \in [1 .. kClaimedPerFace -> Claim]
      BY <2>2 DEF Row
    <3>2. claims.clock \in Nat
      BY <1>2 DEF Tables
    <3>3. claims.rows[r].sizes[slot] \in Claim
      BY <2>3, <3>1
    <3>4. clock \in Nat
      BY <3>2
    <3> QED BY <3>3, <3>4
  <2>5. TouchClaimedSize(claims, face, size) = new
    BY <1>1, <1>2, <1>5, <2>1, <2>2, <2>3, <2>4 DEF Tables, Row, Claim
  <2>6. /\ claim \in Claim /\ claim.used = clock /\ claim.size = claims.rows[r].sizes[slot].size
        /\ claim.px = claims.rows[r].sizes[slot].px
    BY <2>4 DEF Claim
  <2> HIDE DEF claim
  <2>7. /\ written \in Row(Names) /\ written.face = claims.rows[r].face
        /\ \A a \in 1 .. kClaimedPerFace :
               written.sizes[a] = IF a = slot THEN claim ELSE claims.rows[r].sizes[a]
    BY <2>2, <2>3, <2>6 DEF Row
  <2> HIDE DEF written, clock
  <2>8. /\ new \in Tables(Names) /\ new.clock = clock
        /\ \A i \in 1 .. kClaimedFaces : new.rows[i] = IF i = r THEN written ELSE claims.rows[i]
    BY <1>2, <2>1, <2>4, <2>7 DEF Tables
  <2> HIDE DEF new
  <2>9. ClaimPut(claims, new, r, slot, claim)
    <3>1. claim.size = CharSize26_6(claim.px)
      BY <2>2, <2>3, <2>6 DEF RoundsToItsSize
    <3>2. \A a \in 1 .. kClaimedPerFace \ {slot} :
              Positive(claims.rows[r].sizes[a].px) => claims.rows[r].sizes[a].size # claim.size
      BY <2>2, <2>3, <2>6 DEF OneClaimEach
    <3>3. \A i \in 1 .. kClaimedFaces, a \in 1 .. kClaimedPerFace :
              new.rows[i].sizes[a] = IF i = r /\ a = slot THEN claim ELSE claims.rows[i].sizes[a]
      BY <2>7, <2>8
    <3>4. \A i \in 1 .. kClaimedFaces : new.rows[i].face = claims.rows[i].face
      BY <2>7, <2>8
    <3> QED BY <2>1, <2>3, <2>6, <2>8, <3>1, <3>2, <3>3, <3>4 DEF ClaimPut, clock
  <2>10. SoundTable(new, Names)
    BY <2>8, <2>9, ClaimWritten
  <2>11. /\ \A i \in 1 .. kClaimedFaces : new.rows[i].face = claims.rows[i].face
         /\ \A i \in 1 .. kClaimedFaces, a \in 1 .. kClaimedPerFace :
                /\ new.rows[i].sizes[a].px = claims.rows[i].sizes[a].px
                /\ new.rows[i].sizes[a].size = claims.rows[i].sizes[a].size
    BY <2>6, <2>7, <2>8
  <2> QED BY <2>5, <2>10, <2>11 DEF Claimed
<1> QED BY <1>4, <1>5

\* What ForgetClaimedSizes leaves: the claims of the other faces.
LEMMA FaceForgotten ==
  ASSUME Caps, NEW Names, NoFace \notin Names, NEW claims, SoundTable(claims, Names), NEW face \in Names
  PROVE  LET new == ForgetClaimedSizes(claims, face)
         IN  /\ SoundTable(new, Names)
             /\ \A g, n, i, a : Claimed(new, g, n, i, a) <=> g # face /\ Claimed(claims, g, n, i, a)
             /\ \A g, n, i, a : Claimed(new, g, n, i, a) =>
                    new.rows[i].sizes[a].px = claims.rows[i].sizes[a].px
<1> DEFINE r == FindClaimedFaceLocked(claims, face)
           new == [claims EXCEPT !.rows[r] = NoRow]
<1>1. ForgetClaimedSizes(claims, face) = IF r = 0 THEN claims ELSE new
  BY DEF ForgetClaimedSizes
<1>2. claims \in Tables(Names) /\ face # NoFace
  BY DEF SoundTable
<1>3. /\ r \in 0 .. kClaimedFaces
      /\ r # 0 => claims.rows[r].face = face
      /\ \A i \in 1 .. kClaimedFaces : claims.rows[i].face = face => i = r
  BY <1>2, RowOfFace
<1> HIDE DEF r
<1>4. CASE r = 0
  <2>1. \A i \in 1 .. kClaimedFaces : claims.rows[i].face # face
    BY <1>3, <1>4 DEF Caps
  <2> QED BY <1>1, <1>4, <2>1 DEF Claimed
<1>5. CASE r # 0
  <2>1. r \in 1 .. kClaimedFaces
    BY <1>3, <1>5 DEF Caps
  <2>2. RowEmptied(claims, new, r, NoFace, claims.next)
    <3>1. NoRow = [NoRow EXCEPT !.face = NoFace]
      BY FreeRow DEF Row
    <3>2. claims.next \in 1 .. kClaimedFaces
      BY <1>2 DEF Tables
    <3> HIDE DEF new
    <3>3. new = [claims EXCEPT !.rows[r] = NoRow, !.next = claims.next]
      BY <1>2 DEF Tables, new
    <3>4. new = [claims EXCEPT !.rows[r] = [NoRow EXCEPT !.face = NoFace], !.next = claims.next]
      BY <3>1, <3>3
    <3> QED BY <2>1, <3>2, <3>4 DEF RowEmptied
  <2> HIDE DEF new
  <2>3. NoFace \in Names \cup {NoFace}
    OBVIOUS
  <2>4. /\ SoundTable(new, Names)
        /\ new.rows[r].face = NoFace
        /\ \A a \in 1 .. kClaimedPerFace : ~Positive(new.rows[r].sizes[a].px)
        /\ \A i \in 1 .. kClaimedFaces \ {r} : new.rows[i] = claims.rows[i]
    BY <2>2, <2>3, RowReplaced
  <2> QED BY <1>1, <1>3, <1>5, <2>4 DEF Claimed
<1> QED BY <1>4, <1>5

\* Whatever is claimed, touched and forgotten, in any order, the table of claimed sizes has one row for
\* a face and one claim for a size of it, each claim under the 64ths it rounds to, and no two claims
\* used at one moment: the newest, which AdjustedSizeForFace answers with, is one claim.
THEOREM TableStaysSound ==
  ASSUME Caps, NEW Names, NoFace \notin Names
  PROVE  /\ SoundTable(NoClaims, Names)
         /\ \A claims : \A face \in Names : SoundTable(claims, Names) =>
                /\ \A px, ft_px \in Fractions, from_adjusted \in BOOLEAN :
                       SoundTable(RecordClaimedSize(claims, face, px, ft_px, from_adjusted), Names)
                /\ \A size : SoundTable(TouchClaimedSize(claims, face, size), Names)
                /\ SoundTable(ForgetClaimedSizes(claims, face), Names)
<1>1. SoundTable(NoClaims, Names)
  <2>1. /\ NoClaims \in Tables(Names)
        /\ \A i \in 1 .. kClaimedFaces : NoClaims.rows[i] = NoRow
    BY FreeRow DEF NoClaims, Tables, Caps
  <2>2. NoRow.face = NoFace /\ \A a \in 1 .. kClaimedPerFace : ~Positive(NoRow.sizes[a].px)
    BY FreeRow
  <2> QED BY <2>1, <2>2 DEF SoundTable, OneRowEach, OneClaimEach, RoundsToItsSize, UsedInTurn
<1>2. ASSUME NEW claims, NEW face \in Names, SoundTable(claims, Names),
             NEW px \in Fractions, NEW ft_px \in Fractions, NEW from_adjusted \in BOOLEAN
      PROVE  SoundTable(RecordClaimedSize(claims, face, px, ft_px, from_adjusted), Names)
  <2>1. CASE InRange(px)
    BY <1>2, <2>1, SizeRecorded
  <2>2. CASE ~InRange(px)
    BY <1>2, <2>2 DEF RecordClaimedSize
  <2> QED BY <2>1, <2>2
<1>3. ASSUME NEW claims, NEW face \in Names, SoundTable(claims, Names)
      PROVE  /\ \A size : SoundTable(TouchClaimedSize(claims, face, size), Names)
             /\ SoundTable(ForgetClaimedSizes(claims, face), Names)
  BY <1>3, ClaimTouched, FaceForgotten
<1> QED BY <1>1, <1>2, <1>3

\* What RecordClaimedSize was told is what ClaimedSizeFor answers, and no claim ever changes another
\* face's or another size's answer for a third value: a row or a slot taken for it only loses answers.
THEOREM TheClaimIsAnswered ==
  ASSUME Caps, NEW Names, NoFace \notin Names, NEW claims, SoundTable(claims, Names), NEW face \in Names,
         NEW px \in Fractions, InRange(px), NEW ft_px \in Fractions, NEW from_adjusted \in BOOLEAN
  PROVE  LET new == RecordClaimedSize(claims, face, px, ft_px, from_adjusted)
         IN  /\ ClaimedSizeFor(new, face, CharSize26_6(px)) = px
             /\ \A g \in Names : \A size : g # face \/ size # CharSize26_6(px) =>
                    ClaimedSizeFor(new, g, size) \in {ClaimedSizeFor(claims, g, size), NoSize}
<1> DEFINE new == RecordClaimedSize(claims, face, px, ft_px, from_adjusted)
<1>1. /\ SoundTable(new, Names)
      /\ \E i, a : Claimed(new, face, CharSize26_6(px), i, a) /\ new.rows[i].sizes[a].px = px
      /\ \A g, size, i, a : Claimed(new, g, size, i, a) =>
             \/ g = face /\ size = CharSize26_6(px)
             \/ Claimed(claims, g, size, i, a)
                /\ new.rows[i].sizes[a].px = claims.rows[i].sizes[a].px
  BY SizeRecorded
<1> HIDE DEF new
<1>2. ClaimedSizeFor(new, face, CharSize26_6(px)) = px
  BY <1>1, ClaimAnswers
<1>3. ASSUME NEW g \in Names, NEW size, g # face \/ size # CharSize26_6(px)
      PROVE  ClaimedSizeFor(new, g, size) \in {ClaimedSizeFor(claims, g, size), NoSize}
  <2>1. g # NoFace
    OBVIOUS
  <2>2. CASE \E i, a : Claimed(new, g, size, i, a)
    <3>1. PICK i, a : Claimed(new, g, size, i, a)
      BY <2>2
    <3>2. Claimed(claims, g, size, i, a) /\ new.rows[i].sizes[a].px = claims.rows[i].sizes[a].px
      BY <1>1, <1>3, <3>1
    <3>3. ClaimedSizeFor(new, g, size) = new.rows[i].sizes[a].px
      BY <1>1, <2>1, <3>1, ClaimAnswers
    <3>4. ClaimedSizeFor(claims, g, size) = claims.rows[i].sizes[a].px
      BY <2>1, <3>2, ClaimAnswers
    <3> QED BY <3>2, <3>3, <3>4
  <2>3. CASE \A i, a : ~Claimed(new, g, size, i, a)
    BY <1>1, <2>1, <2>3, ClaimAnswers
  <2> QED BY <2>2, <2>3
<1> QED BY <1>2, <1>3 DEF new

\* A touch changes no answer.  A face that dies is forgotten altogether, so the face FreeType makes at
\* its address next is not told its sizes; no other face loses any.
THEOREM OnlyTheFaceIsForgotten ==
  ASSUME Caps, NEW Names, NoFace \notin Names, NEW claims, SoundTable(claims, Names), NEW face \in Names,
         NEW g \in Names, NEW size, NEW touched
  PROVE  /\ ClaimedSizeFor(TouchClaimedSize(claims, face, touched), g, size) = ClaimedSizeFor(claims, g, size)
         /\ ClaimedSizeFor(ForgetClaimedSizes(claims, face), g, size) =
                IF g = face THEN NoSize ELSE ClaimedSizeFor(claims, g, size)
<1>0. g # NoFace
  OBVIOUS
<1>1. ASSUME NEW new, SoundTable(new, Names),
             \A i, a : Claimed(new, g, size, i, a) <=> Claimed(claims, g, size, i, a),
             \A i, a : Claimed(new, g, size, i, a) => new.rows[i].sizes[a].px = claims.rows[i].sizes[a].px
      PROVE  ClaimedSizeFor(new, g, size) = ClaimedSizeFor(claims, g, size)
  <2>1. CASE \E i, a : Claimed(claims, g, size, i, a)
    <3>1. PICK i, a : Claimed(claims, g, size, i, a)
      BY <2>1
    <3>2. /\ ClaimedSizeFor(claims, g, size) = claims.rows[i].sizes[a].px
          /\ ClaimedSizeFor(new, g, size) = new.rows[i].sizes[a].px
      BY <1>0, <1>1, <3>1, ClaimAnswers
    <3> QED BY <1>1, <3>1, <3>2
  <2>2. CASE \A i, a : ~Claimed(claims, g, size, i, a)
    BY <1>0, <1>1, <2>2, ClaimAnswers
  <2> QED BY <2>1, <2>2
<1>2. ClaimedSizeFor(TouchClaimedSize(claims, face, touched), g, size) = ClaimedSizeFor(claims, g, size)
  BY <1>1, ClaimTouched
<1> DEFINE new == ForgetClaimedSizes(claims, face)
<1>3. /\ SoundTable(new, Names)
      /\ \A n, i, a : Claimed(new, g, n, i, a) <=> g # face /\ Claimed(claims, g, n, i, a)
      /\ \A n, i, a : Claimed(new, g, n, i, a) =>
             new.rows[i].sizes[a].px = claims.rows[i].sizes[a].px
  BY FaceForgotten
<1> HIDE DEF new
<1>4. g = face => ClaimedSizeFor(new, g, size) = NoSize
  <2> HAVE g = face
  <2>1. \A i, a : ~Claimed(new, g, size, i, a)
    BY <1>3
  <2> QED BY <1>0, <1>3, <2>1, ClaimAnswers
<1>5. g # face => ClaimedSizeFor(new, g, size) = ClaimedSizeFor(claims, g, size)
  <2> HAVE g # face
  <2>1. \A i, a : Claimed(new, g, size, i, a) <=> Claimed(claims, g, size, i, a)
    BY <1>3
  <2> QED BY <1>1, <1>3, <2>1
<1> QED BY <1>2, <1>4, <1>5 DEF new

----------------------------------------------------------------------------
(* Undoing the rounding *)

\* Max, of two numbers and of one.
LEMMA LargerOfTwo ==
  ASSUME NEW a \in Int, NEW b \in Int
  PROVE  Max({a, b}) \in {a, b} /\ Max({a, b}) \in Int
<1>1. \E x \in {a, b} : \A y \in {a, b} : x >= y
  <2>1. CASE a >= b
    BY <2>1
  <2>2. CASE ~(a >= b)
    BY <2>2
  <2> QED BY <2>1, <2>2
<1> QED BY <1>1 DEF Max

LEMMA OnlyMember ==
  ASSUME NEW S, S \subseteq Int, Cardinality(S) = 1, IsFiniteSet(S)
  PROVE  Max(S) \in S
<1>1. PICK x : S = {x}
  BY FS_Singleton
<1> QED BY <1>1 DEF Max

\* An answer, unless it declines, is what FreeType rounded
RoundsTo(px, em) == Positive(px) => CharSize26_6(px) = em

LEMMA ExactRoundsBack ==
  ASSUME NEW em \in Int, NEW per \in Nat \ {0}
  PROVE  ExactEmSize(em, per) \in Fractions /\ RoundsTo(ExactEmSize(em, per), em)
<1>1. NoSize \in Fractions /\ ~Positive(NoSize)
  BY DEF NoSize, Fractions, Positive
<1>2. (em * per + 32) \div 64 \in Int
  OBVIOUS
<1>3. AppUnits((em * per + 32) \div 64, per) \in Fractions
  BY <1>2, AppUnitsAreSizes
<1> QED BY <1>1, <1>3 DEF ExactEmSize, RoundsTo

LEMMA ReductionsAreSizes ==
  ASSUME NEW units \in Int, NEW per \in Nat \ {0}
  PROVE  SubSuperSize(units, per) \in Fractions /\ SmallCapsSize(units, per) \in Fractions
<1>1. 25 * per \in Nat \ {0} /\ 15625 * per \in Nat \ {0} /\ 125 * per \in Nat \ {0} /\ 5 * per \in Nat \ {0}
  OBVIOUS
<1>2. /\ 1312 * units \in Int /\ 2 * units * (471200 - 51 * units) \in Int
      /\ 5336 * units \in Int /\ 256 * units \in Int
  OBVIOUS
<1> QED BY <1>1, <1>2 DEF SubSuperSize, SmallCapsSize, Fractions

\* A reduced size is found only among those that round to what is asked.
LEMMA SearchRoundsBack ==
  ASSUME NEW em \in Int, NEW per \in Nat \ {0}
  PROVE  SearchReduced(em, per) \in Fractions /\ RoundsTo(SearchReduced(em, per), em)
<1> DEFINE low == Max({1, (em * per * 25) \div 1312})
           high == ((em * per * 125 + 5335) \div 5336) + 1
           units == low .. high
           scripts == { u \in units : CharSize26_6(SubSuperSize(u, per)) = em }
           capitals == { u \in units : CharSize26_6(SmallCapsSize(u, per)) = em }
<1>1. low \in Int /\ high \in Int
  <2>1. (em * per * 25) \div 1312 \in Int
    OBVIOUS
  <2> QED BY <2>1, LargerOfTwo
<1>2. SearchReduced(em, per) =
          IF Cardinality(scripts) = 1 THEN SubSuperSize(Max(scripts), per)
          ELSE IF Cardinality(capitals) = 1 THEN SmallCapsSize(Max(capitals), per)
          ELSE NoSize
  BY DEF SearchReduced
<1> HIDE DEF low, high
<1>3. IsFiniteSet(units) /\ units \subseteq Int
  BY <1>1, FS_Interval
<1> HIDE DEF units
<1>4. /\ IsFiniteSet(scripts) /\ scripts \subseteq Int
      /\ \A u \in scripts : CharSize26_6(SubSuperSize(u, per)) = em
  BY <1>3, FS_Subset
<1>5. /\ IsFiniteSet(capitals) /\ capitals \subseteq Int
      /\ \A u \in capitals : CharSize26_6(SmallCapsSize(u, per)) = em
  BY <1>3, FS_Subset
<1> HIDE DEF scripts, capitals
<1>6. CASE Cardinality(scripts) = 1
  <2>1. Max(scripts) \in scripts
    BY <1>4, <1>6, OnlyMember
  <2> QED BY <1>2, <1>4, <1>6, <2>1, ReductionsAreSizes DEF RoundsTo
<1>7. CASE Cardinality(scripts) # 1 /\ Cardinality(capitals) = 1
  <2>1. Max(capitals) \in capitals
    BY <1>5, <1>7, OnlyMember
  <2> QED BY <1>2, <1>5, <1>7, <2>1, ReductionsAreSizes DEF RoundsTo
<1>8. CASE Cardinality(scripts) # 1 /\ Cardinality(capitals) # 1
  BY <1>2, <1>8 DEF RoundsTo, NoSize, Positive, Fractions
<1> QED BY <1>6, <1>7, <1>8

Memos == [size : Int, px : Fractions]

\* The last answer of a thread stands for a question about the same size, so it answers it.
LEMMA ReconstructionRoundsBack ==
  ASSUME NEW s, s.per \in Nat \ {0}, s.memo \in Memos, RoundsTo(s.memo.px, s.memo.size),
         NEW em \in Int
  PROVE  LET answer == Reconstructed(s, em)
         IN  /\ em > 0 => Positive(answer.px) /\ CharSize26_6(answer.px) = em
             /\ answer.memo \in Memos /\ RoundsTo(answer.memo.px, answer.memo.size)
<1> DEFINE exact == ExactEmSize(em, s.per)
           found == SearchReduced(em, s.per)
           px == IF s.memo.size = em THEN s.memo.px ELSE found
           own == <<em, 1>>
           answer == Reconstructed(s, em)
<1>1. exact \in Fractions /\ RoundsTo(exact, em)
  BY ExactRoundsBack
<1>2. found \in Fractions /\ RoundsTo(found, em)
  BY SearchRoundsBack
<1>3. CharSize26_6(own) = em /\ (em > 0 => Positive(own))
  <2>1. em \div 1 = em /\ em % 1 = 0
    OBVIOUS
  <2> QED BY <2>1 DEF Fractions, Positive, CharSize26_6
<1>4. px \in Fractions /\ RoundsTo(px, em)
  BY <1>2 DEF Memos
<1>5. answer = IF Positive(exact) THEN [px |-> exact, memo |-> s.memo]
               ELSE IF em <= 0 THEN [px |-> IF Positive(NoSize) THEN NoSize ELSE own, memo |-> s.memo]
               ELSE [px |-> IF Positive(px) THEN px ELSE own, memo |-> [size |-> em, px |-> px]]
  BY DEF Reconstructed, ReducedEmSize
<1> HIDE DEF exact, found, px, own, answer
<1> QED BY <1>1, <1>3, <1>4, <1>5 DEF RoundsTo, Memos, answer

----------------------------------------------------------------------------
(* A process *)

Instances == {NoInstance} \cup [1 .. kWrSlots -> Fractions]

Finders == [instance : Instances, offset : 0 .. kWrSlots, candidates : SUBSET (1 .. kWrSlots),
            agreed : Nat, last : Int]

FaceStates == [requested : Int, em : Int, ppem : Int, scalable : BOOLEAN, skia : BOOLEAN]

Processes(Names) ==
    [faces : UNION { [known -> FaceStates] : known \in SUBSET Names }, claims : Tables(Names), memo : Memos,
     per : Nat \ {0}, wr : Finders, scaler : Fractions,
     claimed_face : Names \cup {NoFace}, claimed_em : Int, claimed_px : Fractions]

SoundProcess(s, Names) ==
    /\ s \in Processes(Names)
    /\ SoundTable(s.claims, Names)
    /\ RoundsTo(s.memo.px, s.memo.size)
    /\ RoundsTo(s.claimed_px, s.claimed_em)

WrCaps == kWrSlots \in Nat

\* A WebRender instance answers with a size that rounds to the one asked, and the finder keeps its type.
LEMMA InstanceAnswers ==
  ASSUME WrCaps, NEW wr \in Finders, NEW em \in Int
  PROVE  LET asked == WebRenderInstanceSize(wr, em)
         IN  /\ asked.px \in Fractions /\ asked.wr \in Finders
             /\ Positive(asked.px) => InRange(asked.px) /\ CharSize26_6(asked.px) = em
<1> DEFINE fields == wr.instance
           spent == [wr EXCEPT !.instance = NoInstance]
           Holds(i) == InRange(fields[i]) /\ CharSize26_6(fields[i]) = em
           here == { i \in 1 .. kWrSlots : Holds(i) }
           left == wr.candidates \cap here
           agreed == wr.agreed + (IF em # wr.last THEN 1 ELSE 0)
           offset == IF agreed >= kWrSizeAgreements /\ Cardinality(left) = 1 THEN Max(left) ELSE 0
           learned == [spent EXCEPT !.candidates = left, !.agreed = agreed, !.last = em, !.offset = offset]
           asked == WebRenderInstanceSize(wr, em)
<1>1. asked = IF fields = NoInstance \/ em <= 0 THEN [px |-> NoSize, wr |-> spent]
              ELSE IF wr.offset # 0
              THEN [px |-> IF Holds(wr.offset) THEN fields[wr.offset] ELSE NoSize, wr |-> spent]
              ELSE [px |-> NoSize, wr |-> IF here = {} THEN spent ELSE learned]
  BY DEF WebRenderInstanceSize
<1>2. spent \in Finders /\ NoSize \in Fractions /\ ~Positive(NoSize)
  BY DEF Finders, Instances, NoSize, Fractions, Positive
<1>3. left \subseteq 1 .. kWrSlots
  OBVIOUS
<1> HIDE DEF left
<1>4. offset \in 0 .. kWrSlots
  <2>1. left \subseteq Int /\ IsFiniteSet(left)
    <3>1. IsFiniteSet(1 .. kWrSlots) /\ 1 .. kWrSlots \subseteq Int
      BY FS_Interval DEF WrCaps
    <3> QED BY <1>3, <3>1, FS_Subset
  <2>2. CASE Cardinality(left) = 1
    <3>1. Max(left) \in left
      BY <2>1, <2>2, OnlyMember
    <3>2. Max(left) \in 0 .. kWrSlots /\ 0 \in 0 .. kWrSlots
      <4>1. Max(left) \in 1 .. kWrSlots
        BY <1>3, <3>1
      <4> QED BY <4>1 DEF WrCaps
    <3> QED BY <3>2
  <2>3. CASE Cardinality(left) # 1
    BY <2>3 DEF WrCaps
  <2> QED BY <2>2, <2>3
<1>5. agreed \in Nat
  BY DEF Finders
<1> HIDE DEF offset, agreed, spent
<1>6. learned \in Finders
  BY <1>2, <1>3, <1>4, <1>5 DEF Finders
<1>7. CASE fields # NoInstance /\ wr.offset # 0
  <2>1. wr.offset \in 1 .. kWrSlots /\ fields \in [1 .. kWrSlots -> Fractions]
    BY <1>7 DEF Finders, Instances, WrCaps
  <2>2. fields[wr.offset] \in Fractions
    BY <2>1
  <2> QED BY <1>1, <1>2, <1>7, <2>2 DEF InRange
<1>8. CASE fields = NoInstance \/ wr.offset = 0
  BY <1>1, <1>2, <1>6, <1>8
<1> QED BY <1>7, <1>8

LEMMA SettledSizes ==
  ASSUME NEW size \in Int, NEW whole \in BOOLEAN
  PROVE  Settled(size, whole).em \in Int /\ Settled(size, whole).ppem \in Int
<1> DEFINE em == Max({64, size})
           ppem == (em + 32) \div 64
<1>1. em \in Int
  BY LargerOfTwo
<1> HIDE DEF em
<1>2. ppem \in Int
  BY <1>1
<1>3. Settled(size, whole) = [em |-> IF whole THEN 64 * ppem ELSE em, ppem |-> ppem]
  BY DEF Settled, em
<1> HIDE DEF ppem
<1> QED BY <1>1, <1>2, <1>3

\* One part of a process is replaced at a time.
LEMMA ClaimsReplaced ==
  ASSUME NEW Names, NEW s, SoundProcess(s, Names), NEW claims, SoundTable(claims, Names)
  PROVE  LET new == [s EXCEPT !.claims = claims]
         IN  SoundProcess(new, Names) /\ new.faces = s.faces /\ new.claims = claims
<1>1. s \in Processes(Names) /\ claims \in Tables(Names)
  BY DEF SoundProcess, SoundTable
<1> QED BY <1>1 DEF SoundProcess, Processes

LEMMA FinderReplaced ==
  ASSUME NEW Names, NEW s, SoundProcess(s, Names), NEW wr \in Finders
  PROVE  LET new == [s EXCEPT !.wr = wr]
         IN  SoundProcess(new, Names) /\ new.faces = s.faces /\ new.claims = s.claims
<1>1. s \in Processes(Names)
  BY DEF SoundProcess
<1> QED BY <1>1 DEF SoundProcess, Processes

LEMMA FaceReplaced ==
  ASSUME NEW Names, NEW s, SoundProcess(s, Names), NEW f \in DOMAIN s.faces, NEW face \in FaceStates
  PROVE  LET new == [s EXCEPT !.faces = [s.faces EXCEPT ![f] = face]]
         IN  /\ SoundProcess(new, Names) /\ DOMAIN new.faces = DOMAIN s.faces /\ new.claims = s.claims
             /\ s.faces[f] \in FaceStates
<1> DEFINE faces == [s.faces EXCEPT ![f] = face]
           new == [s EXCEPT !.faces = faces]
<1>1. s \in Processes(Names)
  BY DEF SoundProcess
<1>2. PICK known \in SUBSET Names : s.faces \in [known -> FaceStates]
  BY <1>1 DEF Processes
<1>3. faces \in [known -> FaceStates] /\ DOMAIN faces = DOMAIN s.faces /\ s.faces[f] \in FaceStates
  BY <1>2
<1>4. faces \in UNION { [names -> FaceStates] : names \in SUBSET Names }
  BY <1>3
<1> HIDE DEF faces
<1>5. SoundProcess(new, Names) /\ new.faces = faces /\ new.claims = s.claims
  BY <1>1, <1>4 DEF SoundProcess, Processes
<1> QED BY <1>3, <1>5 DEF faces

LEMMA RequestKept ==
  ASSUME NEW Names, NEW s, SoundProcess(s, Names), NEW f, NEW size \in Int
  PROVE  LET new == RecordRequestedEmSize(s, f, size)
         IN  SoundProcess(new, Names) /\ DOMAIN new.faces = DOMAIN s.faces /\ new.claims = s.claims
<1>1. s \in Processes(Names)
  BY DEF SoundProcess
<1>2. CASE f \in DOMAIN s.faces
  <2> DEFINE face == [s.faces[f] EXCEPT !.requested = size]
  <2>1. PICK known \in SUBSET Names : s.faces \in [known -> FaceStates]
    BY <1>1 DEF Processes
  <2>2. s.faces[f] \in FaceStates
    BY <1>2, <2>1
  <2>3. face \in FaceStates
    BY <2>2 DEF FaceStates
  <2>4. RecordRequestedEmSize(s, f, size) = [s EXCEPT !.faces = [s.faces EXCEPT ![f] = face]]
    BY <1>1, <1>2 DEF RecordRequestedEmSize, Processes
  <2> HIDE DEF face
  <2> QED BY <1>2, <2>3, <2>4, FaceReplaced
<1>3. CASE f \notin DOMAIN s.faces
  BY <1>3 DEF RecordRequestedEmSize
<1> QED BY <1>2, <1>3

LEMMA SizeInstalled ==
  ASSUME NEW Names, NEW s, SoundProcess(s, Names), NEW f \in DOMAIN s.faces, NEW size \in Int,
         NEW whole \in BOOLEAN
  PROVE  LET new == Installed(s, f, size, whole)
         IN  SoundProcess(new, Names) /\ DOMAIN new.faces = DOMAIN s.faces /\ new.claims = s.claims
<1> DEFINE em == Settled(size, whole).em
           ppem == Settled(size, whole).ppem
           face == [s.faces[f] EXCEPT !.em = em, !.ppem = ppem]
<1>1. s \in Processes(Names)
  BY DEF SoundProcess
<1>2. PICK known \in SUBSET Names : s.faces \in [known -> FaceStates]
  BY <1>1 DEF Processes
<1>3. s.faces[f] \in FaceStates /\ em \in Int /\ ppem \in Int
  BY <1>2, SettledSizes
<1>4. Installed(s, f, size, whole) = [s EXCEPT !.faces[f].em = em, !.faces[f].ppem = ppem]
  BY DEF Installed
<1> HIDE DEF em, ppem
<1>5. face \in FaceStates
  BY <1>3 DEF FaceStates
<1>6. Installed(s, f, size, whole) = [s EXCEPT !.faces = [s.faces EXCEPT ![f] = face]]
  BY <1>1, <1>2, <1>3, <1>4 DEF Processes, FaceStates
<1> HIDE DEF face
<1> QED BY <1>5, <1>6, FaceReplaced

LEMMA RecordingIsSound ==
  ASSUME Caps, NEW Names, NoFace \notin Names, NEW claims, SoundTable(claims, Names), NEW face \in Names,
         NEW px \in Fractions, NEW ft_px \in Fractions, NEW from_adjusted \in BOOLEAN
  PROVE  SoundTable(RecordClaimedSize(claims, face, px, ft_px, from_adjusted), Names)
  BY TableStaysSound

\* FT_Set_Char_Size: the claim, the size, the request and the touch.
LEMMA CharSizeSet ==
  ASSUME Caps, WrCaps, NEW Names, NoFace \notin Names, NEW s, SoundProcess(s, Names), NEW f \in DOMAIN s.faces,
         NEW size \in Int, NEW whole \in BOOLEAN, NEW how \in {"refused", "nested", "alone"}
  PROVE  SoundProcess(FT_Set_Char_Size(s, f, size, whole, how), Names)
<1> DEFINE asked == WebRenderInstanceSize(s.wr, size)
           ft_px == IF LessThanOnePixel(asked.px) THEN OnePixel ELSE asked.px
           claims == IF Positive(asked.px) /\ s.faces[f].scalable
                     THEN RecordClaimedSize(s.claims, f, asked.px, ft_px, TRUE)
                     ELSE s.claims
           found == [s EXCEPT !.wr = asked.wr]
           claimed == [found EXCEPT !.claims = claims]
           set == Installed(claimed, f, size, whole)
           noted == RecordRequestedEmSize(set, f, size)
           touched == TouchClaimedSize(claims, f, size)
<1>1. s \in Processes(Names) /\ SoundTable(s.claims, Names) /\ f \in Names
  BY DEF SoundProcess, Processes
<1>2. asked.px \in Fractions /\ asked.wr \in Finders
  BY <1>1, InstanceAnswers DEF Processes
<1>3. FT_Set_Char_Size(s, f, size, whole, how) =
          IF how = "refused" THEN claimed
          ELSE IF how = "nested" THEN RecordRequestedEmSize(set, f, Max({64, size}))
          ELSE [noted EXCEPT !.claims = touched]
  <2>1. claimed = [s EXCEPT !.wr = asked.wr, !.claims = claims]
    OBVIOUS
  <2> QED BY <2>1 DEF FT_Set_Char_Size
<1>4. SoundTable(claims, Names)
  <2>1. ft_px \in Fractions
    BY <1>2 DEF OnePixel, Fractions
  <2> QED BY <1>1, <1>2, <2>1, RecordingIsSound
<1>5. SoundProcess(found, Names) /\ found.faces = s.faces
  BY <1>2, FinderReplaced
<1> HIDE DEF claims, found
<1>6. SoundProcess(claimed, Names) /\ claimed.faces = s.faces
  BY <1>4, <1>5, ClaimsReplaced
<1> HIDE DEF claimed
<1>7. SoundProcess(set, Names)
  BY <1>6, SizeInstalled
<1> HIDE DEF set
<1>8. SoundProcess(noted, Names)
  BY <1>7, RequestKept
<1> HIDE DEF noted
<1>9. SoundTable(touched, Names)
  BY <1>1, <1>4, ClaimTouched
<1> HIDE DEF touched
<1>10. SoundProcess([noted EXCEPT !.claims = touched], Names)
  BY <1>8, <1>9, ClaimsReplaced
<1>11. SoundProcess(RecordRequestedEmSize(set, f, Max({64, size})), Names)
  <2>1. Max({64, size}) \in Int
    BY LargerOfTwo
  <2> QED BY <1>7, <2>1, RequestKept
<1> QED BY <1>3, <1>6, <1>10, <1>11

\* A process begins sound.
LEMMA FirstProcess ==
  ASSUME Caps, WrCaps, NEW Names, NoFace \notin Names, NEW known \in SUBSET Names,
         NEW faces \in [known -> FaceStates]
  PROVE  SoundProcess(NewProcess(faces), Names)
<1>1. NoSize \in Fractions /\ ~Positive(NoSize)
  BY DEF NoSize, Fractions, Positive
<1>2. NoMemo \in Memos /\ NoMemo.px = NoSize
  BY <1>1 DEF NoMemo, Memos
<1>3. WrUnknown \in Finders
  BY DEF WrUnknown, Finders, Instances, WrCaps
<1>4. SoundTable(NoClaims, Names) /\ NoClaims \in Tables(Names)
  <2>1. SoundTable(NoClaims, Names)
    BY TableStaysSound
  <2> QED BY <2>1 DEF SoundTable
<1>5. faces \in UNION { [names -> FaceStates] : names \in SUBSET Names }
  OBVIOUS
<1> DEFINE new == NewProcess(faces)
<1>6. new \in Processes(Names)
  BY <1>1, <1>2, <1>3, <1>4, <1>5 DEF NewProcess, Processes
<1>7. new.claims = NoClaims /\ new.memo = NoMemo /\ new.claimed_px = NoSize
  BY DEF NewProcess
<1> HIDE DEF new
<1>8. SoundProcess(new, Names)
  BY <1>1, <1>2, <1>4, <1>6, <1>7 DEF SoundProcess, RoundsTo
<1> QED BY <1>8 DEF new

\* No call that reaches the interposer, FreeType's own or the host's hints, leaves what the process
\* knows of sizes inconsistent: the table is sound, the thread's last search is an answer to its
\* question, and the size of a running InitMetrics rounds to the 64ths it was given as.
THEOREM ProcessStaysSound ==
  ASSUME Caps, WrCaps, NEW Names, NoFace \notin Names, NEW s, SoundProcess(s, Names),
         NEW f \in DOMAIN s.faces, NEW size \in Int, NEW whole \in BOOLEAN,
         NEW how \in {"refused", "nested", "alone"}, NEW pixels \in Nat, NEW px \in Fractions,
         NEW fields \in [1 .. kWrSlots -> Fractions], NEW units \in Int
  PROVE  /\ SoundProcess(FT_Set_Char_Size(s, f, size, whole, how), Names)
         /\ SoundProcess(FT_Set_Pixel_Sizes(s, f, pixels), Names)
         /\ SoundProcess(FT_Select_Size(s, f, pixels), Names)
         /\ SoundProcess(CleartypeClaimSize(s, f, px), Names)
         /\ SoundProcess(CleartypeClaimFace(s, f, px), Names)
         /\ SoundProcess(CleartypeEndInitMetrics(s), Names)
         /\ SoundProcess(CleartypeSetAppUnitsPerDevPixel(s, units), Names)
         /\ SoundProcess(CleartypeNoteWebRenderInstance(s, fields), Names)
         /\ SoundProcess(EraseFace(s, f), Names)
<1>1. s \in Processes(Names) /\ SoundTable(s.claims, Names) /\ f \in Names
  BY DEF SoundProcess, Processes
<1>2. 64 * pixels \in Int /\ TRUE \in BOOLEAN /\ FALSE \in BOOLEAN
  OBVIOUS
<1>3. SoundProcess(FT_Select_Size(s, f, pixels), Names)
  BY <1>2, SizeInstalled DEF FT_Select_Size
<1>4. SoundProcess(FT_Set_Pixel_Sizes(s, f, pixels), Names)
  <2> DEFINE set == Installed(s, f, 64 * pixels, TRUE)
  <2>1. SoundProcess(set, Names)
    BY <1>2, SizeInstalled
  <2> HIDE DEF set
  <2>2. SoundProcess(RecordRequestedEmSize(set, f, 64 * pixels), Names)
    BY <1>2, <2>1, RequestKept
  <2> QED BY <2>2 DEF FT_Set_Pixel_Sizes, set
<1>5. SoundProcess(CleartypeClaimSize(s, f, px), Names)
  <2> DEFINE ft_px == IF LessThanOnePixel(px) THEN OnePixel ELSE px
             claims == RecordClaimedSize(s.claims, f, px, ft_px, TRUE)
  <2>1. ft_px \in Fractions
    BY DEF OnePixel, Fractions
  <2>2. SoundTable(claims, Names)
    BY <1>1, <1>2, <2>1, RecordingIsSound
  <2>3. CleartypeClaimSize(s, f, px) \in {s, [s EXCEPT !.claims = claims]}
    BY DEF CleartypeClaimSize
  <2> HIDE DEF claims
  <2> QED BY <2>2, <2>3, ClaimsReplaced
<1>6. SoundProcess(CleartypeClaimFace(s, f, px), Names)
  <2> DEFINE em == IF InRange(px) THEN CharSize26_6(px) ELSE 0
             size_px == IF em > 0 /\ s.faces[f].scalable THEN px ELSE NoSize
             claims == IF Positive(size_px) THEN RecordClaimedSize(s.claims, f, size_px, px, FALSE)
                       ELSE s.claims
             counted == [s EXCEPT !.claims = claims]
  <2>1. em \in Int /\ size_px \in Fractions /\ RoundsTo(size_px, em)
    <3>1. NoSize \in Fractions /\ ~Positive(NoSize)
      BY DEF NoSize, Fractions, Positive
    <3>2. CharSize26_6(px) \in Int
      BY RoundedIsWhole
    <3> QED BY <3>1, <3>2 DEF RoundsTo
  <2>2. CleartypeClaimFace(s, f, px) =
            [s EXCEPT !.claimed_face = f, !.claimed_em = em, !.claimed_px = size_px, !.claims = claims]
    BY DEF CleartypeClaimFace
  <2> HIDE DEF em, size_px
  <2>3. SoundTable(claims, Names)
    BY <1>1, <1>2, <2>1, RecordingIsSound
  <2> HIDE DEF claims
  <2>4. claims \in Tables(Names)
    BY <2>3 DEF SoundTable
  <2> QED BY <1>1, <2>1, <2>2, <2>3, <2>4 DEF SoundProcess, Processes
<1>7. SoundProcess(CleartypeEndInitMetrics(s), Names)
  <2>1. NoSize \in Fractions /\ ~Positive(NoSize)
    BY DEF NoSize, Fractions, Positive
  <2> DEFINE new == [s EXCEPT !.claimed_face = NoFace, !.claimed_em = 0, !.claimed_px = NoSize]
  <2>2. new \in Processes(Names)
    <3>1. NoFace \in Names \cup {NoFace} /\ 0 \in Int
      OBVIOUS
    <3> QED BY ONLY <1>1, <2>1, <3>1 DEF Processes
  <2>3. new.claims = s.claims /\ new.memo = s.memo /\ new.claimed_px = NoSize
    BY <1>1 DEF Processes
  <2> HIDE DEF new
  <2>4. SoundProcess(new, Names)
    BY <1>1, <2>1, <2>2, <2>3 DEF SoundProcess, RoundsTo
  <2> QED BY <2>4 DEF CleartypeEndInitMetrics, new
<1>8. SoundProcess(CleartypeSetAppUnitsPerDevPixel(s, units), Names)
  <2>1. CASE units \in 1 .. 240
    <3> DEFINE new == [s EXCEPT !.per = units]
    <3>1. units \in Nat \ {0}
      BY <2>1
    <3>2. /\ new \in Processes(Names) /\ new.claims = s.claims /\ new.memo = s.memo
          /\ new.claimed_px = s.claimed_px /\ new.claimed_em = s.claimed_em
      BY <1>1, <3>1 DEF Processes
    <3> HIDE DEF new
    <3>3. SoundProcess(new, Names)
      BY <1>1, <3>2 DEF SoundProcess
    <3> QED BY <2>1, <3>3 DEF CleartypeSetAppUnitsPerDevPixel, new
  <2>2. CASE units \notin 1 .. 240
    BY <2>2 DEF CleartypeSetAppUnitsPerDevPixel
  <2> QED BY <2>1, <2>2
<1>9. SoundProcess(CleartypeNoteWebRenderInstance(s, fields), Names)
  <2> DEFINE wr == [s.wr EXCEPT !.instance = fields]
  <2>1. wr \in Finders
    BY <1>1 DEF Processes, Finders, Instances
  <2>2. CleartypeNoteWebRenderInstance(s, fields) = [s EXCEPT !.wr = wr]
    BY <1>1 DEF CleartypeNoteWebRenderInstance, Processes, Finders
  <2> HIDE DEF wr
  <2> QED BY <2>1, <2>2, FinderReplaced
<1>10. SoundProcess(EraseFace(s, f), Names)
  <2> DEFINE claims == ForgetClaimedSizes(s.claims, f)
             faces == [g \in DOMAIN s.faces \ {f} |-> s.faces[g]]
  <2>1. SoundTable(claims, Names)
    BY <1>1, FaceForgotten
  <2>2. EraseFace(s, f) = [s EXCEPT !.claims = claims, !.faces = faces]
    BY DEF EraseFace
  <2>3. PICK known \in SUBSET Names : s.faces \in [known -> FaceStates]
    BY <1>1 DEF Processes
  <2>4. faces \in [known \ {f} -> FaceStates] /\ known \ {f} \in SUBSET Names
    BY <2>3
  <2>5. faces \in UNION { [names -> FaceStates] : names \in SUBSET Names }
    BY <2>4
  <2> HIDE DEF claims, faces
  <2>6. claims \in Tables(Names)
    BY <2>1 DEF SoundTable
  <2> QED BY <1>1, <2>1, <2>2, <2>5, <2>6 DEF SoundProcess, Processes
<1> QED BY <1>3, <1>4, <1>5, <1>6, <1>7, <1>8, <1>9, <1>10, CharSizeSet

LEMMA ClaimRoundsToItsSize ==
  ASSUME Caps, NEW Names, NEW claims, SoundTable(claims, Names), NEW face, face # NoFace, NEW size
  PROVE  RoundsTo(ClaimedSizeFor(claims, face, size), size)
<1>1. CASE \E i, a : Claimed(claims, face, size, i, a)
  <2>1. PICK i, a : Claimed(claims, face, size, i, a)
    BY <1>1
  <2>2. ClaimedSizeFor(claims, face, size) = claims.rows[i].sizes[a].px
    BY <2>1, ClaimAnswers
  <2>3. claims.rows[i].sizes[a].size = CharSize26_6(claims.rows[i].sizes[a].px)
    BY <2>1 DEF Claimed, SoundTable, RoundsToItsSize
  <2> QED BY <2>1, <2>2, <2>3 DEF Claimed, RoundsTo
<1>2. CASE \A i, a : ~Claimed(claims, face, size, i, a)
  <2>1. ClaimedSizeFor(claims, face, size) = NoSize
    BY <1>2, ClaimAnswers
  <2> QED BY <2>1 DEF RoundsTo, NoSize, Positive
<1> QED BY <1>1, <1>2

LEMMA ProductRoundsBack ==
  ASSUME NEW size \in Fractions, NEW em \in Int
  PROVE  RoundsTo(ProductOfSize(size, em), em)
<1> DEFINE seed == (2048 * em * size[2] + size[1]) \div (2 * size[1])
           units == { u \in seed - 1 .. seed + 1 : u > 0 /\ CharSize26_6(Product(u, size)) = em }
<1>1. CASE Positive(size) /\ Cardinality(units) = 1
  <2>1. seed \in Int
    <3>1. 2048 * em * size[2] + size[1] \in Int /\ 2 * size[1] \in Nat \ {0}
      BY <1>1 DEF Fractions, Positive
    <3> DEFINE n == 2048 * em * size[2] + size[1]
               d == 2 * size[1]
    <3>2. n \in Int /\ d \in Nat \ {0}
      BY <3>1
    <3> HIDE DEF n, d
    <3>3. n \div d \in Int
      BY <3>2, Divides
    <3> QED BY <3>3 DEF n, d
  <2>2. ProductOfSize(size, em) = Product(Max(units), size)
    BY <1>1 DEF ProductOfSize
  <2> HIDE DEF seed
  <2>3. IsFiniteSet(seed - 1 .. seed + 1) /\ seed - 1 .. seed + 1 \subseteq Int
    BY <2>1, FS_Interval
  <2>4. /\ units \subseteq Int /\ IsFiniteSet(units)
        /\ \A u \in units : CharSize26_6(Product(u, size)) = em
    BY <2>3, FS_Subset
  <2> HIDE DEF units
  <2>5. Max(units) \in units
    BY <1>1, <2>4, OnlyMember
  <2> QED BY <2>2, <2>4, <2>5 DEF RoundsTo
<1>2. CASE ~(Positive(size) /\ Cardinality(units) = 1)
  <2>1. ProductOfSize(size, em) = NoSize
    BY <1>2 DEF ProductOfSize
  <2> QED BY <2>1 DEF RoundsTo, NoSize, Positive
<1> QED BY <1>1, <1>2

\* The size reported for a face always rounds to the 64ths FreeType is set to, whether it was claimed,
\* searched for or remembered from another number of units; for a face that Skia draws, where the
\* size of its scaler explains them.  Asking keeps the process sound.
THEOREM ReportedSizeRoundsBack ==
  ASSUME Caps, NEW Names, NoFace \notin Names, NEW s, SoundProcess(s, Names), NEW f \in DOMAIN s.faces
  PROVE  LET em == SizeNow(s.faces[f])
             answer == GetEmSize(s, f)
             own == ProductOfSize(s.scaler, em)
         IN  /\ SoundProcess([s EXCEPT !.memo = answer.memo], Names)
             /\ em > 0 /\ (s.faces[f].skia => Positive(s.scaler) /\ Positive(own)) =>
                    Positive(answer.px) /\ CharSize26_6(answer.px) = em
<1> DEFINE em == SizeNow(s.faces[f])
           skia == s.faces[f].skia
           claimed == ClaimedSizeFor(s.claims, f, em)
           scaled == ScaledEmSize(s.claims, f, s.scaler, em)
           own == ProductOfSize(s.scaler, em)
           path == <<em, 1>>
           found == Reconstructed(s, em)
           answer == GetEmSize(s, f)
<1>1. /\ s \in Processes(Names) /\ SoundTable(s.claims, Names) /\ f \in Names
      /\ RoundsTo(s.memo.px, s.memo.size) /\ s.scaler \in Fractions /\ s.memo \in Memos
      /\ s.per \in Nat \ {0}
  BY DEF SoundProcess, Processes
<1>2. em \in Int
  <2>1. s.faces[f] \in FaceStates
    BY <1>1 DEF Processes
  <2> QED BY <2>1 DEF SizeNow, FaceStates
<1>3. answer = IF Positive(claimed) THEN [px |-> claimed, memo |-> s.memo]
               ELSE IF skia /\ em = kSkiaPathSize THEN [px |-> path, memo |-> s.memo]
               ELSE IF skia /\ Positive(scaled) THEN [px |-> scaled, memo |-> s.memo]
               ELSE found
  BY DEF GetEmSize
<1> HIDE DEF em
<1>4. em > 0 /\ Positive(s.scaler) /\ Positive(own) => scaled = own
  <2>1. em > 0 => ~(em <= 0)
    BY <1>2
  <2> QED BY <2>1, Zenon DEF ScaledEmSize
<1>5. CharSize26_6(path) = em /\ (em > 0 => Positive(path))
  <2>1. em \div 1 = em /\ em % 1 = 0
    BY <1>2
  <2> QED BY <1>2, <2>1 DEF Positive, CharSize26_6
<1>6. RoundsTo(claimed, em) /\ RoundsTo(own, em)
  <2>1. f # NoFace
    BY <1>1
  <2> QED BY <1>1, <1>2, <2>1, ClaimRoundsToItsSize, ProductRoundsBack
<1>7. /\ em > 0 => Positive(found.px) /\ CharSize26_6(found.px) = em
      /\ found.memo \in Memos /\ RoundsTo(found.memo.px, found.memo.size)
  BY <1>1, <1>2, ReconstructionRoundsBack
<1> HIDE DEF claimed, scaled, own, path, found, answer, skia
<1>8. /\ answer.memo \in Memos /\ RoundsTo(answer.memo.px, answer.memo.size)
      /\ em > 0 /\ (skia => Positive(s.scaler) /\ Positive(own)) =>
             Positive(answer.px) /\ CharSize26_6(answer.px) = em
  BY <1>1, <1>3, <1>4, <1>5, <1>6, <1>7 DEF RoundsTo
<1>9. SoundProcess([s EXCEPT !.memo = answer.memo], Names)
  BY <1>1, <1>8 DEF SoundProcess, Processes
<1> QED BY <1>8, <1>9 DEF answer, em, own, skia

\* While InitMetrics runs, the size reported rounds to the 64ths that its font was announced with.
THEOREM ClaimedSizeRoundsBack ==
  ASSUME Caps, NEW Names, NoFace \notin Names, NEW s, SoundProcess(s, Names), NEW f, s.claimed_em > 0
  PROVE  LET answer == GetEmSizeClaimed(s, f)
         IN  Positive(answer.px) /\ CharSize26_6(answer.px) = s.claimed_em
<1>1. /\ s \in Processes(Names) /\ RoundsTo(s.memo.px, s.memo.size)
      /\ RoundsTo(s.claimed_px, s.claimed_em) /\ s.claimed_em \in Nat \ {0}
  BY DEF SoundProcess, Processes
<1> DEFINE found == Reconstructed(s, s.claimed_em)
<1>2. Positive(found.px) /\ CharSize26_6(found.px) = s.claimed_em
  BY <1>1, ReconstructionRoundsBack DEF Processes
<1>3. GetEmSizeClaimed(s, f) = IF Positive(s.claimed_px) THEN [px |-> s.claimed_px, memo |-> s.memo] ELSE found
  BY <1>1 DEF GetEmSizeClaimed
<1> HIDE DEF found
<1> QED BY <1>1, <1>2, <1>3 DEF RoundsTo
=============================================================================
