------------------------------ MODULE FaceTable ------------------------------
(***************************************************************************)
(* The face table of cleartype/src/freetype.cpp: one entry per FT_Face the *)
(* host has open, kept by interposing the calls that open, reference and   *)
(* destroy faces.  Each interposed call has two halves.  The real FreeType *)
(* function runs first, with no lock of this library held; if it accepts,  *)
(* the table is updated under g_faces_mutex.  Nothing orders the table     *)
(* halves of two threads the way their real halves were ordered.           *)
(*                                                                         *)
(* FreeType is external: a face is a heap address, which the allocator     *)
(* hands out again once the face at it is gone, and so is a library.  Its  *)
(* contract is that a library, and the faces opened from it, are used by   *)
(* one thread at a time; different libraries may be used concurrently.     *)
(***************************************************************************)
EXTENDS Naturals, FiniteSets

CONSTANTS
    Threads,      \* threads of the host that call FreeType
    Faces,        \* addresses the allocator gives to an FT_Face
    Libs,         \* addresses the allocator gives to an FT_Library
    MaxRefs       \* bound on the references a face ever has

ASSUME ThreadsAssumption == IsFiniteSet(Threads)
ASSUME MaxRefsAssumption == MaxRefs \in Nat \ {0}

VARIABLES
    serialized,  \* external: whether the host makes one FreeType call at a time
    open,     \* external: the libraries that exist
    real,     \* external: FreeType's reference count of each face, 0 when there is none
    home,     \* external: the library a live face was opened from
    wanted,   \* InterposerWanted(): what g_host_uses_freetype answers
    g_faces,  \* the face table: address -> entry
    call      \* each thread's interposed call, while it is between its two halves

vars == <<serialized, open, real, home, wanted, g_faces, call>>

-----------------------------------------------------------------------------
(* Types *)

Entry == [refcount : Nat, library : Libs]
NoEntry == [refcount |-> 0]

Call == [op : {"record", "reference", "release"}, face : Faces, library : Libs]
            \cup [op : {"forget"}, library : Libs]
Idle == [op |-> "idle"]

TypeOK ==
    /\ serialized \in BOOLEAN
    /\ open \in SUBSET Libs
    /\ real \in [Faces -> Nat]
    /\ home \in [Faces -> Libs]
    /\ wanted \in BOOLEAN
    /\ g_faces \in [Faces -> Entry \cup {NoEntry}]
    /\ call \in [Threads -> Call \cup {Idle}]

-----------------------------------------------------------------------------
(* Helpers *)

Known(f) == g_faces[f] # NoEntry
Alive(f) == real[f] > 0

\* A library is in use while a call on it has not returned.  FT_Done_FreeType's
\* own call does not count: once its real half is over there is no library.
InUse(l) == \E t \in Threads : call[t].op \in {"record", "reference", "release"}
                                  /\ call[t].library = l

\* When a thread may start a call: FreeType's contract on the library, and, for
\* a host that serialises everything, no other call at all.
MayCall(t) ==
    /\ call[t] = Idle
    /\ serialized => \A u \in Threads : call[u] = Idle
MayUse(t, l) ==
    /\ MayCall(t)
    /\ l \in open
    /\ ~InUse(l)

Init ==
    /\ serialized \in BOOLEAN
    /\ open = {}
    /\ real = [f \in Faces |-> 0]
    /\ home \in [Faces -> Libs]
    /\ wanted \in BOOLEAN
    /\ g_faces = [f \in Faces |-> NoEntry]
    /\ call = [t \in Threads |-> Idle]

-----------------------------------------------------------------------------
(* The real halves: what FreeType does, and the call left to finish.        *)

\* FT_Init_FreeType is not interposed: a library appears at a free address.
InitFreeType(t, l) ==
    /\ MayCall(t)
    /\ l \notin open
    /\ open' = open \cup {l}
    /\ UNCHANGED <<serialized, real, home, wanted, g_faces, call>>

\* FT_New_Face, FT_New_Memory_Face and FT_Open_Face: a face at an address
\* nothing lives at.
OpenFace(t, f, l) ==
    /\ MayUse(t, l)
    /\ ~Alive(f)
    /\ real' = [real EXCEPT ![f] = 1]
    /\ home' = [home EXCEPT ![f] = l]
    /\ call' = [call EXCEPT ![t] = [op |-> "record", face |-> f, library |-> l]]
    /\ UNCHANGED <<serialized, open, wanted, g_faces>>

FT_Reference_Face(t, f) ==
    /\ MayUse(t, home[f])
    /\ real[f] \in 1 .. MaxRefs - 1
    /\ real' = [real EXCEPT ![f] = @ + 1]
    /\ call' = [call EXCEPT ![t] = [op |-> "reference", face |-> f, library |-> home[f]]]
    /\ UNCHANGED <<serialized, open, home, wanted, g_faces>>

\* Takes one reference; the face and its address go with the last one.
FT_Done_Face(t, f) ==
    /\ MayUse(t, home[f])
    /\ Alive(f)
    /\ real' = [real EXCEPT ![f] = @ - 1]
    /\ call' = [call EXCEPT ![t] = [op |-> "release", face |-> f, library |-> home[f]]]
    /\ UNCHANGED <<serialized, open, home, wanted, g_faces>>

\* Destroys the library and the faces still open from it, however many
\* references they have, without calling FT_Done_Face.
FT_Done_FreeType(t, l) ==
    /\ MayUse(t, l)
    /\ open' = open \ {l}
    /\ real' = [f \in Faces |-> IF home[f] = l THEN 0 ELSE real[f]]
    /\ call' = [call EXCEPT ![t] = [op |-> "forget", library |-> l]]
    /\ UNCHANGED <<serialized, home, wanted, g_faces>>

-----------------------------------------------------------------------------
(* The table halves, each one critical section of g_faces_mutex.            *)

Returns(t) == call' = [call EXCEPT ![t] = Idle]

\* Erases an entry left at the same address, then adds the new one.
RecordFace(t) ==
    /\ call[t].op = "record"
    /\ g_faces' = IF wanted
                  THEN [g_faces EXCEPT ![call[t].face] =
                           [refcount |-> 1, library |-> call[t].library]]
                  ELSE g_faces
    /\ Returns(t)
    /\ UNCHANGED <<serialized, open, real, home, wanted>>

ReferenceFace(t) ==
    /\ call[t].op = "reference"
    /\ g_faces' = IF Known(call[t].face)
                  THEN [g_faces EXCEPT ![call[t].face].refcount = @ + 1]
                  ELSE g_faces
    /\ Returns(t)
    /\ UNCHANGED <<serialized, open, real, home, wanted>>

\* (Mutants, here and below, are plausible bugs of the definition they precede.)
MutantForgetsLast(entry) ==
    IF entry.refcount <= 0 THEN NoEntry ELSE [entry EXCEPT !.refcount = @ - 1]
MutantKeepsCount(entry) == IF entry.refcount <= 1 THEN NoEntry ELSE entry

MutantUnderflows(entry) == [entry EXCEPT !.refcount = @ - 1]

\* What ReleaseFace leaves of an entry: the last reference erases it.
OneLess(entry) ==
    IF entry.refcount <= 1 THEN NoEntry ELSE [entry EXCEPT !.refcount = @ - 1]

ReleaseFace(t) ==
    /\ call[t].op = "release"
    /\ g_faces' = [g_faces EXCEPT ![call[t].face] = OneLess(@)]
    /\ Returns(t)
    /\ UNCHANGED <<serialized, open, real, home, wanted>>

MutantSweepsUnshared(f, l) == Known(f) /\ g_faces[f].library = l /\ g_faces[f].refcount = 1
MutantSweepsAll(f, l) == Known(f)

\* The sweep after FT_Done_FreeType: every entry opened from that library.
OpenedFrom(f, l) == Known(f) /\ g_faces[f].library = l

ForgetLibrary(t) ==
    /\ call[t].op = "forget"
    /\ g_faces' = [f \in Faces |-> IF OpenedFrom(f, call[t].library)
                                   THEN NoEntry ELSE g_faces[f]]
    /\ Returns(t)
    /\ UNCHANGED <<serialized, open, real, home, wanted>>

\* HostUsesThisFreeType finds an importer (module HostDetection): faces opened
\* before stay out of the table.
DetectHost ==
    /\ ~wanted
    /\ wanted' = TRUE
    /\ UNCHANGED <<serialized, open, real, home, g_faces, call>>

-----------------------------------------------------------------------------
TableHalf(t) == RecordFace(t) \/ ReferenceFace(t) \/ ReleaseFace(t) \/ ForgetLibrary(t)

Next ==
    \/ \E t \in Threads, l \in Libs : InitFreeType(t, l) \/ FT_Done_FreeType(t, l)
    \/ \E t \in Threads, f \in Faces, l \in Libs : OpenFace(t, f, l)
    \/ \E t \in Threads, f \in Faces : FT_Reference_Face(t, f) \/ FT_Done_Face(t, f)
    \/ \E t \in Threads : TableHalf(t)
    \/ DetectHost

Spec == Init /\ [][Next]_vars

\* A thread that has returned from FreeType goes on to the table half: there is
\* nothing to wait for but a mutex held for a bounded time.
FairSpec == Spec /\ \A t \in Threads : WF_vars(TableHalf(t))

-----------------------------------------------------------------------------
(* Properties *)

Releasing(f) == {t \in Threads : call[t].op = "release" /\ call[t].face = f}
Referencing(f) == {t \in Threads : call[t].op = "reference" /\ call[t].face = f}
Recording(f) == {t \in Threads : call[t].op = "record" /\ call[t].face = f}
Forgetting(l) == \E t \in Threads : call[t].op = "forget" /\ call[t].library = l

\* Whether some call will still correct f's entry.
Unsettled(f) ==
    \/ Recording(f) \cup Referencing(f) \cup Releasing(f) # {}
    \/ Known(f) /\ Forgetting(g_faces[f].library)

\* A serialised host finds FreeType's own count and library in the table between
\* calls, so a face is forgotten exactly when its last reference goes
\* (ReferenceFace, ReleaseFace, ForgetLibrary and the erase in RecordFace).
MirrorsFreeType ==
    (serialized /\ \A t \in Threads : call[t] = Idle)
        => \A f \in Faces :
              Known(f) => g_faces[f] = [refcount |-> real[f], library |-> home[f]]

\* However threads interleave, an entry counts at most the references FreeType
\* has, plus those whose release is still on its way to the table, minus those
\* whose increment is; only the sweep of a destroyed library is outside the count.
Accounting ==
    \A f \in Faces : Known(f) /\ ~Forgetting(g_faces[f].library) =>
        g_faces[f].refcount + Cardinality(Referencing(f))
            <= real[f] + Cardinality(Releasing(f))

\* Once no call is left to correct it, an entry is for a live face and counts no
\* more references than FreeType has: with no lock held across the two halves,
\* the table still never keeps a face that is gone for good.
NeverOutlivesFace ==
    \A f \in Faces : Known(f) /\ ~Unsettled(f) => Alive(f) /\ g_faces[f].refcount <= real[f]

\* The entry of a dead face does not stay: it is erased, or another face comes to
\* live at its address (ReleaseFace and ForgetLibrary run to the end).
DeadEntryGoes ==
    \A f \in Faces : (Known(f) /\ ~Alive(f)) ~> (~Known(f) \/ Alive(f))

\* A step that takes the entry of a face ends that face, unless the face is the
\* next one at the address and not recorded yet.
OnlyDeathErases ==
    \A f \in Faces :
        Known(f) /\ Alive(f) /\ Recording(f) = {} => Known(f)' \/ ~Alive(f)'

\* A serialised host never loses the entry of a face that lives on
\* (ReleaseFace and ForgetLibrary against a face reopened at the address).
SerializedKeepsEntry == [][serialized => OnlyDeathErases]_vars

\* ReleaseFace never does, whatever the host: "dropping the record before knowing
\* that un-registers a face that is still alive. Tearing down afterwards is safe"
\* (freetype.cpp:7408, on the order of FT_Done_Face's two halves).
LiveFaceKeepsEntry == [][\A t \in Threads : ReleaseFace(t) => OnlyDeathErases]_vars
=============================================================================
