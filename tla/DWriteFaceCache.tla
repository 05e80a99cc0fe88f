---------------------------- MODULE DWriteFaceCache ----------------------------
(***************************************************************************)
(* The DirectWrite faces of one entry of the face table                    *)
(* (cleartype/src/freetype.cpp): dwrite_faces, a bounded cache that hands  *)
(* out borrowed pointers and evicts, and instances, the Windows font       *)
(* instances of parity mode, which hold references of their own.  A        *)
(* rasterization looks its face up under g_faces_mutex and reads it after  *)
(* the unlock, when other threads may evict it or drop the whole entry;    *)
(* HoldFace is what keeps it.                                              *)
(*                                                                         *)
(* A call on the caches is one step, and a critical section makes one or   *)
(* several.  DirectWrite is external: it makes a face or fails, and reuses *)
(* the address of one whose last reference went.                           *)
(***************************************************************************)
EXTENDS Naturals, Sequences, FiniteSets

CONSTANTS
    Threads,       \* threads that rasterize
    Axes,          \* axis positions of the font
    Sizes,         \* em sizes an instance is asked for
    Objects,       \* addresses of an IDWriteFontFace
    FacesCap,      \* 24 in the code
    InstancesCap,  \* 32 in the code
    MaxAnalyses,   \* bound on the analyses ever alive at once
    None           \* no DirectWrite face

ASSUME NoneAssumption == None \notin Objects
ASSUME SetsAssumption == IsFiniteSet(Threads) /\ IsFiniteSet(Objects)
ASSUME BoundsAssumption ==
    FacesCap \in Nat \ {0} /\ InstancesCap \in Nat \ {0} /\ MaxAnalyses \in Nat

VARIABLES
    known,         \* the entry is in the face table
    dwrite_faces,  \* FaceEntry::dwrite_faces, the oldest first
    instances,     \* FaceEntry::instances, the oldest first
    refs,          \* references on each IDWriteFontFace; at 0 there is none
    made_for,      \* external: the key a face was made for
    raster,        \* what each thread reads outside the lock
    analyses       \* IDWriteGlyphRunAnalysis objects that are alive

vars == <<known, dwrite_faces, instances, refs, made_for, raster, analyses>>

-----------------------------------------------------------------------------
(* Types *)

Simulations == {"none", "bold"}
Key == [simulations : Simulations, axes : Axes]
CachedDWriteFace == [key : Key, face : Objects \cup {None}]
WinInstance == [size : Sizes, axes : Axes, face : Objects \cup {None}]

Reading == [doing : {"texture", "outline"}, face : Objects, key : Key]
Idle == [doing |-> "nothing"]

TypeOK ==
    /\ known \in BOOLEAN
    /\ dwrite_faces \in Seq(CachedDWriteFace) /\ Len(dwrite_faces) <= FacesCap
    /\ instances \in Seq(WinInstance) /\ Len(instances) <= InstancesCap
    /\ refs \in [Objects -> Nat]
    /\ made_for \in [Objects -> Key \cup {None}]
    /\ raster \in [Threads -> Reading \cup {Idle}]
    /\ analyses \in Nat

-----------------------------------------------------------------------------
(* References *)

AddRef(count, o) == IF o = None THEN count ELSE [count EXCEPT ![o] = @ + 1]
Release(count, o) == IF o = None THEN count ELSE [count EXCEPT ![o] = @ - 1]

\* How many elements of a sequence of records have the face o.
Held(seq, o) == Cardinality({i \in DOMAIN seq : seq[i].face = o})

-----------------------------------------------------------------------------
(* GetDWriteFaceLocked, on a cache and the reference counts before it *)

Has(faces, key) == \E i \in DOMAIN faces : faces[i].key = key

\* What the lookup yields: what is cached, a failure included, or else a new face
\* or a new failure.
Yields(faces, count, key, o) ==
    IF Has(faces, key)
    THEN o \in {faces[i].face : i \in {j \in DOMAIN faces : faces[j].key = key}}
    ELSE o \in {p \in Objects : count[p] = 0} \cup {None}

\* (Mutants, here and below, are plausible bugs of the definition they precede.)
MutantUnbounded(faces, key, o) ==
    IF Has(faces, key) THEN faces ELSE Append(faces, [key |-> key, face |-> o])

MutantDuplicates(faces, key, o) ==
    Append(IF Len(faces) >= FacesCap THEN Tail(faces) ELSE faces, [key |-> key, face |-> o])

\* The cache after it: the oldest makes room.
Looked(faces, key, o) ==
    IF Has(faces, key) THEN faces
    ELSE Append(IF Len(faces) >= FacesCap THEN Tail(faces) ELSE faces,
                [key |-> key, face |-> o])

MutantEvictsUnreleased(faces, count, key, o) ==
    IF Has(faces, key) THEN count ELSE AddRef(count, o)

\* The counts after it: the new face is made before the oldest is released.
Counted(faces, count, key, o) ==
    IF Has(faces, key) THEN count
    ELSE AddRef(IF Len(faces) >= FacesCap THEN Release(count, Head(faces).face) ELSE count, o)

\* A key's DirectWrite face is made for that key.
Makes(faces, key, o) ==
    made_for' = IF Has(faces, key) \/ o = None THEN made_for
                ELSE [made_for EXCEPT ![o] = key]

-----------------------------------------------------------------------------
(* The entry *)

Init ==
    /\ known = FALSE
    /\ dwrite_faces = << >> /\ instances = << >>
    /\ refs = [o \in Objects |-> 0]
    /\ made_for = [o \in Objects |-> None]
    /\ raster = [t \in Threads |-> Idle]
    /\ analyses = 0

RecordFace ==
    /\ ~known
    /\ known' = TRUE
    /\ UNCHANGED <<dwrite_faces, instances, refs, made_for, raster, analyses>>

\* Every face the entry holds is released, whatever a thread is still reading.
EraseFaceLocked ==
    /\ known
    /\ known' = FALSE
    /\ dwrite_faces' = << >> /\ instances' = << >>
    /\ refs' = [o \in Objects |-> refs[o] - Held(dwrite_faces, o) - Held(instances, o)]
    /\ UNCHANGED <<made_for, raster, analyses>>

-----------------------------------------------------------------------------
(* Rasterizing *)

MutantBorrows(count, o) == count

\* HoldFace, taken before the unlock.
Hold(count, o) == AddRef(count, o)

\* RasterizeThroughDWrite up to the unlock.  It declines on a null face, on a
\* rendering mode with no answer and where CreateGlyphRunAnalysis fails; the second
\* analysis it tries for empty bounds replaces the first or is released.
Rasterize(t, key, o) ==
    /\ known /\ raster[t] = Idle
    /\ Yields(dwrite_faces, refs, key, o)
    /\ Makes(dwrite_faces, key, o)
    /\ dwrite_faces' = Looked(dwrite_faces, key, o)
    /\ LET count == Counted(dwrite_faces, refs, key, o) IN
       \/ /\ refs' = count
          /\ UNCHANGED <<raster, analyses>>
       \/ /\ o # None /\ analyses < MaxAnalyses
          /\ analyses' = analyses + 1
          /\ refs' = Hold(count, o)
          /\ raster' = [raster EXCEPT ![t] = [doing |-> "texture", face |-> o, key |-> key]]
    /\ UNCHANGED <<known, instances>>

\* Measures, or makes the texture or fails to: the analysis is released.
FinishTexture(t) ==
    /\ raster[t].doing = "texture"
    /\ analyses' = analyses - 1
    /\ refs' = Release(refs, raster[t].face)
    /\ raster' = [raster EXCEPT ![t] = Idle]
    /\ UNCHANGED <<known, dwrite_faces, instances, made_for>>

\* std::bad_alloc for the texture or its green channel returns at once.
TextureNoMemory(t) ==
    /\ raster[t].doing = "texture"
    /\ refs' = Release(refs, raster[t].face)
    /\ raster' = [raster EXCEPT ![t] = Idle]
    /\ UNCHANGED <<known, dwrite_faces, instances, made_for, analyses>>

-----------------------------------------------------------------------------
(* Windows instances *)

FindWinInstance(size, axes) ==
    {i \in DOMAIN instances : instances[i].size = size /\ instances[i].axes = axes}

Plain(axes) == [simulations |-> "none", axes |-> axes]

\* GetWinInstanceLocked for an instance there is none of: the oldest makes room
\* before the new one is computed, which looks its face up and may fail after that.
\* The caller may keep a reference, on `held`.
NewWinInstance(size, axes, o, valid, held) ==
    LET full == Len(instances) >= InstancesCap
        older == IF full THEN Tail(instances) ELSE instances
        count == IF full THEN Release(refs, Head(instances).face) ELSE refs
        face == IF valid THEN o ELSE None
    IN  /\ FindWinInstance(size, axes) = {}
        /\ Yields(dwrite_faces, count, Plain(axes), o)
        /\ Makes(dwrite_faces, Plain(axes), o)
        /\ dwrite_faces' = Looked(dwrite_faces, Plain(axes), o)
        /\ refs' = Hold(AddRef(Counted(dwrite_faces, count, Plain(axes), o), face), held)
        /\ instances' = Append(older, [size |-> size, axes |-> axes, face |-> face])

\* The metrics calls: ApplyWindowsMetrics, ApplyWindowsAdvance, SubstituteOS2 and
\* the others that ask for an instance and read it under the lock.
UseWinInstance(size, axes, o, valid) ==
    /\ known
    /\ NewWinInstance(size, axes, o, valid, None)
    /\ UNCHANGED <<known, raster, analyses>>

\* WinBoldGlyphAdvanceLocked and WinBoldGlyphInkLocked: the simulated face of an
\* instance, read under the lock.
UseBoldFace(axes, o) ==
    LET key == [simulations |-> "bold", axes |-> axes] IN
    /\ known
    /\ \E i \in DOMAIN instances : instances[i].axes = axes /\ instances[i].face # None
    /\ Yields(dwrite_faces, refs, key, o)
    /\ Makes(dwrite_faces, key, o)
    /\ dwrite_faces' = Looked(dwrite_faces, key, o)
    /\ refs' = Counted(dwrite_faces, refs, key, o)
    /\ UNCHANGED <<known, instances, raster, analyses>>

\* DecomposeThroughDWrite holds the face of an instance, new or not, and walks its
\* outline after the unlock.
Decompose(t, size, axes, o) ==
    /\ known /\ raster[t] = Idle /\ o # None
    /\ \/ /\ \E i \in FindWinInstance(size, axes) : instances[i].face = o
          /\ refs' = Hold(refs, o)
          /\ UNCHANGED <<dwrite_faces, instances, made_for>>
       \/ NewWinInstance(size, axes, o, TRUE, o)
    /\ raster' = [raster EXCEPT ![t] = [doing |-> "outline", face |-> o, key |-> Plain(axes)]]
    /\ UNCHANGED <<known, analyses>>

FinishOutline(t) ==
    /\ raster[t].doing = "outline"
    /\ refs' = Release(refs, raster[t].face)
    /\ raster' = [raster EXCEPT ![t] = Idle]
    /\ UNCHANGED <<known, dwrite_faces, instances, made_for, analyses>>

-----------------------------------------------------------------------------
Next ==
    \/ RecordFace
    \/ EraseFaceLocked
    \/ \E o \in Objects \cup {None} :
          \/ \E t \in Threads, key \in Key : Rasterize(t, key, o)
          \/ \E size \in Sizes, axes \in Axes, valid \in BOOLEAN :
                UseWinInstance(size, axes, o, valid)
          \/ \E axes \in Axes : UseBoldFace(axes, o)
          \/ \E t \in Threads, size \in Sizes, axes \in Axes : Decompose(t, size, axes, o)
    \/ \E t \in Threads :
          \/ FinishTexture(t)
          \/ TextureNoMemory(t)
          \/ FinishOutline(t)

Spec == Init /\ [][Next]_vars

-----------------------------------------------------------------------------
(* Properties *)

Busy(t) == raster[t] # Idle

\* What a thread reads outside the lock is alive, and still the face of the font
\* variant it asked for: neither an eviction nor the end of the entry takes it
\* (HoldFace).
ReadsTheFaceItAskedFor ==
    \A t \in Threads : Busy(t) =>
        refs[raster[t].face] > 0 /\ made_for[raster[t].face] = raster[t].key

\* The count of a DirectWrite face is exactly what the cache, the instances and the
\* threads at work have on it, so it goes with the last of them and not before.
EveryReferenceIsHeld ==
    \A o \in Objects :
        refs[o] = Held(dwrite_faces, o) + Held(instances, o)
                      + Cardinality({t \in Threads : Busy(t) /\ raster[t].face = o})

\* The cache answers a key with the face made for it, by one entry only, and an
\* instance draws from the plain face at its axis position (SameAxes, the cap).
AnswersTheKey ==
    /\ \A i \in DOMAIN dwrite_faces :
          /\ dwrite_faces[i].face # None => made_for[dwrite_faces[i].face] = dwrite_faces[i].key
          /\ \A j \in DOMAIN dwrite_faces : dwrite_faces[i].key = dwrite_faces[j].key => i = j
    /\ \A i \in DOMAIN instances :
          instances[i].face # None => made_for[instances[i].face] = Plain(instances[i].axes)

\* Declining leaves nothing behind: "Returns false for any glyph this cannot answer
\* for, with no side effects" (freetype.cpp:6756).  Every analysis alive is one a
\* thread is working on.
NoAnalysisLeaks == analyses = Cardinality({t \in Threads : raster[t].doing = "texture"})
=============================================================================
