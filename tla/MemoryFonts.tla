------------------------------ MODULE MemoryFonts ------------------------------
(***************************************************************************)
(* The font files DirectWrite reads (cleartype/src/freetype.cpp, from the  *)
(* memory font cache to GetFontFileLocked).  A font in memory is copied    *)
(* once into a counted blob that DirectWrite reads through streams of this *)
(* library; faces over the same bytes share the file.  Where DirectWrite   *)
(* will not read such a stream, its own in-memory loader takes a copy that *)
(* is never given back.                                                    *)
(*                                                                         *)
(* The face table and the cache are guarded by g_faces_mutex, the blobs by *)
(* g_blobs_mutex: DirectWrite opens streams from inside Analyze and drops  *)
(* them from its own threads, between any two steps of the mutex's holder. *)
(* DirectWrite is external, and so is the allocator that hands out the     *)
(* address of an IDWriteFontFile again once its last reference has gone.   *)
(***************************************************************************)
EXTENDS Integers, FiniteSets

CONSTANTS
    Faces,       \* entries of the face table
    Fonts,       \* the bytes of a font
    Digest,      \* HashFontBytes, with the size: two fonts may share one
    Files,       \* addresses of an IDWriteFontFile
    MaxId,       \* bound on the blobs ever made
    MaxStreams,  \* bound on the streams DirectWrite has open on one blob
    None         \* no face, no file, no font

ASSUME NoneAssumption == None \notin Faces \cup Fonts \cup Files
ASSUME FacesAssumption == IsFiniteSet(Faces)
ASSUME BoundsAssumption == MaxId \in Nat \ {0} /\ MaxStreams \in Nat \ {0}

VARIABLES
    font,         \* external: the bytes a face was opened on, None for no face
    dwrite_file,  \* FaceEntry::dwrite_file
    file_failed,  \* FaceEntry::file_failed
    cache,        \* MemoryFontFiles()
    refs,         \* references on each IDWriteFontFile; at 0 there is none
    made,         \* external: the bytes and the key a file was made with
    kept,         \* external: files DirectWrite itself holds a reference on
    table,        \* the ids in FontBlobs()
    next_id,      \* g_next_blob_id
    blob_refs,    \* FontBlob::refs
    bytes,        \* FontBlob::bytes, None where no blob is allocated
    streams,      \* external: streams DirectWrite has open on each blob
    freeing,      \* blobs a ReleaseBlob found at zero and has not deleted yet
    holder        \* how far the thread that holds g_faces_mutex is

entries == <<font, dwrite_file, file_failed>>
file_vars == <<cache, refs, made, kept>>
blob_vars == <<table, next_id, blob_refs, bytes, streams, freeing>>
vars == <<entries, file_vars, blob_vars, holder>>

-----------------------------------------------------------------------------
(* Types *)

Ids == 1 .. MaxId
NoBlob == 0
MemoryFontFile == [file : Files, font : Fonts, blob : Ids \cup {NoBlob}, uses : Int]

Steps == {"idle", "reference", "analyze", "fallback", "loader", "check", "forget"}
Holder == [at : Steps, face : Faces \cup {None}, file : Files \cup {None},
           blob : Ids \cup {NoBlob}]

Idle == [at |-> "idle", face |-> None, file |-> None, blob |-> NoBlob]
At(step, f, file, id) == [at |-> step, face |-> f, file |-> file, blob |-> id]

TypeOK ==
    /\ font \in [Faces -> Fonts \cup {None}]
    /\ dwrite_file \in [Faces -> Files \cup {None}]
    /\ file_failed \in [Faces -> BOOLEAN]
    /\ cache \in SUBSET MemoryFontFile
    /\ refs \in [Files -> Nat]
    /\ made \in [Files -> [font : Fonts, blob : Ids \cup {NoBlob}] \cup {None}]
    /\ kept \in SUBSET Files
    /\ table \in SUBSET Ids
    /\ next_id \in 1 .. MaxId + 1
    /\ blob_refs \in [Ids -> Nat]
    /\ bytes \in [Ids -> Fonts \cup {None}]
    /\ streams \in [Ids -> Nat]
    /\ freeing \in SUBSET Ids
    /\ holder \in Holder

-----------------------------------------------------------------------------
(* Blobs and files *)

\* ReleaseBlob, under g_blobs_mutex: whoever takes the last reference deletes.
Drop(id) ==
    /\ blob_refs' = [blob_refs EXCEPT ![id] = @ - 1]
    /\ freeing' = IF blob_refs[id] = 1 THEN freeing \cup {id} ELSE freeing

\* A new file, at an address where there is none.
MakeFile(file, count, c, id) ==
    /\ refs[file] = 0
    /\ refs' = [refs EXCEPT ![file] = count]
    /\ made' = [made EXCEPT ![file] = [font |-> c, blob |-> id]]

\* (Mutants, here and below, are plausible bugs of the definition they precede.)
MutantTrustsDigest(e, c) == Digest[e.font] = Digest[c]

\* Whether an entry answers for these bytes: the digest, and the bytes themselves
\* (SameFontBytes) where they were kept.
Matches(e, c) ==
    /\ Digest[e.font] = Digest[c]
    /\ e.blob # NoBlob => e.blob \in table /\ bytes[e.blob] = c

\* The reference the face or the caller had on a file goes.
ForgetPlain(file, newCache) ==
    /\ cache' = newCache
    /\ refs' = [refs EXCEPT ![file] = @ - 1]
    /\ holder' = Idle
    /\ UNCHANGED <<table, blob_refs, freeing>>

MutantKeepsUnused(e) == FALSE

\* Whether the face that lets go of an entry was the last one, of bytes that can be
\* given back.
LastUse(e) == e.uses <= 1 /\ e.blob # NoBlob

\* ForgetMemoryFontLocked and the file->Release() after it.  Erasing the id and
\* dropping the table's reference are two steps: ForgetBlob unlocks in between.
Forget(f, file) ==
    \/ /\ \A e \in cache : e.file # file
       /\ ForgetPlain(file, cache)
    \/ \E e \in cache :
          /\ e.file = file
          /\ ~LastUse(e)
          /\ ForgetPlain(file, (cache \ {e}) \cup {[e EXCEPT !.uses = @ - 1]})
    \/ \E e \in cache :
          /\ e.file = file
          /\ LastUse(e)
          /\ cache' = cache \ {e}
          /\ refs' = [refs EXCEPT ![file] = @ - 1]
          /\ table' = table \ {e.blob}
          /\ holder' = At("forget", f, file, e.blob)
          /\ UNCHANGED <<blob_refs, freeing>>

Init ==
    /\ font = [f \in Faces |-> None]
    /\ dwrite_file = [f \in Faces |-> None]
    /\ file_failed = [f \in Faces |-> FALSE]
    /\ cache = {}
    /\ refs = [file \in Files |-> 0]
    /\ made = [file \in Files |-> None]
    /\ kept = {}
    /\ table = {}
    /\ next_id = 1
    /\ blob_refs = [id \in Ids |-> 0]
    /\ bytes = [id \in Ids |-> None]
    /\ streams = [id \in Ids |-> 0]
    /\ freeing = {}
    /\ holder = Idle

-----------------------------------------------------------------------------
(* The holder of g_faces_mutex.  RecordFace and EraseFaceLocked open and close
   an entry; a first render runs GetFontFileLocked from beginning to end.      *)

RecordFace(f, c) ==
    /\ holder = Idle /\ font[f] = None
    /\ font' = [font EXCEPT ![f] = c]
    /\ UNCHANGED <<dwrite_file, file_failed, file_vars, blob_vars, holder>>

\* A face's file is asked for once: file_failed stands until it is there.
Asks(f) ==
    /\ holder = Idle /\ font[f] # None
    /\ dwrite_file[f] = None /\ ~file_failed[f]
    /\ file_failed' = [file_failed EXCEPT ![f] = TRUE]
    /\ UNCHANGED <<font, dwrite_file>>

\* The face has a path DirectWrite can open.
OpenByPath(f, file) ==
    /\ Asks(f)
    /\ MakeFile(file, 1, font[f], NoBlob)
    /\ holder' = At("check", f, file, NoBlob)
    /\ UNCHANGED <<cache, kept, blob_vars>>

\* Neither a usable path nor bytes: the face stays failed.
NoFontFile(f) ==
    /\ Asks(f)
    /\ UNCHANGED <<file_vars, blob_vars, holder>>

MutantSharesUncounted(e) == e

\* An entry with one more face on its file.
Shared(e) == [e EXCEPT !.uses = @ + 1]

\* MemoryFontFileLocked on bytes the cache has.
ReuseMemoryFont(f, e) ==
    /\ Asks(f)
    /\ e \in cache /\ Matches(e, font[f])
    /\ cache' = (cache \ {e}) \cup {Shared(e)}
    /\ refs' = [refs EXCEPT ![e.file] = @ + 1]
    /\ holder' = At("check", f, e.file, NoBlob)
    /\ UNCHANGED <<made, kept, blob_vars>>

IsNew(c) == \A e \in cache : ~Matches(e, c)

MutantReusesIds(id) == id \notin table /\ \A other \in 1 .. id - 1 : other \in table

\* The id a new blob gets.
FreshId(id) == id = next_id

\* CustomFontFileLocked: the copy, and its place in the table.
CopyFont(f, id) ==
    /\ Asks(f) /\ IsNew(font[f])
    /\ FreshId(id) /\ next_id <= MaxId
    /\ next_id' = next_id + 1
    /\ table' = table \cup {id}
    /\ bytes' = [bytes EXCEPT ![id] = font[f]]
    /\ blob_refs' = [blob_refs EXCEPT ![id] = 1]
    /\ holder' = At("reference", f, None, id)
    /\ UNCHANGED <<file_vars, streams, freeing>>

\* std::bad_alloc: the loader is asked instead.
NoMemoryForCopy(f) ==
    /\ Asks(f) /\ IsNew(font[f])
    /\ holder' = At("loader", f, None, NoBlob)
    /\ UNCHANGED <<file_vars, blob_vars>>

\* CreateCustomFontFileReference, which DirectWrite may refuse.
CreateReference(file) ==
    /\ holder.at = "reference"
    /\ MakeFile(file, 1, font[holder.face], holder.blob)
    /\ holder' = [holder EXCEPT !.at = "analyze", !.file = file]
    /\ UNCHANGED <<entries, cache, kept, blob_vars>>

ToLoader ==
    /\ table' = table \ {holder.blob}
    /\ holder' = At("fallback", holder.face, None, holder.blob)
    /\ UNCHANGED <<entries, cache, made, kept, next_id, blob_refs, bytes, streams, freeing>>

ReferenceRefused ==
    /\ holder.at = "reference"
    /\ refs' = refs
    /\ ToLoader

\* Analyze could not read the stream, or not what is in it.
AnalyzeRefused ==
    /\ holder.at = "analyze"
    /\ refs' = [refs EXCEPT ![holder.file] = @ - 1]
    /\ ToLoader

\* The file goes into the cache, which takes a reference of its own.
Cached(f, file, id) ==
    /\ cache' = cache \cup {[file |-> file, font |-> font[f], blob |-> id, uses |-> 1]}
    /\ holder' = At("check", f, file, NoBlob)

AnalyzeReads ==
    /\ holder.at = "analyze"
    /\ Cached(holder.face, holder.file, holder.blob)
    /\ refs' = [refs EXCEPT ![holder.file] = @ + 1]
    /\ UNCHANGED <<entries, made, kept, blob_vars>>

\* The rest of ForgetBlob, after a refusal or for a font whose last face went: the
\* table's reference to the blob, and then the face's to the file.
FinishFallback ==
    /\ holder.at = "fallback"
    /\ Drop(holder.blob)
    /\ holder' = At("loader", holder.face, None, NoBlob)
    /\ UNCHANGED <<entries, file_vars, table, next_id, bytes, streams>>

FinishForget ==
    /\ holder.at = "forget"
    /\ Drop(holder.blob)
    /\ refs' = [refs EXCEPT ![holder.file] = @ - 1]
    /\ holder' = Idle
    /\ UNCHANGED <<entries, cache, made, kept, table, next_id, bytes, streams>>

\* CreateInMemoryFontFileReference: DirectWrite copies the bytes.
LoaderCopies(file) ==
    /\ holder.at = "loader"
    /\ MakeFile(file, 2, font[holder.face], NoBlob)
    /\ Cached(holder.face, file, NoBlob)
    /\ UNCHANGED <<entries, kept, blob_vars>>

\* There is no such loader, or it fails.
LoaderFails ==
    /\ holder.at = "loader"
    /\ holder' = Idle
    /\ UNCHANGED <<entries, file_vars, blob_vars>>

\* The Analyze at the end of GetFontFileLocked.
Supported ==
    /\ holder.at = "check"
    /\ dwrite_file' = [dwrite_file EXCEPT ![holder.face] = holder.file]
    /\ file_failed' = [file_failed EXCEPT ![holder.face] = FALSE]
    /\ holder' = Idle
    /\ UNCHANGED <<font, file_vars, blob_vars>>

Unsupported ==
    /\ holder.at = "check"
    /\ Forget(holder.face, holder.file)
    /\ UNCHANGED <<entries, made, kept, next_id, bytes, streams>>

EraseFaceLocked(f) ==
    /\ holder = Idle /\ font[f] # None
    /\ font' = [font EXCEPT ![f] = None]
    /\ dwrite_file' = [dwrite_file EXCEPT ![f] = None]
    /\ file_failed' = [file_failed EXCEPT ![f] = FALSE]
    /\ IF dwrite_file[f] = None
       THEN UNCHANGED <<cache, refs, table, blob_refs, freeing, holder>>
       ELSE Forget(f, dwrite_file[f])
    /\ UNCHANGED <<made, kept, next_id, bytes, streams>>

-----------------------------------------------------------------------------
(* DirectWrite, on any thread *)

\* A DirectWrite face over the file, in a face's cache or held by a rasterization
\* that outlives the face, holds a reference on it.
Keep(file) ==
    /\ refs[file] > 0 /\ file \notin kept
    /\ kept' = kept \cup {file}
    /\ refs' = [refs EXCEPT ![file] = @ + 1]
    /\ UNCHANGED <<entries, cache, made, blob_vars, holder>>

LetGo(file) ==
    /\ file \in kept
    /\ kept' = kept \ {file}
    /\ refs' = [refs EXCEPT ![file] = @ - 1]
    /\ UNCHANGED <<entries, cache, made, blob_vars, holder>>

MutantBorrowsBlob(id) == blob_refs' = blob_refs

\* A stream holds the blob it reads.
StreamHolds(id) == blob_refs' = [blob_refs EXCEPT ![id] = @ + 1]

\* An id that is no longer in the table finds nothing, and the call fails.
CreateStreamFromKey(id) ==
    /\ id \in table /\ streams[id] < MaxStreams
    /\ StreamHolds(id)
    /\ streams' = [streams EXCEPT ![id] = @ + 1]
    /\ UNCHANGED <<entries, file_vars, table, next_id, bytes, freeing, holder>>

\* ~MemoryFontStream.
ReleaseStream(id) ==
    /\ streams[id] > 0
    /\ streams' = [streams EXCEPT ![id] = @ - 1]
    /\ Drop(id)
    /\ UNCHANGED <<entries, file_vars, table, next_id, bytes, holder>>

\* `delete blob`, outside the lock.
DeleteBlob(id) ==
    /\ id \in freeing
    /\ freeing' = freeing \ {id}
    /\ bytes' = [bytes EXCEPT ![id] = None]
    /\ UNCHANGED <<entries, file_vars, table, next_id, blob_refs, streams, holder>>

-----------------------------------------------------------------------------
Next ==
    \/ \E f \in Faces :
          \/ \E c \in Fonts : RecordFace(f, c)
          \/ EraseFaceLocked(f)
          \/ NoFontFile(f)
          \/ NoMemoryForCopy(f)
          \/ \E id \in Ids : CopyFont(f, id)
          \/ \E file \in Files : OpenByPath(f, file)
          \/ \E e \in cache : ReuseMemoryFont(f, e)
    \/ \E file \in Files :
          \/ CreateReference(file)
          \/ LoaderCopies(file)
          \/ Keep(file)
          \/ LetGo(file)
    \/ ReferenceRefused \/ AnalyzeRefused \/ AnalyzeReads
    \/ FinishFallback \/ FinishForget \/ LoaderFails
    \/ Supported \/ Unsupported
    \/ \E id \in Ids :
          \/ CreateStreamFromKey(id)
          \/ ReleaseStream(id)
          \/ DeleteBlob(id)

Spec == Init /\ [][Next]_vars

-----------------------------------------------------------------------------
(* Properties *)

\* Faces with a reference on a file: those that have it, and the one the holder of
\* the mutex is getting it for or taking it from.
Users(file) ==
    {f \in Faces : dwrite_file[f] = file}
        \cup (IF holder.at = "check" /\ holder.file = file THEN {holder.face} ELSE {})

\* The last reference to a blob is the stream's or the table's, whichever goes
\* later: no stream ever reads bytes that are deleted or about to be
\* (CreateStreamFromKey and ReleaseBlob on DirectWrite's threads against ForgetBlob).
StreamsReadLiveBytes ==
    \A id \in Ids : streams[id] > 0 \/ id \in table => bytes[id] # None /\ id \notin freeing

\* Bytes are held only for a reader: a face that is open, or a stream DirectWrite
\* still has.  So a process that goes on loading fonts does not go on growing
\* (ForgetMemoryFontLocked, ForgetBlob after a refusal).
BytesHeldForAReader ==
    \A id \in Ids : bytes[id] # None =>
        \/ streams[id] > 0 \/ id \in freeing
        \/ holder.blob = id
        \/ \E e \in cache : e.blob = id /\ Users(e.file) # {}

\* An entry of the cache counts the faces that share its file, and its file lives
\* for as long as it has any: one reference is the cache's, one each face's.
UsesCountFaces ==
    \A e \in cache :
        /\ e.uses = Cardinality(Users(e.file))
        /\ refs[e.file] = e.uses + 1 + (IF e.file \in kept THEN 1 ELSE 0)

\* A face reads its own font, whichever buffer the caller reused for it: only a
\* font whose copy DirectWrite took can be shared on the digest alone.
ReadsItsOwnFont ==
    \A f \in Faces : dwrite_file[f] # None =>
        LET source == made[dwrite_file[f]] IN
        \/ source.font = font[f]
        \/ source.blob = NoBlob /\ Digest[source.font] = Digest[font[f]]

\* The key of a file that DirectWrite keeps after its font was forgotten names that
\* font or none (g_next_blob_id never goes back).
KeyNamesItsFont ==
    \A file \in Files : refs[file] > 0 /\ made[file].blob \in table =>
        bytes[made[file].blob] = made[file].font
=============================================================================
