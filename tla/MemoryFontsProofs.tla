-------------------------- MODULE MemoryFontsProofs --------------------------
(***************************************************************************)
(* Proofs about MemoryFonts, for any number of faces, fonts, files and     *)
(* blobs.  The counts are what everything rests on: a file's references    *)
(* are those of its faces, of the cache, of DirectWrite and of the thread  *)
(* that is making or forgetting it, and a blob's are those of its streams  *)
(* and of the table, the latter until ForgetBlob has run to its end.       *)
(***************************************************************************)
EXTENDS MemoryFonts, FiniteSetTheorems, TLAPS

\* What the holder of the mutex has in hand at each step.
HolderInv ==
    /\ holder.at \in {"reference", "analyze", "fallback", "loader", "check"} =>
          holder.face \in Faces /\ font[holder.face] # None /\ dwrite_file[holder.face] = None
    /\ holder.at \in {"analyze", "check", "forget"} => holder.file \in Files
    /\ holder.at \in {"reference", "analyze", "fallback", "forget"} => holder.blob \in Ids
    /\ \A f \in Faces : font[f] = None => dwrite_file[f] = None

Making == holder.at \in {"reference", "analyze"}
Leaving(id) == holder.at \in {"fallback", "forget"} /\ holder.blob = id
One(b) == IF b THEN 1 ELSE 0

\* The references on a blob, and how long its bytes are there.
BlobInv ==
    \A id \in Ids :
        /\ blob_refs[id] = streams[id] + One(id \in table \/ Leaving(id))
        /\ id \in table => ~Leaving(id)
        /\ bytes[id] # None <=> blob_refs[id] > 0 \/ id \in freeing
        /\ id \in freeing => blob_refs[id] = 0
        /\ bytes[id] # None => id < next_id

\* Who has an id of the table: one entry of the cache, or the holder.
EntryInv ==
    /\ Making => holder.blob \in table /\ bytes[holder.blob] = font[holder.face]
    /\ \A e \in cache : e.blob # NoBlob =>
          e.blob \in table /\ ~(Making /\ e.blob = holder.blob)
    /\ \A e, d \in cache : e.blob # NoBlob /\ e.blob = d.blob => e = d
    /\ \A id \in table : (Making /\ holder.blob = id) \/ \E e \in cache : e.blob = id

InCache(file) == \E e \in cache : e.file = file
InHand(file) == holder.at \in {"analyze", "forget"} /\ holder.file = file

\* The references on a file.
FileInv ==
    /\ \A file \in Files :
          /\ refs[file] = Cardinality(Users(file)) + One(InCache(file))
                              + One(file \in kept) + One(InHand(file))
          /\ InHand(file) => ~InCache(file) /\ Users(file) = {}
    /\ \A e, d \in cache : e.file = d.file => e = d
    /\ \A e \in cache :
          /\ e.uses = Cardinality(Users(e.file))
          /\ e.blob # NoBlob => e.uses >= 1

\* Whether what a file was made with is right for a face.
Suits(f, file) ==
    \/ made[file].font = font[f]
    \/ made[file].blob = NoBlob /\ Digest[made[file].font] = Digest[font[f]]

\* What a file was made with.
MadeInv ==
    /\ \A file \in Files : refs[file] > 0 =>
          /\ made[file] \in [font : Fonts, blob : Ids \cup {NoBlob}]
          /\ made[file].blob # NoBlob => made[file].blob < next_id
    /\ \A e \in cache : made[e.file].font = e.font /\ made[e.file].blob = e.blob
    /\ holder.at = "analyze" =>
          made[holder.file].font = font[holder.face] /\ made[holder.file].blob = holder.blob
    /\ holder.at = "check" => Suits(holder.face, holder.file)
    /\ KeyNamesItsFont
    /\ ReadsItsOwnFont

IInv == TypeOK /\ HolderInv /\ BlobInv /\ EntryInv /\ FileInv /\ MadeInv

-----------------------------------------------------------------------------
(* Counting *)

LEMMA OneType == ASSUME NEW b \in BOOLEAN PROVE One(b) \in {0, 1}
BY DEF One

LEMMA UsersFinite ==
    ASSUME TypeOK, HolderInv, NEW file \in Files
    PROVE  IsFiniteSet(Users(file)) /\ Cardinality(Users(file)) \in Nat
<1>1. Users(file) \subseteq Faces
  BY DEF Users, HolderInv
<1> QED
  BY <1>1, FacesAssumption, FS_Subset, FS_CardinalityType

\* Whoever uses a file has a reference on it.
LEMMA UsedIsReferenced ==
    ASSUME IInv, NEW file \in Files
    PROVE  /\ Users(file) # {} => Cardinality(Users(file)) > 0 /\ refs[file] > 0
           /\ InCache(file) \/ file \in kept \/ InHand(file) => refs[file] > 0
           /\ InCache(file) /\ Users(file) # {} => refs[file] > 1
<1>1. IsFiniteSet(Users(file)) /\ Cardinality(Users(file)) \in Nat
  BY UsersFinite DEF IInv
<1>2. Users(file) # {} => Cardinality(Users(file)) > 0
  BY <1>1, FS_EmptySet
<1>3. refs[file] = Cardinality(Users(file)) + One(InCache(file))
                       + One(file \in kept) + One(InHand(file))
  BY DEF IInv, FileInv
<1> QED
  BY <1>1, <1>2, <1>3, OneType DEF One, InCache, InHand

\* Nothing speaks of a file that does not exist.
LEMMA FreeFile ==
    ASSUME IInv, NEW file \in Files, refs[file] = 0
    PROVE  Users(file) = {} /\ ~InCache(file) /\ file \notin kept /\ ~InHand(file)
BY UsedIsReferenced

\* A blob in use is referenced.
LEMMA BlobReferenced ==
    ASSUME IInv, NEW id \in Ids
    PROVE  /\ streams[id] > 0 \/ id \in table \/ Leaving(id) => blob_refs[id] > 0
           /\ blob_refs[id] > 0 => bytes[id] # None /\ id \notin freeing
<1>1. streams[id] \in Nat /\ blob_refs[id] = streams[id] + One(id \in table \/ Leaving(id))
  BY DEF IInv, TypeOK, BlobInv
<1>2. /\ bytes[id] # None <=> blob_refs[id] > 0 \/ id \in freeing
      /\ id \in freeing => blob_refs[id] = 0
  BY DEF IInv, BlobInv
<1> QED
  BY <1>1, <1>2 DEF One

-----------------------------------------------------------------------------
(* Types *)

LEMMA Distinct ==
    /\ NoBlob \notin Ids
    /\ \A x : x \in Faces \/ x \in Fonts \/ x \in Files => x # None
BY NoneAssumption DEF NoBlob, Ids

\* A file made where there was none, and what is left when a face lets go of one.
LEMMA ForgetType ==
    ASSUME IInv, NEW f \in Faces, NEW file \in Files, f \in Users(file), Forget(f, file)
    PROVE  /\ cache' \in SUBSET MemoryFontFile
           /\ refs' \in [Files -> Nat]
           /\ table' \in SUBSET Ids
           /\ blob_refs' \in [Ids -> Nat] /\ freeing' \in SUBSET Ids
           /\ holder' \in Holder
<1> USE DEF TypeOK
<1>1. refs[file] > 0 /\ refs[file] \in Nat
  BY UsedIsReferenced DEF IInv
<1>2. refs' = [refs EXCEPT ![file] = @ - 1]
  BY DEF Forget, ForgetPlain
<1>3. refs' \in [Files -> Nat]
  BY <1>1, <1>2 DEF IInv
<1>4. \A e \in cache : [e EXCEPT !.uses = @ - 1] \in MemoryFontFile /\ e.blob \in Ids \cup {NoBlob}
  BY DEF IInv, MemoryFontFile
<1>5. Idle \in Holder /\ \A id \in Ids : At("forget", f, file, id) \in Holder
  BY DEF Holder, Idle, At, Steps
<1>6. ASSUME NEW newCache, ForgetPlain(file, newCache), newCache \in SUBSET MemoryFontFile
      PROVE  /\ cache' \in SUBSET MemoryFontFile /\ holder' \in Holder
             /\ table' \in SUBSET Ids
             /\ blob_refs' \in [Ids -> Nat] /\ freeing' \in SUBSET Ids
  BY <1>5, <1>6 DEF ForgetPlain, IInv
<1>7. CASE ForgetPlain(file, cache)
  BY <1>3, <1>6, <1>7 DEF IInv
<1>8. ASSUME NEW e \in cache,
             ForgetPlain(file, (cache \ {e}) \cup {[e EXCEPT !.uses = @ - 1]})
      PROVE  /\ cache' \in SUBSET MemoryFontFile /\ holder' \in Holder
             /\ table' \in SUBSET Ids
             /\ blob_refs' \in [Ids -> Nat] /\ freeing' \in SUBSET Ids
  <2>1. (cache \ {e}) \cup {[e EXCEPT !.uses = @ - 1]} \in SUBSET MemoryFontFile
    BY <1>4 DEF IInv
  <2> QED
    BY <1>6, <1>8, <2>1
<1>9. ASSUME NEW e \in cache, LastUse(e), cache' = cache \ {e},
             table' = table \ {e.blob}, holder' = At("forget", f, file, e.blob),
             UNCHANGED <<blob_refs, freeing>>
      PROVE  /\ cache' \in SUBSET MemoryFontFile /\ holder' \in Holder
             /\ table' \in SUBSET Ids
             /\ blob_refs' \in [Ids -> Nat] /\ freeing' \in SUBSET Ids
  BY <1>4, <1>5, <1>9 DEF IInv, LastUse
<1> QED
  BY <1>3, <1>7, <1>8, <1>9 DEF Forget

LEMMA DropType ==
    ASSUME IInv, NEW id \in Ids, streams[id] > 0 \/ Leaving(id), Drop(id)
    PROVE  blob_refs' \in [Ids -> Nat] /\ freeing' \in SUBSET Ids
BY BlobReferenced DEF Drop, IInv, TypeOK

LEMMA TypeStep == IInv /\ [Next]_vars => TypeOK'
<1> SUFFICES ASSUME IInv, [Next]_vars PROVE TypeOK'
  OBVIOUS
<1> USE DEF IInv, entries, file_vars, blob_vars
<1>1. CASE UNCHANGED vars
  BY <1>1 DEF vars, TypeOK
<1>2. ASSUME NEW f \in Faces, NEW c \in Fonts, RecordFace(f, c) PROVE TypeOK'
  BY <1>2 DEF RecordFace, TypeOK
<1>3. ASSUME NEW f \in Faces, EraseFaceLocked(f) PROVE TypeOK'
  <2>1. CASE dwrite_file[f] = None
    BY <1>3, <2>1 DEF EraseFaceLocked, TypeOK
  <2>2. CASE dwrite_file[f] # None
    <3>1. dwrite_file[f] \in Files /\ f \in Users(dwrite_file[f])
      BY <2>2 DEF TypeOK, Users
    <3>2. Forget(f, dwrite_file[f])
      BY <1>3, <2>2 DEF EraseFaceLocked
    <3> QED
      BY <1>3, <3>1, <3>2, ForgetType DEF EraseFaceLocked, TypeOK
  <2> QED
    BY <2>1, <2>2
<1>4. ASSUME NEW f \in Faces, Asks(f)
      PROVE  /\ font' \in [Faces -> Fonts \cup {None}]
             /\ dwrite_file' \in [Faces -> Files \cup {None}]
             /\ file_failed' \in [Faces -> BOOLEAN]
  BY <1>4 DEF Asks, TypeOK
<1>5. ASSUME NEW f \in Faces, NoFontFile(f) PROVE TypeOK'
  BY <1>4, <1>5 DEF NoFontFile, TypeOK
<1>6. ASSUME NEW f \in Faces, NoMemoryForCopy(f) PROVE TypeOK'
  BY <1>4, <1>6 DEF NoMemoryForCopy, TypeOK, Holder, At, Steps
<1>7. ASSUME NEW f \in Faces, NEW id \in Ids, CopyFont(f, id) PROVE TypeOK'
  <2>1. font[f] \in Fonts
    BY <1>7 DEF CopyFont, Asks, TypeOK
  <2>2. holder' \in Holder
    BY <1>7 DEF CopyFont, Holder, At, Steps
  <2>3. next_id' \in 1 .. MaxId + 1
    BY <1>7, BoundsAssumption DEF CopyFont, TypeOK
  <2> QED
    BY <1>4, <1>7, <2>1, <2>2, <2>3 DEF CopyFont, TypeOK
<1>8. ASSUME NEW f \in Faces, NEW file \in Files, OpenByPath(f, file) PROVE TypeOK'
  <2>1. font[f] \in Fonts
    BY <1>8 DEF OpenByPath, Asks, TypeOK
  <2>2. holder' \in Holder
    BY <1>8 DEF OpenByPath, Holder, At, Steps
  <2> QED
    BY <1>4, <1>8, <2>1, <2>2 DEF OpenByPath, MakeFile, TypeOK
<1>9. ASSUME NEW f \in Faces, NEW e \in cache, ReuseMemoryFont(f, e) PROVE TypeOK'
  <2>1. e.file \in Files /\ Shared(e) \in MemoryFontFile
    BY DEF TypeOK, Shared, MemoryFontFile
  <2>2. holder' \in Holder
    BY <1>9, <2>1 DEF ReuseMemoryFont, Holder, At, Steps
  <2> QED
    BY <1>4, <1>9, <2>1, <2>2 DEF ReuseMemoryFont, TypeOK
<1>10. holder.at \notin {"idle", "forget"} =>
          holder.face \in Faces /\ font[holder.face] \in Fonts
  BY DEF HolderInv, TypeOK, Holder, Steps
<1>11. ASSUME NEW file \in Files, CreateReference(file) PROVE TypeOK'
  <2>1. holder' \in Holder
    BY <1>11 DEF CreateReference, TypeOK, Holder, Steps
  <2>2. holder.blob \in Ids
    BY <1>11 DEF CreateReference, HolderInv
  <2> QED
    BY <1>10, <1>11, <2>1, <2>2 DEF CreateReference, MakeFile, TypeOK
<1>12. ASSUME NEW file \in Files, LoaderCopies(file) PROVE TypeOK'
  <2>1. holder' \in Holder
    BY <1>10, <1>12 DEF LoaderCopies, Cached, At, TypeOK, Holder, Steps
  <2>2. [file |-> file, font |-> font[holder.face], blob |-> NoBlob, uses |-> 1] \in MemoryFontFile
    BY <1>10, <1>12 DEF LoaderCopies, MemoryFontFile
  <2> QED
    BY <1>10, <1>12, <2>1, <2>2 DEF LoaderCopies, Cached, MakeFile, TypeOK
<1>13. ASSUME NEW file \in Files, Keep(file) PROVE TypeOK'
  BY <1>13 DEF Keep, TypeOK
<1>14. ASSUME NEW file \in Files, LetGo(file) PROVE TypeOK'
  BY <1>14, UsedIsReferenced DEF LetGo, TypeOK
<1>15. CASE ReferenceRefused
  BY <1>15 DEF ReferenceRefused, ToLoader, TypeOK, Holder, At, Steps
<1>16. CASE AnalyzeRefused
  <2>1. holder.file \in Files /\ refs[holder.file] > 0
    BY <1>16, UsedIsReferenced DEF AnalyzeRefused, HolderInv, InHand
  <2>2. holder' \in Holder
    BY <1>16 DEF AnalyzeRefused, ToLoader, TypeOK, Holder, At, Steps
  <2> QED
    BY <1>16, <2>1, <2>2 DEF AnalyzeRefused, ToLoader, TypeOK
<1>17. CASE AnalyzeReads
  <2>1. holder.file \in Files /\ holder.blob \in Ids
    BY <1>17 DEF AnalyzeReads, HolderInv
  <2>2. [file |-> holder.file, font |-> font[holder.face], blob |-> holder.blob, uses |-> 1]
            \in MemoryFontFile
    BY <1>10, <1>17, <2>1 DEF AnalyzeReads, MemoryFontFile
  <2>3. holder' \in Holder
    BY <1>10, <1>17, <2>1 DEF AnalyzeReads, Cached, Holder, At, Steps
  <2> QED
    BY <1>17, <2>1, <2>2, <2>3 DEF AnalyzeReads, Cached, TypeOK
<1>18. CASE FinishFallback
  <2>1. holder.blob \in Ids /\ Leaving(holder.blob)
    BY <1>18 DEF FinishFallback, HolderInv, Leaving
  <2>2. holder' \in Holder
    BY <1>10, <1>18 DEF FinishFallback, Holder, At, Steps
  <2> QED
    BY <1>18, <2>1, <2>2, DropType DEF FinishFallback, TypeOK
<1>19. CASE FinishForget
  <2>1. holder.blob \in Ids /\ Leaving(holder.blob) /\ holder.file \in Files
    BY <1>19 DEF FinishForget, HolderInv, Leaving
  <2>2. refs[holder.file] > 0
    BY <1>19, <2>1, UsedIsReferenced DEF FinishForget, InHand
  <2>3. holder' \in Holder
    BY <1>19 DEF FinishForget, Holder, Idle, Steps
  <2> QED
    BY <1>19, <2>1, <2>2, <2>3, DropType DEF FinishForget, TypeOK
<1>20. CASE LoaderFails
  BY <1>20 DEF LoaderFails, TypeOK, Holder, Idle, Steps
<1>21. CASE Supported
  <2>1. holder.file \in Files
    BY <1>21 DEF Supported, HolderInv
  <2> QED
    BY <1>21, <2>1 DEF Supported, TypeOK, Holder, Idle, Steps
<1>22. CASE Unsupported
  <2>1. holder.file \in Files /\ holder.face \in Faces /\ holder.face \in Users(holder.file)
    BY <1>22 DEF Unsupported, HolderInv, Users
  <2>2. Forget(holder.face, holder.file)
    BY <1>22 DEF Unsupported
  <2> QED
    BY <1>22, <2>1, <2>2, ForgetType DEF Unsupported, TypeOK
<1>23. ASSUME NEW id \in Ids, CreateStreamFromKey(id) PROVE TypeOK'
  BY <1>23 DEF CreateStreamFromKey, StreamHolds, TypeOK
<1>24. ASSUME NEW id \in Ids, ReleaseStream(id) PROVE TypeOK'
  BY <1>24, DropType DEF ReleaseStream, TypeOK
<1>25. ASSUME NEW id \in Ids, DeleteBlob(id) PROVE TypeOK'
  BY <1>25 DEF DeleteBlob, TypeOK
<1> QED
  BY <1>1, <1>2, <1>3, <1>5, <1>6, <1>7, <1>8, <1>9, <1>11, <1>12, <1>13, <1>14, <1>15, <1>16,
     <1>17, <1>18, <1>19, <1>20, <1>21, <1>22, <1>23, <1>24, <1>25 DEF Next

-----------------------------------------------------------------------------
(* The holder of the mutex and the blobs *)

\* What Forget may do to the blobs: nothing, or it takes a font out of the table.
LEMMA ForgetsAtMostOne ==
    ASSUME IInv, NEW f, NEW file, Forget(f, file)
    PROVE  /\ UNCHANGED <<blob_refs, freeing>>
           /\ \/ holder' = Idle /\ table' = table
              \/ \E e \in cache :
                    /\ e.file = file /\ e.blob \in Ids
                    /\ holder' = At("forget", f, file, e.blob)
                    /\ table' = table \ {e.blob}
<1>1. \A e \in cache : e.blob # NoBlob => e.blob \in Ids
  BY DEF IInv, TypeOK, MemoryFontFile
<1> QED
  BY <1>1 DEF Forget, ForgetPlain, LastUse

LEMMA ForgetHolder ==
    ASSUME IInv, NEW f \in Faces, NEW file \in Files, Forget(f, file),
           UNCHANGED <<streams, bytes, next_id>>, holder.at \in {"idle", "check"}
    PROVE  /\ holder'.at \in {"idle", "forget"}
           /\ holder'.at = "forget" => holder'.file \in Files /\ holder'.blob \in Ids
           /\ BlobInv'
<1>1. CASE holder' = Idle /\ table' = table
  BY <1>1, ForgetsAtMostOne DEF IInv, BlobInv, Leaving, Idle
<1>2. ASSUME NEW e \in cache, e.file = file, e.blob \in Ids,
             holder' = At("forget", f, file, e.blob), table' = table \ {e.blob}
      PROVE  /\ holder'.at = "forget" /\ holder'.file \in Files /\ holder'.blob \in Ids
             /\ BlobInv'
  <2>1. e.blob \in table
    BY <1>2, Distinct DEF IInv, EntryInv
  <2>2. holder'.at = "forget" /\ holder'.file = file /\ holder'.blob = e.blob
    BY <1>2 DEF At
  <2>3. \A id \in Ids : Leaving(id)' <=> id = e.blob
    BY <2>2 DEF Leaving
  <2>4. \A id \in Ids : ~Leaving(id)
    BY DEF Leaving
  <2>5. \A id \in Ids : (id \in table \/ Leaving(id))' <=> id \in table \/ Leaving(id)
    BY <1>2, <2>1, <2>3, <2>4
  <2> QED
    BY <1>2, <2>2, <2>3, <2>5, ForgetsAtMostOne DEF IInv, BlobInv, One
<1> QED
  BY <1>1, <1>2, ForgetsAtMostOne DEF Idle

LEMMA HolderStep == IInv /\ [Next]_vars => HolderInv'
<1> SUFFICES ASSUME IInv, [Next]_vars PROVE HolderInv'
  OBVIOUS
<1> USE Distinct DEF IInv, HolderInv, entries, file_vars, blob_vars
<1>1. CASE UNCHANGED vars
  BY <1>1 DEF vars
<1>2. ASSUME NEW f \in Faces, NEW c \in Fonts, RecordFace(f, c) PROVE HolderInv'
  BY <1>2 DEF RecordFace, Idle, TypeOK
<1>3. ASSUME NEW f \in Faces, EraseFaceLocked(f) PROVE HolderInv'
  <2>1. CASE dwrite_file[f] = None
    BY <1>3, <2>1 DEF EraseFaceLocked, Idle, TypeOK
  <2>2. CASE dwrite_file[f] # None
    <3>1. dwrite_file[f] \in Files /\ holder.at = "idle"
      BY <1>3, <2>2 DEF EraseFaceLocked, TypeOK, Idle
    <3>2. Forget(f, dwrite_file[f])
      BY <1>3, <2>2 DEF EraseFaceLocked
    <3>3. UNCHANGED <<streams, bytes, next_id>>
      BY <1>3 DEF EraseFaceLocked
    <3>4. /\ holder'.at \in {"idle", "forget"}
          /\ holder'.at = "forget" => holder'.file \in Files /\ holder'.blob \in Ids
      BY <3>1, <3>2, <3>3, ForgetHolder
    <3>5. \A h \in Faces : font'[h] = None => dwrite_file'[h] = None
      BY <1>3 DEF EraseFaceLocked, TypeOK
    <3> QED
      BY <3>4, <3>5
  <2> QED
    BY <2>1, <2>2
<1>4. ASSUME NEW f \in Faces, Asks(f), holder' = holder \/ holder'.face = f,
             holder'.at \in {"check"} => holder'.file \in Files,
             holder'.at \in {"reference"} => holder'.blob \in Ids,
             holder'.at \in {"idle", "check", "reference", "loader"}
      PROVE  HolderInv'
  BY <1>4 DEF Asks, Idle, TypeOK
<1>5. ASSUME NEW f \in Faces, NoFontFile(f) PROVE HolderInv'
  BY <1>4, <1>5 DEF NoFontFile, Asks, Idle
<1>6. ASSUME NEW f \in Faces, NoMemoryForCopy(f) PROVE HolderInv'
  BY <1>4, <1>6 DEF NoMemoryForCopy, At
<1>7. ASSUME NEW f \in Faces, NEW id \in Ids, CopyFont(f, id) PROVE HolderInv'
  BY <1>4, <1>7 DEF CopyFont, At
<1>8. ASSUME NEW f \in Faces, NEW file \in Files, OpenByPath(f, file) PROVE HolderInv'
  BY <1>4, <1>8 DEF OpenByPath, At
<1>9. ASSUME NEW f \in Faces, NEW e \in cache, ReuseMemoryFont(f, e) PROVE HolderInv'
  <2>1. e.file \in Files
    BY DEF TypeOK, MemoryFontFile
  <2> QED
    BY <1>4, <1>9, <2>1 DEF ReuseMemoryFont, At
<1>10. ASSUME NEW file \in Files, CreateReference(file) PROVE HolderInv'
  BY <1>10 DEF CreateReference, TypeOK, Holder
<1>11. ASSUME NEW file \in Files, LoaderCopies(file) PROVE HolderInv'
  BY <1>11 DEF LoaderCopies, Cached, At
<1>12. ASSUME NEW file \in Files, Keep(file) \/ LetGo(file) PROVE HolderInv'
  BY <1>12 DEF Keep, LetGo
<1>13. CASE ReferenceRefused \/ AnalyzeRefused
  BY <1>13 DEF ReferenceRefused, AnalyzeRefused, ToLoader, At
<1>14. CASE AnalyzeReads
  BY <1>14 DEF AnalyzeReads, Cached, At
<1>15. CASE FinishFallback
  BY <1>15 DEF FinishFallback, At
<1>16. CASE FinishForget \/ LoaderFails
  BY <1>16 DEF FinishForget, LoaderFails, Idle
<1>17. CASE Supported
  <2>1. holder'.at = "idle" /\ holder.face \in Faces /\ font[holder.face] # None
    BY <1>17 DEF Supported, Idle
  <2> QED
    BY <1>17, <2>1 DEF Supported, TypeOK
<1>18. CASE Unsupported
  <2>1. holder.at = "check" /\ holder.face \in Faces /\ holder.file \in Files
    BY <1>18 DEF Unsupported
  <2>2. Forget(holder.face, holder.file) /\ UNCHANGED <<streams, bytes, next_id>>
    BY <1>18 DEF Unsupported
  <2>3. /\ holder'.at \in {"idle", "forget"}
        /\ holder'.at = "forget" => holder'.file \in Files /\ holder'.blob \in Ids
    BY <2>1, <2>2, ForgetHolder
  <2> QED
    BY <1>18, <2>3 DEF Unsupported
<1>19. ASSUME NEW id \in Ids, CreateStreamFromKey(id) \/ ReleaseStream(id) \/ DeleteBlob(id)
       PROVE  HolderInv'
  BY <1>19 DEF CreateStreamFromKey, ReleaseStream, DeleteBlob
<1> QED
  BY <1>1, <1>2, <1>3, <1>5, <1>6, <1>7, <1>8, <1>9, <1>10, <1>11, <1>12, <1>13, <1>14, <1>15,
     <1>16, <1>17, <1>18, <1>19 DEF Next

LEMMA BlobStep == IInv /\ [Next]_vars => BlobInv'
<1> SUFFICES ASSUME IInv, [Next]_vars PROVE BlobInv'
  OBVIOUS
<1> USE Distinct DEF IInv, entries, file_vars, blob_vars
<1>1. ASSUME UNCHANGED blob_vars, \A id \in Ids : Leaving(id)' = Leaving(id) PROVE BlobInv'
  BY <1>1 DEF BlobInv, One
<1>2. CASE UNCHANGED vars
  BY <1>1, <1>2 DEF vars, Leaving
<1>3. ASSUME NEW f \in Faces, NEW c \in Fonts, RecordFace(f, c) PROVE BlobInv'
  BY <1>1, <1>3 DEF RecordFace, Leaving
<1>4. ASSUME NEW f \in Faces, EraseFaceLocked(f) PROVE BlobInv'
  <2>1. CASE dwrite_file[f] = None
    BY <1>1, <1>4, <2>1 DEF EraseFaceLocked, Leaving
  <2>2. CASE dwrite_file[f] # None
    <3>1. dwrite_file[f] \in Files /\ holder.at = "idle"
      BY <1>4, <2>2 DEF EraseFaceLocked, TypeOK, Idle
    <3> QED
      BY <1>4, <2>2, <3>1, ForgetHolder DEF EraseFaceLocked
  <2> QED
    BY <2>1, <2>2
<1>5. ASSUME NEW f \in Faces, NoFontFile(f) \/ NoMemoryForCopy(f) PROVE BlobInv'
  BY <1>1, <1>5 DEF NoFontFile, NoMemoryForCopy, Asks, At, Idle, Leaving
<1>6. ASSUME NEW f \in Faces, NEW id \in Ids, CopyFont(f, id) PROVE BlobInv'
  <2>1. bytes[id] = None /\ id = next_id
    BY <1>6 DEF CopyFont, FreshId, BlobInv, TypeOK
  <2>2. id \notin table /\ id \notin freeing /\ streams[id] = 0
    BY <2>1, BlobReferenced DEF BlobInv, TypeOK
  <2>3. \A i \in Ids : ~Leaving(i) /\ ~Leaving(i)'
    BY <1>6 DEF CopyFont, Asks, At, Idle, Leaving
  <2>4. /\ table' = table \cup {id} /\ next_id' = next_id + 1
        /\ bytes' = [bytes EXCEPT ![id] = font[f]]
        /\ blob_refs' = [blob_refs EXCEPT ![id] = 1]
        /\ UNCHANGED <<streams, freeing>>
    BY <1>6 DEF CopyFont
  <2>5. font[f] # None
    BY <1>6 DEF CopyFont, Asks
  <2>6. ASSUME NEW i \in Ids, i # id
        PROVE  /\ bytes'[i] = bytes[i] /\ blob_refs'[i] = blob_refs[i]
               /\ i \in table' <=> i \in table
    BY <2>4, <2>6 DEF TypeOK
  <2>7. bytes'[id] = font[f] /\ blob_refs'[id] = 1 /\ id \in table'
    BY <2>4 DEF TypeOK
  <2> QED
    BY <2>1, <2>2, <2>3, <2>4, <2>5, <2>6, <2>7 DEF BlobInv, One, TypeOK, Ids
<1>7. ASSUME NEW f \in Faces, NEW file \in Files, OpenByPath(f, file) PROVE BlobInv'
  BY <1>1, <1>7 DEF OpenByPath, Asks, At, Idle, Leaving
<1>8. ASSUME NEW f \in Faces, NEW e \in cache, ReuseMemoryFont(f, e) PROVE BlobInv'
  BY <1>1, <1>8 DEF ReuseMemoryFont, Asks, At, Idle, Leaving
<1>9. ASSUME NEW file \in Files, CreateReference(file) PROVE BlobInv'
  <2>1. holder'.at = "analyze" /\ holder.at = "reference"
    BY <1>9 DEF CreateReference, TypeOK, Holder
  <2> QED
    BY <1>1, <1>9, <2>1 DEF CreateReference, Leaving
<1>10. ASSUME NEW file \in Files, LoaderCopies(file) \/ Keep(file) \/ LetGo(file) PROVE BlobInv'
  BY <1>1, <1>10 DEF LoaderCopies, Cached, Keep, LetGo, At, Leaving
<1>11. CASE ReferenceRefused \/ AnalyzeRefused
  <2>1. Making /\ ToLoader
    BY <1>11 DEF ReferenceRefused, AnalyzeRefused, Making
  <2>2. holder.blob \in table /\ \A id \in Ids : ~Leaving(id)
    BY <2>1 DEF EntryInv, Making, Leaving
  <2>3. \A id \in Ids : Leaving(id)' <=> id = holder.blob
    BY <2>1 DEF ToLoader, At, Leaving
  <2>4. \A id \in Ids : (id \in table \/ Leaving(id))' <=> id \in table \/ Leaving(id)
    BY <2>1, <2>2, <2>3 DEF ToLoader
  <2> QED
    BY <2>1, <2>3, <2>4 DEF ToLoader, BlobInv, One
<1>12. CASE AnalyzeReads \/ LoaderFails \/ Supported
  BY <1>1, <1>12 DEF AnalyzeReads, Cached, LoaderFails, Supported, At, Idle, Leaving
<1>13. ASSUME FinishFallback \/ FinishForget PROVE BlobInv'
  <2>1. holder.blob \in Ids /\ Leaving(holder.blob) /\ Drop(holder.blob)
    BY <1>13 DEF FinishFallback, FinishForget, HolderInv, Leaving
  <2>2. \A id \in Ids : Leaving(id) <=> id = holder.blob
    BY <2>1 DEF Leaving
  <2>3. \A id \in Ids : ~Leaving(id)'
    BY <1>13 DEF FinishFallback, FinishForget, At, Idle, Leaving
  <2>4. UNCHANGED <<streams, table, bytes, next_id>>
    BY <1>13 DEF FinishFallback, FinishForget
  <2>5. blob_refs[holder.blob] > 0 /\ holder.blob \notin freeing /\ bytes[holder.blob] # None
    BY <2>1, BlobReferenced
  <2> QED
    BY <2>1, <2>2, <2>3, <2>4, <2>5 DEF Drop, BlobInv, One, TypeOK
<1>14. CASE Unsupported
  <2>1. holder.at = "check" /\ holder.face \in Faces /\ holder.file \in Files
    BY <1>14 DEF Unsupported, HolderInv
  <2> QED
    BY <1>14, <2>1, ForgetHolder DEF Unsupported
<1>15. ASSUME NEW id \in Ids, CreateStreamFromKey(id) PROVE BlobInv'
  <2>1. \A i \in Ids : Leaving(i)' = Leaving(i)
    BY <1>15 DEF CreateStreamFromKey, Leaving
  <2>2. blob_refs[id] > 0 /\ id \notin freeing
    BY <1>15, BlobReferenced DEF CreateStreamFromKey
  <2> QED
    BY <1>15, <2>1, <2>2 DEF CreateStreamFromKey, StreamHolds, BlobInv, One, TypeOK
<1>16. ASSUME NEW id \in Ids, ReleaseStream(id) PROVE BlobInv'
  <2>1. \A i \in Ids : Leaving(i)' = Leaving(i)
    BY <1>16 DEF ReleaseStream, Leaving
  <2>2. blob_refs[id] > 0 /\ id \notin freeing /\ bytes[id] # None
    BY <1>16, BlobReferenced DEF ReleaseStream
  <2> QED
    BY <1>16, <2>1, <2>2 DEF ReleaseStream, Drop, BlobInv, One, TypeOK
<1>17. ASSUME NEW id \in Ids, DeleteBlob(id) PROVE BlobInv'
  <2>1. \A i \in Ids : Leaving(i)' = Leaving(i)
    BY <1>17 DEF DeleteBlob, Leaving
  <2> QED
    BY <1>17, <2>1 DEF DeleteBlob, BlobInv, One, TypeOK
<1> QED
  BY <1>2, <1>3, <1>4, <1>5, <1>6, <1>7, <1>8, <1>9, <1>10, <1>11, <1>12, <1>13, <1>14, <1>15,
     <1>16, <1>17 DEF Next

-----------------------------------------------------------------------------
(* The entries of the cache *)

LEMMA ForgetEntries ==
    ASSUME IInv, NEW f, NEW file, Forget(f, file), holder.at \in {"idle", "check"}
    PROVE  EntryInv'
<1> USE DEF IInv, EntryInv
<1>1. ~Making
  BY DEF Making
<1>2. ~Making'
  <2>1. \A id : At("forget", f, file, id).at = "forget" /\ Idle.at = "idle"
    BY DEF At, Idle
  <2> QED
    BY <2>1, ForgetsAtMostOne DEF Making
<1>3. CASE cache' = cache /\ table' = table
  BY <1>1, <1>2, <1>3
<1>4. ASSUME NEW e \in cache, table' = table,
             cache' = (cache \ {e}) \cup {[e EXCEPT !.uses = @ - 1]}
      PROVE  EntryInv'
  <2>1. [e EXCEPT !.uses = @ - 1].blob = e.blob
    BY DEF TypeOK, MemoryFontFile
  <2> QED
    BY <1>1, <1>2, <1>4, <2>1
<1>5. ASSUME NEW e \in cache, e.blob # NoBlob, cache' = cache \ {e}, table' = table \ {e.blob}
      PROVE  EntryInv'
  <2>1. \A id \in table' : id # NoBlob
    BY <1>5, Distinct DEF TypeOK
  <2> QED
    BY <1>1, <1>2, <1>5, <2>1
<1> QED
  BY <1>3, <1>4, <1>5 DEF Forget, ForgetPlain, LastUse

LEMMA EntryStep == IInv /\ [Next]_vars => EntryInv'
<1> SUFFICES ASSUME IInv, [Next]_vars PROVE EntryInv'
  OBVIOUS
<1> USE Distinct DEF IInv, EntryInv, entries, file_vars, blob_vars
<1>1. ASSUME UNCHANGED <<cache, table>>, ~Making, ~Making' PROVE EntryInv'
  BY <1>1
<1>2. CASE UNCHANGED vars
  BY <1>2 DEF vars, Making
<1>3. ASSUME NEW f \in Faces, NEW c \in Fonts, RecordFace(f, c) PROVE EntryInv'
  BY <1>1, <1>3 DEF RecordFace, Making, Idle
<1>4. ASSUME NEW f \in Faces, EraseFaceLocked(f) PROVE EntryInv'
  <2>1. CASE dwrite_file[f] = None
    BY <1>1, <1>4, <2>1 DEF EraseFaceLocked, Making, Idle
  <2>2. CASE dwrite_file[f] # None
    <3>1. holder.at = "idle"
      BY <1>4 DEF EraseFaceLocked, Idle
    <3> QED
      BY <1>4, <2>2, <3>1, ForgetEntries DEF EraseFaceLocked
  <2> QED
    BY <2>1, <2>2
<1>5. ASSUME NEW f \in Faces, NoFontFile(f) \/ NoMemoryForCopy(f) PROVE EntryInv'
  BY <1>1, <1>5 DEF NoFontFile, NoMemoryForCopy, Asks, At, Idle, Making
<1>6. ASSUME NEW f \in Faces, NEW id \in Ids, CopyFont(f, id) PROVE EntryInv'
  <2>1. bytes[id] = None
    BY <1>6 DEF CopyFont, FreshId, BlobInv, TypeOK
  <2>2. id \notin table
    BY <2>1, BlobReferenced
  <2>3. ~Making /\ Making' /\ holder'.blob = id /\ holder'.face = f
    BY <1>6 DEF CopyFont, Asks, At, Idle, Making
  <2>4. table' = table \cup {id} /\ cache' = cache /\ bytes'[id] = font[f] /\ font' = font
    BY <1>6 DEF CopyFont, Asks, TypeOK
  <2>5. \A i \in table : bytes'[i] = bytes[i]
    BY <1>6, <2>2 DEF CopyFont, TypeOK
  <2> QED
    BY <2>2, <2>3, <2>4, <2>5
<1>7. ASSUME NEW f \in Faces, NEW file \in Files, OpenByPath(f, file) PROVE EntryInv'
  BY <1>1, <1>7 DEF OpenByPath, Asks, At, Idle, Making
<1>8. ASSUME NEW f \in Faces, NEW e \in cache, ReuseMemoryFont(f, e) PROVE EntryInv'
  <2>1. Shared(e).blob = e.blob
    BY DEF Shared, TypeOK, MemoryFontFile
  <2>2. ~Making /\ ~Making'
    BY <1>8 DEF ReuseMemoryFont, Asks, At, Idle, Making
  <2> QED
    BY <1>8, <2>1, <2>2 DEF ReuseMemoryFont
<1>9. ASSUME NEW file \in Files, CreateReference(file) PROVE EntryInv'
  <2>1. holder'.at = "analyze" /\ holder'.blob = holder.blob /\ holder'.face = holder.face
    BY <1>9 DEF CreateReference, TypeOK, Holder
  <2> QED
    BY <1>9, <2>1 DEF CreateReference, Making
<1>10. ASSUME NEW file \in Files, LoaderCopies(file) PROVE EntryInv'
  <2>1. ~Making /\ ~Making'
    BY <1>10 DEF LoaderCopies, Cached, At, Making
  <2> QED
    BY <1>10, <2>1 DEF LoaderCopies, Cached, TypeOK
<1>11. ASSUME NEW file \in Files, Keep(file) \/ LetGo(file) PROVE EntryInv'
  BY <1>11 DEF Keep, LetGo, Making
<1>12. CASE ReferenceRefused \/ AnalyzeRefused
  <2>1. Making /\ ToLoader /\ ~Making'
    BY <1>12 DEF ReferenceRefused, AnalyzeRefused, ToLoader, At, Making
  <2> QED
    BY <2>1 DEF ToLoader
<1>13. CASE AnalyzeReads
  <2>1. Making /\ ~Making'
    BY <1>13 DEF AnalyzeReads, Cached, At, Making
  <2>2. PICK n : n.blob = holder.blob /\ cache' = cache \cup {n}
    BY <1>13 DEF AnalyzeReads, Cached
  <2>3. table' = table
    BY <1>13 DEF AnalyzeReads
  <2>4. \A e \in cache : e.blob # NoBlob => e.blob # n.blob
    BY <2>1, <2>2
  <2> QED
    BY <2>1, <2>2, <2>3, <2>4
<1>14. CASE FinishFallback \/ FinishForget \/ LoaderFails \/ Supported
  <2>1. ~Making /\ ~Making'
    BY <1>14 DEF FinishFallback, FinishForget, LoaderFails, Supported, At, Idle, Making
  <2> QED
    BY <1>1, <1>14, <2>1 DEF FinishFallback, FinishForget, LoaderFails, Supported
<1>15. CASE Unsupported
  BY <1>15, ForgetEntries DEF Unsupported
<1>16. ASSUME NEW id \in Ids, CreateStreamFromKey(id) \/ ReleaseStream(id) PROVE EntryInv'
  BY <1>16 DEF CreateStreamFromKey, ReleaseStream, Making
<1>17. ASSUME NEW id \in Ids, DeleteBlob(id) PROVE EntryInv'
  <2>1. id \notin table
    BY <1>17, BlobReferenced DEF DeleteBlob
  <2>2. \A i \in table : bytes'[i] = bytes[i]
    BY <1>17, <2>1 DEF DeleteBlob, TypeOK
  <2> QED
    BY <1>17, <2>2 DEF DeleteBlob, Making
<1> QED
  BY <1>2, <1>3, <1>4, <1>5, <1>6, <1>7, <1>8, <1>9, <1>10, <1>11, <1>12, <1>13, <1>14, <1>15,
     <1>16, <1>17 DEF Next

-----------------------------------------------------------------------------
(* The references on a file *)

\* Who uses a file changes with dwrite_file and with what the holder has to check.
LEMMA SameUsers ==
    ASSUME NEW file \in Files, UNCHANGED dwrite_file,
           (holder.at = "check" /\ holder.file = file)
               <=> (holder'.at = "check" /\ holder'.file = file),
           holder.at = "check" /\ holder.file = file => holder'.face = holder.face
    PROVE  Users(file)' = Users(file)
BY DEF Users

LEMMA FilesStill ==
    ASSUME IInv, UNCHANGED <<dwrite_file, refs, cache, kept>>,
           holder.at \notin {"analyze", "forget", "check"},
           holder'.at \notin {"analyze", "forget", "check"}
    PROVE  FileInv'
<1>1. \A file \in Files : Users(file)' = Users(file)
  BY SameUsers
<1>2. \A e \in cache : e.file \in Files
  BY DEF IInv, TypeOK, MemoryFontFile
<1>3. \A file \in Files : InCache(file)' = InCache(file) /\ ~InHand(file) /\ ~InHand(file)'
  BY DEF InCache, InHand
<1> QED
  BY <1>1, <1>2, <1>3 DEF IInv, FileInv, One

\* The counts of one file, from which FileInv follows file by file.
FileCounts(file) ==
    /\ refs[file] = Cardinality(Users(file)) + One(InCache(file))
                        + One(file \in kept) + One(InHand(file))
    /\ InHand(file) => ~InCache(file) /\ Users(file) = {}
EntryCounts(e) ==
    /\ e.uses = Cardinality(Users(e.file))
    /\ e.blob # NoBlob => e.uses >= 1

\* A step that only concerns one file keeps the counts of the others.
LEMMA OtherFiles ==
    ASSUME IInv, NEW file \in Files,
           \A other \in Files \ {file} :
              /\ refs'[other] = refs[other] /\ (other \in kept' <=> other \in kept)
              /\ Users(other)' = Users(other)
              /\ InHand(other)' <=> InHand(other),
           \A e \in cache \cup cache' : e.file # file => (e \in cache <=> e \in cache'),
           \A e \in cache' : e.file \in Files,
           \A e, d \in cache' : e.file = file /\ d.file = file => e = d,
           FileCounts(file)',
           \A e \in cache' : e.file = file => EntryCounts(e)'
    PROVE  FileInv'
<1>1. \A other \in Files \ {file} : InCache(other)' = InCache(other)
  BY DEF InCache
<1>2. \A other \in Files : FileCounts(other)'
  BY <1>1 DEF IInv, FileInv, FileCounts, One
<1>3. \A e \in cache' : EntryCounts(e)'
  BY DEF IInv, FileInv, EntryCounts
<1>4. \A e, d \in cache' : e.file = d.file => e = d
  BY DEF IInv, FileInv
<1> QED
  BY <1>2, <1>3, <1>4 DEF FileInv, FileCounts, EntryCounts

LEMMA CardinalityOfNone == Cardinality({}) = 0
BY FS_EmptySet

LEMMA CardinalityOfOne == ASSUME NEW x, NEW S, S = {x} PROVE Cardinality(S) = 1
<1>1. IsFiniteSet({}) /\ x \notin {}
  BY FS_EmptySet
<1> QED
  BY <1>1, CardinalityOfNone, FS_AddElement

\* One face more or less on a file.
LEMMA UserComes ==
    ASSUME TypeOK, HolderInv, NEW file \in Files, NEW f, f \notin Users(file),
           Users(file)' = Users(file) \cup {f}
    PROVE  Cardinality(Users(file)') = Cardinality(Users(file)) + 1
BY UsersFinite, FS_AddElement

LEMMA UserGoes ==
    ASSUME TypeOK, HolderInv, NEW file \in Files, NEW f \in Users(file),
           Users(file)' = Users(file) \ {f}
    PROVE  /\ Cardinality(Users(file)') = Cardinality(Users(file)) - 1
           /\ Cardinality(Users(file)') \in Nat
           /\ Cardinality(Users(file)) = 1 => Users(file)' = {}
<1>1. IsFiniteSet(Users(file)) /\ Cardinality(Users(file)) \in Nat
  BY UsersFinite
<1>2. IsFiniteSet(Users(file)') /\ Cardinality(Users(file)') \in Nat
  BY <1>1, FS_RemoveElement, FS_Subset, FS_CardinalityType
<1>3. Cardinality(Users(file)') = Cardinality(Users(file)) - 1
  BY <1>1, FS_RemoveElement
<1> QED
  BY <1>1, <1>2, <1>3, FS_EmptySet

\* A face lets go of a file.
LEMMA ForgetFiles ==
    ASSUME IInv, TypeOK', NEW f \in Faces, NEW file \in Files, Forget(f, file), UNCHANGED kept,
           f \in Users(file), Users(file)' = Users(file) \ {f},
           \A other \in Files \ {file} : Users(other)' = Users(other),
           holder.at \in {"idle", "check"}
    PROVE  FileInv'
<1> DEFINE n == Cardinality(Users(file))
<1>1. /\ Cardinality(Users(file)') = n - 1 /\ n \in Nat /\ n - 1 \in Nat
      /\ n = 1 => Users(file)' = {}
  BY UserGoes, UsersFinite DEF IInv
<1>2. refs' = [refs EXCEPT ![file] = @ - 1]
  BY DEF Forget, ForgetPlain
<1>3. refs'[file] = refs[file] - 1 /\ \A other \in Files \ {file} : refs'[other] = refs[other]
  BY <1>2 DEF IInv, TypeOK
<1>4. \A x \in Files : ~InHand(x)
  BY DEF InHand
<1>5. FileCounts(file)
  BY DEF IInv, FileInv, FileCounts
<1>6. \A e \in cache : e.file \in Files
  BY DEF IInv, TypeOK, MemoryFontFile
<1>7. \A e, d \in cache : e.file = d.file => e = d
  BY DEF IInv, FileInv
<1>8. \A e \in cache : EntryCounts(e)
  BY DEF IInv, FileInv, EntryCounts
<1>9. CASE holder' = Idle
  <2>1. \A x \in Files : ~InHand(x)'
    BY <1>9 DEF InHand, Idle
  <2>2. CASE (\A e \in cache : e.file # file) /\ cache' = cache
    <3>1. ~InCache(file) /\ ~InCache(file)'
      BY <2>2 DEF InCache
    <3>2. FileCounts(file)'
      BY <1>1, <1>3, <1>4, <1>5, <2>1, <3>1 DEF FileCounts, One, IInv, TypeOK
    <3> QED
      BY <1>3, <1>4, <1>6, <2>1, <2>2, <3>2, OtherFiles
  <2>3. ASSUME NEW e \in cache, e.file = file, ~LastUse(e),
               cache' = (cache \ {e}) \cup {[e EXCEPT !.uses = @ - 1]}
        PROVE  FileInv'
    <3>0. PICK less : less = [e EXCEPT !.uses = @ - 1]
      OBVIOUS
    <3>1. /\ less.file = file /\ less.blob = e.blob /\ less.uses = e.uses - 1 /\ e.uses \in Int
          /\ cache' = (cache \ {e}) \cup {less}
      BY <2>3, <3>0 DEF IInv, TypeOK, MemoryFontFile
    <3>2. InCache(file) /\ InCache(file)'
      BY <2>3, <3>1 DEF InCache
    <3>3. FileCounts(file)'
      BY <1>1, <1>3, <1>4, <1>5, <2>1, <3>2 DEF FileCounts, One, IInv, TypeOK
    <3>4. EntryCounts(less)'
      <4>1. e.uses = n /\ (e.blob # NoBlob => e.uses > 1)
        BY <1>8, <2>3, <3>1 DEF EntryCounts, LastUse
      <4>2. less.uses = Cardinality(Users(less.file)')
        BY <1>1, <3>1, <4>1
      <4> QED
        BY <1>1, <3>1, <4>1, <4>2 DEF EntryCounts
    <3>5. \A d \in cache' : d.file = file => d = less
      BY <1>7, <2>3, <3>1
    <3>6. \A d \in cache' : d.file \in Files
      BY <1>6, <3>1
    <3>7. \A d \in cache \cup cache' : d.file # file => (d \in cache <=> d \in cache')
      BY <2>3, <3>1
    <3> QED
      BY <1>3, <1>4, <2>1, <3>3, <3>4, <3>5, <3>6, <3>7, OtherFiles
  <2> QED
    BY <1>9, <2>2, <2>3 DEF Forget, ForgetPlain, Idle, At
<1>10. ASSUME NEW e \in cache, e.file = file, LastUse(e), cache' = cache \ {e},
              holder' = At("forget", f, file, e.blob)
       PROVE  FileInv'
  <2>1. \A x \in Files : InHand(x)' <=> x = file
    BY <1>10 DEF InHand, At
  <2>2. InCache(file) /\ ~InCache(file)'
    BY <1>7, <1>10 DEF InCache
  <2>3. n = 1
    BY <1>1, <1>8, <1>10 DEF EntryCounts, LastUse
  <2>4. FileCounts(file)'
    BY <1>1, <1>3, <1>4, <1>5, <2>1, <2>2, <2>3 DEF FileCounts, One, IInv, TypeOK
  <2> QED
    BY <1>3, <1>4, <1>6, <1>7, <1>10, <2>1, <2>4, OtherFiles
<1> QED
  BY <1>9, <1>10 DEF Forget, ForgetPlain

\* A file is made where there was none: for a face that has it now, or still in hand.
LEMMA NewFile ==
    ASSUME IInv, TypeOK', NEW f \in Faces, NEW file \in Files, NEW count, NEW c, NEW id,
           MakeFile(file, count, c, id), UNCHANGED <<dwrite_file, kept>>,
           holder.at \notin {"analyze", "forget", "check"}, holder'.file = file, holder'.face = f,
           \/ holder'.at = "analyze" /\ count = 1 /\ cache' = cache
           \/ holder'.at = "check" /\ count = 1 /\ cache' = cache
           \/ /\ holder'.at = "check" /\ count = 2
              /\ \E e : /\ cache' = cache \cup {e} /\ e.file = file /\ e.uses = 1
                        /\ e.blob = NoBlob
    PROVE  FileInv'
<1>1. Users(file) = {} /\ ~InCache(file) /\ file \notin kept /\ ~InHand(file)
  BY FreeFile DEF MakeFile
<1>2. \A other \in Files \ {file} : Users(other)' = Users(other)
  BY SameUsers
<1>3. /\ refs'[file] = count /\ \A other \in Files \ {file} : refs'[other] = refs[other]
      /\ \A other \in Files : other \in kept' <=> other \in kept
  BY DEF MakeFile, IInv, TypeOK
<1>4. \A other \in Files \ {file} : InHand(other)' <=> InHand(other)
  BY DEF InHand
<1>5. \A e \in cache : e.file \in Files /\ e.file # file
  BY <1>1 DEF IInv, TypeOK, MemoryFontFile, InCache
<1>6. CASE holder'.at = "analyze" /\ count = 1 /\ cache' = cache
  <2>1. Users(file)' = {} /\ InHand(file)' /\ ~InCache(file)'
    BY <1>1, <1>6 DEF Users, InHand, InCache
  <2>2. FileCounts(file)'
    BY <1>1, <1>3, <1>6, <2>1, CardinalityOfNone DEF FileCounts, One
  <2> QED
    BY <1>2, <1>3, <1>4, <1>5, <1>6, <2>2, OtherFiles
<1>7. holder'.at = "check" => Users(file)' = {f} /\ ~InHand(file)'
  BY <1>1 DEF Users, InHand
<1>8. CASE holder'.at = "check" /\ count = 1 /\ cache' = cache
  <2>1. ~InCache(file)'
    BY <1>1, <1>8 DEF InCache
  <2>2. Cardinality(Users(file)') = 1
    BY <1>7, <1>8, CardinalityOfOne
  <2>3. FileCounts(file)'
    BY <1>1, <1>3, <1>7, <1>8, <2>1, <2>2 DEF FileCounts, One
  <2> QED
    BY <1>2, <1>3, <1>4, <1>5, <1>8, <2>3, OtherFiles
<1>9. ASSUME holder'.at = "check", count = 2, NEW e, cache' = cache \cup {e},
             e.file = file, e.uses = 1, e.blob = NoBlob
      PROVE  FileInv'
  <2>1. InCache(file)'
    BY <1>9 DEF InCache
  <2>2. Cardinality(Users(file)') = 1
    BY <1>7, <1>9, CardinalityOfOne
  <2>3. FileCounts(file)'
    BY <1>1, <1>3, <1>7, <1>9, <2>1, <2>2 DEF FileCounts, One
  <2>4. e.uses = Cardinality(Users(e.file)')
    BY <1>9, <2>2
  <2>5. EntryCounts(e)'
    BY <1>9, <2>4 DEF EntryCounts
  <2>6. \A d \in cache' : d.file = file => d = e
    BY <1>5, <1>9
  <2>7. \A d \in cache \cup cache' : d.file # file => (d \in cache <=> d \in cache')
    BY <1>9
  <2>8. \A d \in cache' : d.file \in Files
    BY <1>5, <1>9
  <2> QED
    BY <1>2, <1>3, <1>4, <2>3, <2>5, <2>6, <2>7, <2>8, OtherFiles
<1> QED
  BY <1>6, <1>8, <1>9

\* A face shares a file that is in the cache.
LEMMA SharedFile ==
    ASSUME IInv, TypeOK', NEW f \in Faces, NEW e \in cache, ReuseMemoryFont(f, e)
    PROVE  FileInv'
<1>1. e.file \in Files /\ Shared(e).file = e.file /\ Shared(e).blob = e.blob
      /\ Shared(e).uses = e.uses + 1 /\ e.uses \in Int
  BY DEF Shared, IInv, TypeOK, MemoryFontFile
<1>2. PICK more : more = Shared(e)
  OBVIOUS
<1>3. PICK file \in Files : file = e.file
  BY <1>1
<1>4. holder.at = "idle" /\ dwrite_file[f] = None /\ UNCHANGED <<dwrite_file, kept>>
      /\ holder' = At("check", f, file, NoBlob)
  BY <1>3 DEF ReuseMemoryFont, Asks, Idle
<1>5. holder'.at = "check" /\ holder'.face = f /\ holder'.file = file
  BY <1>4 DEF At
<1>6. f \notin Users(file) /\ Users(file)' = Users(file) \cup {f}
  BY <1>4, <1>5, Distinct DEF Users
<1>7. Cardinality(Users(file)') = Cardinality(Users(file)) + 1 /\ Cardinality(Users(file)) \in Nat
  BY <1>6, UserComes, UsersFinite DEF IInv
<1>8. \A other \in Files \ {file} : Users(other)' = Users(other)
  BY <1>4, <1>5, SameUsers
<1>9. \A x \in Files : ~InHand(x) /\ ~InHand(x)'
  BY <1>4, <1>5 DEF InHand
<1>10. cache' = (cache \ {e}) \cup {more} /\ refs' = [refs EXCEPT ![file] = @ + 1]
  BY <1>2, <1>3 DEF ReuseMemoryFont
<1>11. refs'[file] = refs[file] + 1 /\ \A other \in Files \ {file} : refs'[other] = refs[other]
  BY <1>10 DEF IInv, TypeOK
<1>12. InCache(file) /\ InCache(file)'
  BY <1>1, <1>2, <1>3, <1>10 DEF InCache
<1>13. FileCounts(file) /\ EntryCounts(e)
  BY DEF IInv, FileInv, FileCounts, EntryCounts
<1>14. FileCounts(file)'
  BY <1>4, <1>7, <1>9, <1>11, <1>12, <1>13 DEF FileCounts, One, IInv, TypeOK
<1>15. EntryCounts(more)'
  <2>1. e.uses = Cardinality(Users(file)) /\ (e.blob # NoBlob => e.uses >= 1)
    BY <1>3, <1>13 DEF EntryCounts
  <2>2. more.uses = Cardinality(Users(more.file)')
    BY <1>1, <1>2, <1>3, <1>7, <2>1
  <2> QED
    BY <1>1, <1>2, <2>1, <2>2 DEF EntryCounts
<1>16. \A d \in cache' : d.file = file => d = more
  BY <1>3, <1>10 DEF IInv, FileInv
<1>17. \A d \in cache \cup cache' : d.file # file => (d \in cache <=> d \in cache')
  BY <1>1, <1>2, <1>3, <1>10
<1>18. \A d \in cache' : d.file \in Files
  BY <1>1, <1>2, <1>3, <1>10 DEF IInv, TypeOK, MemoryFontFile
<1> QED
  BY <1>4, <1>8, <1>9, <1>11, <1>14, <1>15, <1>16, <1>17, <1>18, OtherFiles

\* A reference that is not a face's comes or goes, with what it is counted as.
LEMMA OneReference ==
    ASSUME IInv, TypeOK', NEW file \in Files, NEW before \in BOOLEAN, NEW after \in BOOLEAN,
           UNCHANGED <<dwrite_file, cache>>,
           refs'[file] = refs[file] + One(after) - One(before),
           \A other \in Files \ {file} : refs'[other] = refs[other],
           \A other \in Files \ {file} : other \in kept' <=> other \in kept,
           \A other \in Files : Users(other)' = Users(other),
           \A other \in Files \ {file} : InHand(other)' <=> InHand(other),
           InHand(file)' => InHand(file),
           One(file \in kept) + One(InHand(file)) - One(before)
               = One(file \in kept') + One(InHand(file)') - One(after)
    PROVE  FileInv'
<1>2. InCache(file)' <=> InCache(file)
  BY DEF InCache
<1>3. FileCounts(file)
  BY DEF IInv, FileInv, FileCounts
<1>4. Cardinality(Users(file)) \in Nat /\ refs[file] \in Nat /\ Users(file)' = Users(file)
  BY UsersFinite DEF IInv, TypeOK
<1>5. FileCounts(file)'
  BY <1>2, <1>3, <1>4 DEF FileCounts, One
<1>6. \A e \in cache : e.file \in Files /\ EntryCounts(e)
  BY DEF IInv, TypeOK, MemoryFontFile, FileInv, EntryCounts
<1>7. \A e \in cache' : e.file = file => EntryCounts(e)'
  BY <1>6 DEF EntryCounts
<1>8. \A e, d \in cache' : e.file = file /\ d.file = file => e = d
  BY DEF IInv, FileInv
<1> QED
  BY <1>5, <1>6, <1>7, <1>8, OtherFiles

\* The file of a copy DirectWrite can read goes into the cache.
LEMMA ReadFile ==
    ASSUME IInv, TypeOK', AnalyzeReads
    PROVE  FileInv'
<1>1. holder.at = "analyze" /\ holder.face \in Faces /\ holder.file \in Files
  BY DEF AnalyzeReads, IInv, HolderInv
<1>2. PICK file \in Files : file = holder.file
  BY <1>1
<1>3. PICK e : /\ cache' = cache \cup {e} /\ e.file = file /\ e.uses = 1
  <2>1. PICK e : e = [file |-> holder.file, font |-> font[holder.face], blob |-> holder.blob,
                      uses |-> 1]
    OBVIOUS
  <2>2. e.file = file /\ e.uses = 1 /\ cache' = cache \cup {e}
    BY <1>2, <2>1 DEF AnalyzeReads, Cached
  <2> QED
    BY <2>2
<1>4. holder'.at = "check" /\ holder'.file = file /\ holder'.face = holder.face
  BY <1>2 DEF AnalyzeReads, Cached, At
<1>5. InHand(file) /\ ~InHand(file)'
  BY <1>1, <1>2, <1>4 DEF InHand
<1>6. Users(file) = {} /\ ~InCache(file) /\ FileCounts(file)
  BY <1>5 DEF IInv, FileInv, FileCounts
<1>7. dwrite_file' = dwrite_file /\ kept' = kept
  BY DEF AnalyzeReads, entries
<1>8. Users(file)' = {holder.face}
  BY <1>1, <1>4, <1>6, <1>7 DEF Users
<1>9. Cardinality(Users(file)') = 1
  BY <1>8, CardinalityOfOne
<1>10. \A other \in Files \ {file} : Users(other)' = Users(other)
  BY <1>1, <1>4, <1>7, SameUsers
<1>11. \A other \in Files \ {file} : InHand(other)' <=> InHand(other)
  BY <1>1, <1>2, <1>4 DEF InHand
<1>12. refs' = [refs EXCEPT ![file] = @ + 1]
  BY <1>2 DEF AnalyzeReads
<1>13. refs'[file] = refs[file] + 1 /\ \A other \in Files \ {file} : refs'[other] = refs[other]
  BY <1>12 DEF IInv, TypeOK
<1>14. InCache(file)'
  BY <1>3 DEF InCache
<1>15. FileCounts(file)'
  BY <1>5, <1>6, <1>7, <1>9, <1>13, <1>14, CardinalityOfNone DEF FileCounts, One
<1>16. EntryCounts(e)'
  <2>1. e.uses = Cardinality(Users(e.file)')
    BY <1>3, <1>9
  <2> QED
    BY <1>3, <2>1 DEF EntryCounts
<1>17. \A d \in cache : d.file \in Files /\ d.file # file
  BY <1>6 DEF IInv, TypeOK, MemoryFontFile, InCache
<1>18. \A d \in cache' : d.file \in Files /\ (d.file = file => d = e)
  BY <1>3, <1>17
<1>19. \A d \in cache \cup cache' : d.file # file => (d \in cache <=> d \in cache')
  BY <1>3
<1> QED
  BY <1>7, <1>10, <1>11, <1>13, <1>15, <1>16, <1>18, <1>19, OtherFiles

LEMMA FileStep == IInv /\ TypeOK' /\ [Next]_vars => FileInv'
<1> SUFFICES ASSUME IInv, TypeOK', [Next]_vars PROVE FileInv'
  OBVIOUS
<1> USE DEF entries, file_vars, blob_vars
<1>1. ASSUME UNCHANGED <<dwrite_file, file_vars, holder>> PROVE FileInv'
  <2>1. \A x \in Files : Users(x)' = Users(x) /\ (InHand(x)' <=> InHand(x))
    BY <1>1, SameUsers DEF InHand
  <2>2. \A e \in cache : e.file \in Files
    BY DEF IInv, TypeOK, MemoryFontFile
  <2>3. \A x \in Files : InCache(x)' <=> InCache(x)
    BY <1>1 DEF InCache
  <2> QED
    BY <1>1, <2>1, <2>2, <2>3 DEF IInv, FileInv, One
<1>2. CASE UNCHANGED vars
  BY <1>1, <1>2 DEF vars
<1>3. ASSUME NEW f \in Faces, NEW c \in Fonts, RecordFace(f, c) PROVE FileInv'
  BY <1>1, <1>3 DEF RecordFace
<1>4. ASSUME NEW f \in Faces, EraseFaceLocked(f) PROVE FileInv'
  <2>1. holder.at = "idle" /\ dwrite_file' = [dwrite_file EXCEPT ![f] = None] /\ kept' = kept
    BY <1>4 DEF EraseFaceLocked, Idle
  <2>2. CASE dwrite_file[f] = None
    <3>1. dwrite_file' = dwrite_file /\ UNCHANGED <<refs, cache, holder>>
      BY <1>4, <2>1, <2>2 DEF EraseFaceLocked, IInv, TypeOK
    <3> QED
      BY <2>1, <3>1, FilesStill
  <2>3. CASE dwrite_file[f] # None
    <3>1. PICK file \in Files : file = dwrite_file[f]
      BY <2>3 DEF IInv, TypeOK
    <3>2. Forget(f, file)
      BY <1>4, <2>3, <3>1 DEF EraseFaceLocked
    <3>3. holder'.at \in {"idle", "forget"}
      BY <3>2, ForgetsAtMostOne DEF Idle, At
    <3>4. f \in Users(file) /\ Users(file)' = Users(file) \ {f}
      BY <2>1, <3>1, <3>3, Distinct DEF Users, IInv, TypeOK
    <3>5. \A other \in Files \ {file} : Users(other)' = Users(other)
      BY <2>1, <3>1, <3>3, Distinct DEF Users, IInv, TypeOK
    <3> QED
      BY <2>1, <3>2, <3>4, <3>5, ForgetFiles
  <2> QED
    BY <2>2, <2>3
<1>5. ASSUME NEW f \in Faces, \/ NoFontFile(f)
                              \/ NoMemoryForCopy(f)
                              \/ \E id \in Ids : CopyFont(f, id)
      PROVE  FileInv'
  <2>1. UNCHANGED <<dwrite_file, file_vars>> /\ holder.at = "idle"
        /\ holder'.at \in {"idle", "loader", "reference"}
    BY <1>5 DEF NoFontFile, NoMemoryForCopy, CopyFont, Asks, Idle, At
  <2> QED
    BY <2>1, FilesStill
<1>6. ASSUME NEW f \in Faces, NEW file \in Files, OpenByPath(f, file) PROVE FileInv'
  BY <1>6, NewFile DEF OpenByPath, Asks, Idle, At
<1>7. ASSUME NEW f \in Faces, NEW e \in cache, ReuseMemoryFont(f, e) PROVE FileInv'
  BY <1>7, SharedFile
<1>8. ASSUME NEW file \in Files, CreateReference(file) PROVE FileInv'
  <2>1. holder.face \in Faces /\ holder.at = "reference"
    BY <1>8 DEF CreateReference, IInv, HolderInv
  <2>2. holder'.at = "analyze" /\ holder'.file = file /\ holder'.face = holder.face
    BY <1>8 DEF CreateReference, IInv, TypeOK, Holder
  <2> QED
    BY <1>8, <2>1, <2>2, NewFile DEF CreateReference
<1>9. ASSUME NEW file \in Files, LoaderCopies(file) PROVE FileInv'
  <2>1. holder.face \in Faces /\ holder.at = "loader"
    BY <1>9 DEF LoaderCopies, IInv, HolderInv
  <2>2. holder'.at = "check" /\ holder'.file = file /\ holder'.face = holder.face
    BY <1>9 DEF LoaderCopies, Cached, At
  <2>3. \E e : cache' = cache \cup {e} /\ e.file = file /\ e.uses = 1 /\ e.blob = NoBlob
    <3>1. PICK e : e = [file |-> file, font |-> font[holder.face], blob |-> NoBlob, uses |-> 1]
      OBVIOUS
    <3>2. e.file = file /\ e.uses = 1 /\ e.blob = NoBlob /\ cache' = cache \cup {e}
      BY <1>9, <3>1 DEF LoaderCopies, Cached
    <3> QED
      BY <3>2
  <2> QED
    BY <1>9, <2>1, <2>2, <2>3, NewFile DEF LoaderCopies
<1>10. ASSUME NEW file \in Files, Keep(file) PROVE FileInv'
  <2>1. \A x \in Files : Users(x)' = Users(x) /\ (InHand(x)' <=> InHand(x))
    BY <1>10, SameUsers DEF Keep, InHand
  <2>2. /\ refs'[file] = refs[file] + One(TRUE) - One(FALSE)
        /\ \A other \in Files \ {file} : refs'[other] = refs[other]
    BY <1>10 DEF Keep, One, IInv, TypeOK
  <2>3. One(file \in kept) + One(InHand(file)) - One(FALSE)
            = One(file \in kept') + One(InHand(file)') - One(TRUE)
    BY <1>10, <2>1 DEF Keep, One
  <2>4. UNCHANGED <<dwrite_file, cache>>
        /\ \A other \in Files \ {file} : other \in kept' <=> other \in kept
    BY <1>10 DEF Keep
  <2> QED
    BY <2>1, <2>2, <2>3, <2>4, OneReference
<1>11. ASSUME NEW file \in Files, LetGo(file) PROVE FileInv'
  <2>1. \A x \in Files : Users(x)' = Users(x) /\ (InHand(x)' <=> InHand(x))
    BY <1>11, SameUsers DEF LetGo, InHand
  <2>2. /\ refs'[file] = refs[file] + One(FALSE) - One(TRUE)
        /\ \A other \in Files \ {file} : refs'[other] = refs[other]
    BY <1>11 DEF LetGo, One, IInv, TypeOK
  <2>3. One(file \in kept) + One(InHand(file)) - One(TRUE)
            = One(file \in kept') + One(InHand(file)') - One(FALSE)
    BY <1>11, <2>1 DEF LetGo, One
  <2>4. UNCHANGED <<dwrite_file, cache>>
        /\ \A other \in Files \ {file} : other \in kept' <=> other \in kept
    BY <1>11 DEF LetGo
  <2> QED
    BY <2>1, <2>2, <2>3, <2>4, OneReference
<1>12. CASE ReferenceRefused
  BY <1>12, FilesStill DEF ReferenceRefused, ToLoader, At
<1>13. ASSUME AnalyzeRefused \/ FinishForget PROVE FileInv'
  <2>1. PICK file \in Files : file = holder.file
    BY <1>13 DEF AnalyzeRefused, FinishForget, IInv, HolderInv
  <2>2. /\ InHand(file) /\ holder'.at \in {"fallback", "idle"} /\ holder.at # "check"
        /\ \A x \in Files \ {file} : ~InHand(x)
        /\ UNCHANGED <<dwrite_file, cache, kept>> /\ refs' = [refs EXCEPT ![file] = @ - 1]
    BY <1>13, <2>1 DEF AnalyzeRefused, FinishForget, ToLoader, InHand, At, Idle
  <2>3. \A x \in Files : Users(x)' = Users(x) /\ ~InHand(x)'
    BY <2>2, SameUsers DEF InHand
  <2>4. /\ refs'[file] = refs[file] + One(FALSE) - One(TRUE)
        /\ \A other \in Files \ {file} : refs'[other] = refs[other]
    BY <2>2 DEF One, IInv, TypeOK
  <2>5. One(file \in kept) + One(InHand(file)) - One(TRUE)
            = One(file \in kept') + One(InHand(file)') - One(FALSE)
    BY <2>2, <2>3 DEF One
  <2> QED
    BY <2>2, <2>3, <2>4, <2>5, OneReference
<1>14. CASE AnalyzeReads
  BY <1>14, ReadFile
<1>15. CASE FinishFallback \/ LoaderFails
  BY <1>15, FilesStill DEF FinishFallback, LoaderFails, At, Idle
<1>16. CASE Supported
  <2>1. /\ holder.at = "check" /\ holder.face \in Faces /\ holder.file \in Files
        /\ dwrite_file[holder.face] = None /\ holder'.at = "idle"
        /\ dwrite_file' = [dwrite_file EXCEPT ![holder.face] = holder.file]
    BY <1>16 DEF Supported, IInv, HolderInv, Idle
  <2>2. \A x \in Files : Users(x)' = Users(x) /\ ~InHand(x) /\ ~InHand(x)'
    BY <2>1, Distinct DEF Users, InHand, IInv, TypeOK
  <2>3. \A x \in Files : InCache(x)' <=> InCache(x)
    BY <1>16 DEF Supported, InCache
  <2>4. \A e \in cache : e.file \in Files
    BY DEF IInv, TypeOK, MemoryFontFile
  <2>5. UNCHANGED <<cache, refs, kept>>
    BY <1>16 DEF Supported
  <2> QED
    BY <2>2, <2>3, <2>4, <2>5 DEF IInv, FileInv, One
<1>17. CASE Unsupported
  <2>1. holder.at = "check" /\ holder.face \in Faces /\ dwrite_file[holder.face] = None
        /\ UNCHANGED <<dwrite_file, kept>>
    BY <1>17 DEF Unsupported, IInv, HolderInv
  <2>2. PICK file \in Files : file = holder.file
    BY <1>17 DEF Unsupported, IInv, HolderInv
  <2>3. Forget(holder.face, file)
    BY <1>17, <2>2 DEF Unsupported
  <2>4. holder'.at \in {"idle", "forget"}
    BY <2>3, ForgetsAtMostOne DEF Idle, At
  <2>5. holder.face \in Users(file) /\ Users(file)' = Users(file) \ {holder.face}
    BY <2>1, <2>2, <2>4, Distinct DEF Users
  <2>6. \A other \in Files \ {file} : Users(other)' = Users(other)
    BY <2>1, <2>2, <2>4 DEF Users
  <2> QED
    BY <2>1, <2>3, <2>5, <2>6, ForgetFiles
<1>18. ASSUME NEW id \in Ids, CreateStreamFromKey(id) \/ ReleaseStream(id) \/ DeleteBlob(id)
       PROVE  FileInv'
  BY <1>1, <1>18 DEF CreateStreamFromKey, ReleaseStream, DeleteBlob
<1> QED
  BY <1>2, <1>3, <1>4, <1>5, <1>6, <1>7, <1>8, <1>9, <1>10, <1>11, <1>12, <1>13, <1>14, <1>15,
     <1>16, <1>17, <1>18 DEF Next

-----------------------------------------------------------------------------
(* What a file was made with *)

\* Where no file is made.
LEMMA MadeStill ==
    ASSUME IInv, made' = made, next_id' \in Int, next_id' >= next_id,
           \A file \in Files : refs'[file] > 0 => refs[file] > 0,
           \A id \in table' : id = next_id \/ (id \in table /\ bytes'[id] = bytes[id]),
           \A e \in cache' : made[e.file].font = e.font /\ made[e.file].blob = e.blob,
           holder'.at = "analyze" => holder' = holder /\ font' = font,
           (holder.at = "check" => Suits(holder.face, holder.file))',
           ReadsItsOwnFont'
    PROVE  MadeInv'
<1> USE DEF IInv, MadeInv
<1>1. next_id \in Int /\ \A file \in Files : refs[file] > 0 /\ made[file].blob # NoBlob =>
                            made[file].blob \in Int /\ made[file].blob < next_id
  BY DEF TypeOK, Ids
<1>2. \A file \in Files : refs'[file] > 0 =>
          /\ made'[file] \in [font : Fonts, blob : Ids \cup {NoBlob}]
          /\ made'[file].blob # NoBlob => made'[file].blob < next_id'
  BY <1>1 DEF TypeOK
<1>3. KeyNamesItsFont'
  <2> SUFFICES ASSUME NEW file \in Files, refs'[file] > 0, made'[file].blob \in table'
               PROVE  bytes'[made'[file].blob] = made'[file].font
    BY DEF KeyNamesItsFont
  <2>1. refs[file] > 0 /\ made[file].blob \in table'
    OBVIOUS
  <2>2. made[file].blob # next_id
    <3>1. CASE made[file].blob = NoBlob
      BY <3>1 DEF NoBlob, TypeOK
    <3>2. CASE made[file].blob # NoBlob
      BY <1>1, <2>1, <3>2
    <3> QED
      BY <3>1, <3>2
  <2> QED
    BY <2>1, <2>2 DEF KeyNamesItsFont
<1>4. (holder.at = "analyze" =>
           made[holder.file].font = font[holder.face] /\ made[holder.file].blob = holder.blob)'
  OBVIOUS
<1> QED
  BY <1>2, <1>3, <1>4

\* Where the holder makes one.
LEMMA MadeNew ==
    ASSUME IInv, TypeOK', NEW file \in Files, NEW count, NEW f \in Faces,
           NEW id \in Ids \cup {NoBlob},
           MakeFile(file, count, font[f], id), font[f] \in Fonts,
           UNCHANGED <<font, dwrite_file, table, bytes, next_id>>,
           id # NoBlob => id \in table /\ bytes[id] = font[f],
           \A e \in cache' : e \in cache \/ (e.file = file /\ e.font = font[f] /\ e.blob = id),
           holder'.file = file, holder'.face = f, holder'.at \in {"analyze", "check"},
           holder'.at = "analyze" => holder'.blob = id
    PROVE  MadeInv'
<1> USE DEF IInv, MadeInv
<1>1. Users(file) = {} /\ ~InCache(file)
  BY FreeFile DEF MakeFile
<1>2. /\ made'[file] = [font |-> font[f], blob |-> id]
      /\ \A other \in Files \ {file} : made'[other] = made[other] /\ refs'[other] = refs[other]
  BY DEF MakeFile, TypeOK
<1>3. made'[file].font = font[f] /\ made'[file].blob = id
  BY <1>2
<1>4. id # NoBlob => id < next_id
  BY BlobReferenced, Distinct DEF BlobInv, TypeOK
<1>5. \A x \in Files : refs'[x] > 0 =>
          /\ made'[x] \in [font : Fonts, blob : Ids \cup {NoBlob}]
          /\ made'[x].blob # NoBlob => made'[x].blob < next_id'
  BY <1>2, <1>3, <1>4
<1>6. \A e \in cache' : made'[e.file].font = e.font /\ made'[e.file].blob = e.blob
  BY <1>1, <1>2, <1>3 DEF InCache, TypeOK, MemoryFontFile
<1>7. (holder.at = "check" => Suits(holder.face, holder.file))'
  BY <1>3 DEF Suits
<1>8. KeyNamesItsFont'
  <2>1. \A x \in Files \ {file} : refs'[x] > 0 /\ made'[x].blob \in table' =>
            bytes'[made'[x].blob] = made'[x].font
    BY <1>2 DEF KeyNamesItsFont
  <2>2. made'[file].blob \in table' => bytes'[made'[file].blob] = made'[file].font
    BY <1>3, Distinct DEF TypeOK
  <2> QED
    BY <2>1, <2>2 DEF KeyNamesItsFont
<1>9. ReadsItsOwnFont'
  <2>1. \A h \in Faces : dwrite_file[h] # None => dwrite_file[h] \in Files \ {file}
    BY <1>1 DEF Users, TypeOK
  <2> QED
    BY <1>2, <2>1 DEF ReadsItsOwnFont
<1>10. (holder.at = "analyze" =>
            made[holder.file].font = font[holder.face] /\ made[holder.file].blob = holder.blob)'
  BY <1>3
<1> QED
  BY <1>5, <1>6, <1>7, <1>8, <1>9, <1>10

\* What Forget leaves was there before.
LEMMA ForgetMade ==
    ASSUME IInv, NEW f, NEW file, Forget(f, file)
    PROVE  /\ \A x \in Files : refs'[x] > 0 => refs[x] > 0
           /\ table' \subseteq table
           /\ \A e \in cache' : made[e.file].font = e.font /\ made[e.file].blob = e.blob
           /\ holder'.at \in {"idle", "forget"}
<1>1. refs' = [refs EXCEPT ![file] = @ - 1]
  BY DEF Forget, ForgetPlain
<1>2. \A x \in Files : refs'[x] > 0 => refs[x] > 0
  BY <1>1 DEF IInv, TypeOK
<1>3. \A e \in cache : LET less == [e EXCEPT !.uses = @ - 1]
                       IN  less.file = e.file /\ less.font = e.font /\ less.blob = e.blob
  BY DEF IInv, TypeOK, MemoryFontFile
<1>4. \A d \in cache' : \E e \in cache : d.file = e.file /\ d.font = e.font /\ d.blob = e.blob
  BY <1>3 DEF Forget, ForgetPlain
<1> QED
  BY <1>2, <1>4, ForgetsAtMostOne DEF IInv, MadeInv, Idle, At

LEMMA MadeStep == IInv /\ TypeOK' /\ [Next]_vars => MadeInv'
<1> SUFFICES ASSUME IInv, TypeOK', [Next]_vars PROVE MadeInv'
  OBVIOUS
<1> USE DEF entries, file_vars, blob_vars
<1>1. \A e \in cache : made[e.file].font = e.font /\ made[e.file].blob = e.blob
  BY DEF IInv, MadeInv
<1>2. next_id \in Int /\ next_id >= next_id
  BY DEF IInv, TypeOK
<1>3. ASSUME UNCHANGED <<font, dwrite_file, made>> PROVE ReadsItsOwnFont'
  BY <1>3 DEF IInv, MadeInv, ReadsItsOwnFont
<1>4. CASE UNCHANGED vars
  BY <1>1, <1>2, <1>3, <1>4, MadeStill DEF vars, IInv, MadeInv, Suits
<1>5. ASSUME NEW f \in Faces, NEW c \in Fonts, RecordFace(f, c) PROVE MadeInv'
  <2>1. dwrite_file[f] = None /\ holder'.at = "idle"
    BY <1>5 DEF RecordFace, IInv, HolderInv, Idle
  <2>2. ReadsItsOwnFont'
    BY <1>5, <2>1 DEF RecordFace, IInv, TypeOK, MadeInv, ReadsItsOwnFont
  <2> QED
    BY <1>1, <1>2, <1>5, <2>1, <2>2, MadeStill DEF RecordFace
<1>6. ASSUME NEW f \in Faces, EraseFaceLocked(f) PROVE MadeInv'
  <2>1. UNCHANGED <<made, next_id, bytes>> /\ holder.at = "idle"
    BY <1>6 DEF EraseFaceLocked, Idle
  <2>2. ReadsItsOwnFont'
    BY <1>6 DEF EraseFaceLocked, IInv, TypeOK, MadeInv, ReadsItsOwnFont
  <2>3. CASE dwrite_file[f] = None
    <3>1. UNCHANGED <<cache, refs, table, holder>>
      BY <1>6, <2>3 DEF EraseFaceLocked
    <3> QED
      BY <1>1, <1>2, <2>1, <2>2, <3>1, MadeStill
  <2>4. CASE dwrite_file[f] # None
    <3>1. Forget(f, dwrite_file[f])
      BY <1>6, <2>4 DEF EraseFaceLocked
    <3> QED
      BY <1>2, <2>1, <2>2, <3>1, ForgetMade, MadeStill
  <2> QED
    BY <2>3, <2>4
<1>7. ASSUME NEW f \in Faces, NoFontFile(f) \/ NoMemoryForCopy(f) PROVE MadeInv'
  <2>1. /\ UNCHANGED <<font, dwrite_file, file_vars, blob_vars>>
        /\ holder'.at \in {"idle", "loader"}
    BY <1>7 DEF NoFontFile, NoMemoryForCopy, Asks, Idle, At
  <2> QED
    BY <1>1, <1>2, <1>3, <2>1, MadeStill
<1>8. ASSUME NEW f \in Faces, NEW id \in Ids, CopyFont(f, id) PROVE MadeInv'
  <2>1. /\ UNCHANGED <<font, dwrite_file, file_vars>> /\ holder'.at = "reference"
        /\ next_id' = next_id + 1 /\ id = next_id
    BY <1>8 DEF CopyFont, FreshId, Asks, At
  <2>2. \A i \in table' : i = next_id \/ (i \in table /\ bytes'[i] = bytes[i])
    BY <1>8, <2>1 DEF CopyFont, IInv, TypeOK
  <2>3. next_id' \in Int /\ next_id' >= next_id
    BY <1>2, <2>1
  <2> QED
    BY <1>1, <1>3, <2>1, <2>2, <2>3, MadeStill
<1>9. ASSUME NEW f \in Faces, NEW file \in Files, OpenByPath(f, file) PROVE MadeInv'
  <2>1. font[f] \in Fonts
    BY <1>9 DEF OpenByPath, Asks, IInv, TypeOK
  <2> QED
    BY <1>9, <2>1, MadeNew DEF OpenByPath, Asks, At
<1>10. ASSUME NEW f \in Faces, NEW e \in cache, ReuseMemoryFont(f, e) PROVE MadeInv'
  <2>1. e.file \in Files /\ refs[e.file] > 0
    BY UsedIsReferenced DEF IInv, TypeOK, MemoryFontFile, InCache
  <2>2. UNCHANGED <<font, dwrite_file, made, kept, blob_vars>>
        /\ holder'.at = "check" /\ holder'.face = f /\ holder'.file = e.file
    BY <1>10 DEF ReuseMemoryFont, Asks, At
  <2>3. Matches(e, font[f])
    BY <1>10 DEF ReuseMemoryFont
  <2>4. e.blob # NoBlob => e.font = font[f]
    <3>1. made[e.file].blob \in table => bytes[made[e.file].blob] = made[e.file].font
      BY <2>1 DEF IInv, MadeInv, KeyNamesItsFont
    <3> QED
      BY <1>1, <2>3, <3>1 DEF Matches
  <2>5. Suits(f, e.file)
    BY <1>1, <2>3, <2>4 DEF Suits, Matches
  <2>6. (holder.at = "check" => Suits(holder.face, holder.file))'
    BY <2>2, <2>5 DEF Suits
  <2>7. /\ Shared(e).file = e.file /\ Shared(e).font = e.font /\ Shared(e).blob = e.blob
        /\ cache' = (cache \ {e}) \cup {Shared(e)}
    BY <1>10 DEF ReuseMemoryFont, Shared, IInv, TypeOK, MemoryFontFile
  <2>8. \A d \in cache' : made[d.file].font = d.font /\ made[d.file].blob = d.blob
    BY <1>1, <2>7
  <2>9. \A x \in Files : refs'[x] > 0 => refs[x] > 0
    BY <1>10, <2>1 DEF ReuseMemoryFont, IInv, TypeOK
  <2> QED
    BY <1>2, <1>3, <2>2, <2>6, <2>8, <2>9, MadeStill
<1>11. ASSUME NEW file \in Files, CreateReference(file) PROVE MadeInv'
  <2>1. /\ holder.at = "reference" /\ holder.face \in Faces /\ font[holder.face] \in Fonts
        /\ holder.blob \in Ids
    BY <1>11 DEF CreateReference, IInv, HolderInv, TypeOK
  <2>2. holder.blob \in table /\ bytes[holder.blob] = font[holder.face]
    BY <2>1 DEF IInv, EntryInv, Making
  <2>3. /\ holder'.at = "analyze" /\ holder'.file = file /\ holder'.face = holder.face
        /\ holder'.blob = holder.blob
    BY <1>11 DEF CreateReference, IInv, TypeOK, Holder
  <2>4. /\ UNCHANGED <<font, dwrite_file, table, bytes, next_id, cache>>
        /\ MakeFile(file, 1, font[holder.face], holder.blob)
    BY <1>11 DEF CreateReference
  <2> QED
    BY <2>1, <2>2, <2>3, <2>4, MadeNew
<1>12. ASSUME NEW file \in Files, LoaderCopies(file) PROVE MadeInv'
  <2>1. holder.at = "loader" /\ holder.face \in Faces /\ font[holder.face] \in Fonts
    BY <1>12 DEF LoaderCopies, IInv, HolderInv, TypeOK
  <2>2. holder'.at = "check" /\ holder'.file = file /\ holder'.face = holder.face
    BY <1>12 DEF LoaderCopies, Cached, At
  <2>3. \A e \in cache' : \/ e \in cache
                          \/ e.file = file /\ e.font = font[holder.face] /\ e.blob = NoBlob
    BY <1>12 DEF LoaderCopies, Cached
  <2>4. /\ UNCHANGED <<font, dwrite_file, table, bytes, next_id>>
        /\ MakeFile(file, 2, font[holder.face], NoBlob)
    BY <1>12 DEF LoaderCopies
  <2> QED
    BY <2>1, <2>2, <2>3, <2>4, MadeNew
<1>13. ASSUME NEW file \in Files, Keep(file) \/ LetGo(file) PROVE MadeInv'
  <2>1. UNCHANGED <<entries, cache, made, blob_vars, holder>>
        /\ \A x \in Files : refs'[x] > 0 => refs[x] > 0
    BY <1>13 DEF Keep, LetGo, IInv, TypeOK
  <2> QED
    BY <1>1, <1>2, <1>3, <2>1, MadeStill DEF IInv, MadeInv, Suits
<1>14. CASE ReferenceRefused \/ AnalyzeRefused
  <2>1. /\ ToLoader /\ \/ refs' = refs
                       \/ holder.file \in Files /\ refs' = [refs EXCEPT ![holder.file] = @ - 1]
    BY <1>14 DEF ReferenceRefused, AnalyzeRefused, IInv, HolderInv
  <2>2. \A x \in Files : refs'[x] > 0 => refs[x] > 0
    BY <2>1 DEF IInv, TypeOK
  <2>3. /\ UNCHANGED <<entries, cache, made, next_id, bytes>> /\ table' \subseteq table
        /\ holder'.at = "fallback"
    BY <2>1 DEF ToLoader, At
  <2> QED
    BY <1>1, <1>2, <1>3, <2>2, <2>3, MadeStill
<1>15. CASE AnalyzeReads
  <2>1. holder.at = "analyze" /\ holder.file \in Files
    BY <1>15 DEF AnalyzeReads, IInv, HolderInv
  <2>2. made[holder.file].font = font[holder.face] /\ made[holder.file].blob = holder.blob
    BY <2>1 DEF IInv, MadeInv
  <2>3. \A e \in cache' : \/ e \in cache
                          \/ /\ e.file = holder.file /\ e.font = font[holder.face]
                             /\ e.blob = holder.blob
    BY <1>15 DEF AnalyzeReads, Cached
  <2>4. holder'.at = "check" /\ holder'.file = holder.file /\ holder'.face = holder.face
        /\ UNCHANGED <<entries, made, kept, blob_vars>>
    BY <1>15 DEF AnalyzeReads, Cached, At
  <2>5. refs[holder.file] > 0
    BY <2>1, UsedIsReferenced DEF InHand
  <2>6. \A x \in Files : refs'[x] > 0 => refs[x] > 0
    BY <1>15, <2>5 DEF AnalyzeReads, IInv, TypeOK
  <2>7. (holder.at = "check" => Suits(holder.face, holder.file))'
    BY <2>2, <2>4 DEF Suits
  <2>8. \A e \in cache' : made[e.file].font = e.font /\ made[e.file].blob = e.blob
    BY <1>1, <2>2, <2>3
  <2> QED
    BY <1>2, <1>3, <2>4, <2>6, <2>7, <2>8, MadeStill
<1>16. CASE FinishFallback \/ FinishForget \/ LoaderFails
  <2>1. /\ UNCHANGED <<entries, cache, made, table, next_id, bytes>>
        /\ holder'.at \in {"loader", "idle"}
        /\ \/ refs' = refs
           \/ holder.file \in Files /\ refs' = [refs EXCEPT ![holder.file] = @ - 1]
    BY <1>16 DEF FinishFallback, FinishForget, LoaderFails, At, Idle, IInv, HolderInv
  <2>2. \A x \in Files : refs'[x] > 0 => refs[x] > 0
    BY <2>1 DEF IInv, TypeOK
  <2> QED
    BY <1>1, <1>2, <1>3, <2>1, <2>2, MadeStill
<1>17. CASE Supported
  <2>1. holder'.at = "idle" /\ UNCHANGED <<font, file_vars, blob_vars>>
    BY <1>17 DEF Supported, Idle
  <2>2. /\ Suits(holder.face, holder.file) /\ holder.face \in Faces
        /\ dwrite_file' = [dwrite_file EXCEPT ![holder.face] = holder.file]
    BY <1>17 DEF Supported, IInv, MadeInv, HolderInv
  <2>3. ReadsItsOwnFont'
    BY <2>1, <2>2 DEF Suits, ReadsItsOwnFont, IInv, TypeOK, MadeInv
  <2> QED
    BY <1>1, <1>2, <2>1, <2>3, MadeStill
<1>18. CASE Unsupported
  <2>1. Forget(holder.face, holder.file) /\ UNCHANGED <<entries, made, next_id, bytes>>
    BY <1>18 DEF Unsupported
  <2> QED
    BY <1>2, <1>3, <2>1, ForgetMade, MadeStill
<1>19. ASSUME NEW id \in Ids, CreateStreamFromKey(id) \/ ReleaseStream(id) \/ DeleteBlob(id)
       PROVE  MadeInv'
  <2>1. UNCHANGED <<entries, file_vars, table, next_id, holder>>
    BY <1>19 DEF CreateStreamFromKey, ReleaseStream, DeleteBlob
  <2>2. \A i \in table : bytes'[i] = bytes[i]
    <3>1. CASE bytes' = bytes
      BY <3>1
    <3>2. CASE DeleteBlob(id)
      BY <3>2, BlobReferenced DEF DeleteBlob, IInv, TypeOK
    <3> QED
      BY <1>19, <3>1, <3>2 DEF CreateStreamFromKey, ReleaseStream
  <2> QED
    BY <1>1, <1>2, <1>3, <2>1, <2>2, MadeStill DEF IInv, MadeInv, Suits
<1> QED
  BY <1>4, <1>5, <1>6, <1>7, <1>8, <1>9, <1>10, <1>11, <1>12, <1>13, <1>14, <1>15, <1>16, <1>17,
     <1>18, <1>19 DEF Next

-----------------------------------------------------------------------------
(* The inductive invariant and what follows from it *)

LEMMA InitIInv == Init => IInv
<1> SUFFICES ASSUME Init PROVE IInv
  OBVIOUS
<1> USE DEF Init
<1>1. TypeOK
  BY BoundsAssumption DEF TypeOK, Ids, Holder, Idle, Steps
<1>2. HolderInv /\ EntryInv
  BY DEF HolderInv, EntryInv, Making, Idle
<1>3. BlobInv
  BY DEF BlobInv, Leaving, One, Idle
<1>4. FileInv
  <2>1. \A file \in Files : Users(file) = {} /\ ~InCache(file) /\ ~InHand(file)
    BY Distinct DEF Users, InCache, InHand, Idle
  <2> QED
    BY <2>1, CardinalityOfNone DEF FileInv, One
<1>5. MadeInv
  BY DEF MadeInv, KeyNamesItsFont, ReadsItsOwnFont, Idle
<1> QED
  BY <1>1, <1>2, <1>3, <1>4, <1>5 DEF IInv

\* The invariant holds initially and every step of Next keeps each part of it (all the
\* operations on font files and blobs).
THEOREM Invariance == Spec => []IInv
<1>1. IInv /\ [Next]_vars => IInv'
  BY TypeStep, HolderStep, BlobStep, EntryStep, FileStep, MadeStep DEF IInv
<1> QED
  BY InitIInv, <1>1, PTL DEF Spec

\* Every variable keeps its type: no count of references goes below zero
\* (ReleaseBlob, ForgetMemoryFontLocked, the Release calls of GetFontFileLocked).
THEOREM TypeCorrect == Spec => []TypeOK
<1>1. IInv => TypeOK
  BY DEF IInv
<1> QED
  BY Invariance, <1>1, PTL

\* No stream ever reads bytes that are deleted or about to be
\* (CreateStreamFromKey and ReleaseBlob against ForgetBlob).
THEOREM StreamsNeverDangle == Spec => []StreamsReadLiveBytes
<1>1. IInv => StreamsReadLiveBytes
  BY BlobReferenced DEF StreamsReadLiveBytes
<1> QED
  BY Invariance, <1>1, PTL

\* A font's bytes are given back once no face and no stream reads them
\* (ForgetMemoryFontLocked, ForgetBlob).
THEOREM BytesAreGivenBack == Spec => []BytesHeldForAReader
<1>1. ASSUME IInv PROVE BytesHeldForAReader
  <2> SUFFICES ASSUME NEW id \in Ids, bytes[id] # None, ~(streams[id] > 0), id \notin freeing,
                      holder.blob # id
               PROVE  \E e \in cache : e.blob = id /\ Users(e.file) # {}
    BY DEF BytesHeldForAReader
  <2>1. id \in table
    BY <1>1 DEF IInv, BlobInv, Leaving, One, TypeOK
  <2>2. PICK e \in cache : e.blob = id
    BY <1>1, <2>1 DEF IInv, EntryInv
  <2>3. e.uses = Cardinality(Users(e.file)) /\ e.uses >= 1
    BY <1>1, <2>2, Distinct DEF IInv, FileInv
  <2>4. Users(e.file) # {}
    BY <2>3, CardinalityOfNone
  <2> QED
    BY <2>2, <2>4
<1> QED
  BY Invariance, <1>1, PTL

\* An entry of the cache counts the faces on its file, and the file has one reference
\* for each, one of the cache's and those of DirectWrite
\* (MemoryFontFileLocked, ForgetMemoryFontLocked).
THEOREM UsesAreFaces == Spec => []UsesCountFaces
<1>1. ASSUME IInv PROVE UsesCountFaces
  <2> SUFFICES ASSUME NEW e \in cache
               PROVE  /\ e.uses = Cardinality(Users(e.file))
                      /\ refs[e.file] = e.uses + 1 + (IF e.file \in kept THEN 1 ELSE 0)
    BY DEF UsesCountFaces
  <2>1. e.file \in Files /\ InCache(e.file)
    BY <1>1 DEF IInv, TypeOK, MemoryFontFile, InCache
  <2>2. ~InHand(e.file)
    BY <1>1, <2>1 DEF IInv, FileInv
  <2>3. refs[e.file] = Cardinality(Users(e.file)) + 1 + One(e.file \in kept)
    BY <1>1, <2>1, <2>2, UsersFinite DEF IInv, FileInv, One
  <2> QED
    BY <1>1, <2>3 DEF IInv, FileInv, One
<1> QED
  BY Invariance, <1>1, PTL

\* A face never reads the file of a font whose bytes are not its own, where the copy
\* DirectWrite reads is ours to compare with (SameFontBytes).
THEOREM FacesReadTheirFonts == Spec => []ReadsItsOwnFont
<1>1. IInv => ReadsItsOwnFont
  BY DEF IInv, MadeInv
<1> QED
  BY Invariance, <1>1, PTL

\* A key DirectWrite kept never opens the bytes of another font (g_next_blob_id).
THEOREM KeysNameTheirFonts == Spec => []KeyNamesItsFont
<1>1. IInv => KeyNamesItsFont
  BY DEF IInv, MadeInv
<1> QED
  BY Invariance, <1>1, PTL
=============================================================================
