------------------------- MODULE DWriteFaceCacheProofs -------------------------
(***************************************************************************)
(* Proofs about DWriteFaceCache, for any number of threads, keys and       *)
(* DirectWrite faces and any caps.  The count of a face is what the two    *)
(* caches and the readers have on it; so a face that DirectWrite makes, at *)
(* an address nothing counts, is nobody's yet, and the key it is made for  *)
(* replaces no key that anyone relies on.                                  *)
(***************************************************************************)
EXTENDS DWriteFaceCache, FiniteSetTheorems, TLAPS

Readers(o) == Cardinality({t \in Threads : Busy(t) /\ raster[t].face = o})

ReadersKnowTheirKey == \A t \in Threads : Busy(t) => made_for[raster[t].face] = raster[t].key

\* An analysis that no memory was found for stays, so there may be more than are worked on.
AnalysesCounted == analyses >= Cardinality({t \in Threads : raster[t].doing = "texture"})

IInv ==
    /\ TypeOK
    /\ EveryReferenceIsHeld
    /\ AnswersTheKey
    /\ ReadersKnowTheirKey
    /\ AnalysesCounted

One(b) == IF b THEN 1 ELSE 0

-----------------------------------------------------------------------------
(* Counting *)

\* The elements with a face are a number, and none where there is no element.
LEMMA HeldType ==
  ASSUME NEW X, NEW s \in Seq(X), NEW o
  PROVE  /\ Held(s, o) \in Nat
         /\ (\E i \in DOMAIN s : s[i].face = o) <=> Held(s, o) > 0
<1> DEFINE I == {i \in DOMAIN s : s[i].face = o}
<1>1. Len(s) \in Nat /\ DOMAIN s = 1 .. Len(s)
  OBVIOUS
<1>2. IsFiniteSet(1 .. Len(s))
  BY <1>1, FS_Interval
<1>3. IsFiniteSet(I)
  BY <1>1, <1>2, FS_Subset
<1>4. Cardinality(I) \in Nat /\ (Cardinality(I) = 0 <=> I = {})
  BY <1>3, FS_CardinalityType, FS_EmptySet
<1> QED
  BY <1>4 DEF Held

LEMMA HeldNone == ASSUME NEW o PROVE Held(<< >>, o) = 0
<1>1. {i \in DOMAIN << >> : << >>[i].face = o} = {}
  OBVIOUS
<1> QED
  BY <1>1, FS_EmptySet DEF Held

\* A cache that gets one more element holds its face once more.
LEMMA HeldAppend ==
  ASSUME NEW X, NEW s \in Seq(X), NEW e \in X, NEW o
  PROVE  Held(Append(s, e), o) = Held(s, o) + One(e.face = o)
<1> DEFINE q == Append(s, e)
           n == Len(s)
           I == {i \in 1 .. n : s[i].face = o}
           J == {i \in 1 .. n + 1 : q[i].face = o}
<1>1. n \in Nat /\ DOMAIN s = 1 .. n /\ DOMAIN q = 1 .. n + 1
  OBVIOUS
<1>2. q[n + 1] = e /\ \A i \in 1 .. n : q[i] = s[i]
  OBVIOUS
<1> HIDE DEF q
<1>3. IsFiniteSet(I) /\ Cardinality(I) \in Nat
  <2>1. IsFiniteSet(1 .. n)
    BY <1>1, FS_Interval
  <2>2. IsFiniteSet(I)
    BY <2>1, FS_Subset
  <2> QED
    BY <2>2, FS_CardinalityType
<1>8. Held(s, o) = Cardinality(I) /\ Held(q, o) = Cardinality(J)
  BY <1>1 DEF Held
<1>4. CASE e.face = o
  <2>1. J = I \cup {n + 1} /\ n + 1 \notin I
    BY <1>1, <1>2, <1>4
  <2>2. Cardinality(J) = Cardinality(I) + 1
    BY <1>3, <2>1, FS_AddElement
  <2> QED
    BY <1>8, <1>4, <2>2 DEF One, q
<1>5. CASE e.face # o
  <2>1. J = I
    BY <1>1, <1>2, <1>5
  <2>2. Cardinality(J) = Cardinality(I)
    BY <2>1, Zenon
  <2> QED
    <3>1. Held(q, o) = Held(s, o) /\ Held(s, o) \in Nat
      BY <1>3, <1>8, <2>2
    <3> QED
      BY <1>5, <3>1 DEF One, q
<1> QED
  BY <1>4, <1>5

\* One that loses its oldest holds that one's face once less.
LEMMA HeldTail ==
  ASSUME NEW X, NEW s \in Seq(X), Len(s) > 0, NEW o
  PROVE  Held(s, o) = Held(Tail(s), o) + One(Head(s).face = o)
<1> DEFINE q == Tail(s)
           n == Len(s)
           I == {i \in 1 .. n : s[i].face = o}
           K == {i \in 2 .. n : s[i].face = o}
           J == {i \in 1 .. n - 1 : q[i].face = o}
           f == [i \in K |-> i - 1]
<1>1. n \in Nat \ {0} /\ DOMAIN s = 1 .. n /\ DOMAIN q = 1 .. n - 1
  OBVIOUS
<1>2. Head(s) = s[1] /\ \A i \in 1 .. n - 1 : q[i] = s[i + 1]
  OBVIOUS
<1> HIDE DEF q
<1>3. IsFiniteSet(K) /\ Cardinality(K) \in Nat
  <2>1. IsFiniteSet(1 .. n)
    BY <1>1, FS_Interval
  <2>2. K \subseteq 1 .. n
    BY <1>1
  <2>3. IsFiniteSet(K)
    BY <2>1, <2>2, FS_Subset
  <2> QED
    BY <2>3, FS_CardinalityType
<1>4. Cardinality(J) = Cardinality(K)
  <2>1. f \in [K -> J]
    BY <1>1, <1>2
  <2>2. \A i, j \in K : f[i] = f[j] => i = j
    BY <1>1
  <2>3. \A j \in J : \E i \in K : f[i] = j
    <3> SUFFICES ASSUME NEW j \in J PROVE j + 1 \in K /\ f[j + 1] = j
      OBVIOUS
    <3>1. j + 1 \in K
      BY <1>1, <1>2
    <3> QED
      BY <3>1
  <2> HIDE DEF f
  <2>4. f \in Bijection(K, J)
    BY <2>1, <2>2, <2>3 DEF Bijection, Injection, Surjection, IsInjective
  <2> QED
    BY <1>3, <2>4, FS_Bijection DEF ExistsBijection
<1>5. Held(s, o) = Cardinality(I) /\ Held(q, o) = Cardinality(J)
  BY <1>1 DEF Held
<1>6. CASE s[1].face = o
  <2>1. I = K \cup {1} /\ 1 \notin K
    BY <1>1, <1>6
  <2>2. Cardinality(I) = Cardinality(K) + 1
    BY <1>3, <2>1, FS_AddElement
  <2> QED
    BY <1>2, <1>3, <1>4, <1>5, <1>6, <2>2 DEF One, q
<1>7. CASE s[1].face # o
  <2>1. I = K
    BY <1>1, <1>7
  <2>2. Cardinality(I) = Cardinality(K)
    BY <2>1, Zenon
  <2> QED
    <3>1. Held(q, o) = Held(s, o) /\ Held(s, o) \in Nat
      BY <1>3, <1>4, <1>5, <2>2
    <3> QED
      BY <1>2, <1>7, <3>1 DEF One, q
<1> QED
  BY <1>6, <1>7

-----------------------------------------------------------------------------
(* Readers *)

LEMMA ReadersType ==
  ASSUME NEW o
  PROVE  /\ Readers(o) \in Nat
         /\ (\E t \in Threads : Busy(t) /\ raster[t].face = o) <=> Readers(o) > 0
<1> DEFINE S == {t \in Threads : Busy(t) /\ raster[t].face = o}
<1>1. IsFiniteSet(S)
  BY SetsAssumption, FS_Subset
<1>2. Cardinality(S) \in Nat /\ (Cardinality(S) = 0 <=> S = {})
  BY <1>1, FS_CardinalityType, FS_EmptySet
<1> QED
  BY <1>2 DEF Readers

\* Two thread counts that differ by the thread that begins or ends.
LEMMA OneMore ==
  ASSUME NEW S \in SUBSET Threads, NEW t \in Threads \ S
  PROVE  /\ Cardinality(S) \in Nat
         /\ Cardinality(S \cup {t}) = Cardinality(S) + 1
<1>1. IsFiniteSet(S)
  BY SetsAssumption, FS_Subset
<1> QED
  BY <1>1, FS_AddElement, FS_CardinalityType

LEMMA Begins ==
  ASSUME TypeOK, NEW t \in Threads, raster[t] = Idle, NEW r \in Reading,
         raster' = [raster EXCEPT ![t] = r]
  PROVE  \A o : Readers(o)' = Readers(o) + One(r.face = o)
<1> TAKE o
<1> DEFINE S == {u \in Threads : Busy(u) /\ raster[u].face = o}
           T == {u \in Threads : raster'[u] # Idle /\ raster'[u].face = o}
<1>1. raster'[t] = r /\ r # Idle /\ \A u \in Threads \ {t} : raster'[u] = raster[u]
  BY DEF TypeOK, Reading, Idle
<1>2. Readers(o) = Cardinality(S) /\ Readers(o)' = Cardinality(T)
  BY DEF Readers, Busy
<1>3. t \notin S /\ S \subseteq Threads
  BY DEF Busy
<1>4. CASE r.face = o
  <2>1. T = S \cup {t}
    BY <1>1, <1>4 DEF Busy
  <2>2. Cardinality(T) = Cardinality(S) + 1
    BY <1>3, <2>1, OneMore
  <2> QED
    BY <1>2, <1>4, <2>2 DEF One
<1>5. CASE r.face # o
  <2>1. T = S
    BY <1>1, <1>3, <1>5 DEF Busy
  <2>2. Cardinality(T) = Cardinality(S) /\ Cardinality(S) \in Nat
    BY <1>2, <2>1, ReadersType
  <2> QED
    BY <1>2, <1>5, <2>2 DEF One
<1> QED
  BY <1>4, <1>5

LEMMA Ends ==
  ASSUME TypeOK, NEW t \in Threads, Busy(t), raster' = [raster EXCEPT ![t] = Idle]
  PROVE  \A o : Readers(o) = Readers(o)' + One(raster[t].face = o)
<1> TAKE o
<1> DEFINE S == {u \in Threads : Busy(u) /\ raster[u].face = o}
           T == {u \in Threads : raster'[u] # Idle /\ raster'[u].face = o}
<1>1. raster'[t] = Idle /\ \A u \in Threads \ {t} : raster'[u] = raster[u]
  BY DEF TypeOK
<1>2. Readers(o) = Cardinality(S) /\ Readers(o)' = Cardinality(T)
  BY DEF Readers, Busy
<1>3. t \notin T /\ T \subseteq Threads
  BY <1>1
<1>4. CASE raster[t].face = o
  <2>1. S = T \cup {t}
    BY <1>1, <1>4 DEF Busy
  <2>2. Cardinality(S) = Cardinality(T) + 1
    BY <1>3, <2>1, OneMore
  <2> QED
    BY <1>2, <1>4, <2>2 DEF One
<1>5. CASE raster[t].face # o
  <2>1. T = S
    BY <1>1, <1>3, <1>5 DEF Busy
  <2>2. Cardinality(T) = Cardinality(S) /\ Cardinality(S) \in Nat
    BY <1>2, <2>1, ReadersType
  <2> QED
    BY <1>2, <1>5, <2>2 DEF One
<1> QED
  BY <1>4, <1>5

-----------------------------------------------------------------------------
(* GetDWriteFaceLocked *)

\* The references that somebody other than the cache has.
Beyond(count, rest) == \A o \in Objects : count[o] = Held(dwrite_faces, o) + rest[o]

KeysAnswered(faces, made) ==
    \A i \in DOMAIN faces :
        /\ faces[i].face # None => made[faces[i].face] = faces[i].key
        /\ \A j \in DOMAIN faces : faces[i].key = faces[j].key => i = j

\* A lookup moves the counts with the cache, and the face it yields is made for its key, by nobody
\* who relies on another.
LEMMA Lookup ==
  ASSUME TypeOK, KeysAnswered(dwrite_faces, made_for),
         NEW count \in [Objects -> Nat], NEW rest \in [Objects -> Nat], Beyond(count, rest),
         NEW key \in Key, NEW o \in Objects \cup {None},
         Yields(dwrite_faces, count, key, o), Makes(dwrite_faces, key, o),
         dwrite_faces' = Looked(dwrite_faces, key, o)
  PROVE  /\ dwrite_faces' \in Seq(CachedDWriteFace) /\ Len(dwrite_faces') <= FacesCap
         /\ made_for' \in [Objects -> Key \cup {None}]
         /\ Counted(dwrite_faces, count, key, o) \in [Objects -> Nat]
         /\ \A p \in Objects : Counted(dwrite_faces, count, key, o)[p]
                                  = Held(dwrite_faces', p) + rest[p]
         /\ \A p \in Objects : rest[p] > 0 => made_for'[p] = made_for[p]
         /\ KeysAnswered(dwrite_faces', made_for')
         /\ o # None => made_for'[o] = key
<1> DEFINE D == dwrite_faces
           full == Len(D) >= FacesCap
           older == IF full THEN Tail(D) ELSE D
           new == [key |-> key, face |-> o]
           before == IF full THEN Release(count, Head(D).face) ELSE count
<1>1. /\ D \in Seq(CachedDWriteFace) /\ Len(D) \in Nat /\ DOMAIN D = 1 .. Len(D)
      /\ Len(D) <= FacesCap /\ FacesCap \in Nat \ {0} /\ None \notin Objects
      /\ made_for \in [Objects -> Key \cup {None}]
  BY BoundsAssumption, NoneAssumption DEF TypeOK
<1>2. \A i \in DOMAIN D : D[i].key \in Key /\ D[i].face \in Objects \cup {None}
  <2>1. \A i \in DOMAIN D : D[i] \in CachedDWriteFace
    BY <1>1
  <2> QED
    BY <2>1 DEF CachedDWriteFace
<1>3. CASE Has(D, key)
  <2>1. dwrite_faces' = D /\ made_for' = made_for /\ Counted(D, count, key, o) = count
    BY <1>3 DEF Looked, Makes, Counted
  <2>2. PICK i \in DOMAIN D : D[i].key = key /\ o = D[i].face
    BY <1>3 DEF Yields
  <2>3. o # None => made_for[o] = key
    BY <2>2 DEF KeysAnswered
  <2> QED
    BY <1>1, <2>1, <2>3 DEF Beyond
<1>4. CASE ~Has(D, key)
  <2>1. /\ dwrite_faces' = Append(older, new)
        /\ made_for' = IF o = None THEN made_for ELSE [made_for EXCEPT ![o] = key]
        /\ Counted(D, count, key, o) = AddRef(before, o)
        /\ o # None => count[o] = 0
    BY <1>4 DEF Looked, Makes, Counted, Yields
  <2>2. /\ older \in Seq(CachedDWriteFace) /\ Len(older) \in Nat /\ Len(older) < FacesCap
        /\ DOMAIN older = 1 .. Len(older)
        /\ \A i \in DOMAIN older : older[i] = D[IF full THEN i + 1 ELSE i]
        /\ \A i \in DOMAIN older : (IF full THEN i + 1 ELSE i) \in DOMAIN D
    BY <1>1
  <2>3. new \in CachedDWriteFace /\ new.key = key /\ new.face = o
    BY DEF CachedDWriteFace
  <2>4. /\ before \in [Objects -> Nat]
        /\ \A p \in Objects : before[p] = Held(older, p) + rest[p]
    <3>1. CASE ~full
      BY <3>1 DEF Beyond
    <3>2. CASE full
      <4>1. Len(D) > 0 /\ 1 \in DOMAIN D /\ Head(D) = D[1]
        BY <1>1, <3>2
      <4>2. \A p \in Objects : Held(D, p) = Held(Tail(D), p) + One(Head(D).face = p)
        BY <1>1, <4>1, HeldTail
      <4>3. \A p \in Objects : Held(Tail(D), p) \in Nat
        BY <2>2, <3>2, HeldType
      <4>4. Head(D).face \in Objects \cup {None}
        BY <1>2, <4>1
      <4>5. before = Release(count, Head(D).face) /\ older = Tail(D)
        BY <3>2
      <4> HIDE DEF before, older
      <4>6. before = [p \in Objects |-> before[p]]
        BY <1>1, <4>4, <4>5 DEF Release
      <4>7. \A p \in Objects : before[p] \in Nat /\ before[p] = Held(older, p) + rest[p]
        <5> TAKE p \in Objects
        <5>1. before[p] = count[p] - One(Head(D).face = p)
          BY <1>1, <4>4, <4>5 DEF Release, One
        <5>2. /\ count[p] = Held(older, p) + One(Head(D).face = p) + rest[p]
              /\ Held(older, p) \in Nat /\ rest[p] \in Nat /\ One(Head(D).face = p) \in Nat
          BY <4>2, <4>3, <4>5 DEF Beyond, One
        <5> QED
          BY <5>1, <5>2
      <4> QED
        BY <4>6, <4>7
    <3> QED
      BY <3>1, <3>2
  <2>5. \A p \in Objects : Held(dwrite_faces', p) = Held(older, p) + One(o = p)
    <3> HIDE DEF older, new
    <3>1. \A p \in Objects : Held(Append(older, new), p) = Held(older, p) + One(new.face = p)
      BY <2>2, <2>3, HeldAppend
    <3> QED
      BY <2>1, <2>3, <3>1
  <2>6. /\ Counted(D, count, key, o) \in [Objects -> Nat]
        /\ \A p \in Objects : Counted(D, count, key, o)[p] = Held(dwrite_faces', p) + rest[p]
    <3>1. \A p \in Objects : Held(older, p) \in Nat
      BY <2>2, HeldType
    <3> HIDE DEF older, before
    <3> QED
      BY <1>1, <2>1, <2>4, <2>5, <3>1 DEF AddRef, One
  <2>7. /\ dwrite_faces' \in Seq(CachedDWriteFace) /\ Len(dwrite_faces') <= FacesCap
        /\ DOMAIN dwrite_faces' = 1 .. Len(older) + 1
        /\ dwrite_faces'[Len(older) + 1] = new
        /\ \A i \in 1 .. Len(older) : dwrite_faces'[i] = older[i]
    <3> HIDE DEF older, new
    <3> QED
      BY <1>1, <2>1, <2>2, <2>3
  <2>8. made_for' \in [Objects -> Key \cup {None}] /\ (o # None => made_for'[o] = key)
    BY <1>1, <2>1
  <2>9. \A p \in Objects : p # o => made_for'[p] = made_for[p]
    BY <1>1, <2>1
  <2>10. \A p \in Objects : rest[p] > 0 \/ Held(D, p) > 0 => p # o
    <3>1. \A p \in Objects : Held(D, p) \in Nat
      BY <1>1, HeldType
    <3> QED
      BY <1>1, <2>1, <3>1 DEF Beyond
  <2>11. \A i \in DOMAIN D : D[i].face # None => D[i].face # o /\ made_for'[D[i].face] = D[i].key
    <3>1. \A i \in DOMAIN D : D[i].face # None => Held(D, D[i].face) > 0
      BY <1>1, HeldType
    <3> QED
      BY <1>2, <2>9, <2>10, <3>1 DEF KeysAnswered
  <2>12. \A i \in DOMAIN older :
            /\ older[i].face # None => made_for'[older[i].face] = older[i].key
            /\ older[i].key # key
            /\ \A j \in DOMAIN older : older[i].key = older[j].key => i = j
    BY <1>1, <1>4, <2>2, <2>11 DEF Has, KeysAnswered
  <2>13. KeysAnswered(dwrite_faces', made_for')
    <3> SUFFICES ASSUME NEW i \in 1 .. Len(older) + 1
                 PROVE  /\ dwrite_faces'[i].face # None =>
                               made_for'[dwrite_faces'[i].face] = dwrite_faces'[i].key
                        /\ \A j \in 1 .. Len(older) + 1 :
                               dwrite_faces'[i].key = dwrite_faces'[j].key => i = j
      BY <2>7 DEF KeysAnswered
    <3> HIDE DEF older, new
    <3>1. \A j \in 1 .. Len(older) + 1 : j = Len(older) + 1 \/ j \in 1 .. Len(older)
      BY <2>2
    <3>2. \A j \in 1 .. Len(older) :
             /\ dwrite_faces'[j].key # key
             /\ dwrite_faces'[j].face # None =>
                    made_for'[dwrite_faces'[j].face] = dwrite_faces'[j].key
             /\ \A k \in 1 .. Len(older) : dwrite_faces'[j].key = dwrite_faces'[k].key => j = k
      BY <2>2, <2>7, <2>12
    <3>3. /\ dwrite_faces'[Len(older) + 1].key = key
          /\ dwrite_faces'[Len(older) + 1].face = o
      BY <2>3, <2>7
    <3>4. CASE i = Len(older) + 1
      BY <2>8, <3>1, <3>2, <3>3, <3>4
    <3>5. CASE i \in 1 .. Len(older)
      BY <3>1, <3>2, <3>3, <3>5
    <3> QED
      BY <3>1, <3>4, <3>5
  <2> QED
    BY <2>6, <2>7, <2>8, <2>9, <2>10, <2>13
<1> QED
  BY <1>3, <1>4

-----------------------------------------------------------------------------
(* The steps *)

InstancesAnswered(list, made) ==
    \A i \in DOMAIN list : list[i].face # None => made[list[i].face] = Plain(list[i].axes)

Textures == {t \in Threads : raster[t].doing = "texture"}

\* What the two caches and the readers have is a number.
LEMMA Numbers ==
  ASSUME TypeOK
  PROVE  \A o : /\ Held(dwrite_faces, o) \in Nat
                /\ Held(instances, o) \in Nat
                /\ Readers(o) \in Nat
  BY HeldType, ReadersType DEF TypeOK

LEMMA TexturesNumber == Cardinality(Textures) \in Nat
<1>1. IsFiniteSet(Textures)
  BY SetsAssumption, FS_Subset DEF Textures
<1> QED
  BY <1>1, FS_CardinalityType

\* Whoever reads, or is in an instance, relies on a key that a lookup does not replace.
LEMMA RelyingKeepTheirKeys ==
  ASSUME TypeOK, ReadersKnowTheirKey,
         NEW list \in Seq(WinInstance), InstancesAnswered(list, made_for),
         \A p \in Objects : Held(list, p) + Readers(p) > 0 => made_for'[p] = made_for[p]
  PROVE  /\ InstancesAnswered(list, made_for')
         /\ \A t \in Threads : Busy(t) => made_for'[raster[t].face] = raster[t].key
<1>1. \A p : Held(list, p) \in Nat /\ Readers(p) \in Nat
  BY HeldType, ReadersType
<1>2. InstancesAnswered(list, made_for')
  <2> SUFFICES ASSUME NEW i \in DOMAIN list, list[i].face # None
               PROVE  made_for'[list[i].face] = Plain(list[i].axes)
    BY DEF InstancesAnswered
  <2>1. list[i] \in WinInstance
    OBVIOUS
  <2>2. list[i].face \in Objects
    BY <2>1 DEF WinInstance
  <2>3. Held(list, list[i].face) > 0
    BY HeldType
  <2> QED
    BY <1>1, <2>2, <2>3 DEF InstancesAnswered
<1>3. ASSUME NEW t \in Threads, Busy(t)
      PROVE  made_for'[raster[t].face] = raster[t].key
  <2>1. raster[t].face \in Objects
    BY <1>3 DEF TypeOK, Busy, Reading
  <2>2. Readers(raster[t].face) > 0
    BY <1>3, ReadersType
  <2> QED
    BY <1>1, <1>3, <2>1, <2>2 DEF ReadersKnowTheirKey
<1> QED
  BY <1>2, <1>3

\* A thread begins to read: it is counted, and nothing else about the readers changes.
LEMMA Reads ==
  ASSUME TypeOK, AnalysesCounted, NEW t \in Threads, raster[t] = Idle, NEW r \in Reading,
         raster' = [raster EXCEPT ![t] = r],
         analyses' = IF r.doing = "texture" THEN analyses + 1 ELSE analyses
  PROVE  /\ raster' \in [Threads -> Reading \cup {Idle}]
         /\ analyses' \in Nat /\ AnalysesCounted'
<1>1. raster' \in [Threads -> Reading \cup {Idle}] /\ analyses' \in Nat
  BY DEF TypeOK
<1>2. raster'[t] = r /\ \A u \in Threads \ {t} : raster'[u] = raster[u]
  BY DEF TypeOK
<1>3. t \notin Textures /\ Textures \subseteq Threads
  BY DEF Textures, Idle
<1>4. CASE r.doing = "texture"
  <2>1. Textures' = Textures \cup {t}
    BY <1>2, <1>4 DEF Textures
  <2>2. Cardinality(Textures') = Cardinality(Textures) + 1 /\ Cardinality(Textures) \in Nat
    BY <1>3, <2>1, OneMore
  <2> QED
    BY <1>1, <1>4, <2>2 DEF AnalysesCounted, Textures, TypeOK
<1>5. CASE r.doing # "texture"
  <2>1. Textures' = Textures
    BY <1>2, <1>3, <1>5 DEF Textures
  <2> QED
    BY <1>1, <1>5, <2>1 DEF AnalysesCounted, Textures, TypeOK
<1> QED
  BY <1>4, <1>5

\* Anything else that adds up keeps the invariant when no thread begins or ends.
LEMMA NobodyReads ==
  ASSUME IInv, UNCHANGED <<raster, analyses>>
  PROVE  /\ raster' \in [Threads -> Reading \cup {Idle}] /\ analyses' \in Nat
         /\ AnalysesCounted' /\ \A o : Readers(o)' = Readers(o)
  BY DEF IInv, TypeOK, AnalysesCounted, Readers, Busy

\* The invariant, with the counts in one line.
LEMMA Unpacked ==
  ASSUME IInv
  PROVE  /\ TypeOK /\ refs \in [Objects -> Nat]
         /\ instances \in Seq(WinInstance) /\ Len(instances) <= InstancesCap
         /\ KeysAnswered(dwrite_faces, made_for) /\ InstancesAnswered(instances, made_for)
         /\ ReadersKnowTheirKey
         /\ \A p \in Objects : refs[p] = Held(dwrite_faces, p) + Held(instances, p) + Readers(p)
  BY DEF IInv, TypeOK, AnswersTheKey, KeysAnswered, InstancesAnswered, EveryReferenceIsHeld,
         Readers

\* A lookup alone, of which the caller keeps nothing.
LEMMA LookupKeeps ==
  ASSUME IInv, NEW key \in Key, NEW o \in Objects \cup {None},
         Yields(dwrite_faces, refs, key, o), Makes(dwrite_faces, key, o),
         dwrite_faces' = Looked(dwrite_faces, key, o),
         refs' = Counted(dwrite_faces, refs, key, o),
         UNCHANGED <<known, instances, raster, analyses>>
  PROVE  IInv'
<1> DEFINE rest == [p \in Objects |-> Held(instances, p) + Readers(p)]
           count == Counted(dwrite_faces, refs, key, o)
<1>2. refs' = count /\ UNCHANGED <<known, instances, raster, analyses>>
  OBVIOUS
<1>3. /\ TypeOK /\ refs \in [Objects -> Nat]
      /\ KeysAnswered(dwrite_faces, made_for)
      /\ InstancesAnswered(instances, made_for) /\ ReadersKnowTheirKey
      /\ instances \in Seq(WinInstance) /\ Len(instances) <= InstancesCap
      /\ \A p \in Objects : refs[p] = Held(dwrite_faces, p) + Held(instances, p) + Readers(p)
  BY Unpacked
<1>4. /\ \A p : Held(instances, p) \in Nat /\ Readers(p) \in Nat /\ Held(dwrite_faces, p) \in Nat
      /\ \A p \in Objects : rest[p] = Held(instances, p) + Readers(p)
  BY <1>3, Numbers
<1>5. /\ rest \in [Objects -> Nat] /\ Beyond(refs, rest)
      /\ \A p \in Objects : Held(instances, p) + Readers(p) > 0 => rest[p] > 0
  BY <1>3, <1>4 DEF Beyond
<1> HIDE DEF rest, count
<1>14. /\ dwrite_faces' \in Seq(CachedDWriteFace) /\ Len(dwrite_faces') <= FacesCap
       /\ made_for' \in [Objects -> Key \cup {None}]
       /\ Counted(dwrite_faces, refs, key, o) \in [Objects -> Nat]
       /\ \A p \in Objects : Counted(dwrite_faces, refs, key, o)[p] = Held(dwrite_faces', p) + rest[p]
       /\ \A p \in Objects : rest[p] > 0 => made_for'[p] = made_for[p]
       /\ KeysAnswered(dwrite_faces', made_for')
  BY <1>3, <1>5, Lookup, SMTT(60)
<1>6. /\ dwrite_faces' \in Seq(CachedDWriteFace) /\ Len(dwrite_faces') <= FacesCap
      /\ made_for' \in [Objects -> Key \cup {None}]
      /\ count \in [Objects -> Nat]
      /\ \A p \in Objects : count[p] = Held(dwrite_faces', p) + rest[p]
      /\ \A p \in Objects : rest[p] > 0 => made_for'[p] = made_for[p]
      /\ KeysAnswered(dwrite_faces', made_for')
  BY <1>14 DEF count
<1>7. /\ InstancesAnswered(instances, made_for')
      /\ \A u \in Threads : Busy(u) => made_for'[raster[u].face] = raster[u].key
  BY <1>3, <1>5, <1>6, RelyingKeepTheirKeys
<1>8. /\ raster' \in [Threads -> Reading \cup {Idle}] /\ analyses' \in Nat
      /\ AnalysesCounted' /\ \A p : Readers(p)' = Readers(p)
  BY <1>2, NobodyReads
<1>9. TypeOK'
  BY <1>2, <1>3, <1>6, <1>8 DEF TypeOK
<1>10. EveryReferenceIsHeld'
  <2> SUFFICES ASSUME NEW p \in Objects
               PROVE  refs'[p] = Held(dwrite_faces', p) + Held(instances', p) + Readers(p)'
    BY DEF EveryReferenceIsHeld, Readers
  <2>1. /\ Held(dwrite_faces', p) \in Nat /\ Held(instances, p) \in Nat
        /\ Readers(p) \in Nat /\ instances' = instances /\ Readers(p)' = Readers(p)
    BY <1>2, <1>4, <1>6, <1>8, HeldType
  <2>2. refs'[p] = Held(dwrite_faces', p) + (Held(instances, p) + Readers(p))
    BY <1>2, <1>4, <1>6
  <2> QED
    BY <2>1, <2>2
<1>11. AnswersTheKey'
  BY <1>2, <1>6, <1>7 DEF AnswersTheKey, KeysAnswered, InstancesAnswered
<1>12. ReadersKnowTheirKey'
  BY <1>2, <1>7 DEF ReadersKnowTheirKey, Busy
<1> QED
  BY <1>8, <1>9, <1>10, <1>11, <1>12 DEF IInv

LEMMA RasterizeKeeps ==
  ASSUME IInv, NEW t \in Threads, NEW key \in Key, NEW o \in Objects \cup {None},
         Rasterize(t, key, o)
  PROVE  IInv'
<1> DEFINE rest == [p \in Objects |-> Held(instances, p) + Readers(p)]
           count == Counted(dwrite_faces, refs, key, o)
<1>1. /\ known /\ raster[t] = Idle /\ UNCHANGED <<known, instances>>
      /\ Yields(dwrite_faces, refs, key, o) /\ Makes(dwrite_faces, key, o)
      /\ dwrite_faces' = Looked(dwrite_faces, key, o)
  BY DEF Rasterize
<1>0. /\ TypeOK /\ refs \in [Objects -> Nat]
      /\ KeysAnswered(dwrite_faces, made_for)
      /\ InstancesAnswered(instances, made_for) /\ ReadersKnowTheirKey
      /\ instances \in Seq(WinInstance) /\ Len(instances) <= InstancesCap
      /\ \A p \in Objects : refs[p] = Held(dwrite_faces, p) + Held(instances, p) + Readers(p)
  BY Unpacked
<1>8. /\ \A p : Held(instances, p) \in Nat /\ Readers(p) \in Nat /\ Held(dwrite_faces, p) \in Nat
      /\ \A p \in Objects : rest[p] = Held(instances, p) + Readers(p)
  BY <1>0, Numbers
<1>2. /\ rest \in [Objects -> Nat] /\ Beyond(refs, rest)
      /\ \A p \in Objects : Held(instances, p) + Readers(p) > 0 => rest[p] > 0
  BY <1>0, <1>8 DEF Beyond
<1> HIDE DEF rest, count
<1>10. /\ dwrite_faces' \in Seq(CachedDWriteFace) /\ Len(dwrite_faces') <= FacesCap
       /\ made_for' \in [Objects -> Key \cup {None}]
       /\ Counted(dwrite_faces, refs, key, o) \in [Objects -> Nat]
       /\ \A p \in Objects : Counted(dwrite_faces, refs, key, o)[p] = Held(dwrite_faces', p) + rest[p]
       /\ \A p \in Objects : rest[p] > 0 => made_for'[p] = made_for[p]
       /\ KeysAnswered(dwrite_faces', made_for')
       /\ o # None => made_for'[o] = key
  BY <1>0, <1>1, <1>2, Lookup, SMTT(60)
<1>3. /\ dwrite_faces' \in Seq(CachedDWriteFace) /\ Len(dwrite_faces') <= FacesCap
      /\ made_for' \in [Objects -> Key \cup {None}]
      /\ count \in [Objects -> Nat]
      /\ \A p \in Objects : count[p] = Held(dwrite_faces', p) + rest[p]
      /\ \A p \in Objects : rest[p] > 0 => made_for'[p] = made_for[p]
      /\ KeysAnswered(dwrite_faces', made_for')
      /\ o # None => made_for'[o] = key
  BY <1>10 DEF count
<1>4. /\ InstancesAnswered(instances, made_for')
      /\ \A u \in Threads : Busy(u) => made_for'[raster[u].face] = raster[u].key
  BY <1>0, <1>2, <1>3, RelyingKeepTheirKeys
<1>5. AnswersTheKey'
  BY <1>1, <1>3, <1>4 DEF AnswersTheKey, KeysAnswered, InstancesAnswered
<1>9. \A p \in Objects : Held(dwrite_faces', p) \in Nat
  BY <1>3, HeldType
<1>6. CASE refs' = count /\ UNCHANGED <<raster, analyses>>
  <2>1. refs' = Counted(dwrite_faces, refs, key, o)
    BY <1>6 DEF count
  <2> QED
    BY <1>1, <1>6, <2>1, LookupKeeps
<1>7. CASE /\ o # None /\ analyses' = analyses + 1
           /\ refs' = Hold(count, o)
           /\ raster' = [raster EXCEPT ![t] = [doing |-> "texture", face |-> o, key |-> key]]
  <2> DEFINE r == [doing |-> "texture", face |-> o, key |-> key]
  <2>1. r \in Reading /\ r.face = o /\ r.doing = "texture" /\ r.key = key
    BY <1>7 DEF Reading
  <2>2. raster' = [raster EXCEPT ![t] = r]
    BY <1>7
  <2> HIDE DEF r
  <2>3. /\ raster' \in [Threads -> Reading \cup {Idle}] /\ analyses' \in Nat /\ AnalysesCounted'
    BY <1>1, <1>7, <2>1, <2>2, Reads DEF IInv
  <2>4. \A p : Readers(p)' = Readers(p) + One(p = o)
    BY <1>0, <1>1, <2>1, <2>2, Begins DEF One
  <2>5. refs' \in [Objects -> Nat] /\ \A p \in Objects : refs'[p] = count[p] + One(p = o)
    BY <1>3, <1>7 DEF Hold, AddRef, One
  <2>6. TypeOK'
    BY <1>0, <1>1, <1>3, <2>3, <2>5 DEF TypeOK
  <2>7. EveryReferenceIsHeld'
    <3> SUFFICES ASSUME NEW p \in Objects
                 PROVE  refs'[p] = Held(dwrite_faces', p) + Held(instances', p) + Readers(p)'
      BY DEF EveryReferenceIsHeld, Readers
    <3>1. /\ Held(dwrite_faces', p) \in Nat /\ Held(instances, p) \in Nat
          /\ Readers(p) \in Nat /\ One(p = o) \in Nat /\ instances' = instances
      BY <1>1, <1>8, <1>9 DEF One
    <3>2. /\ refs'[p] = count[p] + One(p = o) /\ Readers(p)' = Readers(p) + One(p = o)
          /\ count[p] = Held(dwrite_faces', p) + (Held(instances, p) + Readers(p))
      BY <1>3, <1>8, <2>4, <2>5
    <3> QED
      BY <3>1, <3>2
  <2>8. ReadersKnowTheirKey'
    BY <1>0, <1>1, <1>3, <1>4, <1>7, <2>1, <2>2 DEF ReadersKnowTheirKey, Busy, TypeOK
  <2> QED
    BY <1>5, <2>3, <2>6, <2>7, <2>8 DEF IInv
<1> QED
  BY <1>6, <1>7 DEF Rasterize, count

\* A thread stops reading and lets its face go.
LEMMA LetsGoKeeps ==
  ASSUME IInv, NEW t \in Threads, Busy(t),
         refs' = Release(refs, raster[t].face),
         raster' = [raster EXCEPT ![t] = Idle],
         UNCHANGED <<known, dwrite_faces, instances, made_for>>,
         analyses' \in Nat, AnalysesCounted'
  PROVE  IInv'
<1>1. /\ TypeOK /\ refs \in [Objects -> Nat]
      /\ KeysAnswered(dwrite_faces, made_for)
      /\ InstancesAnswered(instances, made_for) /\ ReadersKnowTheirKey
      /\ \A p \in Objects : refs[p] = Held(dwrite_faces, p) + Held(instances, p) + Readers(p)
  BY Unpacked
<1>2. /\ raster' \in [Threads -> Reading \cup {Idle}]
      /\ raster'[t] = Idle /\ \A u \in Threads \ {t} : raster'[u] = raster[u]
      /\ raster[t].face \in Objects /\ None \notin Objects
  BY <1>1, NoneAssumption DEF TypeOK, Busy, Reading
<1>3. \A p \in Objects : refs'[p] = refs[p] - One(raster[t].face = p)
  BY <1>1, <1>2 DEF Release, One
<1>4. \A p : Readers(p) = Readers(p)' + One(raster[t].face = p)
  BY <1>1, Ends
<1>5. \A p : Readers(p)' \in Nat
  <2> TAKE p
  <2>1. {u \in Threads : raster'[u] # Idle /\ raster'[u].face = p} \in SUBSET Threads
    OBVIOUS
  <2>2. IsFiniteSet({u \in Threads : raster'[u] # Idle /\ raster'[u].face = p})
    BY <2>1, SetsAssumption, FS_Subset
  <2> QED
    BY <2>2, FS_CardinalityType DEF Readers, Busy
<1>6. \A p \in Objects :
         refs'[p] \in Nat /\ refs'[p] = Held(dwrite_faces', p) + Held(instances', p) + Readers(p)'
  <2> SUFFICES ASSUME NEW p \in Objects
               PROVE  /\ refs'[p] \in Nat
                      /\ refs'[p] = Held(dwrite_faces', p) + Held(instances', p) + Readers(p)'
    OBVIOUS
  <2>1. Held(dwrite_faces, p) \in Nat /\ Held(instances, p) \in Nat /\ Readers(p)' \in Nat
    BY <1>1, <1>5, Numbers
  <2>2. /\ refs[p] = Held(dwrite_faces, p) + Held(instances, p) + Readers(p)
        /\ Readers(p) = Readers(p)' + One(raster[t].face = p)
        /\ refs'[p] = refs[p] - One(raster[t].face = p)
        /\ One(raster[t].face = p) \in Nat
        /\ dwrite_faces' = dwrite_faces /\ instances' = instances
    BY <1>1, <1>3, <1>4 DEF One
  <2> QED
    BY <2>1, <2>2
<1>7. TypeOK'
  <2>1. refs' \in [Objects -> Nat]
    <3>1. refs' = [p \in Objects |-> refs'[p]]
      BY <1>1, <1>2 DEF Release
    <3> QED
      BY <1>6, <3>1
  <2> QED
    BY <1>1, <1>2, <2>1 DEF TypeOK
<1>8. EveryReferenceIsHeld'
  BY <1>6 DEF EveryReferenceIsHeld, Readers
<1>9. ReadersKnowTheirKey' /\ AnswersTheKey'
  BY <1>1, <1>2 DEF ReadersKnowTheirKey, AnswersTheKey, KeysAnswered, InstancesAnswered, Busy
<1> QED
  BY <1>7, <1>8, <1>9 DEF IInv

LEMMA FinishTextureKeeps ==
  ASSUME IInv, NEW t \in Threads, FinishTexture(t) \/ TextureNoMemory(t)
  PROVE  IInv'
<1>1. /\ raster[t].doing = "texture" /\ raster' = [raster EXCEPT ![t] = Idle]
      /\ refs' = Release(refs, raster[t].face) /\ (analyses' = analyses - 1 \/ analyses' = analyses)
      /\ UNCHANGED <<known, dwrite_faces, instances, made_for>>
  BY DEF FinishTexture, TextureNoMemory
<1>2. Busy(t)
  BY <1>1 DEF Busy, Idle
<1>3. /\ raster'[t] = Idle /\ \A u \in Threads \ {t} : raster'[u] = raster[u]
  BY <1>1 DEF IInv, TypeOK
<1>4. Textures' = Textures \ {t} /\ t \in Textures
  BY <1>1, <1>3 DEF Textures, Idle
<1>5. Cardinality(Textures) = Cardinality(Textures') + 1 /\ Cardinality(Textures') \in Nat
  <2>1. Textures' \in SUBSET Threads /\ t \notin Textures' /\ Textures = Textures' \cup {t}
    BY <1>4 DEF Textures
  <2> QED
    BY <2>1, OneMore
<1>6. analyses \in Nat /\ analyses >= Cardinality(Textures)
  BY DEF IInv, TypeOK, AnalysesCounted, Textures
<1>7. analyses' \in Nat /\ analyses' >= Cardinality(Textures')
  BY <1>1, <1>5, <1>6
<1>8. AnalysesCounted'
  BY <1>7 DEF AnalysesCounted, Textures
<1> QED
  BY <1>1, <1>2, <1>7, <1>8, LetsGoKeeps

LEMMA FinishOutlineKeeps ==
  ASSUME IInv, NEW t \in Threads, FinishOutline(t)
  PROVE  IInv'
<1>1. /\ raster[t].doing = "outline" /\ raster' = [raster EXCEPT ![t] = Idle]
      /\ refs' = Release(refs, raster[t].face)
      /\ UNCHANGED <<known, dwrite_faces, instances, made_for, analyses>>
  BY DEF FinishOutline
<1>2. Busy(t)
  BY <1>1 DEF Busy, Idle
<1>3. /\ raster'[t] = Idle /\ \A u \in Threads \ {t} : raster'[u] = raster[u]
  BY <1>1 DEF IInv, TypeOK
<1>4. Textures' = Textures
  BY <1>1, <1>3 DEF Textures, Idle
<1>5. analyses' \in Nat /\ AnalysesCounted'
  BY <1>1, <1>4 DEF IInv, TypeOK, AnalysesCounted, Textures
<1> QED
  BY <1>1, <1>2, <1>5, LetsGoKeeps

\* Whatever the lookup left, the entry's end takes the entry's own references and no other.
LEMMA EraseFaceLockedKeeps ==
  ASSUME IInv, EraseFaceLocked
  PROVE  IInv'
<1>1. /\ TypeOK /\ refs \in [Objects -> Nat] /\ ReadersKnowTheirKey
      /\ \A p \in Objects : refs[p] = Held(dwrite_faces, p) + Held(instances, p) + Readers(p)
  BY Unpacked
<1>2. /\ known' = FALSE /\ dwrite_faces' = << >> /\ instances' = << >>
      /\ refs' = [p \in Objects |-> refs[p] - Held(dwrite_faces, p) - Held(instances, p)]
      /\ UNCHANGED <<made_for, raster, analyses>>
  BY DEF EraseFaceLocked
<1>3. \A p \in Objects : refs'[p] = Readers(p) /\ Readers(p) \in Nat
  <2> SUFFICES ASSUME NEW p \in Objects PROVE refs'[p] = Readers(p) /\ Readers(p) \in Nat
    OBVIOUS
  <2>1. Held(dwrite_faces, p) \in Nat /\ Held(instances, p) \in Nat /\ Readers(p) \in Nat
    BY <1>1, Numbers
  <2> QED
    BY <1>1, <1>2, <2>1
<1>4. /\ raster' \in [Threads -> Reading \cup {Idle}] /\ analyses' \in Nat
      /\ AnalysesCounted' /\ \A p : Readers(p)' = Readers(p)
  BY <1>2, NobodyReads
<1>5. TypeOK'
  <2>1. refs' \in [Objects -> Nat]
    BY <1>2, <1>3
  <2>2. << >> \in Seq(CachedDWriteFace) /\ << >> \in Seq(WinInstance) /\ Len(<< >>) = 0
    OBVIOUS
  <2>3. 0 <= FacesCap /\ 0 <= InstancesCap
    BY BoundsAssumption
  <2> QED
    BY <1>1, <1>2, <1>4, <2>1, <2>2, <2>3 DEF TypeOK
<1>6. EveryReferenceIsHeld'
  <2> SUFFICES ASSUME NEW p \in Objects
               PROVE  refs'[p] = Held(dwrite_faces', p) + Held(instances', p) + Readers(p)'
    BY DEF EveryReferenceIsHeld, Readers
  <2>1. Held(dwrite_faces', p) = 0 /\ Held(instances', p) = 0
    BY <1>2, HeldNone
  <2> QED
    BY <1>3, <1>4, <2>1
<1>7. AnswersTheKey'
  BY <1>2 DEF AnswersTheKey
<1>8. ReadersKnowTheirKey'
  BY <1>1, <1>2 DEF ReadersKnowTheirKey, Busy
<1> QED
  BY <1>4, <1>5, <1>6, <1>7, <1>8 DEF IInv

LEMMA UseBoldFaceKeeps ==
  ASSUME IInv, NEW axes \in Axes, NEW o \in Objects \cup {None}, UseBoldFace(axes, o)
  PROVE  IInv'
<1>1. [simulations |-> "bold", axes |-> axes] \in Key
  BY DEF Key, Simulations
<1> QED
  BY <1>1, LookupKeeps DEF UseBoldFace

\* A new instance draws its face's count with it, and one more for whoever keeps a reference.
LEMMA NewInstance ==
  ASSUME IInv, NEW size \in Sizes, NEW axes \in Axes, NEW o \in Objects \cup {None},
         NEW valid \in BOOLEAN, NEW held \in Objects \cup {None},
         NewWinInstance(size, axes, o, valid, held)
  PROVE  /\ dwrite_faces' \in Seq(CachedDWriteFace) /\ Len(dwrite_faces') <= FacesCap
         /\ instances' \in Seq(WinInstance) /\ Len(instances') <= InstancesCap
         /\ made_for' \in [Objects -> Key \cup {None}]
         /\ refs' \in [Objects -> Nat]
         /\ \A p \in Objects : refs'[p] = Held(dwrite_faces', p) + Held(instances', p)
                                              + Readers(p) + One(held = p)
         /\ AnswersTheKey'
         /\ \A u \in Threads : Busy(u) => made_for'[raster[u].face] = raster[u].key
         /\ o # None => made_for'[o] = Plain(axes)
<1> DEFINE full == Len(instances) >= InstancesCap
           older == IF full THEN Tail(instances) ELSE instances
           count == IF full THEN Release(refs, Head(instances).face) ELSE refs
           face == IF valid THEN o ELSE None
           new == [size |-> size, axes |-> axes, face |-> face]
           rest == [p \in Objects |-> Held(older, p) + Readers(p)]
           counted == Counted(dwrite_faces, count, Plain(axes), o)
<1>1. /\ Yields(dwrite_faces, count, Plain(axes), o) /\ Makes(dwrite_faces, Plain(axes), o)
      /\ dwrite_faces' = Looked(dwrite_faces, Plain(axes), o)
      /\ refs' = Hold(AddRef(counted, face), held)
      /\ instances' = Append(older, new)
  BY DEF NewWinInstance
<1>2. /\ TypeOK /\ refs \in [Objects -> Nat]
      /\ KeysAnswered(dwrite_faces, made_for)
      /\ InstancesAnswered(instances, made_for) /\ ReadersKnowTheirKey
      /\ instances \in Seq(WinInstance) /\ Len(instances) <= InstancesCap
      /\ Len(instances) \in Nat /\ InstancesCap \in Nat \ {0} /\ None \notin Objects
      /\ \A p \in Objects : refs[p] = Held(dwrite_faces, p) + Held(instances, p) + Readers(p)
  BY Unpacked, BoundsAssumption, NoneAssumption
<1>3. Plain(axes) \in Key
  BY DEF Plain, Key, Simulations
<1>4. new \in WinInstance /\ new.face = face /\ new.axes = axes /\ face \in Objects \cup {None}
  BY DEF WinInstance
<1>5. /\ older \in Seq(WinInstance) /\ Len(older) \in Nat /\ Len(older) < InstancesCap
      /\ DOMAIN older = 1 .. Len(older)
      /\ \A i \in DOMAIN older : \E j \in DOMAIN instances : older[i] = instances[j]
  <2>1. CASE full
    <3>1. /\ older = Tail(instances) /\ DOMAIN instances = 1 .. Len(instances)
          /\ Len(instances) = InstancesCap
      BY <1>2, <2>1
    <3>2. /\ older \in Seq(WinInstance) /\ Len(older) = Len(instances) - 1
          /\ \A i \in 1 .. Len(instances) - 1 : older[i] = instances[i + 1]
      BY <1>2, <3>1
    <3>3. \A i \in 1 .. Len(older) : i + 1 \in DOMAIN instances
      BY <1>2, <3>1, <3>2
    <3>4. DOMAIN older = 1 .. Len(older)
      BY <3>2
    <3> HIDE DEF older
    <3> QED
      BY <1>2, <3>1, <3>2, <3>3, <3>4
  <2>2. CASE ~full
    BY <1>2, <2>2
  <2> QED
    BY <2>1, <2>2
<1>6. InstancesAnswered(older, made_for)
  <2> HIDE DEF older
  <2> QED
    BY <1>2, <1>5 DEF InstancesAnswered
<1>7. \A p : /\ Held(older, p) \in Nat /\ Readers(p) \in Nat /\ Held(dwrite_faces, p) \in Nat
             /\ Held(instances, p) \in Nat
  <2> HIDE DEF older
  <2> QED
    BY <1>2, <1>5, HeldType, Numbers
<1>8. /\ count \in [Objects -> Nat]
      /\ \A p \in Objects : count[p] = Held(dwrite_faces, p) + (Held(older, p) + Readers(p))
  <2>1. CASE full
    <3>1. Len(instances) > 0 /\ Head(instances) \in WinInstance
      BY <1>2, <2>1
    <3>2. Head(instances).face \in Objects \cup {None}
      BY <3>1 DEF WinInstance
    <3>3. \A p : Held(instances, p) = Held(older, p) + One(Head(instances).face = p)
      BY <1>2, <2>1, <3>1, HeldTail
    <3>4. count = Release(refs, Head(instances).face)
      BY <2>1
    <3> HIDE DEF older, count
    <3>5. \A p \in Objects : count[p] = refs[p] - One(Head(instances).face = p)
      BY <1>2, <3>2, <3>4 DEF Release, One
    <3>6. \A p \in Objects : /\ count[p] \in Nat
                             /\ count[p] = Held(dwrite_faces, p) + (Held(older, p) + Readers(p))
      <4> SUFFICES ASSUME NEW p \in Objects
                   PROVE  /\ count[p] \in Nat
                          /\ count[p] = Held(dwrite_faces, p) + (Held(older, p) + Readers(p))
        OBVIOUS
      <4>1. One(Head(instances).face = p) \in Nat
        BY DEF One
      <4>2. /\ Held(dwrite_faces, p) \in Nat /\ Held(older, p) \in Nat /\ Readers(p) \in Nat
            /\ refs[p] = Held(dwrite_faces, p) + Held(instances, p) + Readers(p)
            /\ Held(instances, p) = Held(older, p) + One(Head(instances).face = p)
            /\ count[p] = refs[p] - One(Head(instances).face = p)
        BY <1>2, <1>7, <3>3, <3>5
      <4> QED
        BY <4>1, <4>2
    <3>7. count = [p \in Objects |-> count[p]]
      BY <1>2, <3>2, <3>4 DEF Release
    <3> QED
      BY <3>6, <3>7
  <2>2. CASE ~full
    <3>1. count = refs /\ older = instances
      BY <2>2
    <3> HIDE DEF older, count
    <3>2. \A p \in Objects : count[p] = Held(dwrite_faces, p) + (Held(older, p) + Readers(p))
      <4> TAKE p \in Objects
      <4>1. /\ Held(dwrite_faces, p) \in Nat /\ Held(older, p) \in Nat /\ Readers(p) \in Nat
            /\ count[p] = Held(dwrite_faces, p) + Held(older, p) + Readers(p)
        BY <1>2, <1>7, <3>1
      <4> QED
        BY <4>1
    <3> QED
      BY <1>2, <3>1, <3>2
  <2> QED
    BY <2>1, <2>2
<1>9. /\ rest \in [Objects -> Nat]
      /\ \A p \in Objects : rest[p] = Held(older, p) + Readers(p)
      /\ \A p \in Objects : Held(older, p) + Readers(p) > 0 => rest[p] > 0
  <2> HIDE DEF older
  <2> QED
    BY <1>7
<1> HIDE DEF older, count, face, new, rest, counted
<1>10. Beyond(count, rest)
  BY <1>8, <1>9 DEF Beyond
<1>20. /\ dwrite_faces' \in Seq(CachedDWriteFace) /\ Len(dwrite_faces') <= FacesCap
       /\ made_for' \in [Objects -> Key \cup {None}]
       /\ Counted(dwrite_faces, count, Plain(axes), o) \in [Objects -> Nat]
       /\ \A p \in Objects :
              Counted(dwrite_faces, count, Plain(axes), o)[p] = Held(dwrite_faces', p) + rest[p]
       /\ \A p \in Objects : rest[p] > 0 => made_for'[p] = made_for[p]
       /\ KeysAnswered(dwrite_faces', made_for')
       /\ o # None => made_for'[o] = Plain(axes)
  BY <1>1, <1>2, <1>3, <1>8, <1>9, <1>10, Lookup
<1>11. /\ dwrite_faces' \in Seq(CachedDWriteFace) /\ Len(dwrite_faces') <= FacesCap
       /\ made_for' \in [Objects -> Key \cup {None}]
       /\ counted \in [Objects -> Nat]
       /\ \A p \in Objects : counted[p] = Held(dwrite_faces', p) + rest[p]
       /\ \A p \in Objects : rest[p] > 0 => made_for'[p] = made_for[p]
       /\ KeysAnswered(dwrite_faces', made_for')
       /\ o # None => made_for'[o] = Plain(axes)
  BY <1>20 DEF counted
<1>12. /\ InstancesAnswered(older, made_for')
       /\ \A u \in Threads : Busy(u) => made_for'[raster[u].face] = raster[u].key
  BY <1>2, <1>5, <1>6, <1>9, <1>11, RelyingKeepTheirKeys
<1>13. /\ instances' \in Seq(WinInstance) /\ Len(instances') = Len(older) + 1
       /\ DOMAIN instances' = 1 .. Len(older) + 1
       /\ instances'[Len(older) + 1] = new
       /\ \A i \in 1 .. Len(older) : instances'[i] = older[i]
  BY <1>1, <1>4, <1>5
<1>14. Len(instances') <= InstancesCap
  BY <1>2, <1>5, <1>13
<1>15. \A p : Held(instances', p) = Held(older, p) + One(face = p)
  BY <1>1, <1>4, <1>5, HeldAppend
<1>16. /\ refs' \in [Objects -> Nat]
       /\ \A p \in Objects : refs'[p] = counted[p] + One(face = p) + One(held = p)
  <2>1. /\ AddRef(counted, face) \in [Objects -> Nat]
        /\ \A p \in Objects : AddRef(counted, face)[p] = counted[p] + One(face = p)
    BY <1>2, <1>4, <1>11 DEF AddRef, One
  <2> DEFINE c == AddRef(counted, face)
  <2>2. refs' = IF held = None THEN c ELSE [c EXCEPT ![held] = @ + 1]
    BY <1>1 DEF Hold, AddRef
  <2>3. c \in [Objects -> Nat] /\ \A p \in Objects : c[p] = counted[p] + One(face = p)
    BY <2>1
  <2> HIDE DEF c
  <2>4. refs' \in [Objects -> Nat] /\ \A p \in Objects : refs'[p] = c[p] + One(held = p)
    BY <1>2, <2>2, <2>3 DEF One
  <2> QED
    BY <2>3, <2>4
<1>17. \A p \in Objects : refs'[p] = Held(dwrite_faces', p) + Held(instances', p)
                                         + Readers(p) + One(held = p)
  <2> TAKE p \in Objects
  <2>1. /\ Held(dwrite_faces', p) \in Nat /\ Held(older, p) \in Nat /\ Readers(p) \in Nat
        /\ One(face = p) \in Nat /\ One(held = p) \in Nat
    BY <1>7, <1>11, HeldType DEF One
  <2>2. /\ counted[p] = Held(dwrite_faces', p) + (Held(older, p) + Readers(p))
        /\ refs'[p] = counted[p] + One(face = p) + One(held = p)
        /\ Held(instances', p) = Held(older, p) + One(face = p)
    BY <1>9, <1>11, <1>15, <1>16
  <2> QED
    BY <2>1, <2>2
<1>18. InstancesAnswered(instances', made_for')
  <2> SUFFICES ASSUME NEW i \in 1 .. Len(older) + 1, instances'[i].face # None
               PROVE  made_for'[instances'[i].face] = Plain(instances'[i].axes)
    BY <1>13 DEF InstancesAnswered
  <2>1. CASE i \in 1 .. Len(older)
    BY <1>5, <1>12, <1>13, <2>1 DEF InstancesAnswered
  <2>2. CASE i = Len(older) + 1
    <3>1. instances'[i].face = face /\ instances'[i].axes = axes /\ face # None
      BY <1>4, <1>13, <2>2
    <3>2. face = o
      BY <3>1 DEF face
    <3> QED
      BY <1>11, <3>1, <3>2
  <2> QED
    BY <1>5, <2>1, <2>2
<1>19. AnswersTheKey'
  BY <1>11, <1>18 DEF AnswersTheKey, KeysAnswered, InstancesAnswered
<1> QED
  BY <1>11, <1>12, <1>13, <1>14, <1>16, <1>17, <1>19

LEMMA UseWinInstanceKeeps ==
  ASSUME IInv, NEW size \in Sizes, NEW axes \in Axes, NEW o \in Objects \cup {None},
         NEW valid \in BOOLEAN, UseWinInstance(size, axes, o, valid)
  PROVE  IInv'
<1>1. NewWinInstance(size, axes, o, valid, None) /\ UNCHANGED <<known, raster, analyses>>
  BY DEF UseWinInstance
<1>2. /\ dwrite_faces' \in Seq(CachedDWriteFace) /\ Len(dwrite_faces') <= FacesCap
      /\ instances' \in Seq(WinInstance) /\ Len(instances') <= InstancesCap
      /\ made_for' \in [Objects -> Key \cup {None}]
      /\ refs' \in [Objects -> Nat]
      /\ \A p \in Objects : refs'[p] = Held(dwrite_faces', p) + Held(instances', p)
                                           + Readers(p) + One(None = p)
      /\ AnswersTheKey'
      /\ \A u \in Threads : Busy(u) => made_for'[raster[u].face] = raster[u].key
  BY <1>1, NewInstance
<1>3. /\ raster' \in [Threads -> Reading \cup {Idle}] /\ analyses' \in Nat
      /\ AnalysesCounted' /\ \A p : Readers(p)' = Readers(p)
  BY <1>1, NobodyReads
<1>4. TypeOK'
  BY <1>1, <1>2, <1>3 DEF IInv, TypeOK
<1>5. EveryReferenceIsHeld'
  <2> SUFFICES ASSUME NEW p \in Objects
               PROVE  refs'[p] = Held(dwrite_faces', p) + Held(instances', p) + Readers(p)'
    BY DEF EveryReferenceIsHeld, Readers
  <2>1. /\ Held(dwrite_faces', p) \in Nat /\ Held(instances', p) \in Nat /\ Readers(p) \in Nat
        /\ One(None = p) = 0
    BY <1>2, HeldType, ReadersType, NoneAssumption DEF One
  <2>2. refs'[p] = Held(dwrite_faces', p) + Held(instances', p) + Readers(p) + One(None = p)
    BY <1>2
  <2> QED
    BY <1>3, <2>1, <2>2
<1>6. ReadersKnowTheirKey'
  BY <1>1, <1>2 DEF ReadersKnowTheirKey, Busy
<1> QED
  BY <1>2, <1>3, <1>4, <1>5, <1>6 DEF IInv

LEMMA DecomposeKeeps ==
  ASSUME IInv, NEW t \in Threads, NEW size \in Sizes, NEW axes \in Axes,
         NEW o \in Objects \cup {None}, Decompose(t, size, axes, o)
  PROVE  IInv'
<1> DEFINE r == [doing |-> "outline", face |-> o, key |-> Plain(axes)]
<1>1. /\ raster[t] = Idle /\ o \in Objects /\ UNCHANGED <<known, analyses>>
      /\ raster' = [raster EXCEPT ![t] = r]
  BY DEF Decompose
<1>2. r \in Reading /\ r.face = o /\ r.doing # "texture" /\ r.key = Plain(axes)
  BY <1>1 DEF Reading, Plain, Key, Simulations
<1> HIDE DEF r
<1>3. /\ TypeOK /\ refs \in [Objects -> Nat]
      /\ InstancesAnswered(instances, made_for) /\ ReadersKnowTheirKey
      /\ \A p \in Objects : refs[p] = Held(dwrite_faces, p) + Held(instances, p) + Readers(p)
  BY Unpacked
<1>4. raster' \in [Threads -> Reading \cup {Idle}] /\ analyses' \in Nat /\ AnalysesCounted'
  BY <1>1, <1>2, <1>3, Reads DEF IInv
<1>5. \A p : Readers(p)' = Readers(p) + One(o = p)
  <2>1. r \in Reading /\ TypeOK /\ raster[t] = Idle /\ raster' = [raster EXCEPT ![t] = r]
    BY <1>1, <1>2, <1>3
  <2>2. \A p : Readers(p)' = Readers(p) + One(r.face = p)
    BY <2>1, Begins
  <2> QED
    BY <1>2, <2>2
<1>6. /\ dwrite_faces' \in Seq(CachedDWriteFace) /\ Len(dwrite_faces') <= FacesCap
      /\ instances' \in Seq(WinInstance) /\ Len(instances') <= InstancesCap
      /\ made_for' \in [Objects -> Key \cup {None}]
      /\ refs' \in [Objects -> Nat]
      /\ \A p \in Objects : refs'[p] = Held(dwrite_faces', p) + Held(instances', p)
                                           + Readers(p) + One(o = p)
      /\ AnswersTheKey'
      /\ \A u \in Threads : Busy(u) => made_for'[raster[u].face] = raster[u].key
      /\ made_for'[o] = Plain(axes)
  <2>1. CASE /\ \E i \in FindWinInstance(size, axes) : instances[i].face = o
             /\ refs' = Hold(refs, o)
             /\ UNCHANGED <<dwrite_faces, instances, made_for>>
    <3>1. made_for[o] = Plain(axes)
      BY <1>1, <1>3, <2>1, NoneAssumption DEF FindWinInstance, InstancesAnswered
    <3>2. refs' \in [Objects -> Nat] /\ \A p \in Objects : refs'[p] = refs[p] + One(o = p)
      BY <1>1, <1>3, <2>1, NoneAssumption DEF Hold, AddRef, One
    <3>3. \A u \in Threads : Busy(u) => made_for'[raster[u].face] = raster[u].key
      BY <1>3, <2>1 DEF ReadersKnowTheirKey
    <3>4. AnswersTheKey'
      BY <2>1 DEF IInv, AnswersTheKey
    <3>5. \A p \in Objects : refs'[p] = Held(dwrite_faces', p) + Held(instances', p)
                                            + Readers(p) + One(o = p)
      BY <1>3, <2>1, <3>2
    <3> QED
      BY <1>3, <2>1, <3>1, <3>2, <3>3, <3>4, <3>5 DEF TypeOK
  <2>2. CASE NewWinInstance(size, axes, o, TRUE, o)
    <3>1. o # None
      BY <1>1, NoneAssumption
    <3>2. PICK valid \in BOOLEAN : NewWinInstance(size, axes, o, valid, o)
      BY <2>2, Zenon
    <3> QED
      BY <3>1, <3>2, NewInstance
  <2> QED
    BY <2>1, <2>2 DEF Decompose
<1>7. TypeOK'
  BY <1>1, <1>3, <1>4, <1>6 DEF TypeOK
<1>8. EveryReferenceIsHeld'
  <2> SUFFICES ASSUME NEW p \in Objects
               PROVE  refs'[p] = Held(dwrite_faces', p) + Held(instances', p) + Readers(p)'
    BY DEF EveryReferenceIsHeld, Readers
  <2>1. /\ Held(dwrite_faces', p) \in Nat /\ Held(instances', p) \in Nat /\ Readers(p) \in Nat
        /\ One(o = p) \in Nat
    BY <1>6, HeldType, ReadersType DEF One
  <2>2. /\ refs'[p] = Held(dwrite_faces', p) + Held(instances', p) + Readers(p) + One(o = p)
        /\ Readers(p)' = Readers(p) + One(o = p)
    BY <1>5, <1>6
  <2> QED
    BY <2>1, <2>2
<1>9. ReadersKnowTheirKey'
  <2> SUFFICES ASSUME NEW u \in Threads, raster'[u] # Idle
               PROVE  made_for'[raster'[u].face] = raster'[u].key
    BY DEF ReadersKnowTheirKey, Busy
  <2>1. CASE u = t
    BY <1>1, <1>2, <1>3, <1>6, <2>1 DEF TypeOK
  <2>2. CASE u # t
    BY <1>1, <1>3, <1>6, <2>2 DEF TypeOK, Busy
  <2> QED
    BY <2>1, <2>2
<1> QED
  BY <1>4, <1>6, <1>7, <1>8, <1>9 DEF IInv

-----------------------------------------------------------------------------
(* The specification *)

LEMMA InitIInv == Init => IInv
<1> SUFFICES ASSUME Init PROVE IInv
  OBVIOUS
<1>1. /\ known = FALSE /\ dwrite_faces = << >> /\ instances = << >>
      /\ refs = [p \in Objects |-> 0] /\ made_for = [p \in Objects |-> None]
      /\ raster = [t \in Threads |-> Idle] /\ analyses = 0
  BY DEF Init
<1>2. TypeOK
  <2>1. 0 <= FacesCap /\ 0 <= InstancesCap
    BY BoundsAssumption
  <2>2. << >> \in Seq(CachedDWriteFace) /\ << >> \in Seq(WinInstance) /\ Len(<< >>) = 0
    OBVIOUS
  <2> QED
    BY <1>1, <2>1, <2>2 DEF TypeOK
<1>3. \A p : Readers(p) = 0
  <2> TAKE p
  <2>1. {t \in Threads : Busy(t) /\ raster[t].face = p} = {}
    BY <1>1 DEF Busy
  <2> QED
    BY <2>1, FS_EmptySet DEF Readers
<1>4. EveryReferenceIsHeld
  <2> SUFFICES ASSUME NEW p \in Objects
               PROVE  refs[p] = Held(dwrite_faces, p) + Held(instances, p) + Readers(p)
    BY DEF EveryReferenceIsHeld, Readers
  <2> QED
    BY <1>1, <1>3, HeldNone
<1>5. AnswersTheKey
  BY <1>1 DEF AnswersTheKey
<1>6. ReadersKnowTheirKey
  BY <1>1 DEF ReadersKnowTheirKey, Busy
<1>7. AnalysesCounted
  <2>1. {t \in Threads : raster[t].doing = "texture"} = {}
    BY <1>1 DEF Idle
  <2>2. Cardinality({t \in Threads : raster[t].doing = "texture"}) = 0
    BY <2>1, FS_EmptySet
  <2> QED
    BY <1>1, <2>2 DEF AnalysesCounted
<1> QED
  BY <1>2, <1>4, <1>5, <1>6, <1>7 DEF IInv

LEMMA NextIInv == IInv /\ [Next]_vars => IInv'
<1> SUFFICES ASSUME IInv, [Next]_vars PROVE IInv'
  OBVIOUS
<1>1. CASE RecordFace
  <2>1. /\ known' \in BOOLEAN
        /\ UNCHANGED <<dwrite_faces, instances, refs, made_for, raster, analyses>>
    BY <1>1 DEF RecordFace
  <2> QED
    BY <2>1 DEF IInv, TypeOK, EveryReferenceIsHeld, AnswersTheKey, ReadersKnowTheirKey,
                AnalysesCounted, Busy
<1>2. CASE EraseFaceLocked
  BY <1>2, EraseFaceLockedKeeps
<1>3. ASSUME NEW o \in Objects \cup {None}, NEW t \in Threads, NEW key \in Key,
             Rasterize(t, key, o)
      PROVE  IInv'
  BY <1>3, RasterizeKeeps
<1>4. ASSUME NEW o \in Objects \cup {None}, NEW size \in Sizes, NEW axes \in Axes,
             NEW valid \in BOOLEAN, UseWinInstance(size, axes, o, valid)
      PROVE  IInv'
  BY <1>4, UseWinInstanceKeeps
<1>5. ASSUME NEW o \in Objects \cup {None}, NEW axes \in Axes, UseBoldFace(axes, o)
      PROVE  IInv'
  BY <1>5, UseBoldFaceKeeps
<1>6. ASSUME NEW o \in Objects \cup {None}, NEW t \in Threads, NEW size \in Sizes,
             NEW axes \in Axes, Decompose(t, size, axes, o)
      PROVE  IInv'
  BY <1>6, DecomposeKeeps
<1>7. ASSUME NEW t \in Threads, FinishTexture(t) \/ TextureNoMemory(t)
      PROVE  IInv'
  BY <1>7, FinishTextureKeeps
<1>8. ASSUME NEW t \in Threads, FinishOutline(t)
      PROVE  IInv'
  BY <1>8, FinishOutlineKeeps
<1>9. CASE UNCHANGED vars
  BY <1>9 DEF vars, IInv, TypeOK, EveryReferenceIsHeld, AnswersTheKey, ReadersKnowTheirKey,
              AnalysesCounted, Busy
<1> QED
  BY <1>1, <1>2, <1>3, <1>4, <1>5, <1>6, <1>7, <1>8, <1>9 DEF Next

LEMMA IInvHolds == Spec => []IInv
  BY InitIInv, NextIInv, PTL DEF Spec

\* The caches keep their caps (kMaxFaces and kMaxInstances) and every reference count is a
\* number: no count goes below nothing, whatever is evicted while it is read.
THEOREM TypesHold == Spec => []TypeOK
<1>1. IInv => TypeOK
  BY DEF IInv
<1> QED
  BY <1>1, IInvHolds, PTL

\* The count of a DirectWrite face is what the cache, the instances and the readers have on it
\* (HoldFace, EraseFaceLocked).
THEOREM CountsAreHeld == Spec => []EveryReferenceIsHeld
<1>1. IInv => EveryReferenceIsHeld
  BY DEF IInv
<1> QED
  BY <1>1, IInvHolds, PTL

\* A thread that reads a face outside the lock reads a live one, made for the key it asked for
\* (RasterizeThroughDWrite, DecomposeThroughDWrite).
THEOREM ReadersKeepTheirFace == Spec => []ReadsTheFaceItAskedFor
<1>1. IInv => ReadsTheFaceItAskedFor
  <2> SUFFICES ASSUME IInv, NEW t \in Threads, Busy(t)
               PROVE  refs[raster[t].face] > 0 /\ made_for[raster[t].face] = raster[t].key
    BY DEF ReadsTheFaceItAskedFor
  <2>1. raster[t].face \in Objects
    BY DEF IInv, TypeOK, Busy, Reading
  <2>2. /\ Readers(raster[t].face) \in Nat /\ Readers(raster[t].face) > 0
        /\ Held(dwrite_faces, raster[t].face) \in Nat /\ Held(instances, raster[t].face) \in Nat
    BY ReadersType, Numbers DEF IInv
  <2>3. refs[raster[t].face] = Held(dwrite_faces, raster[t].face)
                                   + Held(instances, raster[t].face) + Readers(raster[t].face)
    BY <2>1, Unpacked
  <2> QED
    BY <2>2, <2>3 DEF IInv, ReadersKnowTheirKey
<1> QED
  BY <1>1, IInvHolds, PTL

\* The cache has one entry for a key, with the face made for it, and an instance the plain face
\* at its axis position (GetDWriteFaceLocked, GetWinInstanceLocked).
THEOREM CacheAnswersTheKey == Spec => []AnswersTheKey
<1>1. IInv => AnswersTheKey
  BY DEF IInv
<1> QED
  BY <1>1, IInvHolds, PTL
===============================================================================
