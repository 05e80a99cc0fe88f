----------------------------- MODULE TypefaceCache -----------------------------
(***************************************************************************)
(* What libcleartype keeps of Skia's typefaces in a Chromium process: the  *)
(* font bytes rebuilt from a typeface's tables and what was worked out     *)
(* from them (src/chromium/vtable_patch.cpp), which object answers for a   *)
(* typeface's tables (typeface_bridge.cpp), and the DirectWrite faces made *)
(* from the bytes (dwrite_raster.cpp).                                     *)
(*                                                                         *)
(* Skia is external: a typeface is an object at an address that is used    *)
(* again, with an id that is not.  It reads its tables itself, or is a     *)
(* proxy of one that does.  What an object that is gone answers is         *)
(* anybody's guess.                                                        *)
(***************************************************************************)
EXTENDS Naturals, Sequences, FiniteSets

CONSTANTS
    Callers,      \* the threads that call the hooks
    Settings,     \* processes, when hooks are first called: who calls, what is known of Skia
    Addresses,    \* where typefaces are
    MaxIds,       \* bound: how many typefaces there ever are
    Contents,     \* the contents of font files
    Variable,     \* of those, the ones with axes
    Plain,        \* and the ones FontationsPreferred says Windows gives to Fontations
    Empty,        \* the content of no bytes
    Positions,    \* design positions of variable fonts
    Vectors,      \* bound: where byte vectors are
    MaxCachedTypefaces,
    MaxFaces,     \* bound: how many DirectWrite faces are made
    NoCaller, None, Unusable

Ids == 1 .. MaxIds

ASSUME CacheAssumption ==
    /\ Addresses \subseteq Nat /\ Vectors \subseteq Nat
    /\ Empty \in Contents \ (Variable \cup Plain)
    /\ "empty" \notin Positions
    /\ None \notin Contents \cup Positions \cup Callers
    /\ None \notin Addresses \cup Vectors
    /\ Unusable \notin Addresses \cup {None}
    /\ NoCaller \notin Callers
    /\ Settings \subseteq [who : SUBSET Callers, last : 0 .. MaxIds, scanned : BOOLEAN]
    /\ MaxIds \in Nat /\ MaxFaces \in Nat
    /\ MaxCachedTypefaces \in Nat \ {0}

VARIABLES
    object,       \* external: the typeface at an address
    last_id,      \* external: SkTypefaceCache::NewTypefaceID
    anchors,      \* typeface_bridge knows the functions that read tables
    g_real,       \* the object that answers for the typeface at an address, if asked
    vectors,      \* by_content: the bytes at an address of a vector
    g_fonts, g_plain_fontations, g_var_coords, g_facts, g_font_order,
    variation,    \* g_variation_index and g_variation_unconfirmed
    font_mutex,   \* who reads a font under g_font_mutex
    faces,        \* dwrite_raster's faces, by the address of the bytes and the position
    place, on, use, coords_key  \* each caller: where it is, its typeface, bytes, key

skia == <<object, last_id>>
bridge == <<anchors, g_real>>
tables == <<vectors, g_fonts, g_plain_fontations, g_var_coords, g_facts, g_font_order>>
caller == <<place, on, use, coords_key>>
cacheVars == <<skia, bridge, tables, variation, font_mutex, faces, caller>>

-----------------------------------------------------------------------------

Objects == [id : Ids, content : Contents \ {Empty}, position : Positions \cup {None},
            inner : Addresses \cup {None}]

CacheTypeOK ==
    /\ object \in [Addresses -> Objects \cup {None}]
    /\ last_id \in 0 .. MaxIds
    /\ anchors \in BOOLEAN
    /\ g_real \in [Addresses -> Addresses \cup {None, Unusable}]
    /\ vectors \in [Vectors -> Contents \cup {None}]
    /\ g_fonts \in [Ids -> Vectors \cup {None}]
    /\ g_plain_fontations \in [Ids -> BOOLEAN \cup {None}]
    /\ g_var_coords \in [Ids -> Positions \cup {"empty", None}]
    /\ g_facts \in [Ids -> Contents \cup {None}]
    /\ g_font_order \in Seq(Ids)
    /\ variation \in {"unknown", "refuted", "unconfirmed", "confirmed"}
    /\ font_mutex \in Callers \cup {NoCaller}
    /\ \A k \in DOMAIN faces : k \in Vectors \X (Positions \cup {None})
    /\ \A k \in DOMAIN faces : faces[k] \in Contents
    /\ place \in [Callers -> {"never", "out", "reading", "have", "describing", "slot"}]
    /\ on \in [Callers -> Addresses \cup {None}]
    /\ use \in [Callers -> Vectors \cup {None}]
    /\ coords_key \in [Callers -> Positions \cup {None}]

CacheInit ==
    /\ object = [a \in Addresses |-> None]
    /\ \E s \in Settings :
        /\ last_id = s.last /\ anchors = s.scanned
        /\ place = [t \in Callers |-> IF t \in s.who THEN "out" ELSE "never"]
    /\ g_real = [a \in Addresses |-> None]
    /\ vectors = [v \in Vectors |-> None]
    /\ g_fonts = [i \in Ids |-> None]
    /\ g_plain_fontations = [i \in Ids |-> None]
    /\ g_var_coords = [i \in Ids |-> None]
    /\ g_facts = [i \in Ids |-> None]
    /\ g_font_order = <<>>
    /\ variation = "unknown" /\ font_mutex = NoCaller
    /\ faces = <<>>
    /\ on = [t \in Callers |-> None] /\ use = [t \in Callers |-> None]
    /\ coords_key = [t \in Callers |-> None]

Unlocked == font_mutex = NoCaller

-----------------------------------------------------------------------------
(* Skia's typefaces, and what the resolver learns of their classes *)

NewTypeface(a) ==
    /\ object[a] = None /\ last_id < MaxIds
    /\ \A b \in Addresses : b < a => object[b] # None
    /\ \E o \in Objects :
        /\ o.id = last_id + 1
        /\ o.position # None <=> o.content \in Variable
        /\ o.inner # None => /\ object[o.inner] # None /\ object[o.inner].inner = None
                             /\ object[o.inner].content = o.content
        /\ object' = [object EXCEPT ![a] = o]
    /\ last_id' = last_id + 1
    /\ UNCHANGED <<bridge, tables, variation, font_mutex, faces, caller>>

\* not while a hook has it, nor before its proxies
FreeTypeface(a) ==
    /\ object[a] # None
    /\ \A t \in Callers : on[t] # a
    /\ \A b \in Addresses : object[b] # None => object[b].inner # a
    /\ object' = [object EXCEPT ![a] = None]
    /\ UNCHANGED <<last_id, bridge, tables, variation, font_mutex, faces, caller>>

SetAnchors ==
    /\ ~anchors
    /\ anchors' = TRUE
    /\ g_real' = [a \in Addresses |-> None]
    /\ UNCHANGED <<skia, tables, variation, font_mutex, faces, caller>>

\* a slot found after one was refuted counts as guessed, whoever confirms it
FindVariationSlot ==
    /\ \/ variation = "unknown" /\ variation' \in {"confirmed", "unconfirmed"}
       \/ variation = "refuted" /\ variation' = "unconfirmed"
    /\ UNCHANGED <<skia, bridge, tables, font_mutex, faces, caller>>

-----------------------------------------------------------------------------
(* typeface_bridge: the object that answers for a typeface is found once *)

LooksUsable(a) ==
    IF g_real[a] # None THEN UNCHANGED g_real
    ELSE g_real' = [g_real EXCEPT ![a] = IF ~anchors THEN Unusable
                                         ELSE IF object[a].inner = None THEN a
                                         ELSE object[a].inner]

\* without an answer the file has no bytes; one that is gone, or of another class, answers anything
ReadFontFile(a) ==
    IF g_real[a] \in {None, Unusable} THEN {Empty}
    ELSE IF object[g_real[a]] = None \/ object[g_real[a]].inner # None THEN Contents
    ELSE {object[g_real[a]].content}

-----------------------------------------------------------------------------
(* The tables behind g_font_mutex *)

Lowest(S) == {v \in S : \A u \in S : v <= u}

\* (Mutants are plausible bugs of the definition they precede.)
MutantSharesWhileCached(content) ==
    LET have == {v \in Vectors : vectors[v] = content}
    IN  IF have # {} THEN have ELSE Lowest({v \in Vectors : \A i \in Ids : g_fonts[i] # v})

\* the one vector of a content, made when there is none, and never freed
SharedByContent(content) ==
    LET have == {v \in Vectors : vectors[v] = content}
    IN  IF have # {} THEN have ELSE Lowest({v \in Vectors : vectors[v] = None})

\* Only a font with axes is asked, and only a font's own axes confirm a slot that was guessed.
ReadVariationCoords(a, content, answer) ==
    LET position == IF object[a].position = None THEN "empty" ELSE object[a].position
    IN  CASE variation \in {"unknown", "refuted"} -> answer = None /\ UNCHANGED variation
          [] variation \in {"unconfirmed", "confirmed"} /\ content \notin Variable ->
                 answer = "empty" /\ UNCHANGED variation
          [] variation = "confirmed" /\ content \in Variable ->
                 answer = position /\ UNCHANGED variation
          [] OTHER -> \/ answer = "empty" /\ variation' = "refuted"
                      \/ /\ position # "empty" /\ answer = position
                         /\ variation' = "confirmed"

\* the newcomer goes to the end; what is dropped from the front is dropped everywhere
Order(key) == Append(g_font_order, key)
Forgotten(key) == IF Len(Order(key)) > MaxCachedTypefaces THEN {Head(Order(key))} ELSE {}
Forget(f, key) == [i \in Ids |-> IF i \in Forgotten(key) THEN None ELSE f[i]]

CacheFont(key, v, coords) ==
    /\ g_fonts' = Forget([g_fonts EXCEPT ![key] = v], key)
    /\ g_var_coords' = Forget([g_var_coords EXCEPT ![key] =
                                   IF g_var_coords[key] = None THEN coords ELSE @], key)
    /\ g_font_order' = IF Forgotten(key) = {} THEN Order(key) ELSE Tail(Order(key))

PlainFontations(plain, key, content) ==
    [plain EXCEPT ![key] = IF plain[key] = None THEN content \in Plain ELSE @]

-----------------------------------------------------------------------------
(* The hooks: filter, metrics and image each ask for the bytes and who renders them *)

\* who does not find the bytes holds the mutex until it has read them
MustRead(t, a, place_then) ==
    /\ g_fonts[object[a].id] = None
    /\ LooksUsable(a)
    /\ font_mutex' = t
    /\ place' = [place EXCEPT ![t] = place_then]
    /\ UNCHANGED <<use, g_plain_fontations, g_facts>>

Hook(t, a) ==
    LET key == object[a].id
    IN  /\ place[t] = "out" /\ Unlocked /\ object[a] # None
        /\ on' = [on EXCEPT ![t] = a]
        /\ \/ MustRead(t, a, "reading")
           \/ /\ g_fonts[key] # None
              /\ use' = [use EXCEPT ![t] = g_fonts[key]]
              /\ g_plain_fontations' =
                     PlainFontations(g_plain_fontations, key, vectors[g_fonts[key]])
              /\ place' = [place EXCEPT ![t] = "have"]
              /\ UNCHANGED <<g_real, font_mutex, g_facts>>
        /\ UNCHANGED <<skia, anchors, vectors, g_fonts, g_var_coords, g_font_order, variation,
                       faces, coords_key>>

\* what Windows gives to Fontations stays with Skia
StandsIn(t) == place[t] = "have" /\ vectors[use[t]] \notin Plain

\* what is kept for other sizes is worked out again, from bytes that may have to be read again
FactsFor(t) ==
    LET a == on[t]
        key == object[a].id
    IN  /\ StandsIn(t) /\ Unlocked
        /\ \/ MustRead(t, a, "describing")
           \/ /\ g_fonts[key] # None
              /\ g_facts' = [g_facts EXCEPT ![key] = vectors[g_fonts[key]]]
              /\ UNCHANGED <<g_real, font_mutex, place, use, g_plain_fontations>>
        /\ UNCHANGED <<skia, anchors, vectors, g_fonts, g_var_coords, g_font_order, variation,
                       faces, on, coords_key>>

FontBytesLocked(t) ==
    LET a == on[t]
        key == object[a].id
    IN  /\ place[t] \in {"reading", "describing"}
        /\ \E content \in ReadFontFile(a), coords \in Positions \cup {"empty", None} :
           \E v \in SharedByContent(content) :
            /\ vectors' = [vectors EXCEPT ![v] = content]
            /\ ReadVariationCoords(a, content, coords)
            /\ CacheFont(key, v, coords)
            /\ LET plain == Forget(g_plain_fontations, key)
                   facts == Forget(g_facts, key)
               IN  IF place[t] = "reading"
                   THEN /\ use' = [use EXCEPT ![t] = v]
                        /\ g_plain_fontations' = PlainFontations(plain, key, content)
                        /\ g_facts' = facts
                   ELSE /\ g_facts' = [facts EXCEPT ![key] = content]
                        /\ g_plain_fontations' = plain
                        /\ UNCHANGED use
        /\ font_mutex' = NoCaller
        /\ place' = [place EXCEPT ![t] = "have"]
        /\ UNCHANGED <<skia, bridge, faces, on, coords_key>>

\* the glyph stays with Skia, for one of many reasons
Leave(t) ==
    /\ place[t] = "have"
    /\ place' = [place EXCEPT ![t] = "out"]
    /\ on' = [on EXCEPT ![t] = None] /\ use' = [use EXCEPT ![t] = None]
    /\ UNCHANGED <<skia, bridge, tables, variation, font_mutex, faces, coords_key>>

-----------------------------------------------------------------------------
(* dwrite_raster *)

VariationCoords(key) == IF g_var_coords[key] = "empty" THEN None ELSE g_var_coords[key]

CoordsHashFor(t) ==
    /\ StandsIn(t) /\ Unlocked
    /\ coords_key' = [coords_key EXCEPT ![t] = VariationCoords(object[on[t]].id)]
    /\ place' = [place EXCEPT ![t] = "slot"]
    /\ UNCHANGED <<skia, bridge, tables, variation, font_mutex, faces, on, use>>

\* A face, or the failure to make one, is kept for good, and reads its bytes from then on.  The
\* position is asked for again to make it.
SlotFor(t) ==
    LET key == <<use[t], coords_key[t]>>
    IN  /\ place[t] = "slot" /\ Unlocked
        /\ key \in DOMAIN faces \/ Cardinality(DOMAIN faces) < MaxFaces
        /\ faces' = [k \in DOMAIN faces \cup {key} |->
                        IF k \in DOMAIN faces THEN faces[k] ELSE vectors[use[t]]]
        /\ place' = [place EXCEPT ![t] = "out"]
        /\ on' = [on EXCEPT ![t] = None] /\ use' = [use EXCEPT ![t] = None]
        /\ coords_key' = [coords_key EXCEPT ![t] = None]
        /\ UNCHANGED <<skia, bridge, tables, variation, font_mutex>>

CallerNext(t) ==
    \/ \E a \in Addresses : Hook(t, a)
    \/ FontBytesLocked(t)
    \/ FactsFor(t)
    \/ Leave(t)
    \/ CoordsHashFor(t)
    \/ SlotFor(t)

CacheNext ==
    \/ \E a \in Addresses : NewTypeface(a) \/ FreeTypeface(a)
    \/ SetAnchors
    \/ FindVariationSlot
    \/ \E t \in Callers : CallerNext(t)

-----------------------------------------------------------------------------
(* Properties *)

(***************************************************************************)
(* What is kept of a typeface is kept together: the order names each font  *)
(* that is cached, once and no more than the cap, and its position, its    *)
(* facts and who renders it are there only beside the bytes, and are what  *)
(* those bytes say.                                                        *)
(***************************************************************************)
TablesGoTogether ==
    /\ Len(g_font_order) <= MaxCachedTypefaces
    /\ \A i, j \in DOMAIN g_font_order : g_font_order[i] = g_font_order[j] => i = j
    /\ \A key \in Ids :
        /\ g_fonts[key] # None <=> \E i \in DOMAIN g_font_order : g_font_order[i] = key
        /\ g_fonts[key] = None => /\ g_var_coords[key] = None /\ g_facts[key] = None
                                  /\ g_plain_fontations[key] = None
        /\ g_facts[key] # None => g_facts[key] = vectors[g_fonts[key]]
        /\ g_plain_fontations[key] # None =>
               g_plain_fontations[key] = (vectors[g_fonts[key]] \in Plain)
        /\ g_var_coords[key] \in Positions => vectors[g_fonts[key]] \in Variable

\* A face has its bytes, and a hook those it was given, at their address for good.
BytesStay ==
    /\ \A k \in DOMAIN faces : faces[k] = vectors[k[1]]
    /\ \A t \in Callers : use[t] # None => vectors[use[t]] # None

(***************************************************************************)
(* What is kept of a typeface goes together, and no eviction takes the     *)
(* bytes from a face that reads them, or from a hook that has them.        *)
(***************************************************************************)
TypefacesKeepTheirBytes == TablesGoTogether /\ BytesStay
===============================================================================
