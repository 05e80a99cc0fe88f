------------------------------ MODULE FactoryProxy ------------------------------
(***************************************************************************)
(* How a DirectWrite factory and the system's fonts come to a caller: the  *)
(* load of the implementation and the proxies around its factories         *)
(* (src/dwritecore_shim.cpp, src/factory_proxy_overrides.cpp), the font    *)
(* list a proxy builds once (src/system_fonts.cpp), and the two users of   *)
(* it, an application and libcleartype under g_faces_mutex                 *)
(* (GetFactories and WarmSystemCollection of freetype.cpp).                *)
(*                                                                         *)
(* A lock that is held across a call has a holder; a section that makes no *)
(* call but DWriteCore's own (g_proxy_lock, g_collection_mutex) is a step. *)
(* DWriteCore and fontconfig are external.  Fontconfig may open fonts with *)
(* FreeType while it loads or lists them, and an FT_New_Face of its comes  *)
(* back here and takes g_faces_mutex.                                      *)
(***************************************************************************)
EXTENDS Naturals, FiniteSets

CONSTANTS
    Threads,
    Reals,        \* addresses of the implementation's factories
    Views,        \* the collections that group one font set: IDWriteFontCollection1 and 2
    Collection1,  \* of those, the legacy one
    MaxHeld,      \* bound: with that many references on one factory an application asks for
                  \* no other, and so for collections
    NoThread, None

ASSUME CollectionAssumption == Collection1 \in Views
\* A getter of a collection is none of the other getters, and no address is a global lock.
ASSUME ViewsAssumption == Views \cap {"set", "fallback", "warm"} = {}
ASSUME ThreadsAssumption == IsFiniteSet(Threads) /\ NoThread \notin Threads
ASSUME RealsAssumption ==
    /\ None \notin Reals
    /\ Reals \cap {"faces", "factory", "once", "fontconfig"} = {}

VARIABLES
    impl,          \* g_impl
    shared,        \* external: the factory DWRITE_FACTORY_TYPE_SHARED answers with
    refs,          \* external: the references on each real factory, 0 when it is gone
    proxy_refs,    \* FactoryProxy::refs_ of the proxy of each, 0 when it has none
    cached,        \* g_proxies: the factories with an entry
    g_factories,   \* libcleartype's factory and IDWriteFactory2
    factory_failed, \* g_factory_failed
    attempted,     \* SystemFonts::attempted of each proxy
    set,           \* SystemFonts::set is there
    view,          \* SystemFonts::collection1 and collection2: which one was made, 0 for none
    view_refs,     \* the references on each
    fallback_attempted, \* SystemFonts::fallback_attempted of each
    fc,            \* g_fc, behind g_fc_once
    g_collection,  \* libcleartype's collection: the proxy it is of, None for any other or none
    tried          \* g_collection_tried

VARIABLES
    holder,        \* who has each lock
    pc,            \* where each thread is
    back,          \* where GetFactories returns to, "out" when the application asks
    on,            \* the factory a thread is at work on
    want,          \* what it asks the font list of a proxy for
    result,        \* the factory DWriteCoreCreateFactory returned to GetFactories
    got,           \* the proxy whose collection WarmSystemCollection has in hand
    held,          \* external: an application's references on factories
    held_views,    \* external: and on collections
    scans,         \* history: how often each proxy's list was built, or could not be
    given          \* history: and which ones they are

factories == <<impl, shared, refs, proxy_refs, cached, held>>
kept == <<g_factories, factory_failed>>
list == <<attempted, set, scans>>
views == <<view, view_refs, given, held_views>>
extra == <<fallback_attempted>>
warm == <<g_collection, tried>>
regs == <<back, on, want, result, got>>
vars == <<factories, kept, list, views, extra, fc, warm, holder, pc, regs>>

-----------------------------------------------------------------------------
(* Types *)

Proxied(r) == [kind |-> "proxy", of |-> r]
Raw(r) == [kind |-> "real", of |-> r]
Handles == [kind : {"proxy", "real"}, of : Reals]
Pairs == [factory : Handles, factory2 : BOOLEAN]   \* what GetFactories keeps

\* None is a null pointer.
ASSUME NoneAssumption == None \notin Handles \cup Pairs

Locks == {"faces", "factory", "once", "fontconfig"} \cup Reals
Wants == {"set", "fallback", "warm"} \cup Views

Places == {"out", "once", "load", "create", "wrap", "proxyfor", "query", "factories", "keep",
           "set", "fontconfig", "fcload", "fcscan", "listscan", "build", "view",
           "fallback", "warm", "warmget", "warmstore", "lockfaces", "measured"}

TypeOK ==
    /\ impl \in {"pending", "loaded", "failed"}
    /\ shared \in Reals \cup {None}
    /\ refs \in [Reals -> Nat]
    /\ proxy_refs \in [Reals -> Nat]
    /\ cached \in SUBSET Reals
    /\ held \in [Handles -> Nat]
    /\ g_factories \in Pairs \cup {None}
    /\ factory_failed \in BOOLEAN
    /\ attempted \in SUBSET Reals
    /\ set \in SUBSET Reals
    /\ scans \in [Reals -> Nat]
    /\ view \in [Reals \X Views -> Nat]
    /\ view_refs \in [Reals \X Views -> Nat]
    /\ given \in [Reals \X Views -> SUBSET Nat]
    /\ held_views \in [Reals \X Views -> Nat]
    /\ fallback_attempted \in SUBSET Reals
    /\ fc \in {"pending", "loaded", "failed"}
    /\ g_collection \in Reals \cup {None}
    /\ tried \in BOOLEAN
    /\ holder \in [Locks -> Threads \cup {NoThread}]
    /\ pc \in [Threads -> Places]
    /\ back \in [Threads -> {"out", "warmget", "measured"}]
    /\ on \in [Threads -> Reals \cup {None}]
    /\ want \in [Threads -> Wants]
    /\ result \in [Threads -> Handles \cup {None}]
    /\ got \in [Threads -> Reals \cup {None}]

Goto(t, place) == pc' = [pc EXCEPT ![t] = place]
Free(lock) == holder[lock] = NoThread
Take(t, lock) == holder' = [holder EXCEPT ![lock] = t]
GiveUp(lock) == holder' = [holder EXCEPT ![lock] = NoThread]

Init ==
    /\ impl = "pending" /\ shared = None /\ cached = {}
    /\ refs = [r \in Reals |-> 0] /\ proxy_refs = [r \in Reals |-> 0]
    /\ held = [h \in Handles |-> 0]
    /\ g_factories = None /\ factory_failed = FALSE
    /\ attempted = {} /\ set = {} /\ scans = [r \in Reals |-> 0]
    /\ view = [x \in Reals \X Views |-> 0] /\ view_refs = [x \in Reals \X Views |-> 0]
    /\ given = [x \in Reals \X Views |-> {}] /\ held_views = [x \in Reals \X Views |-> 0]
    /\ fallback_attempted = {}
    /\ fc = "pending" /\ g_collection = None /\ tried = FALSE
    /\ holder = [l \in Locks |-> NoThread]
    /\ pc = [t \in Threads |-> "out"]
    /\ back = [t \in Threads |-> "out"]
    /\ on = [t \in Threads |-> None] /\ want = [t \in Threads |-> "set"]
    /\ result = [t \in Threads |-> None] /\ got = [t \in Threads |-> None]

-----------------------------------------------------------------------------
(* DWriteCoreCreateFactory *)

\* An application asks for a factory of its own.
AppCreates(t) ==
    /\ pc[t] = "out"
    /\ \A h \in Handles : held[h] < MaxHeld
    /\ Goto(t, "once")
    /\ UNCHANGED <<factories, kept, list, views, extra, fc, warm, holder, regs>>

\* The answer goes to the application or to GetFactories.
Created(t, h) ==
    /\ on' = [on EXCEPT ![t] = None]
    /\ IF back[t] = "out"
       THEN /\ Goto(t, "out")
            /\ held' = IF h = None THEN held ELSE [held EXCEPT ![h] = @ + 1]
            /\ UNCHANGED result
       ELSE Goto(t, "keep") /\ result' = [result EXCEPT ![t] = h] /\ UNCHANGED held

\* GetImpl: everybody waits for the one thread that loads.
GetImpl(t) ==
    /\ pc[t] = "once"
    /\ Free("once")
    /\ \/ /\ impl = "pending"
          /\ Take(t, "once") /\ Goto(t, "load") /\ UNCHANGED <<held, result, on>>
       \/ impl = "loaded" /\ Goto(t, "create") /\ UNCHANGED <<held, result, on, holder>>
       \/ impl = "failed" /\ Created(t, None) /\ UNCHANGED holder
    /\ UNCHANGED <<impl, shared, refs, proxy_refs, cached, kept, list, views, extra, fc, warm,
                   back, want, got>>

LoadImpl(t) ==
    /\ pc[t] = "load"
    /\ impl' \in {"loaded", "failed"}
    /\ GiveUp("once")
    /\ Goto(t, "once")
    /\ UNCHANGED <<shared, refs, proxy_refs, cached, held, kept, list, views, extra, fc, warm, regs>>

\* External: DWriteCore answers with the shared factory, or one of the caller's own.
CreateReal(t) ==
    /\ pc[t] = "create"
    /\ \/ \E r \in Reals :
            /\ \/ shared = r /\ UNCHANGED shared
               \/ shared = None /\ refs[r] = 0 /\ shared' = r
               \/ refs[r] = 0 /\ UNCHANGED shared
            /\ refs' = [refs EXCEPT ![r] = @ + 1]
            /\ on' = [on EXCEPT ![t] = r]
            /\ Goto(t, "wrap")
            /\ UNCHANGED <<held, result>>
       \/ Created(t, None) /\ UNCHANGED <<shared, refs>>
    /\ UNCHANGED <<impl, proxy_refs, cached, kept, list, views, extra, fc, warm, holder,
                   back, want, got>>

\* WrapFactory: the switch is off, the object is no IDWriteFactory9, or it is asked for one.
WrapFactory(t) ==
    /\ pc[t] = "wrap"
    /\ \/ Created(t, Raw(on[t])) /\ UNCHANGED refs
       \/ /\ refs' = [refs EXCEPT ![on[t]] = @ + 1]
          /\ Goto(t, "proxyfor")
          /\ UNCHANGED <<held, result, on>>
    /\ UNCHANGED <<impl, shared, proxy_refs, cached, kept, list, views, extra, fc, warm, holder,
                   back, want, got>>

\* (Mutants, here and below, are plausible bugs of the definition they precede.)
MutantKeepsSurplus(r) == refs
MutantReleasesBoth(r) == [refs EXCEPT ![r] = @ - 2]

\* The proxy that is found already has a reference.
Surplus(r) == [refs EXCEPT ![r] = @ - 1]

\* One proxy for one factory.  A new one takes the reference; its own are the one it is
\* born with and the cache's.
ProxyFor(t) ==
    /\ pc[t] = "proxyfor"
    /\ LET r == on[t] IN
       \/ /\ r \in cached
          /\ refs' = Surplus(r)
          /\ Goto(t, "query")
          /\ UNCHANGED <<proxy_refs, cached, held, result, on>>
       \/ /\ r \notin cached
          /\ cached' = cached \cup {r}
          /\ proxy_refs' = [proxy_refs EXCEPT ![r] = 2]
          /\ Goto(t, "query")
          /\ UNCHANGED <<refs, held, result, on>>
       \/ /\ r \notin cached   \* no memory
          /\ refs' = [refs EXCEPT ![r] = @ - 1]
          /\ Created(t, Raw(r))
          /\ UNCHANGED <<proxy_refs, cached>>
    /\ UNCHANGED <<impl, shared, kept, list, views, extra, fc, warm, holder, back, want, got>>

\* FactoryProxy::QueryInterface: itself, for any IDWriteFactory, which is all GetFactories
\* asks for; anything else is the real factory's answer, or its refusal.
QueryProxy(t) ==
    /\ pc[t] = "query"
    /\ LET r == on[t] IN
       \/ /\ proxy_refs' = [proxy_refs EXCEPT ![r] = @ + 1]
          /\ refs' = [refs EXCEPT ![r] = @ - 1]
          /\ Created(t, Proxied(r))
       \/ /\ back[t] = "out"
          /\ Created(t, Raw(r))
          /\ UNCHANGED <<refs, proxy_refs>>
    /\ UNCHANGED <<impl, shared, cached, kept, list, views, extra, fc, warm, holder,
                   back, want, got>>

\* External: an application gives a reference back.  A factory without one is gone.
ReleaseFactory(h) ==
    /\ held[h] > 0
    /\ held' = [held EXCEPT ![h] = @ - 1]
    /\ IF h.kind = "proxy"
       THEN proxy_refs' = [proxy_refs EXCEPT ![h.of] = @ - 1] /\ UNCHANGED <<refs, shared>>
       ELSE /\ refs' = [refs EXCEPT ![h.of] = @ - 1]
            /\ shared' = IF refs[h.of] = 1 /\ shared = h.of THEN None ELSE shared
            /\ UNCHANGED proxy_refs
    /\ UNCHANGED <<impl, cached, kept, list, views, extra, fc, warm, holder, pc, regs>>

-----------------------------------------------------------------------------
(* GetFactories *)

\* Created once, by whoever comes first, with the others waiting.
GetFactories(t) ==
    /\ pc[t] = "factories"
    /\ Free("factory")
    /\ IF g_factories = None /\ ~factory_failed
       THEN Take(t, "factory") /\ Goto(t, "once") /\ UNCHANGED back
       ELSE Goto(t, back[t]) /\ back' = [back EXCEPT ![t] = "out"] /\ UNCHANGED holder
    /\ UNCHANGED <<factories, kept, list, views, extra, fc, warm, on, want, result, got>>

KeepFactories(t) ==
    /\ pc[t] = "keep"
    /\ \/ /\ result[t] = None
          /\ factory_failed' = TRUE
          /\ UNCHANGED <<g_factories, refs, proxy_refs>>
       \/ /\ result[t] # None
          /\ \/ /\ result[t].kind = "proxy"
                /\ g_factories' = [factory |-> result[t], factory2 |-> TRUE]
                /\ proxy_refs' = [proxy_refs EXCEPT ![result[t].of] = @ + 1]
                /\ UNCHANGED refs
             \/ /\ result[t].kind = "real"
                /\ \E two \in BOOLEAN :
                    /\ g_factories' = [factory |-> result[t], factory2 |-> two]
                    /\ refs' = [refs EXCEPT ![result[t].of] = IF two THEN @ + 1 ELSE @]
                /\ UNCHANGED proxy_refs
          /\ UNCHANGED factory_failed
    /\ result' = [result EXCEPT ![t] = None]
    /\ GiveUp("factory")
    /\ Goto(t, back[t])
    /\ back' = [back EXCEPT ![t] = "out"]
    /\ UNCHANGED <<impl, shared, cached, held, list, views, extra, fc, warm, on, want, got>>

-----------------------------------------------------------------------------
(* The font list of a proxy *)

Idle(t) == on' = [on EXCEPT ![t] = None] /\ want' = [want EXCEPT ![t] = "set"]

\* What a getter asks for is there, or the real factory answers: to WarmSystemCollection
\* with its own collection, or with nothing.
Forward(t) ==
    /\ Idle(t)
    /\ IF want[t] = "warm"
       THEN Goto(t, "warmstore")
       ELSE Goto(t, "out")
    /\ UNCHANGED got

HaveSet(t, has) ==
    IF ~has THEN Forward(t)
    ELSE IF want[t] = "set" THEN Goto(t, "out") /\ Idle(t) /\ UNCHANGED got
    ELSE Goto(t, "view") /\ UNCHANGED <<on, want, got>>

\* An application calls a getter of a proxy it has (or CreateTextFormat without a
\* collection, which wants the legacy one).
AppGets(t) ==
    /\ pc[t] = "out"
    /\ \E r \in Reals, w \in Wants \ {"warm"} :
        /\ held[Proxied(r)] > 0
        /\ w \in Views => \A x \in Reals \X Views : held_views[x] < MaxHeld
        /\ on' = [on EXCEPT ![t] = r]
        /\ want' = [want EXCEPT ![t] = w]
    /\ Goto(t, "set")
    /\ UNCHANGED <<factories, kept, list, views, extra, fc, warm, holder, back, result, got>>

\* Built or not, it is not tried again.
Attempted(r) == r \in attempted

SystemFontSet(t) ==
    /\ pc[t] = "set"
    /\ Free(on[t])
    /\ IF Attempted(on[t])
       THEN HaveSet(t, on[t] \in set) /\ UNCHANGED <<attempted, holder, scans>>
       ELSE /\ attempted' = attempted \cup {on[t]}
            /\ scans' = [scans EXCEPT ![on[t]] = @ + 1]
            /\ \/ Take(t, on[t]) /\ Goto(t, "fontconfig") /\ UNCHANGED <<on, want, got>>
               \/ HaveSet(t, FALSE) /\ UNCHANGED holder   \* no builder
    /\ UNCHANGED <<factories, kept, set, views, extra, fc, warm, back, result>>

\* FcInit may read fonts while it holds the lock of the load, and FcFontList after it.
MayScan(scan, done) == {scan, done}
Enumerated(loaded) == IF loaded THEN MayScan("listscan", "build") ELSE {"build"}

\* EnumerateFontFiles: fontconfig is loaded once, for all lists.
EnumerateFontFiles(t) ==
    /\ pc[t] = "fontconfig"
    /\ Free("fontconfig")
    /\ \/ fc = "pending" /\ Take(t, "fontconfig") /\ \E p \in MayScan("fcscan", "fcload") : Goto(t, p)
       \/ fc # "pending" /\ (\E p \in Enumerated(fc = "loaded") : Goto(t, p)) /\ UNCHANGED holder
    /\ UNCHANGED <<factories, kept, list, views, extra, fc, warm, regs>>

LoadFontconfig(t) ==
    /\ \/ pc[t] = "fcload"
       \/ pc[t] = "fcscan" /\ Free("faces")   \* RecordFace
    /\ \E loaded \in BOOLEAN :
        /\ fc' = IF loaded THEN "loaded" ELSE "failed"
        /\ \E p \in Enumerated(loaded) : Goto(t, p)
    /\ GiveUp("fontconfig")
    /\ UNCHANGED <<factories, kept, list, views, extra, warm, regs>>

ListScanned(t) ==
    /\ pc[t] = "listscan"
    /\ Free("faces")   \* RecordFace
    /\ Goto(t, "build")
    /\ UNCHANGED <<factories, kept, list, views, extra, fc, warm, holder, regs>>

\* The files make a set, or there are none, or DWriteCore refuses.
BuildSet(t) ==
    /\ pc[t] = "build"
    /\ GiveUp(on[t])
    /\ \/ /\ fc = "loaded"
          /\ set' = set \cup {on[t]}
          /\ HaveSet(t, TRUE)
       \/ HaveSet(t, FALSE) /\ UNCHANGED set
    /\ UNCHANGED <<factories, kept, attempted, scans, views, extra, fc, warm, back, result>>

\* SystemCollection1 and SystemCollection2.
Wanted(t) == IF want[t] \in Views THEN want[t] ELSE Collection1

MutantMakesAnother(x) == TRUE

NeedsView(x) == view[x] = 0

\* What the getters add to the reference of the list.
Hand(t, x, v) ==
    /\ IF want[t] = "warm"
       THEN /\ Goto(t, "warmstore")
            /\ got' = [got EXCEPT ![t] = on[t]]
            /\ UNCHANGED <<held_views, given>>
       ELSE /\ Goto(t, "out")
            /\ given' = [given EXCEPT ![x] = @ \cup {v}]
            /\ held_views' = [held_views EXCEPT ![x] = @ + 1]
            /\ UNCHANGED got
    /\ Idle(t)

SystemCollection(t) ==
    /\ pc[t] = "view"
    /\ Free(on[t])
    /\ LET x == <<on[t], Wanted(t)>> IN
       \/ /\ NeedsView(x)
          /\ Forward(t)
          /\ UNCHANGED views
       \/ \E v \in {IF NeedsView(x) THEN view[x] + 1 ELSE view[x]} :
          /\ view' = [view EXCEPT ![x] = v]
          /\ \/ /\ want[t] = "fallback"
                /\ Goto(t, "fallback")
                /\ view_refs' = [view_refs EXCEPT ![x] = IF NeedsView(x) THEN 1 ELSE @]
                /\ UNCHANGED <<given, held_views, on, want, got>>
             \/ /\ want[t] # "fallback"
                /\ Hand(t, x, v)
                /\ view_refs' = [view_refs EXCEPT ![x] = IF NeedsView(x) THEN 2 ELSE @ + 1]
    /\ UNCHANGED <<factories, kept, list, extra, fc, warm, holder, back, result>>

\* Built on the collection, or given up, and then the real factory answers: once either way.
SystemFallback(t) ==
    /\ pc[t] = "fallback"
    /\ Free(on[t])
    /\ fallback_attempted' = fallback_attempted \cup {on[t]}
    /\ Goto(t, "out")
    /\ Idle(t)
    /\ UNCHANGED <<factories, kept, list, views, fc, warm, holder, back, result, got>>

\* External: an application gives a collection back.
ReleaseView(x) ==
    /\ held_views[x] > 0
    /\ held_views' = [held_views EXCEPT ![x] = @ - 1]
    /\ view_refs' = [view_refs EXCEPT ![x] = @ - 1]
    /\ given' = [given EXCEPT ![x] = IF held_views[x] = 1 THEN {} ELSE @]
    /\ UNCHANGED <<factories, kept, list, view, extra, fc, warm, holder, pc, regs>>

-----------------------------------------------------------------------------
(* libcleartype measures a face *)

MutantMeasuresLocked(t) ==
    /\ pc[t] = "out"
    /\ Free("faces")
    /\ Take(t, "faces")
    /\ Goto(t, "warm")
    /\ UNCHANGED <<factories, kept, list, views, extra, fc, warm, regs>>

\* FT_Set_Char_Size, FT_Get_Sfnt_Table, FT_Load_Glyph and the rest that take Windows'
\* metrics warm the collection before they lock.
Measure(t) ==
    /\ pc[t] = "out"
    /\ Goto(t, "warm")
    /\ UNCHANGED <<factories, kept, list, views, extra, fc, warm, holder, regs>>

WarmSystemCollection(t) ==
    /\ pc[t] = "warm"
    /\ IF tried THEN Goto(t, "lockfaces") /\ UNCHANGED back
                ELSE Goto(t, "factories") /\ back' = [back EXCEPT ![t] = "warmget"]
    /\ UNCHANGED <<factories, kept, list, views, extra, fc, warm, holder, on, want, result, got>>

\* GetSystemFontCollection, of the proxy or of a factory without one.
WarmGets(t) ==
    /\ pc[t] = "warmget"
    /\ IF g_factories # None /\ g_factories.factory.kind = "proxy"
       THEN /\ Goto(t, "set")
            /\ on' = [on EXCEPT ![t] = g_factories.factory.of]
            /\ want' = [want EXCEPT ![t] = "warm"]
       ELSE Goto(t, "warmstore") /\ UNCHANGED <<on, want>>
    /\ UNCHANGED <<factories, kept, list, views, extra, fc, warm, holder, back, result, got>>

\* The first to come with an answer stores it; another's reference is surplus.
WarmStore(t) ==
    /\ pc[t] = "warmstore"
    /\ IF tried
       THEN /\ view_refs' = [x \in Reals \X Views |->
                                IF x = <<got[t], Collection1>> THEN view_refs[x] - 1 ELSE view_refs[x]]
            /\ UNCHANGED warm
       ELSE g_collection' = got[t] /\ tried' = TRUE /\ UNCHANGED view_refs
    /\ got' = [got EXCEPT ![t] = None]
    /\ Goto(t, "lockfaces")
    /\ UNCHANGED <<factories, kept, list, view, given, held_views, extra, fc, holder,
                   back, on, want, result>>

\* Only a face and a size it has not seen yet take the factories.
LockFaces(t) ==
    /\ pc[t] = "lockfaces"
    /\ Free("faces")
    /\ Take(t, "faces")
    /\ \/ Goto(t, "factories") /\ back' = [back EXCEPT ![t] = "measured"]
       \/ Goto(t, "measured") /\ UNCHANGED back
    /\ UNCHANGED <<factories, kept, list, views, extra, fc, warm, on, want, result, got>>

\* ComputeWinInstanceLocked, which borrows the collection.
Measured(t) ==
    /\ pc[t] = "measured"
    /\ GiveUp("faces")
    /\ Goto(t, "out")
    /\ UNCHANGED <<factories, kept, list, views, extra, fc, warm, regs>>

-----------------------------------------------------------------------------
Next ==
    \/ \E t \in Threads :
        \/ AppCreates(t) \/ AppGets(t) \/ Measure(t)
        \/ GetImpl(t) \/ LoadImpl(t) \/ CreateReal(t) \/ WrapFactory(t) \/ ProxyFor(t) \/ QueryProxy(t)
        \/ GetFactories(t) \/ KeepFactories(t)
        \/ SystemFontSet(t) \/ EnumerateFontFiles(t) \/ LoadFontconfig(t)
        \/ ListScanned(t) \/ BuildSet(t) \/ SystemCollection(t) \/ SystemFallback(t)
        \/ WarmSystemCollection(t) \/ WarmGets(t) \/ WarmStore(t) \/ LockFaces(t) \/ Measured(t)
    \/ \E h \in Handles : ReleaseFactory(h)
    \/ \E x \in Reals \X Views : ReleaseView(x)

Spec == Init /\ [][Next]_vars

-----------------------------------------------------------------------------
(* Properties *)

\* The lock a thread has to get before its next step.
Awaits(t, lock) ==
    \/ lock = "once" /\ pc[t] = "once"
    \/ lock = "factory" /\ pc[t] = "factories"
    \/ lock = "fontconfig" /\ pc[t] = "fontconfig"
    \/ lock = "faces" /\ pc[t] \in {"fcscan", "listscan", "lockfaces"}
    \/ lock = on[t] /\ pc[t] \in {"set", "view", "fallback"}

\* A list before fontconfig, before the faces, before the factory, before the load.
Before(k, l) ==
    \/ k \in Reals /\ l \in {"fontconfig", "faces", "factory", "once"}
    \/ k = "fontconfig" /\ l \in {"faces", "factory", "once"}
    \/ k = "faces" /\ l \in {"factory", "once"}
    \/ k = "factory" /\ l = "once"

\* Nobody waits for a lock while it holds one that comes after it, or that one: no two
\* threads ever wait for each other, and none for itself (freetype.cpp:897-900, 4810-4823).
LocksInOrder ==
    \A t \in Threads : \A k, l \in Locks :
        holder[k] = t /\ Awaits(t, l) => Before(k, l)

\* References on factory r that a thread has in hand, or libcleartype for good.
InHand(r) == Cardinality({t \in Threads : on[t] = r /\ pc[t] \in {"wrap", "proxyfor", "query"}})
                + Cardinality({t \in Threads : on[t] = r /\ pc[t] = "proxyfor"})
Kept(h) == Cardinality({t \in Threads : result[t] = h})
              + (IF g_factories # None /\ g_factories.factory = h
                 THEN IF g_factories.factory2 THEN 2 ELSE 1 ELSE 0)

\* Every reference on a factory, a proxy and a collection is somebody's, whoever raced for
\* the proxy or the collection; so a factory in the cache is not another at its address.
ReferencesAddUp ==
    /\ \A r \in Reals :
        /\ refs[r] = held[Raw(r)] + InHand(r) + Kept(Raw(r)) + (IF r \in cached THEN 1 ELSE 0)
        /\ proxy_refs[r] = held[Proxied(r)] + Kept(Proxied(r)) + (IF r \in cached THEN 2 ELSE 0)
    /\ \A r \in Reals, v \in Views :
        view_refs[<<r, v>>] =
            held_views[<<r, v>>]
            + (IF view[<<r, v>>] = 0 THEN 0 ELSE 1)
            + (IF v = Collection1
               THEN Cardinality({t \in Threads : got[t] = r}) + (IF g_collection = r THEN 1 ELSE 0)
               ELSE 0)

\* A proxy lists the system's fonts at most once, and whoever asks it for a collection, at
\* whatever time, is given the same one (SystemFontSet, SystemCollection1,
\* SystemCollection2).
OneListForAll ==
    \A r \in Reals :
        /\ scans[r] <= 1
        /\ \A v \in Views : given[<<r, v>>] \subseteq {view[<<r, v>>]} \ {0}
=============================================================================
