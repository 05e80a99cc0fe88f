-------------------------- MODULE FactoryProxyProofs --------------------------
(***************************************************************************)
(* The order of the locks of FactoryProxy, its references and its one list,*)
(* for any threads, factories and collections.                             *)
(*                                                                         *)
(* LocksInOrder alone is not inductive: it says nothing of a thread that   *)
(* holds a lock and waits for none.  Holding says where in the code the    *)
(* holder of each lock is, and which of its two callers GetFactories goes  *)
(* back to when the faces are locked.                                      *)
(*                                                                         *)
(* ReferencesAddUp is not either: a step adds to a count, or takes from it,*)
(* on the strength of what is in a thread's registers, of whose lock it    *)
(* has, and of a count that must be zero for what was not made.  RInv adds *)
(* those (Registers, NotMade), and a step is then weighed by what it does  *)
(* to its own thread's share: RestOfReal, RestOfProxy and RestOfView are   *)
(* the counts without it, and no step of the thread changes them.          *)
(***************************************************************************)
EXTENDS FactoryProxy, FiniteSetTheorems, TLAPS

Creating == {"once", "load", "create", "wrap", "proxyfor", "query", "keep"}

OnFactory == {"wrap", "proxyfor", "query", "set", "fontconfig", "fcload", "fcscan", "listscan",
              "build", "view", "fallback"}

Shapes ==
    /\ holder \in [Locks -> Threads \cup {NoThread}]
    /\ pc \in [Threads -> Places]
    /\ back \in [Threads -> {"out", "warmget", "measured"}]
    /\ on \in [Threads -> Reals \cup {None}]
    /\ \A t \in Threads : pc[t] \in OnFactory => on[t] \in Reals
    /\ g_factories \in Pairs \cup {None}
    /\ result \in [Threads -> Handles \cup {None}]

Holding ==
    \A t \in Threads :
        /\ holder["once"] = t => pc[t] = "load"
        /\ holder["factory"] = t => pc[t] \in Creating /\ back[t] # "out"
        /\ holder["fontconfig"] = t => pc[t] \in {"fcload", "fcscan"}
        /\ holder["faces"] = t =>
              \/ pc[t] = "measured"
              \/ pc[t] \in Creating \cup {"factories"} /\ back[t] = "measured"
        /\ \A r \in Reals : holder[r] = t =>
              /\ pc[t] \in {"fontconfig", "fcload", "fcscan", "listscan", "build"}
              /\ on[t] = r
        /\ pc[t] \in {"factories", "keep"} => back[t] # "out"

IInv == Shapes /\ Holding

\* Nothing is locked when the process starts.
LEMMA InitIInv == Init => IInv
  BY ThreadsAssumption DEF Init, IInv, Shapes, Holding, Locks, Places, Creating, OnFactory

\* Where the holders are tells what they may wait for.
LEMMA HoldingInOrder == IInv => LocksInOrder
  BY RealsAssumption, ThreadsAssumption
  DEF IInv, Shapes, Holding, LocksInOrder, Locks, Awaits, Before, Creating, Places

\* What a thread may do, as Next has it.
Step(t) ==
    \/ AppCreates(t) \/ AppGets(t) \/ Measure(t)
    \/ GetImpl(t) \/ LoadImpl(t) \/ CreateReal(t) \/ WrapFactory(t) \/ ProxyFor(t) \/ QueryProxy(t)
    \/ GetFactories(t) \/ KeepFactories(t)
    \/ SystemFontSet(t) \/ EnumerateFontFiles(t) \/ LoadFontconfig(t)
    \/ ListScanned(t) \/ BuildSet(t) \/ SystemCollection(t) \/ SystemFallback(t)
    \/ WarmSystemCollection(t) \/ WarmGets(t) \/ WarmStore(t) \/ LockFaces(t) \/ Measured(t)

\* One step of a thread: its own locks are given up and taken where Holding says, and
\* nobody else's change.
LEMMA ThreadStep ==
  ASSUME IInv, NEW t \in Threads,
         Step(t)
  PROVE  IInv'
  <1> USE DEF IInv
  <1>1. CASE AppCreates(t)
    <2>1. Shapes'
      BY <1>1, RealsAssumption
      DEF AppCreates, Goto, Shapes, kept, regs, Locks, Places, OnFactory, Handles, Wants
    <2>2. Holding'
      BY <1>1, RealsAssumption, ThreadsAssumption
      DEF AppCreates, Goto, Shapes, Holding, kept, regs, Locks, Places, Creating
    <2> QED  BY <2>1, <2>2 DEF IInv
  <1>2. CASE AppGets(t)
    <2>1. Shapes'
      BY <1>2, RealsAssumption DEF AppGets, Goto, Shapes, kept, regs, Locks, Places, OnFactory, Handles, Wants
    <2>2. Holding'
      BY <1>2, RealsAssumption, ThreadsAssumption
      DEF AppGets, Goto, Shapes, Holding, kept, regs, Locks, Places, Creating
    <2> QED  BY <2>1, <2>2 DEF IInv
  <1>3. CASE Measure(t)
    <2>1. Shapes'
      BY <1>3, RealsAssumption DEF Measure, Goto, Shapes, kept, regs, Locks, Places, OnFactory, Handles, Wants
    <2>2. Holding'
      BY <1>3, RealsAssumption, ThreadsAssumption
      DEF Measure, Goto, Shapes, Holding, kept, regs, Locks, Places, Creating
    <2> QED  BY <2>1, <2>2 DEF IInv
  <1>4. CASE GetImpl(t)
    <2>1. Shapes'
      BY <1>4, RealsAssumption
      DEF GetImpl, Goto, Created, Free, Take, Shapes, kept, regs, Locks, Places, OnFactory, Handles,
          Wants
    <2>2. Holding'
      BY <1>4, RealsAssumption, ThreadsAssumption
      DEF GetImpl, Goto, Created, Free, Take, Shapes, Holding, kept, regs, Locks, Places, Creating
    <2> QED  BY <2>1, <2>2 DEF IInv
  <1>5. CASE LoadImpl(t)
    <2>1. Shapes'
      BY <1>5, RealsAssumption
      DEF LoadImpl, Goto, GiveUp, Shapes, kept, regs, Locks, Places, OnFactory, Handles, Wants
    <2>2. Holding'
      BY <1>5, RealsAssumption, ThreadsAssumption
      DEF LoadImpl, Goto, GiveUp, Shapes, Holding, kept, regs, Locks, Places, Creating
    <2> QED  BY <2>1, <2>2 DEF IInv
  <1>6. CASE CreateReal(t)
    <2>1. Shapes'
      BY <1>6, RealsAssumption
      DEF CreateReal, Goto, Created, Shapes, kept, regs, Locks, Places, OnFactory, Handles, Wants
    <2>2. Holding'
      BY <1>6, RealsAssumption, ThreadsAssumption
      DEF CreateReal, Goto, Created, Shapes, Holding, kept, regs, Locks, Places, Creating
    <2> QED  BY <2>1, <2>2 DEF IInv
  <1>7. CASE WrapFactory(t)
    <2>1. Shapes'
      BY <1>7, RealsAssumption
      DEF WrapFactory, Goto, Created, Raw, Shapes, kept, regs, Locks, Places, OnFactory, Handles,
          Wants
    <2>2. Holding'
      BY <1>7, RealsAssumption, ThreadsAssumption
      DEF WrapFactory, Goto, Created, Raw, Shapes, Holding, kept, regs, Locks, Places, Creating
    <2> QED  BY <2>1, <2>2 DEF IInv
  <1>8. CASE ProxyFor(t)
    <2>1. Shapes'
      BY <1>8, RealsAssumption
      DEF ProxyFor, Goto, Created, Raw, Shapes, kept, regs, Locks, Places, OnFactory, Handles, Wants
    <2>2. Holding'
      BY <1>8, RealsAssumption, ThreadsAssumption
      DEF ProxyFor, Goto, Created, Raw, Shapes, Holding, kept, regs, Locks, Places, Creating
    <2> QED  BY <2>1, <2>2 DEF IInv
  <1>9. CASE QueryProxy(t)
    <2>1. Shapes'
      BY <1>9, RealsAssumption
      DEF QueryProxy, Goto, Created, Raw, Proxied, Shapes, kept, regs, Locks, Places, OnFactory,
          Handles, Wants
    <2>2. Holding'
      BY <1>9, RealsAssumption, ThreadsAssumption
      DEF QueryProxy, Goto, Created, Raw, Proxied, Shapes, Holding, kept, regs, Locks, Places,
          Creating
    <2> QED  BY <2>1, <2>2 DEF IInv
  <1>10. CASE GetFactories(t)
    <2>1. Shapes'
      BY <1>10, RealsAssumption
      DEF GetFactories, Goto, Free, Take, Shapes, kept, regs, Locks, Places, OnFactory, Handles,
          Wants
    <2>2. Holding'
      <3>1. pc[t] = "factories" /\ back[t] # "out" /\ Free("factory") /\ on' = on
        BY <1>10 DEF GetFactories, Holding
      <3>2. CASE Take(t, "factory") /\ Goto(t, "once") /\ back' = back
        BY <3>1, <3>2, RealsAssumption, ThreadsAssumption
        DEF Free, Take, Goto, Shapes, Holding, Locks, Creating
      <3>3. CASE Goto(t, back[t]) /\ back' = [back EXCEPT ![t] = "out"] /\ holder' = holder
        BY <3>1, <3>3, RealsAssumption, ThreadsAssumption
        DEF Goto, Shapes, Holding, Locks, Creating
      <3> QED  BY <1>10, <3>2, <3>3 DEF GetFactories
    <2> QED  BY <2>1, <2>2 DEF IInv
  <1>11. CASE KeepFactories(t)
    <2>1. Shapes'
      <3>1. g_factories' \in Pairs \cup {None}
        <4>1. CASE g_factories' = g_factories
          BY <4>1 DEF Shapes
        <4>2. ASSUME NEW two \in BOOLEAN, result[t] # None,
                     g_factories' = [factory |-> result[t], factory2 |-> two]
              PROVE  g_factories' \in Pairs
          <5>1. result[t] \in Handles
            BY <4>2 DEF Shapes
          <5> QED  BY <4>2, <5>1 DEF Pairs
        <4> QED  BY <1>11, <4>1, <4>2 DEF KeepFactories
      <3>2. result' \in [Threads -> Handles \cup {None}]
        BY <1>11 DEF KeepFactories, Shapes
      <3>3. /\ pc' = [pc EXCEPT ![t] = back[t]]
            /\ back' = [back EXCEPT ![t] = "out"] /\ on' = on
            /\ holder' = [holder EXCEPT !["factory"] = NoThread]
        BY <1>11 DEF KeepFactories, Goto, GiveUp
      <3> QED  BY <3>1, <3>2, <3>3 DEF Shapes, Places, OnFactory, Locks
    <2>2. Holding'
      BY <1>11, RealsAssumption, ThreadsAssumption
      DEF KeepFactories, Goto, GiveUp, Shapes, Holding, kept, regs, Locks, Places, Creating
    <2> QED  BY <2>1, <2>2 DEF IInv
  <1>12. CASE SystemFontSet(t)
    <2>1. Shapes'
      BY <1>12, RealsAssumption
      DEF SystemFontSet, Goto, Free, Take, HaveSet, Forward, Idle, Shapes, kept, regs, Locks, Places,
          OnFactory, Handles, Wants
    <2>2. pc[t] = "set" /\ back' = back
      BY <1>12 DEF SystemFontSet
    <2>3. CASE holder' = holder /\ \E has \in BOOLEAN : HaveSet(t, has)
      <3>1. pc' \in {[pc EXCEPT ![t] = p] : p \in {"out", "view", "warmstore"}}
        BY <2>3 DEF HaveSet, Forward, Goto
      <3>2. \A u \in Threads \ {t} : on'[u] = on[u]
        BY <2>3 DEF HaveSet, Forward, Idle, Shapes
      <3> QED  BY <2>1, <2>2, <2>3, <3>1, <3>2 DEF Shapes, Holding, Creating
    <2>4. CASE Free(on[t]) /\ Take(t, on[t]) /\ Goto(t, "fontconfig") /\ on' = on
      <3>1. on[t] \in Reals
        BY <2>2 DEF Shapes, OnFactory
      <3> QED
        BY <2>1, <2>2, <2>4, <3>1, RealsAssumption, ThreadsAssumption
        DEF Shapes, Holding, Locks, Creating, Free, Take, Goto
    <2> QED
      <3>1. (on[t] \in set) \in BOOLEAN /\ FALSE \in BOOLEAN
        OBVIOUS
      <3> QED  BY <1>12, <2>3, <2>4, <3>1 DEF SystemFontSet
  <1>13. CASE EnumerateFontFiles(t)
    <2>1. /\ pc[t] = "fontconfig"
          /\ pc' \in {[pc EXCEPT ![t] = p] : p \in {"fcscan", "fcload", "listscan", "build"}}
          /\ back' = back /\ on' = on
      BY <1>13 DEF EnumerateFontFiles, Goto, MayScan, Enumerated, regs, kept
    <2>2. UNCHANGED <<g_factories, result>>
      BY <1>13 DEF EnumerateFontFiles, regs, kept
    <2>3. CASE holder' = holder
      <3>1. Shapes'
        BY <2>1, <2>2, <2>3 DEF Shapes, Places, OnFactory
      <3>2. /\ holder["fontconfig"] # t /\ holder["once"] # t
            /\ holder["factory"] # t /\ holder["faces"] # t
        BY <2>1 DEF Holding, Creating
      <3>3. Holding'
        BY <2>1, <2>3, <3>2 DEF Shapes, Holding, Creating
      <3> QED  BY <3>1, <3>3
    <2>4. CASE /\ holder' = [holder EXCEPT !["fontconfig"] = t] /\ holder["fontconfig"] = NoThread
               /\ pc' \in {[pc EXCEPT ![t] = p] : p \in {"fcscan", "fcload"}}
      <3>1. Shapes'
        BY <2>1, <2>2, <2>4 DEF Shapes, Places, OnFactory, Locks
      <3>2. Holding'
        BY <2>1, <2>4, RealsAssumption, ThreadsAssumption DEF Shapes, Holding, Creating, Locks
      <3> QED  BY <3>1, <3>2
    <2> QED  BY <1>13, <2>3, <2>4 DEF EnumerateFontFiles, Take, Free, MayScan, Goto
  <1>14. CASE LoadFontconfig(t)
    <2>1. Shapes'
      BY <1>14, RealsAssumption
      DEF LoadFontconfig, Goto, GiveUp, MayScan, Enumerated, Shapes, kept, regs, Locks, Places,
          OnFactory, Handles, Wants
    <2>2. Holding'
      BY <1>14, RealsAssumption, ThreadsAssumption
      DEF LoadFontconfig, Goto, GiveUp, MayScan, Enumerated, Shapes, Holding, kept, regs, Locks,
          Places, Creating
    <2> QED  BY <2>1, <2>2 DEF IInv
  <1>15. CASE ListScanned(t)
    <2>1. Shapes'
      BY <1>15, RealsAssumption
      DEF ListScanned, Goto, Shapes, kept, regs, Locks, Places, OnFactory, Handles, Wants
    <2>2. Holding'
      BY <1>15, RealsAssumption, ThreadsAssumption
      DEF ListScanned, Goto, Shapes, Holding, kept, regs, Locks, Places, Creating
    <2> QED  BY <2>1, <2>2 DEF IInv
  <1>16. CASE BuildSet(t)
    <2>1. Shapes'
      BY <1>16, RealsAssumption
      DEF BuildSet, Goto, GiveUp, HaveSet, Forward, Idle, Shapes, kept, regs, Locks, Places,
          OnFactory, Handles, Wants
    <2>2. Holding'
      BY <1>16, RealsAssumption, ThreadsAssumption
      DEF BuildSet, Goto, GiveUp, HaveSet, Forward, Idle, Shapes, Holding, kept, regs, Locks, Places,
          Creating
    <2> QED  BY <2>1, <2>2 DEF IInv
  <1>17. CASE SystemCollection(t)
    <2>1. Shapes'
      BY <1>17, RealsAssumption
      DEF SystemCollection, Goto, Hand, Forward, Idle, Shapes, kept, regs, Locks, Places, OnFactory,
          Handles, Wants
    <2>2. Holding'
      BY <1>17, RealsAssumption, ThreadsAssumption
      DEF SystemCollection, Goto, Hand, Forward, Idle, Shapes, Holding, kept, regs, Locks, Places,
          Creating
    <2> QED  BY <2>1, <2>2 DEF IInv
  <1>18. CASE SystemFallback(t)
    <2>1. Shapes'
      BY <1>18, RealsAssumption
      DEF SystemFallback, Goto, Idle, Shapes, kept, regs, Locks, Places, OnFactory, Handles, Wants
    <2>2. Holding'
      BY <1>18, RealsAssumption, ThreadsAssumption
      DEF SystemFallback, Goto, Idle, Shapes, Holding, kept, regs, Locks, Places, Creating
    <2> QED  BY <2>1, <2>2 DEF IInv
  <1>19. CASE WarmSystemCollection(t)
    <2>1. Shapes'
      BY <1>19, RealsAssumption
      DEF WarmSystemCollection, Goto, Shapes, kept, regs, Locks, Places, OnFactory, Handles, Wants
    <2>2. Holding'
      BY <1>19, RealsAssumption, ThreadsAssumption
      DEF WarmSystemCollection, Goto, Shapes, Holding, kept, regs, Locks, Places, Creating
    <2> QED  BY <2>1, <2>2 DEF IInv
  <1>20. CASE WarmGets(t)
    <2>1. Shapes'
      BY <1>20, RealsAssumption
      DEF WarmGets, Goto, Shapes, Pairs, kept, regs, Locks, Places, OnFactory, Handles, Wants
    <2>2. Holding'
      BY <1>20, RealsAssumption, ThreadsAssumption
      DEF WarmGets, Goto, Shapes, Holding, kept, regs, Locks, Places, Creating
    <2> QED  BY <2>1, <2>2 DEF IInv
  <1>21. CASE WarmStore(t)
    <2>1. Shapes'
      BY <1>21, RealsAssumption
      DEF WarmStore, Goto, Shapes, kept, regs, Locks, Places, OnFactory, Handles, Wants
    <2>2. Holding'
      BY <1>21, RealsAssumption, ThreadsAssumption
      DEF WarmStore, Goto, Shapes, Holding, kept, regs, Locks, Places, Creating
    <2> QED  BY <2>1, <2>2 DEF IInv
  <1>22. CASE LockFaces(t)
    <2>1. Shapes'
      BY <1>22, RealsAssumption
      DEF LockFaces, Goto, Free, Take, Shapes, kept, regs, Locks, Places, OnFactory, Handles, Wants
    <2>2. Holding'
      BY <1>22, RealsAssumption, ThreadsAssumption
      DEF LockFaces, Goto, Free, Take, Shapes, Holding, kept, regs, Locks, Places, Creating
    <2> QED  BY <2>1, <2>2 DEF IInv
  <1>23. CASE Measured(t)
    <2>1. Shapes'
      BY <1>23, RealsAssumption
      DEF Measured, Goto, GiveUp, Shapes, kept, regs, Locks, Places, OnFactory, Handles, Wants
    <2>2. Holding'
      BY <1>23, RealsAssumption, ThreadsAssumption
      DEF Measured, Goto, GiveUp, Shapes, Holding, kept, regs, Locks, Places, Creating
    <2> QED  BY <2>1, <2>2 DEF IInv
  <1> QED  BY <1>1, <1>2, <1>3, <1>4, <1>5, <1>6, <1>7, <1>8, <1>9, <1>10, <1>11, <1>12, <1>13, <1>14, <1>15, <1>16, <1>17, <1>18, <1>19, <1>20, <1>21, <1>22, <1>23 DEF Step

\* The releases of an application touch no lock.
LEMMA ReleaseStep ==
  ASSUME IInv, (\E h \in Handles : ReleaseFactory(h))
                 \/ (\E x \in Reals \X Views : ReleaseView(x)) \/ UNCHANGED vars
  PROVE  IInv'
  BY DEF IInv, Shapes, Holding, ReleaseFactory, ReleaseView, vars, regs, kept

\* Whatever threads create factories, list the fonts and measure faces at once, nobody waits
\* for a lock that comes before one it holds.
THEOREM NoWaitAgainstTheOrder == Spec => []LocksInOrder
  <1>1. IInv /\ [Next]_vars => IInv'
    BY ThreadStep, ReleaseStep DEF Next, Step
  <1> QED  BY InitIInv, HoldingInOrder, <1>1, PTL DEF Spec

\* Each of these threads waits for a lock that one of them has.
WaitForEachOther(ring) ==
    \A t \in ring : \E k \in Locks : Awaits(t, k) /\ holder[k] \in ring

\* Who holds the lock that comes last waits for none, and so back to the first.
LEMMA OrderBreaksRings ==
  ASSUME LocksInOrder, NEW ring \in SUBSET Threads, WaitForEachOther(ring)
  PROVE  ring = {}
<1> USE RealsAssumption DEF Before, Locks
<1>1. \A k \in Locks : holder[k] \in ring =>
          \E l \in Locks : Before(k, l) /\ holder[l] \in ring
  BY DEF LocksInOrder, WaitForEachOther
<1>2. holder["once"] \notin ring
  BY <1>1
<1>3. holder["factory"] \notin ring
  BY <1>1, <1>2
<1>4. holder["faces"] \notin ring
  BY <1>1, <1>2, <1>3
<1>5. holder["fontconfig"] \notin ring
  BY <1>1, <1>2, <1>3, <1>4
<1>6. \A r \in Reals : holder[r] \notin ring
  BY <1>1, <1>2, <1>3, <1>4, <1>5
<1> QED
  BY <1>2, <1>3, <1>4, <1>5, <1>6 DEF WaitForEachOther

\* However many threads there are, no set of them is ever stuck with each waiting for a lock
\* that another of them, or itself, holds (freetype.cpp:897-900, 4810-4823).
THEOREM NobodyWaitsInARing ==
    Spec => [](\A ring \in SUBSET Threads : WaitForEachOther(ring) => ring = {})
<1>1. LocksInOrder => \A ring \in SUBSET Threads : WaitForEachOther(ring) => ring = {}
  BY OrderBreaksRings
<1> QED  BY NoWaitAgainstTheOrder, <1>1, PTL

-----------------------------------------------------------------------------
(* The references *)

\* Where a thread has a reference in hand.
Wrapping == {"wrap", "proxyfor", "query"}

One(b) == IF b THEN 1 ELSE 0

\* The shares of one thread in InHand and in Kept, and libcleartype's own in Kept.
Using(t, r) == IF on[t] = r /\ pc[t] \in Wrapping THEN IF pc[t] = "proxyfor" THEN 2 ELSE 1 ELSE 0
KeptFor(h) == IF g_factories # None /\ g_factories.factory = h
              THEN IF g_factories.factory2 THEN 2 ELSE 1 ELSE 0

\* What a step of thread t leaves alone when the references add up: the references without
\* those that other threads have.
RestOfReal(t, r) ==
    refs[r] - held[Raw(r)] - KeptFor(Raw(r)) - Using(t, r) - One(result[t] = Raw(r)) - One(r \in cached)
RestOfProxy(t, r) ==
    proxy_refs[r] - held[Proxied(r)] - KeptFor(Proxied(r)) - One(result[t] = Proxied(r))
        - One(r \in cached) - One(r \in cached)
RestOfView(t, r, v) ==
    view_refs[<<r, v>>] - held_views[<<r, v>>] - One(view[<<r, v>>] # 0)
        - (IF v = Collection1 THEN One(got[t] = r) + One(g_collection = r) ELSE 0)

\* TypeOK but for the locks, which Shapes has, and for the signs of the references.
Types ==
    /\ impl \in {"pending", "loaded", "failed"}
    /\ shared \in Reals \cup {None}
    /\ refs \in [Reals -> Int]
    /\ proxy_refs \in [Reals -> Int]
    /\ cached \in SUBSET Reals
    /\ held \in [Handles -> Nat]
    /\ factory_failed \in BOOLEAN
    /\ attempted \in SUBSET Reals
    /\ set \in SUBSET Reals
    /\ scans \in [Reals -> Nat]
    /\ view \in [Reals \X Views -> Nat]
    /\ view_refs \in [Reals \X Views -> Int]
    /\ given \in [Reals \X Views -> SUBSET Nat]
    /\ held_views \in [Reals \X Views -> Nat]
    /\ fallback_attempted \in SUBSET Reals
    /\ fc \in {"pending", "loaded", "failed"}
    /\ g_collection \in Reals \cup {None}
    /\ tried \in BOOLEAN
    /\ want \in [Threads -> Wants]
    /\ got \in [Threads -> Reals \cup {None}]

\* What is in a register is there only on the way to where it is read; whoever creates the
\* factories for libcleartype has their lock, and there are none yet; a proxy that is asked is
\* cached.
Registers ==
    \A t \in Threads :
        /\ pc[t] # "keep" => result[t] = None
        /\ pc[t] # "warmstore" => got[t] = None
        /\ pc[t] = "query" => on[t] \in cached
        /\ pc[t] \in Creating /\ back[t] # "out" => holder["factory"] = t /\ g_factories = None
        /\ pc[t] \notin Creating \cup {"factories"} => back[t] = "out"

\* Nothing refers to what was not made.
NotMade ==
    /\ \A r \in Reals : r \notin cached => proxy_refs[r] = 0
    /\ \A x \in Reals \X Views : view[x] = 0 => view_refs[x] = 0
    /\ ~tried => g_collection = None

ScansAttempted == \A r \in Reals : scans[r] = One(r \in attempted)

RInv == IInv /\ Types /\ ReferencesAddUp /\ Registers /\ NotMade /\ ScansAttempted /\ OneListForAll

\* A set of threads that changes by one thread at most.
LEMMA CountMoves ==
  ASSUME NEW S \in SUBSET Threads, NEW T \in SUBSET Threads, NEW t \in Threads,
         S \ {t} = T \ {t}
  PROVE  /\ Cardinality(S) \in Nat /\ Cardinality(T) \in Nat
         /\ Cardinality(T) - One(t \in T) = Cardinality(S) - One(t \in S)
         /\ t \in S => Cardinality(S) >= 1
<1>1. IsFiniteSet(S \ {t})
  BY ThreadsAssumption, FS_Subset
<1>2. Cardinality(S \ {t}) \in Nat
  BY <1>1, FS_CardinalityType
<1>3. ASSUME NEW R \in SUBSET Threads, R \ {t} = S \ {t}
      PROVE  Cardinality(R) = Cardinality(S \ {t}) + One(t \in R)
  <2>1. CASE t \in R
    <3>1. R = (S \ {t}) \cup {t} /\ t \notin S \ {t}
      BY <1>3, <2>1
    <3> QED  BY <1>1, <2>1, <3>1, FS_AddElement DEF One
  <2>2. CASE t \notin R
    <3>1. R = S \ {t}
      BY <1>3, <2>2
    <3> QED  BY <1>2, <2>2, <3>1 DEF One
  <2> QED  BY <2>1, <2>2
<1> QED  BY <1>2, <1>3 DEF One

\* How the counts of references move with one thread.
LEMMA InHandMoves ==
  ASSUME NEW t \in Threads, NEW r,
         \A u \in Threads \ {t} : pc'[u] = pc[u] /\ on'[u] = on[u]
  PROVE  /\ InHand(r) \in Nat /\ InHand(r)' \in Nat
         /\ InHand(r)' - Using(t, r)' = InHand(r) - Using(t, r)
<1> DEFINE A == {u \in Threads : on[u] = r /\ pc[u] \in {"wrap", "proxyfor", "query"}}
           B == {u \in Threads : on[u] = r /\ pc[u] = "proxyfor"}
<1>1. A \ {t} = A' \ {t} /\ B \ {t} = B' \ {t}
  OBVIOUS
<1>2. /\ Cardinality(A) \in Nat /\ Cardinality(A') \in Nat
      /\ Cardinality(A') - One(t \in A') = Cardinality(A) - One(t \in A)
  BY <1>1, CountMoves
<1>3. /\ Cardinality(B) \in Nat /\ Cardinality(B') \in Nat
      /\ Cardinality(B') - One(t \in B') = Cardinality(B) - One(t \in B)
  BY <1>1, CountMoves
<1>4. InHand(r) = Cardinality(A) + Cardinality(B)
  BY DEF InHand
<1>5. InHand(r)' = Cardinality(A') + Cardinality(B')
  BY DEF InHand
<1>6. Using(t, r) = One(t \in A) + One(t \in B)
  BY DEF Using, One, Wrapping
<1>7. Using(t, r)' = One(t \in A') + One(t \in B')
  BY DEF Using, One, Wrapping
<1> HIDE DEF A, B
<1>8. One(t \in A) \in Nat /\ One(t \in B) \in Nat /\ One(t \in A') \in Nat /\ One(t \in B') \in Nat
  BY DEF One
<1> QED  BY <1>2, <1>3, <1>4, <1>5, <1>6, <1>7, <1>8

LEMMA ReturnedMoves ==
  ASSUME NEW t \in Threads, NEW h,
         \A u \in Threads \ {t} : result'[u] = result[u]
  PROVE  /\ Kept(h) - KeptFor(h) \in Nat /\ Kept(h)' - KeptFor(h)' \in Nat
         /\ Kept(h) \in Nat /\ Kept(h)' \in Nat
         /\ Kept(h)' - KeptFor(h)' - One(result'[t] = h) = Kept(h) - KeptFor(h) - One(result[t] = h)
<1> DEFINE A == {u \in Threads : result[u] = h}
<1>1. A \ {t} = A' \ {t}
  OBVIOUS
<1>2. /\ Cardinality(A) \in Nat /\ Cardinality(A') \in Nat
      /\ Cardinality(A') - One(t \in A') = Cardinality(A) - One(t \in A)
  BY <1>1, CountMoves
<1>3. Kept(h) = Cardinality(A) + KeptFor(h) /\ Kept(h)' = Cardinality(A') + KeptFor(h)'
  BY DEF Kept, KeptFor
<1>4. KeptFor(h) \in Nat /\ KeptFor(h)' \in Nat
  BY DEF KeptFor
<1>5. (t \in A) = (result[t] = h) /\ (t \in A') = (result'[t] = h)
  OBVIOUS
<1> HIDE DEF A
<1>6. One(result[t] = h) = One(t \in A) /\ One(result'[t] = h) = One(t \in A')
  BY <1>5 DEF One
<1>7. One(t \in A) \in Nat /\ One(t \in A') \in Nat
  BY DEF One
<1> QED  BY <1>2, <1>3, <1>4, <1>6, <1>7

\* The threads that have a reference on the legacy collection of r in hand.
Borrowed(r) == Cardinality({t \in Threads : got[t] = r})

LEMMA BorrowedMoves ==
  ASSUME NEW t \in Threads, NEW r,
         \A u \in Threads \ {t} : got'[u] = got[u]
  PROVE  /\ Borrowed(r) \in Nat /\ Borrowed(r)' \in Nat
         /\ Borrowed(r)' - One(got'[t] = r) = Borrowed(r) - One(got[t] = r)
<1> DEFINE A == {u \in Threads : got[u] = r}
<1>1. A \ {t} = A' \ {t}
  OBVIOUS
<1>2. /\ Cardinality(A) \in Nat /\ Cardinality(A') \in Nat
      /\ Cardinality(A') - One(t \in A') = Cardinality(A) - One(t \in A)
  BY <1>1, CountMoves
<1>3. One(got[t] = r) = One(t \in A) /\ One(got'[t] = r) = One(t \in A')
  BY DEF One
<1> QED  BY <1>2, <1>3 DEF Borrowed

\* A step of thread t after which the rest is what it was leaves the references adding up.
LEMMA StillAddUp ==
  ASSUME RInv, Types', Shapes', NEW t \in Threads,
         \A u \in Threads \ {t} : /\ pc'[u] = pc[u] /\ on'[u] = on[u]
                                  /\ result'[u] = result[u] /\ got'[u] = got[u],
         \A r \in Reals : RestOfReal(t, r)' = RestOfReal(t, r),
         \A r \in Reals : RestOfProxy(t, r)' = RestOfProxy(t, r),
         \A r \in Reals, v \in Views : RestOfView(t, r, v)' = RestOfView(t, r, v)
  PROVE  ReferencesAddUp'
<1>1. ASSUME NEW r \in Reals
      PROVE  refs'[r] = held'[Raw(r)] + InHand(r)' + Kept(Raw(r))' + (IF r \in cached' THEN 1 ELSE 0)
  <2>1. refs[r] = held[Raw(r)] + InHand(r) + Kept(Raw(r)) + One(r \in cached)
    BY DEF RInv, ReferencesAddUp, One
  <2>2. /\ refs[r] \in Int /\ refs'[r] \in Int /\ Raw(r) \in Handles
        /\ held[Raw(r)] \in Nat /\ held'[Raw(r)] \in Nat
    BY DEF RInv, Types, Handles, Raw
  <2>3. /\ InHand(r) \in Nat /\ InHand(r)' \in Nat
        /\ InHand(r)' - Using(t, r)' = InHand(r) - Using(t, r)
    BY InHandMoves
  <2>4. /\ Kept(Raw(r)) - KeptFor(Raw(r)) \in Nat /\ Kept(Raw(r))' - KeptFor(Raw(r))' \in Nat
        /\ Kept(Raw(r)) \in Nat /\ Kept(Raw(r))' \in Nat
        /\ Kept(Raw(r))' - KeptFor(Raw(r))' - One(result'[t] = Raw(r))
              = Kept(Raw(r)) - KeptFor(Raw(r)) - One(result[t] = Raw(r))
    BY ReturnedMoves
  <2>5. refs'[r] - held'[Raw(r)] - KeptFor(Raw(r))' - Using(t, r)' - One(result'[t] = Raw(r))
             - One(r \in cached')
          = refs[r] - held[Raw(r)] - KeptFor(Raw(r)) - Using(t, r) - One(result[t] = Raw(r))
             - One(r \in cached)
    BY DEF RestOfReal
  <2>6. /\ KeptFor(Raw(r)) \in Nat /\ KeptFor(Raw(r))' \in Nat
        /\ Using(t, r) \in Nat /\ Using(t, r)' \in Nat
        /\ One(result[t] = Raw(r)) \in Nat /\ One(result'[t] = Raw(r)) \in Nat
        /\ One(r \in cached) \in Nat /\ One(r \in cached') \in Nat
    BY DEF KeptFor, Using, One
  <2>7. refs'[r] = held'[Raw(r)] + InHand(r)' + Kept(Raw(r))' + One(r \in cached')
    <3> DEFINE h == held[Raw(r)]          h1 == held'[Raw(r)]
               i == InHand(r)             i1 == InHand(r)'
               k == Kept(Raw(r))          k1 == Kept(Raw(r))'
               f == KeptFor(Raw(r))       f1 == KeptFor(Raw(r))'
               u == Using(t, r)           u1 == Using(t, r)'
               o == One(result[t] = Raw(r)) o1 == One(result'[t] = Raw(r))
               c == One(r \in cached)     c1 == One(r \in cached')
               n == refs[r]               n1 == refs'[r]
    <3>1. /\ {h, h1, i, i1, k, k1, f, f1, u, u1, o, o1, c, c1, n, n1} \subseteq Int
          /\ n = h + i + k + c
          /\ i1 - u1 = i - u
          /\ k1 - f1 - o1 = k - f - o
          /\ n1 - h1 - f1 - u1 - o1 - c1 = n - h - f - u - o - c
      BY <2>1, <2>2, <2>3, <2>4, <2>5, <2>6
    <3>2. n1 = h1 + i1 + k1 + c1
      <4> HIDE DEF h, h1, i, i1, k, k1, f, f1, u, u1, o, o1, c, c1, n, n1
      <4> QED  BY <3>1
    <3> QED  BY <3>2
  <2> QED  BY <2>7 DEF One
<1>2. ASSUME NEW r \in Reals
      PROVE  proxy_refs'[r] = held'[Proxied(r)] + Kept(Proxied(r))' + (IF r \in cached' THEN 2 ELSE 0)
  <2>2. /\ proxy_refs[r] \in Int /\ proxy_refs'[r] \in Int /\ Proxied(r) \in Handles
        /\ held[Proxied(r)] \in Nat /\ held'[Proxied(r)] \in Nat
    BY DEF RInv, Types, Handles, Proxied
  <2>4. /\ Kept(Proxied(r)) \in Nat /\ Kept(Proxied(r))' \in Nat
        /\ Kept(Proxied(r))' - KeptFor(Proxied(r))' - One(result'[t] = Proxied(r))
              = Kept(Proxied(r)) - KeptFor(Proxied(r)) - One(result[t] = Proxied(r))
    BY ReturnedMoves
  <2>5. proxy_refs'[r] - held'[Proxied(r)] - KeptFor(Proxied(r))' - One(result'[t] = Proxied(r))
             - One(r \in cached') - One(r \in cached')
          = proxy_refs[r] - held[Proxied(r)] - KeptFor(Proxied(r)) - One(result[t] = Proxied(r))
             - One(r \in cached) - One(r \in cached)
    BY DEF RestOfProxy
  <2>6. /\ KeptFor(Proxied(r)) \in Nat /\ KeptFor(Proxied(r))' \in Nat
        /\ One(result[t] = Proxied(r)) \in Nat /\ One(result'[t] = Proxied(r)) \in Nat
        /\ One(r \in cached) \in Nat /\ One(r \in cached') \in Nat
    BY DEF KeptFor, One
  <2>7. proxy_refs[r] = held[Proxied(r)] + Kept(Proxied(r)) + One(r \in cached) + One(r \in cached)
    <3>1. proxy_refs[r] = held[Proxied(r)] + Kept(Proxied(r)) + (IF r \in cached THEN 2 ELSE 0)
      BY DEF RInv, ReferencesAddUp
    <3>2. CASE r \in cached
      BY <2>2, <2>4, <3>1, <3>2 DEF One
    <3>3. CASE r \notin cached
      BY <2>2, <2>4, <3>1, <3>3 DEF One
    <3> QED  BY <3>2, <3>3
  <2>8. proxy_refs'[r] = held'[Proxied(r)] + Kept(Proxied(r))' + One(r \in cached') + One(r \in cached')
    BY <2>2, <2>4, <2>5, <2>6, <2>7
  <2>9. CASE r \in cached'
    BY <2>2, <2>4, <2>8, <2>9 DEF One
  <2>10. CASE r \notin cached'
    BY <2>2, <2>4, <2>8, <2>10 DEF One
  <2> QED  BY <2>9, <2>10
<1>3. ASSUME NEW r \in Reals, NEW v \in Views
      PROVE  view_refs'[<<r, v>>] =
                held_views'[<<r, v>>]
                + (IF view'[<<r, v>>] = 0 THEN 0 ELSE 1)
                + (IF v = Collection1
                   THEN Cardinality({u \in Threads : got'[u] = r})
                            + (IF g_collection' = r THEN 1 ELSE 0)
                   ELSE 0)
  <2>1. view_refs[<<r, v>>] = held_views[<<r, v>>] + One(view[<<r, v>>] # 0)
            + (IF v = Collection1 THEN Borrowed(r) + One(g_collection = r) ELSE 0)
    BY DEF RInv, ReferencesAddUp, One, Borrowed
  <2>2. /\ Borrowed(r) \in Nat /\ Borrowed(r)' \in Nat
        /\ Borrowed(r)' - One(got'[t] = r) = Borrowed(r) - One(got[t] = r)
    BY BorrowedMoves
  <2>3. /\ view_refs[<<r, v>>] \in Int /\ view_refs'[<<r, v>>] \in Int
        /\ held_views[<<r, v>>] \in Nat /\ held_views'[<<r, v>>] \in Nat
    BY DEF RInv, Types
  <2>4. view_refs'[<<r, v>>] - held_views'[<<r, v>>] - One(view'[<<r, v>>] # 0)
             - (IF v = Collection1 THEN One(got'[t] = r) + One(g_collection' = r) ELSE 0)
          = view_refs[<<r, v>>] - held_views[<<r, v>>] - One(view[<<r, v>>] # 0)
             - (IF v = Collection1 THEN One(got[t] = r) + One(g_collection = r) ELSE 0)
    BY DEF RestOfView
  <2>5. /\ One(got'[t] = r) \in Nat /\ One(g_collection' = r) \in Nat
        /\ One(got[t] = r) \in Nat /\ One(g_collection = r) \in Nat
        /\ One(view'[<<r, v>>] # 0) \in Nat /\ One(view[<<r, v>>] # 0) \in Nat
    BY DEF One
  <2>6. view_refs'[<<r, v>>] = held_views'[<<r, v>>] + One(view'[<<r, v>>] # 0)
            + (IF v = Collection1 THEN Borrowed(r)' + One(g_collection' = r) ELSE 0)
    <3> DEFINE n == view_refs[<<r, v>>]         n1 == view_refs'[<<r, v>>]
               h == held_views[<<r, v>>]        h1 == held_views'[<<r, v>>]
               m == One(view[<<r, v>>] # 0)     m1 == One(view'[<<r, v>>] # 0)
               g == One(got[t] = r)             g1 == One(got'[t] = r)
               c == One(g_collection = r)       c1 == One(g_collection' = r)
               b == Borrowed(r)                 b1 == Borrowed(r)'
               o == (v = Collection1)
    <3>1. /\ {n, n1, h, h1, m, m1, g, g1, c, c1, b, b1} \subseteq Int /\ o \in BOOLEAN
          /\ n = h + m + (IF o THEN b + c ELSE 0)
          /\ b1 - g1 = b - g
          /\ n1 - h1 - m1 - (IF o THEN g1 + c1 ELSE 0) = n - h - m - (IF o THEN g + c ELSE 0)
      BY <2>1, <2>2, <2>3, <2>4, <2>5
    <3>2. n1 = h1 + m1 + (IF o THEN b1 + c1 ELSE 0)
      <4> HIDE DEF n, n1, h, h1, m, m1, g, g1, c, c1, b, b1, o
      <4>1. CASE o
        <5>1. n = h + m + b + c /\ n1 - h1 - m1 - g1 - c1 = n - h - m - g - c
          BY <3>1, <4>1
        <5>2. n1 \in Int /\ h1 \in Int /\ m1 \in Int /\ g1 \in Int /\ c1 \in Int /\ b1 \in Int
              /\ n \in Int /\ h \in Int /\ m \in Int /\ g \in Int /\ c \in Int /\ b \in Int
          BY <3>1
        <5>3. b1 = b - g + g1
          BY <3>1, <5>2
        <5>4. n1 = h1 + m1 + (b1 + c1)
          BY <5>1, <5>2, <5>3
        <5> QED  BY <4>1, <5>4
      <4>2. CASE ~o
        BY <3>1, <4>2
      <4> QED  BY <4>1, <4>2
    <3> QED  BY <3>2
  <2> QED  BY <2>6 DEF One, Borrowed
<1> QED  BY <1>1, <1>2, <1>3 DEF ReferencesAddUp

\* A step of a thread leaves every other where it was, with what it had.
LEMMA OthersStand ==
  ASSUME Shapes, Types, NEW t \in Threads, Step(t), NEW u \in Threads \ {t}
  PROVE  /\ pc'[u] = pc[u] /\ back'[u] = back[u] /\ on'[u] = on[u]
         /\ want'[u] = want[u] /\ result'[u] = result[u] /\ got'[u] = got[u]
<1> USE DEF Shapes, Types, regs, Goto
<1>1. CASE AppCreates(t) \/ AppGets(t) \/ Measure(t)
  BY <1>1 DEF AppCreates, AppGets, Measure
<1>2. CASE GetImpl(t) \/ LoadImpl(t)
  BY <1>2 DEF GetImpl, LoadImpl, Created
<1>3. CASE CreateReal(t) \/ WrapFactory(t)
  BY <1>3 DEF CreateReal, WrapFactory, Created
<1>4. CASE ProxyFor(t) \/ QueryProxy(t)
  BY <1>4 DEF ProxyFor, QueryProxy, Created
<1>5. CASE GetFactories(t) \/ KeepFactories(t)
  BY <1>5 DEF GetFactories, KeepFactories
<1>6. CASE SystemFontSet(t)
  BY <1>6 DEF SystemFontSet, HaveSet, Forward, Idle
<1>7. CASE EnumerateFontFiles(t) \/ LoadFontconfig(t) \/ ListScanned(t)
  BY <1>7 DEF EnumerateFontFiles, LoadFontconfig, ListScanned
<1>8. CASE BuildSet(t)
  BY <1>8 DEF BuildSet, HaveSet, Forward, Idle
<1>9. CASE SystemCollection(t)
  BY <1>9 DEF SystemCollection, Hand, Forward, Idle
<1>10. CASE SystemFallback(t) \/ WarmSystemCollection(t) \/ WarmGets(t)
  BY <1>10 DEF SystemFallback, Idle, WarmSystemCollection, WarmGets
<1>11. CASE WarmStore(t) \/ LockFaces(t) \/ Measured(t)
  BY <1>11 DEF WarmStore, LockFaces, Measured
<1> QED
  BY <1>1, <1>2, <1>3, <1>4, <1>5, <1>6, <1>7, <1>8, <1>9, <1>10, <1>11 DEF Step

\* The steps that touch no reference on a factory are taken with none in hand.
LEMMA FactoriesUntouched ==
  ASSUME Shapes, Holding, Types, NEW t \in Threads, Step(t),
         ~GetImpl(t), ~CreateReal(t), ~WrapFactory(t), ~ProxyFor(t), ~QueryProxy(t), ~KeepFactories(t)
  PROVE  /\ UNCHANGED <<shared, refs, proxy_refs, cached, held, g_factories, result>>
         /\ pc[t] \notin Wrapping /\ pc'[t] \notin Wrapping
<1> USE DEF Shapes, Goto, Wrapping, factories, kept, regs
<1>1. CASE AppCreates(t) \/ AppGets(t) \/ Measure(t) \/ LoadImpl(t)
  BY <1>1 DEF AppCreates, AppGets, Measure, LoadImpl
<1>2. CASE GetFactories(t)
  BY <1>2 DEF GetFactories
<1>3. CASE SystemFontSet(t)
  BY <1>3 DEF SystemFontSet, HaveSet, Forward
<1>4. CASE EnumerateFontFiles(t) \/ LoadFontconfig(t) \/ ListScanned(t)
  BY <1>4 DEF EnumerateFontFiles, LoadFontconfig, ListScanned, MayScan, Enumerated
<1>5. CASE BuildSet(t)
  BY <1>5 DEF BuildSet, HaveSet, Forward
<1>6. CASE SystemCollection(t)
  BY <1>6 DEF SystemCollection, Hand, Forward
<1>7. CASE SystemFallback(t) \/ WarmSystemCollection(t) \/ WarmGets(t)
  BY <1>7 DEF SystemFallback, WarmSystemCollection, WarmGets
<1>8. CASE WarmStore(t) \/ LockFaces(t) \/ Measured(t)
  BY <1>8 DEF WarmStore, LockFaces, Measured
<1> QED
  BY <1>1, <1>2, <1>3, <1>4, <1>5, <1>6, <1>7, <1>8 DEF Step

\* The steps that touch no reference on a collection.
LEMMA ViewsUntouched ==
  ASSUME Shapes, Types, NEW t \in Threads, Step(t), ~SystemCollection(t), ~WarmStore(t)
  PROVE  UNCHANGED <<views, warm, got>>
<1> USE DEF Types, regs, views
<1>1. CASE AppCreates(t) \/ AppGets(t) \/ Measure(t) \/ GetImpl(t) \/ LoadImpl(t)
  BY <1>1 DEF AppCreates, AppGets, Measure, GetImpl, LoadImpl
<1>2. CASE CreateReal(t) \/ WrapFactory(t) \/ ProxyFor(t) \/ QueryProxy(t)
  BY <1>2 DEF CreateReal, WrapFactory, ProxyFor, QueryProxy
<1>3. CASE GetFactories(t) \/ KeepFactories(t)
  BY <1>3 DEF GetFactories, KeepFactories
<1>4. CASE SystemFontSet(t) \/ BuildSet(t)
  BY <1>4 DEF SystemFontSet, BuildSet, HaveSet, Forward
<1>5. CASE EnumerateFontFiles(t) \/ LoadFontconfig(t) \/ ListScanned(t)
  BY <1>5 DEF EnumerateFontFiles, LoadFontconfig, ListScanned
<1>6. CASE SystemFallback(t) \/ WarmSystemCollection(t) \/ WarmGets(t)
  BY <1>6 DEF SystemFallback, WarmSystemCollection, WarmGets
<1>7. CASE LockFaces(t) \/ Measured(t)
  BY <1>7 DEF LockFaces, Measured
<1> QED
  BY <1>1, <1>2, <1>3, <1>4, <1>5, <1>6, <1>7 DEF Step

\* A reference that DWriteCoreCreateFactory answers with goes to the application or into the
\* register of GetFactories, and to nobody when there is none.
LEMMA CreatedHands ==
  ASSUME Shapes, Types, NEW t \in Threads, result[t] = None,
         NEW h \in Handles \cup {None}, Created(t, h), UNCHANGED kept, NEW x \in Handles
  PROVE  /\ held'[x] + One(result'[t] = x) = held[x] + One(result[t] = x) + One(x = h)
         /\ KeptFor(x)' = KeptFor(x)
         /\ pc'[t] \notin Wrapping
         /\ held'[x] \in Nat
<1>1. x # None /\ held[x] \in Nat
  BY NoneAssumption DEF Types
<1>2. KeptFor(x)' = KeptFor(x)
  BY DEF KeptFor, kept
<1>3. CASE back[t] = "out"
  <2>1. /\ pc' = [pc EXCEPT ![t] = "out"] /\ result' = result
        /\ held' = IF h = None THEN held ELSE [held EXCEPT ![h] = @ + 1]
    BY <1>3 DEF Created, Goto
  <2>2. held'[x] = held[x] + One(x = h)
    BY <1>1, <2>1 DEF Types, One
  <2>3. One(x = h) \in Nat /\ One(result[t] = x) = 0
    BY <1>1 DEF One
  <2> QED  BY <1>1, <1>2, <2>1, <2>2, <2>3 DEF Shapes, Wrapping
<1>4. CASE back[t] # "out"
  <2>1. pc' = [pc EXCEPT ![t] = "keep"] /\ result' = [result EXCEPT ![t] = h] /\ held' = held
    BY <1>4 DEF Created, Goto
  <2>2. One(result'[t] = x) = One(x = h) /\ One(result[t] = x) = 0 /\ One(x = h) \in Nat
    BY <1>1, <2>1 DEF Shapes, One
  <2> QED  BY <1>1, <1>2, <2>1, <2>2 DEF Shapes, Wrapping
<1> QED  BY <1>3, <1>4

\* Every step of a thread moves the references on factories and proxies by what it takes in
\* hand, keeps, hands out and caches.
LEMMA FactoriesBalance ==
  ASSUME RInv, Types', NEW t \in Threads, Step(t), NEW r \in Reals
  PROVE  RestOfReal(t, r)' = RestOfReal(t, r) /\ RestOfProxy(t, r)' = RestOfProxy(t, r)
<1> USE DEF RInv, IInv
<1> DEFINE SameKept == /\ KeptFor(Raw(r))' = KeptFor(Raw(r))
                       /\ KeptFor(Proxied(r))' = KeptFor(Proxied(r))
<1>1. /\ Raw(r) \in Handles /\ Proxied(r) \in Handles
      /\ \A s \in Reals : /\ Raw(s) \in Handles /\ Proxied(s) \in Handles
                          /\ Raw(r) # Proxied(s) /\ Proxied(r) # Raw(s)
                          /\ (Raw(s) = Raw(r)) = (s = r) /\ (Proxied(s) = Proxied(r)) = (s = r)
  BY DEF Raw, Proxied, Handles
<1>2. /\ refs[r] \in Int /\ refs'[r] \in Int /\ proxy_refs[r] \in Int /\ proxy_refs'[r] \in Int
      /\ held[Raw(r)] \in Nat /\ held'[Raw(r)] \in Nat
      /\ held[Proxied(r)] \in Nat /\ held'[Proxied(r)] \in Nat
  BY <1>1 DEF Types
<1>3. /\ One(r \in cached) \in Nat /\ One(r \in cached') \in Nat
      /\ One(result[t] = Raw(r)) \in Nat /\ One(result'[t] = Raw(r)) \in Nat
      /\ One(result[t] = Proxied(r)) \in Nat /\ One(result'[t] = Proxied(r)) \in Nat
      /\ KeptFor(Raw(r)) \in Nat /\ KeptFor(Raw(r))' \in Nat
      /\ KeptFor(Proxied(r)) \in Nat /\ KeptFor(Proxied(r))' \in Nat
      /\ Using(t, r) \in Nat /\ Using(t, r)' \in Nat
  BY DEF One, KeptFor, Using
<1>4. One(on[t] = r) \in Nat /\ \A s : One(s = r) \in Nat
  BY DEF One
<1>5. CASE ~GetImpl(t) /\ ~CreateReal(t) /\ ~WrapFactory(t) /\ ~ProxyFor(t) /\ ~QueryProxy(t)
             /\ ~KeepFactories(t)
  <2>1. /\ UNCHANGED <<shared, refs, proxy_refs, cached, held, g_factories, result>>
        /\ pc[t] \notin Wrapping /\ pc'[t] \notin Wrapping
    BY <1>5, FactoriesUntouched
  <2>2. Using(t, r)' = Using(t, r) /\ SameKept
    BY <2>1 DEF Using, KeptFor
  <2> QED  BY <2>1, <2>2 DEF RestOfReal, RestOfProxy
<1>6. CASE GetImpl(t)
  <2>1. /\ pc[t] = "once" /\ UNCHANGED <<refs, proxy_refs, cached, kept>>
        /\ \/ UNCHANGED <<held, result>> /\ pc'[t] \in {"load", "create"}
           \/ Created(t, None)
    BY <1>6 DEF GetImpl, Goto, Shapes
  <2>2. Using(t, r) = 0 /\ SameKept
    BY <2>1 DEF Using, Wrapping, KeptFor, kept
  <2>3. CASE UNCHANGED <<held, result>> /\ pc'[t] \in {"load", "create"}
    <3>1. Using(t, r)' = 0
      BY <2>3 DEF Using, Wrapping
    <3> QED  BY <2>1, <2>2, <2>3, <3>1 DEF RestOfReal, RestOfProxy
  <2>4. CASE Created(t, None)
    <3>1. \A x \in Handles : /\ held'[x] + One(result'[t] = x)
                                  = held[x] + One(result[t] = x) + One(x = None)
                             /\ x # None /\ pc'[t] \notin Wrapping
      BY <2>1, <2>4, CreatedHands, NoneAssumption DEF Registers
    <3>2. Using(t, r)' = 0 /\ \A x \in Handles : One(x = None) = 0
      BY <1>1, <3>1 DEF Using, One
    <3>3. /\ held'[Raw(r)] + One(result'[t] = Raw(r)) = held[Raw(r)] + One(result[t] = Raw(r))
          /\ held'[Proxied(r)] + One(result'[t] = Proxied(r)) = held[Proxied(r)] + One(result[t] = Proxied(r))
      BY <1>1, <1>2, <1>3, <3>1, <3>2
    <3>4. /\ refs'[r] = refs[r]
          /\ held'[Raw(r)] + One(result'[t] = Raw(r)) = held[Raw(r)] + One(result[t] = Raw(r))
          /\ KeptFor(Raw(r))' = KeptFor(Raw(r)) /\ One(r \in cached') = One(r \in cached)
          /\ Using(t, r) = 0 /\ Using(t, r)' = 0
      BY <1>1, <2>1, <2>2, <3>1, <3>2, <3>3
    <3>5. RestOfReal(t, r)' = RestOfReal(t, r)
      BY <1>2, <1>3, <1>4, <3>4 DEF RestOfReal
    <3>6. /\ proxy_refs'[r] = proxy_refs[r]
          /\ held'[Proxied(r)] + One(result'[t] = Proxied(r)) = held[Proxied(r)] + One(result[t] = Proxied(r))
          /\ KeptFor(Proxied(r))' = KeptFor(Proxied(r)) /\ One(r \in cached') = One(r \in cached)
      BY <1>1, <2>1, <2>2, <3>1, <3>2, <3>3
    <3>7. RestOfProxy(t, r)' = RestOfProxy(t, r)
      BY <1>2, <1>3, <1>4, <3>6 DEF RestOfProxy
    <3> QED  BY <3>5, <3>7
  <2> QED  BY <2>1, <2>3, <2>4
<1>7. CASE CreateReal(t)
  <2>1. /\ pc[t] = "create" /\ UNCHANGED <<proxy_refs, cached, kept>>
    BY <1>7 DEF CreateReal
  <2>2. Using(t, r) = 0 /\ SameKept
    BY <2>1 DEF Using, Wrapping, KeptFor, kept
  <2>3. ASSUME NEW s \in Reals, refs' = [refs EXCEPT ![s] = @ + 1], on' = [on EXCEPT ![t] = s],
               Goto(t, "wrap"), UNCHANGED <<held, result>>
        PROVE  RestOfReal(t, r)' = RestOfReal(t, r) /\ RestOfProxy(t, r)' = RestOfProxy(t, r)
    <3>1. Using(t, r)' = One(s = r)
      BY <2>3 DEF Using, Wrapping, One, Goto, Shapes
    <3>2. refs'[r] = refs[r] + One(s = r)
      BY <2>3 DEF Types, One
    <3>3. /\ refs'[r] = refs[r] + One(s = r)
          /\ held'[Raw(r)] + One(result'[t] = Raw(r)) = held[Raw(r)] + One(result[t] = Raw(r))
          /\ KeptFor(Raw(r))' = KeptFor(Raw(r)) /\ One(r \in cached') = One(r \in cached)
          /\ Using(t, r) = 0 /\ Using(t, r)' = One(s = r)
      BY <2>1, <2>2, <2>3, <3>1, <3>2
    <3>4. RestOfReal(t, r)' = RestOfReal(t, r)
      BY <1>2, <1>3, <1>4, <3>3 DEF RestOfReal
    <3>5. /\ proxy_refs'[r] = proxy_refs[r]
          /\ held'[Proxied(r)] + One(result'[t] = Proxied(r)) = held[Proxied(r)] + One(result[t] = Proxied(r))
          /\ KeptFor(Proxied(r))' = KeptFor(Proxied(r)) /\ One(r \in cached') = One(r \in cached)
      BY <2>1, <2>2, <2>3, <3>1, <3>2
    <3>6. RestOfProxy(t, r)' = RestOfProxy(t, r)
      BY <1>2, <1>3, <1>4, <3>5 DEF RestOfProxy
    <3> QED  BY <3>4, <3>6
  <2>4. CASE Created(t, None) /\ UNCHANGED <<shared, refs>>
    <3>1. \A x \in Handles : /\ held'[x] + One(result'[t] = x)
                                  = held[x] + One(result[t] = x) + One(x = None)
                             /\ x # None /\ pc'[t] \notin Wrapping
      BY <2>1, <2>4, CreatedHands, NoneAssumption DEF Registers
    <3>2. Using(t, r)' = 0 /\ \A x \in Handles : One(x = None) = 0
      BY <1>1, <3>1 DEF Using, One
    <3>3. /\ held'[Raw(r)] + One(result'[t] = Raw(r)) = held[Raw(r)] + One(result[t] = Raw(r))
          /\ held'[Proxied(r)] + One(result'[t] = Proxied(r)) = held[Proxied(r)] + One(result[t] = Proxied(r))
      BY <1>1, <1>2, <1>3, <3>1, <3>2
    <3>4. /\ refs'[r] = refs[r]
          /\ held'[Raw(r)] + One(result'[t] = Raw(r)) = held[Raw(r)] + One(result[t] = Raw(r))
          /\ KeptFor(Raw(r))' = KeptFor(Raw(r)) /\ One(r \in cached') = One(r \in cached)
          /\ Using(t, r) = 0 /\ Using(t, r)' = 0
      BY <1>1, <2>1, <2>2, <2>4, <3>1, <3>2, <3>3
    <3>5. RestOfReal(t, r)' = RestOfReal(t, r)
      BY <1>2, <1>3, <1>4, <3>4 DEF RestOfReal
    <3>6. /\ proxy_refs'[r] = proxy_refs[r]
          /\ held'[Proxied(r)] + One(result'[t] = Proxied(r)) = held[Proxied(r)] + One(result[t] = Proxied(r))
          /\ KeptFor(Proxied(r))' = KeptFor(Proxied(r)) /\ One(r \in cached') = One(r \in cached)
      BY <1>1, <2>1, <2>2, <2>4, <3>1, <3>2, <3>3
    <3>7. RestOfProxy(t, r)' = RestOfProxy(t, r)
      BY <1>2, <1>3, <1>4, <3>6 DEF RestOfProxy
    <3> QED  BY <3>5, <3>7
  <2> QED  BY <1>7, <2>3, <2>4 DEF CreateReal
<1>8. CASE WrapFactory(t)
  <2>1. /\ pc[t] = "wrap" /\ UNCHANGED <<proxy_refs, cached, kept>> /\ on[t] \in Reals
    BY <1>8 DEF WrapFactory, Shapes, OnFactory
  <2>2. Using(t, r) = One(on[t] = r) /\ SameKept
    BY <2>1 DEF Using, Wrapping, KeptFor, kept, One
  <2>3. CASE Created(t, Raw(on[t])) /\ UNCHANGED refs
    <3>1. \A x \in Handles : /\ held'[x] + One(result'[t] = x)
                                  = held[x] + One(result[t] = x) + One(x = Raw(on[t]))
                             /\ pc'[t] \notin Wrapping
      BY <1>1, <2>1, <2>3, CreatedHands DEF Registers
    <3>2. Using(t, r)' = 0 /\ One(Raw(r) = Raw(on[t])) = One(on[t] = r) /\ One(Proxied(r) = Raw(on[t])) = 0
      BY <1>1, <2>1, <3>1 DEF Using, One
    <3>3. /\ held'[Raw(r)] + One(result'[t] = Raw(r)) = held[Raw(r)] + One(result[t] = Raw(r)) + One(on[t] = r)
          /\ held'[Proxied(r)] + One(result'[t] = Proxied(r)) = held[Proxied(r)] + One(result[t] = Proxied(r))
      BY <1>1, <1>2, <1>3, <3>1, <3>2
    <3>4. /\ refs'[r] = refs[r]
          /\ held'[Raw(r)] + One(result'[t] = Raw(r)) = held[Raw(r)] + One(result[t] = Raw(r)) + One(on[t] = r)
          /\ KeptFor(Raw(r))' = KeptFor(Raw(r)) /\ One(r \in cached') = One(r \in cached)
          /\ Using(t, r) = One(on[t] = r) /\ Using(t, r)' = 0
      BY <2>1, <2>2, <2>3, <3>2, <3>3
    <3>5. RestOfReal(t, r)' = RestOfReal(t, r)
      BY <1>2, <1>3, <1>4, <3>4 DEF RestOfReal
    <3>6. /\ proxy_refs'[r] = proxy_refs[r]
          /\ held'[Proxied(r)] + One(result'[t] = Proxied(r)) = held[Proxied(r)] + One(result[t] = Proxied(r))
          /\ KeptFor(Proxied(r))' = KeptFor(Proxied(r)) /\ One(r \in cached') = One(r \in cached)
      BY <2>1, <2>2, <2>3, <3>2, <3>3
    <3>7. RestOfProxy(t, r)' = RestOfProxy(t, r)
      BY <1>2, <1>3, <1>4, <3>6 DEF RestOfProxy
    <3> QED  BY <3>5, <3>7
  <2>4. CASE refs' = [refs EXCEPT ![on[t]] = @ + 1] /\ Goto(t, "proxyfor") /\ UNCHANGED <<held, result, on>>
    <3>1. Using(t, r)' = One(on[t] = r) + One(on[t] = r)
      BY <2>4 DEF Using, Wrapping, One, Goto, Shapes
    <3>2. refs'[r] = refs[r] + One(on[t] = r)
      BY <2>1, <2>4 DEF Types, One
    <3>3. /\ refs'[r] = refs[r] + One(on[t] = r)
          /\ held'[Raw(r)] + One(result'[t] = Raw(r)) = held[Raw(r)] + One(result[t] = Raw(r))
          /\ KeptFor(Raw(r))' = KeptFor(Raw(r)) /\ One(r \in cached') = One(r \in cached)
          /\ Using(t, r) = One(on[t] = r) /\ Using(t, r)' = One(on[t] = r) + One(on[t] = r)
      BY <2>1, <2>2, <2>4, <3>1, <3>2
    <3>4. RestOfReal(t, r)' = RestOfReal(t, r)
      BY <1>2, <1>3, <1>4, <3>3 DEF RestOfReal
    <3>5. /\ proxy_refs'[r] = proxy_refs[r]
          /\ held'[Proxied(r)] + One(result'[t] = Proxied(r)) = held[Proxied(r)] + One(result[t] = Proxied(r))
          /\ KeptFor(Proxied(r))' = KeptFor(Proxied(r)) /\ One(r \in cached') = One(r \in cached)
      BY <2>1, <2>2, <2>4, <3>1, <3>2
    <3>6. RestOfProxy(t, r)' = RestOfProxy(t, r)
      BY <1>2, <1>3, <1>4, <3>5 DEF RestOfProxy
    <3> QED  BY <3>4, <3>6
  <2> QED  BY <1>8, <2>3, <2>4 DEF WrapFactory
<1>9. CASE ProxyFor(t)
  <2>1. /\ pc[t] = "proxyfor" /\ UNCHANGED kept /\ on[t] \in Reals
    BY <1>9 DEF ProxyFor, Shapes, OnFactory
  <2>2. Using(t, r) = One(on[t] = r) + One(on[t] = r) /\ SameKept
    BY <2>1 DEF Using, Wrapping, KeptFor, kept, One
  <2>3. CASE /\ refs' = Surplus(on[t]) /\ Goto(t, "query")
             /\ UNCHANGED <<proxy_refs, cached, held, result, on>>
    <3>1. Using(t, r)' = One(on[t] = r)
      BY <2>3 DEF Using, Wrapping, One, Goto, Shapes
    <3>2. refs'[r] = refs[r] - One(on[t] = r)
      BY <2>1, <2>3 DEF Types, One, Surplus
    <3>3. /\ refs'[r] = refs[r] - One(on[t] = r)
          /\ held'[Raw(r)] + One(result'[t] = Raw(r)) = held[Raw(r)] + One(result[t] = Raw(r))
          /\ KeptFor(Raw(r))' = KeptFor(Raw(r)) /\ One(r \in cached') = One(r \in cached)
          /\ Using(t, r) = One(on[t] = r) + One(on[t] = r) /\ Using(t, r)' = One(on[t] = r)
      BY <2>1, <2>2, <2>3, <3>1, <3>2
    <3>4. RestOfReal(t, r)' = RestOfReal(t, r)
      BY <1>2, <1>3, <1>4, <3>3 DEF RestOfReal
    <3>5. /\ proxy_refs'[r] = proxy_refs[r]
          /\ held'[Proxied(r)] + One(result'[t] = Proxied(r)) = held[Proxied(r)] + One(result[t] = Proxied(r))
          /\ KeptFor(Proxied(r))' = KeptFor(Proxied(r)) /\ One(r \in cached') = One(r \in cached)
      BY <2>1, <2>2, <2>3, <3>1, <3>2
    <3>6. RestOfProxy(t, r)' = RestOfProxy(t, r)
      BY <1>2, <1>3, <1>4, <3>5 DEF RestOfProxy
    <3> QED  BY <3>4, <3>6
  <2>4. CASE /\ on[t] \notin cached /\ cached' = cached \cup {on[t]}
             /\ proxy_refs' = [proxy_refs EXCEPT ![on[t]] = 2] /\ Goto(t, "query")
             /\ UNCHANGED <<refs, held, result, on>>
    <3>1. Using(t, r)' = One(on[t] = r)
      BY <2>4 DEF Using, Wrapping, One, Goto, Shapes
    <3>2. /\ One(r \in cached') = One(r \in cached) + One(on[t] = r)
          /\ proxy_refs'[r] = proxy_refs[r] + One(on[t] = r) + One(on[t] = r)
      BY <2>1, <2>4 DEF Types, One, NotMade
    <3>3. /\ refs'[r] = refs[r]
          /\ held'[Raw(r)] + One(result'[t] = Raw(r)) = held[Raw(r)] + One(result[t] = Raw(r))
          /\ KeptFor(Raw(r))' = KeptFor(Raw(r)) /\ One(r \in cached') = One(r \in cached) + One(on[t] = r)
          /\ Using(t, r) = One(on[t] = r) + One(on[t] = r) /\ Using(t, r)' = One(on[t] = r)
      BY <2>1, <2>2, <2>4, <3>1, <3>2
    <3>4. RestOfReal(t, r)' = RestOfReal(t, r)
      <4>1. Using(t, r)' + One(r \in cached') = Using(t, r) + One(r \in cached)
        BY <1>3, <1>4, <3>3
      <4> QED  BY <1>2, <1>3, <3>3, <4>1 DEF RestOfReal
    <3>5. /\ proxy_refs'[r] = proxy_refs[r] + One(on[t] = r) + One(on[t] = r)
          /\ held'[Proxied(r)] + One(result'[t] = Proxied(r)) = held[Proxied(r)] + One(result[t] = Proxied(r))
          /\ KeptFor(Proxied(r))' = KeptFor(Proxied(r)) /\ One(r \in cached') = One(r \in cached) + One(on[t] = r)
      BY <2>1, <2>2, <2>4, <3>1, <3>2
    <3>6. RestOfProxy(t, r)' = RestOfProxy(t, r)
      BY <1>2, <1>3, <1>4, <3>5 DEF RestOfProxy
    <3> QED  BY <3>4, <3>6
  <2>5. CASE /\ refs' = [refs EXCEPT ![on[t]] = @ - 1] /\ Created(t, Raw(on[t]))
             /\ UNCHANGED <<proxy_refs, cached>>
    <3>1. \A x \in Handles : /\ held'[x] + One(result'[t] = x)
                                  = held[x] + One(result[t] = x) + One(x = Raw(on[t]))
                             /\ pc'[t] \notin Wrapping
      BY <1>1, <2>1, <2>5, CreatedHands DEF Registers
    <3>2. /\ Using(t, r)' = 0 /\ One(Raw(r) = Raw(on[t])) = One(on[t] = r)
          /\ One(Proxied(r) = Raw(on[t])) = 0
          /\ refs'[r] = refs[r] - One(on[t] = r)
      BY <1>1, <2>1, <2>5, <3>1 DEF Using, One, Types
    <3>3. /\ held'[Raw(r)] + One(result'[t] = Raw(r)) = held[Raw(r)] + One(result[t] = Raw(r)) + One(on[t] = r)
          /\ held'[Proxied(r)] + One(result'[t] = Proxied(r)) = held[Proxied(r)] + One(result[t] = Proxied(r))
      BY <1>1, <1>2, <1>3, <3>1, <3>2
    <3>4. /\ refs'[r] = refs[r] - One(on[t] = r)
          /\ held'[Raw(r)] + One(result'[t] = Raw(r)) = held[Raw(r)] + One(result[t] = Raw(r)) + One(on[t] = r)
          /\ KeptFor(Raw(r))' = KeptFor(Raw(r)) /\ One(r \in cached') = One(r \in cached)
          /\ Using(t, r) = One(on[t] = r) + One(on[t] = r) /\ Using(t, r)' = 0
      BY <2>1, <2>2, <2>5, <3>2, <3>3
    <3>5. RestOfReal(t, r)' = RestOfReal(t, r)
      BY <1>2, <1>3, <1>4, <3>4 DEF RestOfReal
    <3>6. /\ proxy_refs'[r] = proxy_refs[r]
          /\ held'[Proxied(r)] + One(result'[t] = Proxied(r)) = held[Proxied(r)] + One(result[t] = Proxied(r))
          /\ KeptFor(Proxied(r))' = KeptFor(Proxied(r)) /\ One(r \in cached') = One(r \in cached)
      BY <2>1, <2>2, <2>5, <3>2, <3>3
    <3>7. RestOfProxy(t, r)' = RestOfProxy(t, r)
      BY <1>2, <1>3, <1>4, <3>6 DEF RestOfProxy
    <3> QED  BY <3>5, <3>7
  <2> QED  BY <1>9, <2>3, <2>4, <2>5 DEF ProxyFor
<1>10. CASE QueryProxy(t)
  <2>1. /\ pc[t] = "query" /\ UNCHANGED <<cached, kept>> /\ on[t] \in Reals
    BY <1>10 DEF QueryProxy, Shapes, OnFactory
  <2>2. Using(t, r) = One(on[t] = r) /\ SameKept
    BY <2>1 DEF Using, Wrapping, KeptFor, kept, One
  <2>3. CASE /\ proxy_refs' = [proxy_refs EXCEPT ![on[t]] = @ + 1]
             /\ refs' = [refs EXCEPT ![on[t]] = @ - 1] /\ Created(t, Proxied(on[t]))
    <3>1. \A x \in Handles : /\ held'[x] + One(result'[t] = x)
                                  = held[x] + One(result[t] = x) + One(x = Proxied(on[t]))
                             /\ pc'[t] \notin Wrapping
      BY <1>1, <2>1, <2>3, CreatedHands DEF Registers
    <3>2. /\ Using(t, r)' = 0 /\ One(Proxied(r) = Proxied(on[t])) = One(on[t] = r)
          /\ One(Raw(r) = Proxied(on[t])) = 0
          /\ refs'[r] = refs[r] - One(on[t] = r) /\ proxy_refs'[r] = proxy_refs[r] + One(on[t] = r)
      BY <1>1, <2>1, <2>3, <3>1 DEF Using, One, Types
    <3>3. /\ held'[Raw(r)] + One(result'[t] = Raw(r)) = held[Raw(r)] + One(result[t] = Raw(r))
          /\ held'[Proxied(r)] + One(result'[t] = Proxied(r)) = held[Proxied(r)] + One(result[t] = Proxied(r)) + One(on[t] = r)
      BY <1>1, <1>2, <1>3, <3>1, <3>2
    <3>4. /\ refs'[r] = refs[r] - One(on[t] = r)
          /\ held'[Raw(r)] + One(result'[t] = Raw(r)) = held[Raw(r)] + One(result[t] = Raw(r))
          /\ KeptFor(Raw(r))' = KeptFor(Raw(r)) /\ One(r \in cached') = One(r \in cached)
          /\ Using(t, r) = One(on[t] = r) /\ Using(t, r)' = 0
      BY <2>1, <2>2, <2>3, <3>2, <3>3
    <3>5. RestOfReal(t, r)' = RestOfReal(t, r)
      BY <1>2, <1>3, <1>4, <3>4 DEF RestOfReal
    <3>6. /\ proxy_refs'[r] = proxy_refs[r] + One(on[t] = r)
          /\ held'[Proxied(r)] + One(result'[t] = Proxied(r)) = held[Proxied(r)] + One(result[t] = Proxied(r)) + One(on[t] = r)
          /\ KeptFor(Proxied(r))' = KeptFor(Proxied(r)) /\ One(r \in cached') = One(r \in cached)
      BY <2>1, <2>2, <2>3, <3>2, <3>3
    <3>7. RestOfProxy(t, r)' = RestOfProxy(t, r)
      BY <1>2, <1>3, <1>4, <3>6 DEF RestOfProxy
    <3> QED  BY <3>5, <3>7
  <2>4. CASE Created(t, Raw(on[t])) /\ UNCHANGED <<refs, proxy_refs>>
    <3>1. \A x \in Handles : /\ held'[x] + One(result'[t] = x)
                                  = held[x] + One(result[t] = x) + One(x = Raw(on[t]))
                             /\ pc'[t] \notin Wrapping
      BY <1>1, <2>1, <2>4, CreatedHands DEF Registers
    <3>2. Using(t, r)' = 0 /\ One(Raw(r) = Raw(on[t])) = One(on[t] = r) /\ One(Proxied(r) = Raw(on[t])) = 0
      BY <1>1, <2>1, <3>1 DEF Using, One
    <3>3. /\ held'[Raw(r)] + One(result'[t] = Raw(r)) = held[Raw(r)] + One(result[t] = Raw(r)) + One(on[t] = r)
          /\ held'[Proxied(r)] + One(result'[t] = Proxied(r)) = held[Proxied(r)] + One(result[t] = Proxied(r))
      BY <1>1, <1>2, <1>3, <3>1, <3>2
    <3>4. /\ refs'[r] = refs[r]
          /\ held'[Raw(r)] + One(result'[t] = Raw(r)) = held[Raw(r)] + One(result[t] = Raw(r)) + One(on[t] = r)
          /\ KeptFor(Raw(r))' = KeptFor(Raw(r)) /\ One(r \in cached') = One(r \in cached)
          /\ Using(t, r) = One(on[t] = r) /\ Using(t, r)' = 0
      BY <2>1, <2>2, <2>4, <3>2, <3>3
    <3>5. RestOfReal(t, r)' = RestOfReal(t, r)
      BY <1>2, <1>3, <1>4, <3>4 DEF RestOfReal
    <3>6. /\ proxy_refs'[r] = proxy_refs[r]
          /\ held'[Proxied(r)] + One(result'[t] = Proxied(r)) = held[Proxied(r)] + One(result[t] = Proxied(r))
          /\ KeptFor(Proxied(r))' = KeptFor(Proxied(r)) /\ One(r \in cached') = One(r \in cached)
      BY <2>1, <2>2, <2>4, <3>2, <3>3
    <3>7. RestOfProxy(t, r)' = RestOfProxy(t, r)
      BY <1>2, <1>3, <1>4, <3>6 DEF RestOfProxy
    <3> QED  BY <3>5, <3>7
  <2> QED  BY <1>10, <2>3, <2>4 DEF QueryProxy
<1>11. CASE KeepFactories(t)
  <2>1. /\ pc[t] = "keep" /\ back[t] # "out" /\ UNCHANGED <<cached, held>>
        /\ result' = [result EXCEPT ![t] = None] /\ pc'[t] = back[t]
    BY <1>11 DEF KeepFactories, Holding, Goto, Shapes
  <2>2. /\ Using(t, r) = 0 /\ Using(t, r)' = 0 /\ g_factories = None
        /\ \A x : KeptFor(x) = 0
        /\ \A x \in Handles : One(result'[t] = x) = 0
    BY <2>1, NoneAssumption DEF Using, Wrapping, Shapes, Registers, Creating, KeptFor, One
  <2>3. CASE result[t] = None /\ UNCHANGED <<g_factories, refs, proxy_refs>>
    <3>1. \A x \in Handles : KeptFor(x)' = 0 /\ One(result[t] = x) = 0
      BY <2>2, <2>3, NoneAssumption DEF KeptFor, One
    <3> QED  BY <1>1, <1>2, <2>1, <2>2, <2>3, <3>1 DEF RestOfReal, RestOfProxy
  <2>4. CASE /\ result[t] # None /\ result[t].kind = "proxy"
             /\ g_factories' = [factory |-> result[t], factory2 |-> TRUE]
             /\ proxy_refs' = [proxy_refs EXCEPT ![result[t].of] = @ + 1] /\ UNCHANGED refs
    <3> DEFINE s == result[t].of
    <3>1. s \in Reals /\ result[t] = Proxied(s)
      BY <2>4 DEF Shapes, Handles, Proxied
    <3>2. g_factories' \in Pairs /\ g_factories' # None
      <4>1. \A two \in BOOLEAN : [factory |-> result[t], factory2 |-> two] \in Pairs
        BY <1>1, <3>1 DEF Pairs
      <4>2. [factory |-> result[t], factory2 |-> TRUE] \in Pairs
        BY <4>1, Zenon
      <4> QED  BY <2>4, <4>2, NoneAssumption
    <3> HIDE DEF s
    <3>3. /\ KeptFor(Raw(r))' = 0 /\ KeptFor(Proxied(r))' = One(s = r) + One(s = r)
          /\ One(result[t] = Raw(r)) = 0 /\ One(result[t] = Proxied(r)) = One(s = r)
      BY <1>1, <2>4, <3>1, <3>2 DEF KeptFor, One
    <3>4. proxy_refs'[r] = proxy_refs[r] + One(s = r)
      BY <2>4, <3>1 DEF Types, One, s
    <3>5. RestOfReal(t, r)' = RestOfReal(t, r)
      BY <1>1, <1>2, <1>3, <2>1, <2>2, <2>4, <3>3, <3>4 DEF RestOfReal
    <3>6. RestOfProxy(t, r)' = RestOfProxy(t, r)
      BY <1>1, <1>2, <1>3, <2>1, <2>2, <2>4, <3>3, <3>4 DEF RestOfProxy
    <3> QED  BY <3>5, <3>6
  <2>5. ASSUME NEW two \in BOOLEAN, result[t] # None, result[t].kind = "real",
               g_factories' = [factory |-> result[t], factory2 |-> two],
               refs' = [refs EXCEPT ![result[t].of] = IF two THEN @ + 1 ELSE @], UNCHANGED proxy_refs
        PROVE  RestOfReal(t, r)' = RestOfReal(t, r) /\ RestOfProxy(t, r)' = RestOfProxy(t, r)
    <3> DEFINE s == result[t].of
    <3>1. s \in Reals /\ result[t] = Raw(s)
      BY <2>5 DEF Shapes, Handles, Raw
    <3>2. g_factories' \in Pairs /\ g_factories' # None
      BY <1>1, <2>5, <3>1, NoneAssumption DEF Pairs
    <3> HIDE DEF s
    <3>3. /\ KeptFor(Proxied(r))' = 0 /\ KeptFor(Raw(r))' = One(s = r) + (IF two THEN One(s = r) ELSE 0)
          /\ One(result[t] = Proxied(r)) = 0 /\ One(result[t] = Raw(r)) = One(s = r)
      BY <1>1, <2>5, <3>1, <3>2 DEF KeptFor, One
    <3>4. refs'[r] = refs[r] + (IF two THEN One(s = r) ELSE 0)
      BY <2>5, <3>1 DEF Types, One, s
    <3> QED  BY <1>1, <1>2, <1>3, <2>1, <2>2, <2>5, <3>3, <3>4 DEF RestOfReal, RestOfProxy
  <2> QED  BY <1>11, <2>3, <2>4, <2>5 DEF KeepFactories
<1> QED  BY <1>5, <1>6, <1>7, <1>8, <1>9, <1>10, <1>11

\* Every step of a thread moves the references on collections by what it makes, borrows,
\* keeps and hands out.
LEMMA ViewsBalance ==
  ASSUME RInv, Types', NEW t \in Threads, Step(t), NEW r \in Reals, NEW v \in Views
  PROVE  RestOfView(t, r, v)' = RestOfView(t, r, v)
<1> USE DEF RInv, IInv
<1> DEFINE y == <<r, v>>
           x == <<on[t], Wanted(t)>>
<1>1. /\ view_refs[y] \in Int /\ view_refs'[y] \in Int /\ held_views[y] \in Nat /\ held_views'[y] \in Nat
      /\ view[y] \in Nat /\ view'[y] \in Nat
  BY DEF Types
<1>2. /\ One(view[y] # 0) \in Nat /\ One(view'[y] # 0) \in Nat
      /\ One(got[t] = r) \in Nat /\ One(got'[t] = r) \in Nat
      /\ One(g_collection = r) \in Nat /\ One(g_collection' = r) \in Nat
  BY DEF One
<1>3. CASE ~SystemCollection(t) /\ ~WarmStore(t)
  <2>1. UNCHANGED <<views, warm, got>>
    BY <1>3, ViewsUntouched
  <2> QED  BY <2>1 DEF RestOfView, views, warm
<1>4. CASE SystemCollection(t)
  <2>1. /\ pc[t] = "view" /\ on[t] \in Reals /\ Wanted(t) \in Views
        /\ got[t] = None /\ r # None /\ None \notin Reals /\ g_collection' = g_collection
    BY <1>4, CollectionAssumption, RealsAssumption
    DEF SystemCollection, Shapes, OnFactory, Wanted, Registers, warm
  <2>2. x \in Reals \X Views /\ y \in Reals \X Views
    BY <2>1
  <2>3. CASE Forward(t) /\ UNCHANGED views
    BY <2>1, <2>3 DEF RestOfView, views, Forward
  <2>4. ASSUME NEW n, n = IF NeedsView(x) THEN view[x] + 1 ELSE view[x],
               view' = [view EXCEPT ![x] = n],
               want[t] = "fallback", UNCHANGED <<given, held_views, on, want, got>>,
               view_refs' = [view_refs EXCEPT ![x] = IF NeedsView(x) THEN 1 ELSE @]
        PROVE  RestOfView(t, r, v)' = RestOfView(t, r, v)
    <3>1. CASE y # x
      <4>1. view'[y] = view[y] /\ view_refs'[y] = view_refs[y]
        BY <2>2, <2>4, <3>1 DEF Types
      <4> QED  BY <2>1, <2>4, <4>1 DEF RestOfView
    <3>2. CASE y = x /\ NeedsView(x)
      <4>1. /\ view[y] = 0 /\ view'[y] = 1 /\ view_refs[y] = 0 /\ view_refs'[y] = 1
        BY <2>2, <2>4, <3>2 DEF Types, NeedsView, NotMade
      <4> QED  BY <1>1, <1>2, <2>1, <2>4, <4>1 DEF RestOfView, One
    <3>3. CASE y = x /\ ~NeedsView(x)
      <4>1. view'[y] = view[y] /\ view_refs'[y] = view_refs[y]
        BY <2>2, <2>4, <3>3 DEF Types
      <4> QED  BY <2>1, <2>4, <4>1 DEF RestOfView
    <3> QED  BY <3>1, <3>2, <3>3
  <2>5. ASSUME NEW n, n = IF NeedsView(x) THEN view[x] + 1 ELSE view[x],
               view' = [view EXCEPT ![x] = n], Hand(t, x, n),
               view_refs' = [view_refs EXCEPT ![x] = IF NeedsView(x) THEN 2 ELSE @ + 1]
        PROVE  RestOfView(t, r, v)' = RestOfView(t, r, v)
    <3> DEFINE b == One(got[t] = r)   b1 == One(got'[t] = r)
    <3>1. CASE y # x
      <4>1. view'[y] = view[y] /\ view_refs'[y] = view_refs[y]
        BY <2>2, <2>5, <3>1 DEF Types
      <4>2. CASE want[t] = "warm"
        <5>1. /\ Wanted(t) = Collection1 /\ held_views' = held_views
              /\ got' = [got EXCEPT ![t] = on[t]]
          BY <2>5, <4>2, ViewsAssumption DEF Wanted, Hand
        <5>2. v = Collection1 => b = 0 /\ b1 = 0
          BY <2>1, <3>1, <5>1 DEF One, Types
        <5> QED  BY <2>1, <4>1, <5>1, <5>2 DEF RestOfView
      <4>3. CASE want[t] # "warm"
        <5>1. held_views'[y] = held_views[y] /\ got' = got
          BY <2>2, <2>5, <3>1, <4>3 DEF Hand, Types
        <5> QED  BY <2>1, <4>1, <5>1 DEF RestOfView
      <4> QED  BY <4>2, <4>3
    <3>2. CASE y = x
      <4>1. view_refs'[y] - One(view'[y] # 0) = view_refs[y] - One(view[y] # 0) + 1
        <5>1. CASE NeedsView(x)
          <6>1. view[y] = 0 /\ view'[y] = 1 /\ view_refs[y] = 0 /\ view_refs'[y] = 2
            BY <2>2, <2>5, <3>2, <5>1 DEF Types, NeedsView, NotMade
          <6> QED  BY <6>1 DEF One
        <5>2. CASE ~NeedsView(x)
          <6>1. view'[y] = view[y] /\ view_refs'[y] = view_refs[y] + 1
            BY <2>2, <2>5, <3>2, <5>2 DEF Types
          <6> QED  BY <1>1, <1>2, <6>1
        <5> QED  BY <5>1, <5>2
      <4>2. CASE want[t] = "warm"
        <5>1. /\ v = Collection1 /\ held_views' = held_views
              /\ got' = [got EXCEPT ![t] = on[t]]
          BY <2>5, <3>2, <4>2, ViewsAssumption DEF Wanted, Hand
        <5>2. b = 0 /\ b1 = 1
          BY <2>1, <3>2, <5>1 DEF One, Types
        <5>3. /\ RestOfView(t, r, v) = view_refs[y] - held_views[y] - One(view[y] # 0) - (0 + One(g_collection = r))
              /\ RestOfView(t, r, v)' = view_refs'[y] - held_views[y] - One(view'[y] # 0) - (1 + One(g_collection = r))
          BY <2>1, <5>1, <5>2 DEF RestOfView
        <5> QED  BY <1>1, <1>2, <4>1, <5>3
      <4>3. CASE want[t] # "warm"
        <5>1. held_views'[y] = held_views[y] + 1 /\ got' = got
          BY <1>1, <2>2, <2>5, <3>2, <4>3 DEF Hand, Types
        <5> DEFINE c == IF v = Collection1 THEN b + One(g_collection = r) ELSE 0
        <5>2. /\ RestOfView(t, r, v) = view_refs[y] - held_views[y] - One(view[y] # 0) - c
              /\ RestOfView(t, r, v)' = view_refs'[y] - held_views'[y] - One(view'[y] # 0) - c
          BY <2>1, <5>1 DEF RestOfView
        <5>3. c \in Nat
          BY <1>2
        <5> HIDE DEF c
        <5> QED  BY <1>1, <1>2, <4>1, <5>1, <5>2, <5>3
      <4> QED  BY <4>2, <4>3
    <3> QED  BY <3>1, <3>2
  <2> QED  BY <1>4, <2>3, <2>4, <2>5 DEF SystemCollection
<1>5. CASE WarmStore(t)
  <2>1. /\ pc[t] = "warmstore" /\ UNCHANGED <<view, held_views>> /\ got'[t] = None /\ r # None
        /\ got[t] \in Reals \cup {None} /\ None \notin Reals
    BY <1>5, RealsAssumption DEF WarmStore, Types
  <2>2. One(got'[t] = r) = 0
    BY <2>1 DEF One
  <2>3. CASE tried
    <3>1. g_collection' = g_collection
      BY <1>5, <2>3 DEF WarmStore, warm
    <3>2. view_refs'[y] = IF y = <<got[t], Collection1>> THEN view_refs[y] - 1 ELSE view_refs[y]
      BY <1>5, <2>3 DEF WarmStore
    <3>3. view_refs'[y] = view_refs[y] - (IF v = Collection1 THEN One(got[t] = r) ELSE 0)
      BY <1>1, <3>2 DEF One
    <3>4. CASE v = Collection1
      BY <1>1, <1>2, <2>1, <2>2, <3>1, <3>3, <3>4 DEF RestOfView
    <3>5. CASE v # Collection1
      BY <1>1, <1>2, <2>1, <3>1, <3>3, <3>5 DEF RestOfView
    <3> QED  BY <3>4, <3>5
  <2>4. CASE ~tried
    <3>1. g_collection' = got[t] /\ view_refs' = view_refs /\ One(g_collection = r) = 0
      BY <1>5, <2>1, <2>4 DEF WarmStore, NotMade, One
    <3> QED  BY <1>1, <1>2, <2>1, <2>2, <3>1 DEF RestOfView
  <2> QED  BY <2>3, <2>4
<1> QED  BY <1>3, <1>4, <1>5

\* What one step of a thread does to the types, but for the signs of the references.
LEMMA TypesStep ==
  ASSUME Shapes, Holding, Registers, Types, NEW t \in Threads, Step(t)
  PROVE  Types'
<1>1. on[t] \in Reals \cup {None} /\ (pc[t] \in OnFactory => on[t] \in Reals)
  BY DEF Shapes
<1>2. Collection1 \in Views
  BY CollectionAssumption
<1>3. CASE AppCreates(t) \/ Measure(t) \/ GetFactories(t)
  BY <1>3 DEF AppCreates, Measure, GetFactories, Types, factories, kept, list, views, extra, warm, regs
<1>4. CASE AppGets(t)
  BY <1>4 DEF AppGets, Types, Wants, factories, kept, list, views, extra, warm
<1>5. CASE GetImpl(t)
  BY <1>5 DEF GetImpl, Created, Types, kept, list, views, extra, warm
<1>6. CASE LoadImpl(t)
  BY <1>6 DEF LoadImpl, Types, kept, list, views, extra, warm, regs
<1>7. CASE CreateReal(t)
  BY <1>7 DEF CreateReal, Created, Types, kept, list, views, extra, warm
<1>8. CASE WrapFactory(t)
  <2>1. on[t] \in Reals /\ Raw(on[t]) \in Handles
    BY <1>1, <1>8 DEF WrapFactory, OnFactory, Raw, Handles
  <2> QED  BY <1>8, <2>1 DEF WrapFactory, Created, Types, kept, list, views, extra, warm
<1>9. CASE ProxyFor(t)
  <2>1. on[t] \in Reals /\ Raw(on[t]) \in Handles
    BY <1>1, <1>9 DEF ProxyFor, OnFactory, Raw, Handles
  <2> QED  BY <1>9, <2>1 DEF ProxyFor, Created, Surplus, Types, kept, list, views, extra, warm
<1>10. CASE QueryProxy(t)
  <2>1. on[t] \in Reals /\ Raw(on[t]) \in Handles /\ Proxied(on[t]) \in Handles
    BY <1>1, <1>10 DEF QueryProxy, OnFactory, Raw, Proxied, Handles
  <2> QED  BY <1>10, <2>1 DEF QueryProxy, Created, Types, kept, list, views, extra, warm
<1>11. CASE KeepFactories(t)
  <2>1. result[t] # None => result[t].of \in Reals
    BY DEF Shapes, Handles
  <2>2. refs' \in [Reals -> Int] /\ proxy_refs' \in [Reals -> Int]
    <3>1. CASE result[t] = None
      BY <1>11, <3>1 DEF KeepFactories, Types
    <3>2. CASE result[t] # None /\ result[t].kind = "proxy"
      BY <1>11, <2>1, <3>2 DEF KeepFactories, Types
    <3>3. CASE result[t] # None /\ result[t].kind # "proxy"
      <4>1. proxy_refs' = proxy_refs
        BY <1>11, <3>3 DEF KeepFactories
      <4>2. PICK two \in BOOLEAN :
               refs' = [refs EXCEPT ![result[t].of] = IF two THEN @ + 1 ELSE @]
        BY <1>11, <3>3 DEF KeepFactories
      <4> QED  BY <2>1, <3>3, <4>1, <4>2 DEF Types
    <3> QED  BY <3>1, <3>2, <3>3
  <2>3. factory_failed' \in BOOLEAN
    BY <1>11 DEF KeepFactories, Types
  <2> QED  BY <1>11, <2>2, <2>3 DEF KeepFactories, Types, list, views, extra, warm
<1>12. CASE SystemFontSet(t)
  <2>1. on[t] \in Reals
    BY <1>1, <1>12 DEF SystemFontSet, OnFactory
  <2>2. want' \in [Threads -> Wants] /\ got' = got
    BY <1>12 DEF SystemFontSet, HaveSet, Forward, Idle, Types, Wants
  <2>3. scans' \in [Reals -> Nat] /\ attempted' \in SUBSET Reals
    <3>1. /\ scans' = scans \/ scans' = [scans EXCEPT ![on[t]] = @ + 1]
          /\ attempted' = attempted \/ attempted' = attempted \cup {on[t]}
      BY <1>12 DEF SystemFontSet
    <3> QED  BY <2>1, <3>1 DEF Types
  <2> QED  BY <1>12, <2>2, <2>3 DEF SystemFontSet, Types, factories, kept, views, extra, warm
<1>13. CASE EnumerateFontFiles(t) \/ ListScanned(t)
  BY <1>13 DEF EnumerateFontFiles, ListScanned, Types, factories, kept, list, views, extra, warm, regs
<1>14. CASE LoadFontconfig(t)
  BY <1>14 DEF LoadFontconfig, Types, factories, kept, list, views, extra, warm, regs
<1>15. CASE BuildSet(t)
  <2>1. on[t] \in Reals
    BY <1>1, <1>15 DEF BuildSet, OnFactory
  <2>2. want' \in [Threads -> Wants] /\ got' = got
    BY <1>15 DEF BuildSet, HaveSet, Forward, Idle, Types, Wants
  <2> QED  BY <1>15, <2>1, <2>2 DEF BuildSet, Types, factories, kept, views, extra, warm
<1>16. CASE SystemCollection(t)
  <2>1. <<on[t], Wanted(t)>> \in Reals \X Views /\ on[t] \in Reals
    BY <1>1, <1>2, <1>16 DEF SystemCollection, OnFactory, Wanted
  <2>2. want' \in [Threads -> Wants] /\ got' \in [Threads -> Reals \cup {None}]
    BY <1>16, <2>1 DEF SystemCollection, Hand, Forward, Idle, Types, Wants
  <2>3. /\ view' \in [Reals \X Views -> Nat] /\ view_refs' \in [Reals \X Views -> Int]
        /\ held_views' \in [Reals \X Views -> Nat] /\ given' \in [Reals \X Views -> SUBSET Nat]
    <3>1. CASE UNCHANGED views
      BY <3>1 DEF views, Types
    <3> DEFINE x == <<on[t], Wanted(t)>>
    <3>2. ASSUME NEW n, n = IF NeedsView(x) THEN view[x] + 1 ELSE view[x],
                 view' = [view EXCEPT ![x] = n],
                 \/ /\ view_refs' = [view_refs EXCEPT ![x] = IF NeedsView(x) THEN 1 ELSE @]
                    /\ UNCHANGED <<given, held_views>>
                 \/ /\ view_refs' = [view_refs EXCEPT ![x] = IF NeedsView(x) THEN 2 ELSE @ + 1]
                    /\ Hand(t, x, n)
          PROVE  /\ view' \in [Reals \X Views -> Nat] /\ view_refs' \in [Reals \X Views -> Int]
                 /\ held_views' \in [Reals \X Views -> Nat] /\ given' \in [Reals \X Views -> SUBSET Nat]
      <4> HIDE DEF x
      <4>1. x \in Reals \X Views
        BY <2>1 DEF x
      <4>2. n \in Nat
        BY <3>2, <4>1 DEF Types
      <4>3. view' \in [Reals \X Views -> Nat]
        BY <3>2, <4>2 DEF Types
      <4>4. view_refs' \in [Reals \X Views -> Int]
        BY <3>2, <4>1 DEF Types
      <4>5. held_views' \in [Reals \X Views -> Nat]
        BY <3>2, <4>1 DEF Types, Hand
      <4>6. given' = given \/ given' = [given EXCEPT ![x] = @ \cup {n}]
        BY <3>2 DEF Hand
      <4>7. given[x] \cup {n} \in SUBSET Nat
        BY <4>1, <4>2 DEF Types
      <4>8. given' \in [Reals \X Views -> SUBSET Nat]
        BY <4>6, <4>7 DEF Types
      <4> QED  BY <4>3, <4>4, <4>5, <4>8
    <3> QED  BY <1>16, <3>1, <3>2 DEF SystemCollection
  <2> QED  BY <1>16, <2>2, <2>3 DEF SystemCollection, Types, factories, kept, list, extra, warm
<1>17. CASE SystemFallback(t)
  <2>1. on[t] \in Reals
    BY <1>1, <1>17 DEF SystemFallback, OnFactory
  <2> QED
    BY <1>17, <2>1 DEF SystemFallback, Idle, Types, Wants, factories, kept, list, views, warm
<1>18. CASE WarmSystemCollection(t) \/ LockFaces(t)
  BY <1>18
  DEF WarmSystemCollection, LockFaces, Types, factories, kept, list, views, extra, warm
<1>19. CASE WarmGets(t)
  BY <1>19 DEF WarmGets, Types, Wants, factories, kept, list, views, extra, warm
<1>20. CASE WarmStore(t)
  <2>1. view_refs' \in [Reals \X Views -> Int]
    BY <1>20 DEF WarmStore, Types
  <2> QED  BY <1>20, <2>1 DEF WarmStore, Types, factories, kept, list, extra, warm
<1>21. CASE Measured(t)
  BY <1>21 DEF Measured, Types, factories, kept, list, views, extra, warm, regs
<1> QED
  BY <1>3, <1>4, <1>5, <1>6, <1>7, <1>8, <1>9, <1>10, <1>11, <1>12, <1>13, <1>14, <1>15, <1>16, <1>17,
     <1>18, <1>19, <1>20, <1>21 DEF Step

\* The registers of the other threads, whatever a thread does: they stay good as long as
\* nobody's proxy leaves the cache and libcleartype's factories are kept by the holder of
\* their lock.
LEMMA OthersRegisters ==
  ASSUME Shapes, Types, Registers, NEW t \in Threads, Step(t), cached \subseteq cached',
         \A u \in Threads \ {t} :
            holder["factory"] = u => holder'["factory"] = u /\ g_factories' = g_factories,
         NEW u \in Threads \ {t}
  PROVE  /\ pc'[u] # "keep" => result'[u] = None
         /\ pc'[u] # "warmstore" => got'[u] = None
         /\ pc'[u] = "query" => on'[u] \in cached'
         /\ pc'[u] \in Creating /\ back'[u] # "out" => holder'["factory"] = u /\ g_factories' = None
         /\ pc'[u] \notin Creating \cup {"factories"} => back'[u] = "out"
<1>1. /\ pc'[u] = pc[u] /\ back'[u] = back[u] /\ on'[u] = on[u]
      /\ want'[u] = want[u] /\ result'[u] = result[u] /\ got'[u] = got[u]
  BY OthersStand
<1> QED  BY <1>1 DEF Registers

LEMMA RegistersStep ==
  ASSUME IInv, Types, Registers, Shapes', NEW t \in Threads, Step(t)
  PROVE  Registers'
<1> USE DEF IInv
<1>1. "factory" \in Locks /\ "factory" \notin Reals /\ t # NoThread /\ None \notin Reals
  BY RealsAssumption, ThreadsAssumption DEF Locks
<1>2. /\ cached \subseteq cached'
      /\ \A u \in Threads \ {t} :
            holder["factory"] = u => holder'["factory"] = u /\ g_factories' = g_factories
  <2> USE <1>1 DEF Shapes, factories, kept, regs, Goto, Take, GiveUp, Free
  <2>1. CASE AppCreates(t) \/ AppGets(t) \/ Measure(t)
    BY <2>1 DEF AppCreates, AppGets, Measure
  <2>2. CASE GetImpl(t) \/ LoadImpl(t) \/ CreateReal(t) \/ WrapFactory(t)
    BY <2>2 DEF GetImpl, LoadImpl, CreateReal, WrapFactory
  <2>3. CASE ProxyFor(t) \/ QueryProxy(t)
    BY <2>3 DEF ProxyFor, QueryProxy
  <2>4. CASE GetFactories(t)
    BY <2>4, ThreadsAssumption DEF GetFactories
  <2>5. CASE KeepFactories(t)
    BY <2>5 DEF KeepFactories, Registers, Holding, Creating
  <2>6. CASE SystemFontSet(t) \/ BuildSet(t)
    BY <2>6 DEF SystemFontSet, BuildSet, OnFactory
  <2>7. CASE EnumerateFontFiles(t) \/ LoadFontconfig(t) \/ ListScanned(t)
    BY <2>7 DEF EnumerateFontFiles, LoadFontconfig, ListScanned
  <2>8. CASE SystemCollection(t) \/ SystemFallback(t) \/ WarmSystemCollection(t) \/ WarmGets(t)
    BY <2>8 DEF SystemCollection, SystemFallback, WarmSystemCollection, WarmGets
  <2>9. CASE WarmStore(t) \/ LockFaces(t) \/ Measured(t)
    BY <2>9 DEF WarmStore, LockFaces, Measured
  <2> QED
    BY <2>1, <2>2, <2>3, <2>4, <2>5, <2>6, <2>7, <2>8, <2>9 DEF Step
<1> DEFINE Own == /\ pc'[t] # "keep" => result'[t] = None
                  /\ pc'[t] # "warmstore" => got'[t] = None
                  /\ pc'[t] = "query" => on'[t] \in cached'
                  /\ pc'[t] \in Creating /\ back'[t] # "out"
                        => holder'["factory"] = t /\ g_factories' = None
                  /\ pc'[t] \notin Creating \cup {"factories"} => back'[t] = "out"
<1>3. Own
  <2>1. /\ pc[t] # "keep" => result[t] = None
        /\ pc[t] # "warmstore" => got[t] = None
        /\ pc[t] = "query" => on[t] \in cached
        /\ pc[t] \in Creating /\ back[t] # "out" => holder["factory"] = t /\ g_factories = None
        /\ pc[t] \notin Creating \cup {"factories"} => back[t] = "out"
        /\ pc[t] \in {"factories", "keep"} => back[t] # "out"
    BY DEF Registers, Holding
  <2> USE <1>1, <2>1 DEF Shapes, Types, Creating, factories, kept, warm, regs, Goto, Take, GiveUp, Free
  <2>2. CASE AppCreates(t) \/ AppGets(t) \/ Measure(t)
    BY <2>2 DEF AppCreates, AppGets, Measure
  <2>3. CASE GetImpl(t)
    BY <2>3 DEF GetImpl, Created
  <2>4. CASE LoadImpl(t)
    BY <2>4 DEF LoadImpl
  <2>5. CASE CreateReal(t)
    BY <2>5 DEF CreateReal, Created
  <2>6. CASE WrapFactory(t)
    BY <2>6 DEF WrapFactory, Created
  <2>7. CASE ProxyFor(t)
    BY <2>7 DEF ProxyFor, Created
  <2>8. CASE QueryProxy(t)
    BY <2>8 DEF QueryProxy, Created
  <2>9. CASE GetFactories(t)
    BY <2>9 DEF GetFactories
  <2>10. CASE KeepFactories(t)
    BY <2>10 DEF KeepFactories
  <2>11. CASE SystemFontSet(t) \/ BuildSet(t)
    <3>1. /\ pc'[t] \in {"fontconfig", "out", "view", "warmstore"} /\ UNCHANGED <<back, result, got>>
          /\ pc[t] \in {"set", "build"}
      BY <2>11 DEF SystemFontSet, BuildSet, HaveSet, Forward
    <3> QED  BY <3>1
  <2>12. CASE EnumerateFontFiles(t) \/ LoadFontconfig(t) \/ ListScanned(t)
    <3>1. /\ pc'[t] \in {"fcscan", "fcload", "listscan", "build"} /\ UNCHANGED <<back, result, got>>
          /\ pc[t] \in {"fontconfig", "fcload", "fcscan", "listscan"}
      BY <2>12 DEF EnumerateFontFiles, LoadFontconfig, ListScanned, MayScan, Enumerated
    <3> QED  BY <3>1
  <2>13. CASE SystemCollection(t)
    <3>1. /\ pc'[t] \in {"fallback", "out", "warmstore"} /\ UNCHANGED <<back, result>>
          /\ pc[t] = "view" /\ (pc'[t] = "warmstore" \/ got' = got)
      BY <2>13 DEF SystemCollection, Forward, Hand
    <3> QED  BY <3>1
  <2>14. CASE SystemFallback(t)
    BY <2>14 DEF SystemFallback
  <2>15. CASE WarmSystemCollection(t)
    BY <2>15 DEF WarmSystemCollection
  <2>16. CASE WarmGets(t)
    BY <2>16 DEF WarmGets
  <2>17. CASE WarmStore(t)
    BY <2>17 DEF WarmStore
  <2>18. CASE LockFaces(t)
    BY <2>18 DEF LockFaces
  <2>19. CASE Measured(t)
    BY <2>19 DEF Measured
  <2> QED
    BY <2>2, <2>3, <2>4, <2>5, <2>6, <2>7, <2>8, <2>9, <2>10, <2>11, <2>12, <2>13, <2>14, <2>15, <2>16,
       <2>17, <2>18, <2>19 DEF Step
<1>4. ASSUME NEW u \in Threads \ {t}
      PROVE  /\ pc'[u] # "keep" => result'[u] = None
             /\ pc'[u] # "warmstore" => got'[u] = None
             /\ pc'[u] = "query" => on'[u] \in cached'
             /\ pc'[u] \in Creating /\ back'[u] # "out"
                   => holder'["factory"] = u /\ g_factories' = None
             /\ pc'[u] \notin Creating \cup {"factories"} => back'[u] = "out"
  BY <1>2, OthersRegisters
<1> QED  BY <1>3, <1>4 DEF Registers

\* A reference that a thread has in hand counts.
LEMMA InHandCounts ==
  ASSUME RInv, NEW t \in Threads, NEW r \in Reals
  PROVE  /\ result[t] = Proxied(r) => r \in cached
         /\ got[t] = r => view[<<r, Collection1>>] # 0
<1>1. Proxied(r) \in Handles /\ <<r, Collection1>> \in Reals \X Views
  BY CollectionAssumption DEF Proxied, Handles
<1>2. ASSUME result[t] = Proxied(r)
      PROVE  r \in cached
  <2> DEFINE A == {u \in Threads : result[u] = Proxied(r)}
  <2>1. A \in SUBSET Threads /\ t \in A
    BY <1>2
  <2> HIDE DEF A
  <2>2. Cardinality(A) \in Nat /\ Cardinality(A) >= 1
    BY <2>1, CountMoves
  <2>3. Kept(Proxied(r)) = Cardinality(A) + KeptFor(Proxied(r)) /\ KeptFor(Proxied(r)) \in Nat
    BY DEF Kept, KeptFor, A
  <2>4. held[Proxied(r)] \in Nat /\ proxy_refs[r] \in Int
    BY <1>1 DEF RInv, Types
  <2>5. proxy_refs[r] = held[Proxied(r)] + Kept(Proxied(r)) + (IF r \in cached THEN 2 ELSE 0)
    BY DEF RInv, ReferencesAddUp
  <2>6. r \notin cached => proxy_refs[r] = 0
    BY DEF RInv, NotMade
  <2> QED  BY <2>2, <2>3, <2>4, <2>5, <2>6
<1>3. ASSUME got[t] = r, view[<<r, Collection1>>] = 0
      PROVE  FALSE
  <2> DEFINE A == {u \in Threads : got[u] = r}
  <2>1. A \in SUBSET Threads /\ t \in A
    BY <1>3
  <2> HIDE DEF A
  <2>2. Cardinality(A) \in Nat /\ Cardinality(A) >= 1
    BY <2>1, CountMoves
  <2>3. view_refs[<<r, Collection1>>] = held_views[<<r, Collection1>>] + 0
                    + (Cardinality(A) + (IF g_collection = r THEN 1 ELSE 0))
    BY <1>3, CollectionAssumption DEF RInv, ReferencesAddUp, A
  <2>4. held_views[<<r, Collection1>>] \in Nat /\ view_refs[<<r, Collection1>>] = 0
    BY <1>1, <1>3 DEF RInv, Types, NotMade
  <2> QED  BY <2>2, <2>3, <2>4
<1> QED  BY <1>2, <1>3

LEMMA NotMadeStep ==
  ASSUME RInv, Types', NEW t \in Threads, Step(t)
  PROVE  NotMade'
<1> USE DEF RInv, IInv
<1>1. \A r \in Reals : r \notin cached' => proxy_refs'[r] = 0
  <2>1. CASE ~GetImpl(t) /\ ~CreateReal(t) /\ ~WrapFactory(t) /\ ~ProxyFor(t) /\ ~QueryProxy(t)
               /\ ~KeepFactories(t)
    BY <2>1, FactoriesUntouched DEF NotMade
  <2>2. CASE GetImpl(t) \/ CreateReal(t) \/ WrapFactory(t)
    BY <2>2 DEF GetImpl, CreateReal, WrapFactory, NotMade
  <2>3. CASE ProxyFor(t)
    BY <2>3 DEF ProxyFor, NotMade, Types, Shapes, OnFactory
  <2>4. CASE QueryProxy(t)
    BY <2>4 DEF QueryProxy, NotMade, Types, Shapes, OnFactory, Registers
  <2>5. CASE KeepFactories(t)
    <3>1. CASE proxy_refs' = proxy_refs
      BY <2>5, <3>1 DEF KeepFactories, NotMade
    <3>2. CASE /\ result[t] # None /\ result[t].kind = "proxy"
               /\ proxy_refs' = [proxy_refs EXCEPT ![result[t].of] = @ + 1]
      <4>1. result[t].of \in Reals /\ result[t] = Proxied(result[t].of)
        BY <3>2 DEF Shapes, Handles, Proxied
      <4>2. result[t].of \in cached
        BY <4>1, InHandCounts
      <4> QED  BY <2>5, <3>2, <4>1, <4>2 DEF KeepFactories, NotMade, Types
    <3> QED  BY <2>5, <3>1, <3>2 DEF KeepFactories
  <2> QED  BY <2>1, <2>2, <2>3, <2>4, <2>5
<1>2. /\ \A x \in Reals \X Views : view'[x] = 0 => view_refs'[x] = 0
      /\ ~tried' => g_collection' = None
  <2>1. CASE ~SystemCollection(t) /\ ~WarmStore(t)
    BY <2>1, ViewsUntouched DEF NotMade, views, warm
  <2>2. CASE SystemCollection(t)
    <3>1. CASE UNCHANGED views
      BY <2>2, <3>1 DEF SystemCollection, views, warm, NotMade
    <3> DEFINE x == <<on[t], Wanted(t)>>
    <3>2. ASSUME NEW n, n = IF NeedsView(x) THEN view[x] + 1 ELSE view[x],
                 view' = [view EXCEPT ![x] = n],
                 \/ view_refs' = [view_refs EXCEPT ![x] = IF NeedsView(x) THEN 1 ELSE @]
                 \/ view_refs' = [view_refs EXCEPT ![x] = IF NeedsView(x) THEN 2 ELSE @ + 1],
                 NEW y \in Reals \X Views, view'[y] = 0
          PROVE  view_refs'[y] = 0
      <4>1. x \in Reals \X Views
        BY <2>2, CollectionAssumption DEF SystemCollection, Shapes, OnFactory, Wanted
      <4> HIDE DEF x
      <4>2. n \in Nat /\ n # 0
        BY <3>2, <4>1 DEF Types, NeedsView
      <4>3. y # x /\ view'[y] = view[y]
        BY <3>2, <4>1, <4>2 DEF Types
      <4>4. view_refs'[y] = view_refs[y]
        BY <3>2, <4>3 DEF Types
      <4> QED  BY <3>2, <4>3, <4>4 DEF NotMade
    <3>3. UNCHANGED warm
      BY <2>2 DEF SystemCollection
    <3> QED  BY <2>2, <3>1, <3>2, <3>3 DEF SystemCollection, warm, NotMade
  <2>3. CASE WarmStore(t)
    <3>1. ~tried' => g_collection' = None
      BY <2>3 DEF WarmStore, NotMade, warm
    <3>2. ASSUME NEW y \in Reals \X Views, view'[y] = 0
          PROVE  view_refs'[y] = 0
      <4>1. view[y] = 0 /\ view_refs[y] = 0
        BY <2>3, <3>2 DEF WarmStore, NotMade
      <4>2. CASE view_refs' = view_refs
        BY <4>1, <4>2
      <4>3. CASE view_refs' # view_refs
        <5>1. view_refs'[y] = IF y = <<got[t], Collection1>> THEN view_refs[y] - 1 ELSE view_refs[y]
          BY <2>3, <4>3 DEF WarmStore
        <5>2. y # <<got[t], Collection1>>
          <6> SUFFICES ASSUME y = <<got[t], Collection1>>  PROVE FALSE
            OBVIOUS
          <6>1. got[t] \in Reals
            OBVIOUS
          <6> QED  BY <4>1, <6>1, InHandCounts
        <5> QED  BY <4>1, <5>1, <5>2
      <4> QED  BY <4>2, <4>3
    <3> QED  BY <3>1, <3>2
  <2> QED  BY <2>1, <2>2, <2>3
<1> QED  BY <1>1, <1>2 DEF NotMade

\* A list is begun once, and the collection it gives stays the one that was made.
LEMMA ListStep ==
  ASSUME RInv, Types', NEW t \in Threads, Step(t)
  PROVE  ScansAttempted' /\ OneListForAll'
<1> USE DEF RInv, IInv
<1>1. ScansAttempted'
  <2>1. CASE UNCHANGED list
    BY <2>1 DEF ScansAttempted, list
  <2>2. CASE SystemFontSet(t)
    <3>1. on[t] \in Reals
      BY <2>2 DEF SystemFontSet, Shapes, OnFactory
    <3>2. CASE attempted' = attempted /\ scans' = scans
      BY <3>2 DEF ScansAttempted
    <3>3. CASE /\ on[t] \notin attempted /\ attempted' = attempted \cup {on[t]}
               /\ scans' = [scans EXCEPT ![on[t]] = @ + 1]
      BY <3>1, <3>3 DEF ScansAttempted, One, Types
    <3> QED  BY <2>2, <3>2, <3>3 DEF SystemFontSet, Attempted
  <2>3. CASE BuildSet(t)
    BY <2>3 DEF BuildSet, ScansAttempted
  <2>4. list' = list \/ SystemFontSet(t) \/ BuildSet(t)
    BY DEF Step, AppCreates, AppGets, Measure, GetImpl, LoadImpl, CreateReal, WrapFactory, ProxyFor,
           QueryProxy, GetFactories, KeepFactories, EnumerateFontFiles, LoadFontconfig, ListScanned,
           SystemCollection, SystemFallback, WarmSystemCollection, WarmGets, WarmStore, LockFaces,
           Measured, list
  <2> QED  BY <2>1, <2>2, <2>3, <2>4
<1>2. ASSUME NEW r \in Reals, NEW v \in Views
      PROVE  given'[<<r, v>>] \subseteq {view'[<<r, v>>]} \ {0}
  <2> DEFINE y == <<r, v>>
  <2>1. given[y] \subseteq {view[y]} \ {0} /\ y \in Reals \X Views
    BY DEF OneListForAll
  <2> HIDE DEF y
  <2>2. CASE ~SystemCollection(t) /\ ~WarmStore(t)
    BY <2>1, <2>2, ViewsUntouched DEF views, y
  <2>3. CASE SystemCollection(t)
    <3>1. CASE UNCHANGED views
      BY <2>1, <3>1 DEF views, y
    <3> DEFINE x == <<on[t], Wanted(t)>>
    <3>2. ASSUME NEW n, n = IF NeedsView(x) THEN view[x] + 1 ELSE view[x],
                 view' = [view EXCEPT ![x] = n],
                 given' = given \/ given' = [given EXCEPT ![x] = @ \cup {n}]
          PROVE  given'[y] \subseteq {view'[y]} \ {0}
      <4>1. x \in Reals \X Views
        BY <2>3, CollectionAssumption DEF SystemCollection, Shapes, OnFactory, Wanted
      <4> HIDE DEF x
      <4>2. n \in Nat /\ n # 0
        BY <3>2, <4>1 DEF Types, NeedsView
      <4>3. CASE y # x
        BY <2>1, <3>2, <4>3 DEF Types
      <4>4. CASE y = x
        <5>1. view'[y] = n /\ given'[y] \subseteq given[y] \cup {n}
          BY <2>1, <3>2, <4>4 DEF Types
        <5>2. given[y] \subseteq {n}
          BY <2>1, <3>2, <4>4 DEF NeedsView
        <5> QED  BY <4>2, <5>1, <5>2
      <4> QED  BY <4>3, <4>4
    <3> QED  BY <2>3, <3>1, <3>2 DEF SystemCollection, Hand, y
  <2>4. CASE WarmStore(t)
    BY <2>1, <2>4 DEF WarmStore, y
  <2> QED  BY <2>2, <2>3, <2>4 DEF y
<1>3. \A r \in Reals : scans'[r] <= 1
  BY <1>1 DEF ScansAttempted, One
<1> QED  BY <1>1, <1>2, <1>3 DEF OneListForAll

\* How many threads have something in hand is a number.
LEMMA CountsAreNumbers ==
  ASSUME NEW r
  PROVE  /\ InHand(r) \in Nat
         /\ \A h : Kept(h) \in Nat
         /\ Cardinality({t \in Threads : got[t] = r}) \in Nat
<1>1. \A S \in SUBSET Threads : Cardinality(S) \in Nat
  BY ThreadsAssumption, FS_Subset, FS_CardinalityType
<1>2. InHand(r) \in Nat
  <2> DEFINE A == {t \in Threads : on[t] = r /\ pc[t] \in {"wrap", "proxyfor", "query"}}
             B == {t \in Threads : on[t] = r /\ pc[t] = "proxyfor"}
  <2>1. A \in SUBSET Threads /\ B \in SUBSET Threads
    OBVIOUS
  <2>2. Cardinality(A) \in Nat /\ Cardinality(B) \in Nat
    BY <1>1, <2>1
  <2> QED  BY <2>2 DEF InHand
<1>3. ASSUME NEW h  PROVE Kept(h) \in Nat
  <2> DEFINE A == {t \in Threads : result[t] = h}
  <2>1. A \in SUBSET Threads
    OBVIOUS
  <2>2. Cardinality(A) \in Nat
    BY <1>1, <2>1
  <2> QED  BY <2>2 DEF Kept
<1>4. Cardinality({t \in Threads : got[t] = r}) \in Nat
  <2>1. {t \in Threads : got[t] = r} \in SUBSET Threads
    OBVIOUS
  <2> QED  BY <1>1, <2>1
<1> QED  BY <1>2, <1>3, <1>4

\* An application gives a reference back, and the rest of them add up as they did.
LEMMA ReleaseReferences ==
  ASSUME RInv, NEW h \in Handles, ReleaseFactory(h)
  PROVE  RInv'
<1> USE DEF RInv
<1>1. IInv'
  BY ReleaseStep
<1>2. /\ held[h] \in Nat /\ held[h] > 0 /\ held' = [held EXCEPT ![h] = @ - 1] /\ h.of \in Reals
      /\ h.kind \in {"proxy", "real"} /\ h = [kind |-> h.kind, of |-> h.of]
      /\ UNCHANGED <<impl, cached, kept, list, views, extra, fc, warm, holder, pc, regs>>
  BY DEF ReleaseFactory, Types, Handles
<1>3. Types'
  BY <1>2 DEF ReleaseFactory, Types, kept, list, views, extra, warm, regs
<1>4. UNCHANGED <<pc, on, result, got, g_factories, cached>>
  BY <1>2 DEF regs, kept
<1>5. /\ \A r \in Reals : InHand(r)' = InHand(r)
      /\ \A x : Kept(x)' = Kept(x)
  BY <1>4 DEF InHand, Kept
<1>6. \A r \in Reals :
         /\ refs'[r] = refs[r] - One(h = Raw(r)) /\ held'[Raw(r)] = held[Raw(r)] - One(h = Raw(r))
         /\ proxy_refs'[r] = proxy_refs[r] - One(h = Proxied(r))
         /\ held'[Proxied(r)] = held[Proxied(r)] - One(h = Proxied(r))
  <2> SUFFICES ASSUME NEW r \in Reals
               PROVE  /\ refs'[r] = refs[r] - One(h = Raw(r)) /\ held'[Raw(r)] = held[Raw(r)] - One(h = Raw(r))
                      /\ proxy_refs'[r] = proxy_refs[r] - One(h = Proxied(r))
                      /\ held'[Proxied(r)] = held[Proxied(r)] - One(h = Proxied(r))
    OBVIOUS
  <2>1. Raw(r) \in Handles /\ Proxied(r) \in Handles
    BY DEF Raw, Proxied, Handles
  <2>2. held'[Raw(r)] = held[Raw(r)] - One(h = Raw(r))
    BY <1>2, <2>1 DEF Types, One
  <2>3. held'[Proxied(r)] = held[Proxied(r)] - One(h = Proxied(r))
    BY <1>2, <2>1 DEF Types, One
  <2>4. refs'[r] = refs[r] - One(h = Raw(r))
    <3>1. (h = Raw(r)) = (h.kind = "real" /\ h.of = r)
      BY <1>2 DEF Raw
    <3> QED  BY <1>2, <3>1 DEF ReleaseFactory, Types, One
  <2>5. proxy_refs'[r] = proxy_refs[r] - One(h = Proxied(r))
    <3>1. (h = Proxied(r)) = (h.kind = "proxy" /\ h.of = r)
      BY <1>2 DEF Proxied
    <3> QED  BY <1>2, <3>1 DEF ReleaseFactory, Types, One
  <2> QED  BY <2>2, <2>3, <2>4, <2>5
<1>7. ASSUME NEW r \in Reals
      PROVE  /\ refs'[r] = held'[Raw(r)] + InHand(r)' + Kept(Raw(r))' + (IF r \in cached' THEN 1 ELSE 0)
             /\ proxy_refs'[r] = held'[Proxied(r)] + Kept(Proxied(r))' + (IF r \in cached' THEN 2 ELSE 0)
             /\ r \notin cached' => proxy_refs'[r] = 0
  <2>1. /\ Raw(r) \in Handles /\ Proxied(r) \in Handles
        /\ held[Raw(r)] \in Nat /\ held[Proxied(r)] \in Nat /\ held'[Proxied(r)] \in Nat
        /\ One(h = Raw(r)) \in Nat /\ One(h = Proxied(r)) \in Nat
        /\ refs[r] \in Int /\ proxy_refs[r] \in Int
    BY <1>3 DEF Types, Raw, Proxied, Handles, One
  <2>2. InHand(r) \in Nat /\ Kept(Raw(r)) \in Nat /\ Kept(Proxied(r)) \in Nat
    BY CountsAreNumbers
  <2>3. /\ refs[r] = held[Raw(r)] + InHand(r) + Kept(Raw(r)) + (IF r \in cached THEN 1 ELSE 0)
        /\ proxy_refs[r] = held[Proxied(r)] + Kept(Proxied(r)) + (IF r \in cached THEN 2 ELSE 0)
        /\ r \notin cached => proxy_refs[r] = 0
    BY DEF ReferencesAddUp, NotMade
  <2>4. refs'[r] = held'[Raw(r)] + InHand(r)' + Kept(Raw(r))' + (IF r \in cached' THEN 1 ELSE 0)
    BY <1>4, <1>5, <1>6, <2>1, <2>2, <2>3
  <2>5. proxy_refs'[r] = held'[Proxied(r)] + Kept(Proxied(r))' + (IF r \in cached' THEN 2 ELSE 0)
    BY <1>4, <1>5, <1>6, <2>1, <2>2, <2>3
  <2>6. r \notin cached' => proxy_refs'[r] = 0
    BY <1>4, <1>6, <2>1, <2>2, <2>3
  <2> QED  BY <2>4, <2>5, <2>6
<1>8. ReferencesAddUp'
  BY <1>2, <1>7 DEF ReferencesAddUp, views, warm, regs
<1>9. Registers' /\ NotMade' /\ ScansAttempted' /\ OneListForAll'
  BY <1>2, <1>7 DEF Registers, NotMade, ScansAttempted, OneListForAll, regs, kept, list, views, warm
<1> QED  BY <1>1, <1>3, <1>8, <1>9

LEMMA ReleaseCollections ==
  ASSUME RInv, NEW x \in Reals \X Views, ReleaseView(x)
  PROVE  RInv'
<1> USE DEF RInv
<1>1. IInv'
  BY ReleaseStep
<1>2. /\ held_views[x] \in Nat /\ held_views[x] > 0
      /\ held_views' = [held_views EXCEPT ![x] = @ - 1]
      /\ view_refs' = [view_refs EXCEPT ![x] = @ - 1]
      /\ given' = [given EXCEPT ![x] = IF held_views[x] = 1 THEN {} ELSE @]
      /\ UNCHANGED <<factories, kept, list, view, extra, fc, warm, holder, pc, regs>>
  BY DEF ReleaseView, Types
<1>3. Types'
  <2>1. given' \in [Reals \X Views -> SUBSET Nat]
    BY <1>2 DEF Types
  <2> QED  BY <1>2, <2>1 DEF Types, factories, kept, list, extra, warm, regs
<1>4. UNCHANGED <<pc, on, result, got, g_factories, g_collection, tried, cached, refs, proxy_refs, held>>
  BY <1>2 DEF regs, kept, warm, factories
<1>5. ASSUME NEW r \in Reals, NEW v \in Views
      PROVE  /\ view_refs'[<<r, v>>] =
                  held_views'[<<r, v>>]
                  + (IF view'[<<r, v>>] = 0 THEN 0 ELSE 1)
                  + (IF v = Collection1
                     THEN Cardinality({t \in Threads : got'[t] = r}) + (IF g_collection' = r THEN 1 ELSE 0)
                     ELSE 0)
             /\ view'[<<r, v>>] = 0 => view_refs'[<<r, v>>] = 0
             /\ given'[<<r, v>>] \subseteq {view'[<<r, v>>]} \ {0}
  <2> DEFINE y == <<r, v>>
             n == IF v = Collection1
                  THEN Cardinality({t \in Threads : got[t] = r}) + (IF g_collection = r THEN 1 ELSE 0)
                  ELSE 0
  <2>1. n \in Nat
    <3>1. Cardinality({t \in Threads : got[t] = r}) \in Nat
      BY CountsAreNumbers
    <3> QED  BY <3>1
  <2>2. /\ view_refs[y] = held_views[y] + (IF view[y] = 0 THEN 0 ELSE 1) + n
        /\ view[y] = 0 => view_refs[y] = 0
        /\ given[y] \subseteq {view[y]} \ {0} /\ y \in Reals \X Views
    BY DEF ReferencesAddUp, NotMade, OneListForAll
  <2>3. n' = n
    BY <1>4
  <2> HIDE DEF y, n
  <2>4. CASE y # x
    <3>1. /\ view_refs'[y] = view_refs[y] /\ held_views'[y] = held_views[y]
          /\ view'[y] = view[y] /\ given'[y] = given[y]
      BY <1>2, <2>2, <2>4 DEF Types
    <3> QED  BY <2>2, <2>3, <3>1 DEF y, n
  <2>5. CASE y = x
    <3>1. /\ view_refs'[y] = view_refs[y] - 1 /\ held_views'[y] = held_views[y] - 1
          /\ view'[y] = view[y] /\ given'[y] \subseteq given[y]
      BY <1>2, <2>2, <2>5 DEF Types
    <3>2. view_refs[y] \in Int /\ held_views[y] \in Nat /\ held_views[y] > 0
      BY <1>2, <2>2, <2>5 DEF Types
    <3>3. view_refs'[y] = held_views'[y] + (IF view'[y] = 0 THEN 0 ELSE 1) + n'
      BY <2>1, <2>2, <2>3, <3>1, <3>2
    <3>4. view[y] # 0
      BY <2>1, <2>2, <3>2
    <3>5. given'[y] \subseteq {view'[y]} \ {0}
      BY <2>2, <3>1
    <3> QED  BY <3>1, <3>3, <3>4, <3>5 DEF y, n
  <2> QED  BY <2>4, <2>5
<1>6. ReferencesAddUp'
  <2>1. \A r \in Reals : /\ InHand(r)' = InHand(r) /\ Kept(Raw(r))' = Kept(Raw(r))
                         /\ Kept(Proxied(r))' = Kept(Proxied(r))
    BY <1>4 DEF InHand, Kept
  <2> QED  BY <1>4, <1>5, <2>1 DEF ReferencesAddUp
<1>7. NotMade'
  <2>1. ASSUME NEW y \in Reals \X Views, view'[y] = 0
        PROVE  view_refs'[y] = 0
    <3>1. PICK r \in Reals, v \in Views : y = <<r, v>>
      OBVIOUS
    <3> QED  BY <1>5, <2>1, <3>1
  <2> QED  BY <1>4, <2>1 DEF NotMade
<1>8. Registers' /\ ScansAttempted' /\ OneListForAll'
  BY <1>2, <1>5 DEF Registers, ScansAttempted, OneListForAll, regs, kept, list, factories
<1> QED  BY <1>1, <1>3, <1>6, <1>7, <1>8

\* Nothing is there when the process starts.
LEMMA InitRInv == Init => RInv
<1> SUFFICES ASSUME Init  PROVE RInv
  OBVIOUS
<1>1. IInv
  BY InitIInv
<1>2. Types
  <2>1. given \in [Reals \X Views -> SUBSET Nat]
    BY DEF Init
  <2>2. want \in [Threads -> Wants] /\ got \in [Threads -> Reals \cup {None}]
    BY DEF Init, Wants
  <2>3. /\ refs \in [Reals -> Int] /\ proxy_refs \in [Reals -> Int] /\ held \in [Handles -> Nat]
        /\ scans \in [Reals -> Nat]
        /\ view \in [Reals \X Views -> Nat] /\ view_refs \in [Reals \X Views -> Int]
        /\ held_views \in [Reals \X Views -> Nat]
    BY DEF Init
  <2> QED  BY <2>1, <2>2, <2>3 DEF Init, Types
<1>3. ReferencesAddUp
  <2>1. Cardinality({}) = 0
    BY FS_EmptySet
  <2>2. \A r : InHand(r) = 0
    <3> SUFFICES ASSUME NEW r  PROVE InHand(r) = 0
      OBVIOUS
    <3> DEFINE A == {t \in Threads : on[t] = r /\ pc[t] \in {"wrap", "proxyfor", "query"}}
               B == {t \in Threads : on[t] = r /\ pc[t] = "proxyfor"}
    <3>1. A = {} /\ B = {}
      BY DEF Init
    <3>2. InHand(r) = Cardinality(A) + Cardinality(B)
      BY DEF InHand
    <3>3. Cardinality(A) = 0 /\ Cardinality(B) = 0
      BY <2>1, <3>1
    <3> HIDE DEF A, B
    <3> QED  BY <3>2, <3>3
  <2>3. \A h \in Handles : Kept(h) = 0
    <3> SUFFICES ASSUME NEW h \in Handles  PROVE Kept(h) = 0
      OBVIOUS
    <3>1. {t \in Threads : result[t] = h} = {} /\ g_factories = None
      BY NoneAssumption DEF Init
    <3> QED  BY <2>1, <3>1 DEF Kept
  <2>4. \A r \in Reals : Cardinality({t \in Threads : got[t] = r}) = 0
    <3> SUFFICES ASSUME NEW r \in Reals  PROVE Cardinality({t \in Threads : got[t] = r}) = 0
      OBVIOUS
    <3>1. {t \in Threads : got[t] = r} = {}
      BY RealsAssumption DEF Init
    <3> QED  BY <2>1, <3>1
  <2>5. \A r \in Reals : Raw(r) \in Handles /\ Proxied(r) \in Handles
    BY DEF Raw, Proxied, Handles
  <2>6. \A r \in Reals : /\ refs[r] = 0 /\ proxy_refs[r] = 0 /\ r \notin cached
                         /\ held[Raw(r)] = 0 /\ held[Proxied(r)] = 0 /\ g_collection # r
    BY <2>5, RealsAssumption DEF Init
  <2>7. \A r \in Reals, v \in Views :
           view_refs[<<r, v>>] = 0 /\ held_views[<<r, v>>] = 0 /\ view[<<r, v>>] = 0
    BY DEF Init
  <2> QED  BY <2>2, <2>3, <2>4, <2>5, <2>6, <2>7 DEF ReferencesAddUp
<1>4. Registers
  BY DEF Init, Registers, Creating
<1>5. NotMade /\ ScansAttempted /\ OneListForAll
  BY DEF Init, NotMade, ScansAttempted, OneListForAll, One
<1> QED  BY <1>1, <1>2, <1>3, <1>4, <1>5 DEF RInv

LEMMA RInvNext == RInv /\ [Next]_vars => RInv'
<1> SUFFICES ASSUME RInv, [Next]_vars  PROVE RInv'
  OBVIOUS
<1>1. ASSUME NEW t \in Threads, Step(t)
      PROVE  RInv'
  <2>1. IInv' /\ Shapes'
    BY <1>1, ThreadStep DEF RInv, IInv
  <2>2. Types'
    BY <1>1, TypesStep DEF RInv, IInv
  <2>3. \A u \in Threads \ {t} : /\ pc'[u] = pc[u] /\ on'[u] = on[u]
                                 /\ result'[u] = result[u] /\ got'[u] = got[u]
    BY <1>1, OthersStand DEF RInv, IInv
  <2>4. \A r \in Reals : RestOfReal(t, r)' = RestOfReal(t, r)
    BY <1>1, <2>2, FactoriesBalance
  <2>5. \A r \in Reals : RestOfProxy(t, r)' = RestOfProxy(t, r)
    BY <1>1, <2>2, FactoriesBalance
  <2>6. \A r \in Reals, v \in Views : RestOfView(t, r, v)' = RestOfView(t, r, v)
    BY <1>1, <2>2, ViewsBalance
  <2>7. ReferencesAddUp'
    BY <2>1, <2>2, <2>3, <2>4, <2>5, <2>6, StillAddUp
  <2>8. Registers'
    BY <1>1, <2>1, RegistersStep DEF RInv
  <2>9. NotMade'
    BY <1>1, <2>2, NotMadeStep
  <2>10. ScansAttempted' /\ OneListForAll'
    BY <1>1, <2>2, ListStep
  <2> QED  BY <2>1, <2>2, <2>7, <2>8, <2>9, <2>10 DEF RInv
<1>2. CASE UNCHANGED vars
  <2> USE <1>2 DEF RInv, vars, factories, kept, list, views, extra, warm, regs
  <2>1. IInv'
    BY ReleaseStep
  <2>2. Types'
    BY DEF Types
  <2>3. ReferencesAddUp'
    BY DEF ReferencesAddUp, InHand, Kept
  <2>4. Registers'
    BY DEF Registers
  <2>5. NotMade' /\ ScansAttempted' /\ OneListForAll'
    BY DEF NotMade, ScansAttempted, OneListForAll
  <2> QED  BY <2>1, <2>2, <2>3, <2>4, <2>5
<1> QED
  BY <1>1, <1>2, ReleaseReferences, ReleaseCollections DEF Next, Step

\* Numbers that add up to the references that somebody has are not below zero.
LEMMA RInvTypes == RInv => TypeOK
<1> SUFFICES ASSUME RInv  PROVE TypeOK
  OBVIOUS
<1>1. \A r \in Reals : refs[r] \in Nat /\ proxy_refs[r] \in Nat
  <2> SUFFICES ASSUME NEW r \in Reals  PROVE refs[r] \in Nat /\ proxy_refs[r] \in Nat
    OBVIOUS
  <2>1. InHand(r) \in Nat /\ Kept(Raw(r)) \in Nat /\ Kept(Proxied(r)) \in Nat
    BY CountsAreNumbers
  <2>2. held[Raw(r)] \in Nat /\ held[Proxied(r)] \in Nat
    BY DEF RInv, Types, Raw, Proxied, Handles
  <2> QED  BY <2>1, <2>2 DEF RInv, ReferencesAddUp
<1>2. \A x \in Reals \X Views : view_refs[x] \in Nat
  <2> SUFFICES ASSUME NEW r \in Reals, NEW v \in Views  PROVE view_refs[<<r, v>>] \in Nat
    OBVIOUS
  <2>1. Cardinality({t \in Threads : got[t] = r}) \in Nat /\ held_views[<<r, v>>] \in Nat
    BY CountsAreNumbers DEF RInv, Types
  <2> QED  BY <2>1 DEF RInv, ReferencesAddUp
<1> QED  BY <1>1, <1>2 DEF RInv, Types, IInv, Shapes, TypeOK

LEMMA RInvAlways == Spec => []RInv
  BY InitRInv, RInvNext, PTL DEF Spec

\* Every variable has its type: among other things no count of references of a factory, a
\* proxy or a collection ever goes below zero, whoever releases what and when.
THEOREM CountsStayAboveZero == Spec => []TypeOK
  BY RInvAlways, RInvTypes, PTL

\* Whatever threads wrap, share, keep and release at once, the count of every factory, proxy
\* and collection is exactly that of those who have it: none leaks, and none is gone while
\* somebody uses it.
THEOREM EveryReferenceIsSomebodys == Spec => []ReferencesAddUp
<1>1. RInv => ReferencesAddUp
  BY DEF RInv
<1> QED  BY RInvAlways, <1>1, PTL

\* However many threads ask a proxy for the system's fonts at once, they are listed at most
\* once, and everybody is given the same collection.
THEOREM OneListIsBuilt == Spec => []OneListForAll
<1>1. RInv => OneListForAll
  BY DEF RInv
<1> QED  BY RInvAlways, <1>1, PTL
=============================================================================
