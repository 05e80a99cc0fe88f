--------------------------- MODULE HostProcessProofs ---------------------------
(***************************************************************************)
(* HostProcess for any image of libxul, any threads and any typefaces: the *)
(* types, that hooks lead back to what they replaced, that the calls of a  *)
(* function are redirected all or none, and that what is kept of typefaces *)
(* goes together.                                                          *)
(*                                                                         *)
(* CallsReachTheHost is not inductive: a patch stores its original before  *)
(* it writes, and stores nothing when it gave up, so a hook must be        *)
(* nowhere before its patch (Unreached) and the places still to be written *)
(* must hold the original (Placing).  What lies beside generatePath was    *)
(* looked at two patches before it is replaced (Neighbours).               *)
(***************************************************************************)
EXTENDS HostProcess, TLAPS

-----------------------------------------------------------------------------
(* libxul *)

\* the patches in their order, and the one that a hook belongs to
Rank(s) ==
    CASE s = "fallback" -> 1
      [] s = "underline" -> 2
      [] s = "path" -> 3
      [] s = "metrics" -> 4
      [] s = "image" -> 5
      [] s = "bounds" -> 6
      [] s = "vorigin" -> 7
      [] s = "webrender" -> 8
      [] s = "platform" -> 9
      [] s = "fixup" -> 10
      [] OTHER -> 11

HookRank(h) ==
    CASE h = "DwcGetCommonFallbackFonts" -> 1
      [] h = "DwcInitMetrics" -> 2
      [] h = "DwcGeneratePath" -> 3
      [] h = "DwcGenerateMetrics" -> 4
      [] h = "DwcGenerateImage" -> 5
      [] h = "DwcGetGlyphBounds" -> 6
      [] h = "DwcGetGlyphVOrigin" -> 7
      [] h = "DwcWrLoadGlyphThunk" -> 8
      [] OTHER -> 10

\* the patches that write slots, and those that redirect calls
Replacing == {"fallback", "path", "metrics", "image", "bounds"}
Redirecting == {"underline", "vorigin", "webrender", "fixup"}

Fresh(h) == (\A s \in Slots : relro[s] # h) /\ (\A c \in Sites : calls[c] # h)

Unreached ==
    \A h \in Hooks :
        HookRank(h) > Rank(step) \/ (HookRank(h) = Rank(step) /\ phase = "find") => Fresh(h)

Mine(c) == image.calls[c] = original[hook]

Placing ==
    /\ phase # "find" => HookRank(hook) = Rank(step) /\ original[hook] \in Functions
    /\ phase = "find" => todo = {}
    /\ phase = "slots" =>
          /\ todo \subseteq Slots /\ step \in Replacing
          /\ \A s \in todo : relro[s] = original[hook] /\ image.relro[s] = original[hook]
          /\ \A c \in Sites : calls[c] # hook
          /\ ~wrote => Fresh(hook)
    /\ phase \in {"open", "write", "tear"} =>
          /\ todo \subseteq Sites /\ step \in Redirecting
          /\ \A s \in Slots : relro[s] # hook
          /\ \A c \in todo : Mine(c) /\ calls[c] \in {image.calls[c], Torn}
    /\ phase = "open" => Fresh(hook) /\ (todo # {} => \A c \in Sites : Mine(c) => c \in todo)
    /\ phase \in {"write", "tear"} =>
          \A c \in Sites \ todo : Mine(c) <=> calls[c] = hook
    /\ \A c \in Sites : calls[c] = Torn =>
          phase = "tear" /\ c \in todo /\ \A d \in Sites : calls[d] = Torn => d = c

\* AllOrNothing, the function whose calls are being written left aside
OthersWhole ==
    \A c, d \in Sites :
        image.calls[c] = image.calls[d] /\ (phase \in {"write", "tear"} => ~Mine(c))
            => calls[c] = calls[d]

\* where generatePath was, or is about to be taken from
Marked(p) == relro[p] = "DwcGeneratePath" \/ (step = "path" /\ phase = "slots" /\ p \in todo)

Neighbours ==
    step \in {"path", "metrics", "image"} =>
        \A p \in Slots : Marked(p) =>
            /\ p > 2
            /\ \A q \in Slots : Marked(q) => q = p
            /\ ~(step = "image" /\ phase = "slots") => relro[p - 1] \in Functions
            /\ step = "path" \/ (step = "metrics" /\ phase = "find") => relro[p - 2] \in Functions
            /\ step = "metrics" => todo \subseteq {p - 2}

PCore ==
    /\ host \in Hosts
    /\ PatchTypeOK
    /\ CallsReachTheHost
    /\ Unreached
    /\ Placing
    /\ OthersWhole

PInv == PCore /\ Neighbours

-----------------------------------------------------------------------------
(* Typefaces *)

Reads(t) == place[t] \in {"reading", "describing"}

\* Who reads a font has the mutex and its typeface, which is not cached.
Reading ==
    \A t \in Callers :
        /\ Reads(t) <=> font_mutex = t
        /\ place[t] \notin {"never", "out"} => on[t] \in Addresses /\ object[on[t]] # None
        /\ Reads(t) => g_fonts[object[on[t]].id] = None
        /\ place[t] \in {"have", "slot", "describing"} => use[t] # None

BytesThere == \A key \in Ids : g_fonts[key] # None => vectors[g_fonts[key]] # None

CInv ==
    /\ CacheTypeOK
    /\ TypefacesKeepTheirBytes
    /\ Reading
    /\ BytesThere

IInv == role \in Roles /\ GeckoTypeOK /\ PInv /\ CInv

-----------------------------------------------------------------------------
(* A step of the patches *)

\* The parts of an image have their types.
LEMMA ImageTyped ==
  ASSUME host \in Hosts
  PROVE  /\ image.relro \in [Slots -> Functions \cup {Data}]
         /\ image.calls \in [Sites -> Functions]
         /\ image.owner \in [Sites -> Functions \cup {Nothing}]
         /\ image.large \subseteq Functions
  BY ImagesAssumption DEF image, ImageRecords

\* The order of the patches is a number.
LEMMA RanksAreNumbers ==
  /\ \A s \in Steps : Rank(s) \in Nat
  /\ \A h \in Hooks : HookRank(h) \in Nat
<1>1. \A s \in Steps : Rank(s) \in Nat
  BY DEF Rank, Steps
<1>2. \A h \in Hooks : HookRank(h) \in Nat
  BY DEF HookRank, Hooks
<1> QED
  BY <1>1, <1>2

\* Nothing depends on what the patches do not change.
LEMMA PatchUnchanged ==
  ASSUME PInv, UNCHANGED <<host, patchVars>>
  PROVE  PInv'
<1>1. image' = image
  BY DEF image
<1>2. PCore'
  BY <1>1 DEF PInv, PCore, patchVars, PatchTypeOK, CallsReachTheHost, Unreached, Fresh, Placing,
              Mine, OthersWhole
<1>3. Neighbours'
  BY DEF PInv, patchVars, Neighbours, Marked
<1> QED
  BY <1>2, <1>3 DEF PInv

\* Going on after a patch that found nothing to do.
LEMMA Skipping ==
  ASSUME PInv, phase = "find", NEW s \in Steps \ {"metrics", "image"}, Rank(step) < Rank(s),
         Skip(s), UNCHANGED host
  PROVE  PInv'
<1>1. image' = image
  BY DEF image
<1>2. (host \in Hosts /\ PatchTypeOK /\ CallsReachTheHost)'
  BY <1>1 DEF PInv, PCore, Skip, GoOn, PatchTypeOK, CallsReachTheHost
<1>3. Unreached'
  <2> SUFFICES ASSUME NEW h \in Hooks, HookRank(h) >= Rank(s)
               PROVE  Fresh(h)'
    BY DEF Skip, GoOn, Unreached, Rank, HookRank, Hooks, Steps
  <2>1. HookRank(h) > Rank(step)
    BY DEF Rank, HookRank, Hooks, Steps, PInv, PCore, PatchTypeOK
  <2> QED
    BY <2>1 DEF Skip, PInv, PCore, Unreached, Fresh
<1>4. Placing'
  BY <1>1 DEF Skip, GoOn, PInv, PCore, Placing
<1>5. OthersWhole'
  BY <1>1 DEF Skip, GoOn, PInv, PCore, OthersWhole
<1>6. Neighbours'
  <2> SUFFICES ASSUME s = "path" PROVE Neighbours'
    BY DEF Skip, GoOn, Neighbours
  <2>1. Fresh("DwcGeneratePath")
    BY DEF PInv, PCore, Unreached, Rank, HookRank, Hooks
  <2> QED
    BY <2>1 DEF Skip, GoOn, Neighbours, Marked, Fresh
<1> QED
  BY <1>2, <1>3, <1>4, <1>5, <1>6 DEF PInv, PCore

\* A function found where the image has it is kept as the original before anything is written.
LEMMA Installing ==
  ASSUME PInv, phase = "find", step # "over",
         NEW h \in Hooks, HookRank(h) = Rank(step),
         NEW f \in Functions, NEW places, NEW p \in {"slots", "open"},
         p = "slots" => step \in Replacing /\ places \subseteq {s \in Slots : relro[s] = f},
         p = "open" => step \in Redirecting /\ places = {c \in Sites : calls[c] = f},
         Install(h, f, places, p), UNCHANGED host
  PROVE  PCore'
<1>1. image' = image
  BY DEF image
<1>2. Fresh(h)
  BY DEF PInv, PCore, Unreached
<1>3. PatchTypeOK'
  <2>1. places \in (SUBSET Slots) \cup (SUBSET Sites)
    <3>1. CASE p = "slots"
      BY <3>1
    <3>2. CASE p = "open"
      <4>1. places \subseteq Sites
        BY <3>2
      <4> QED
        BY <4>1, Zenon
    <3> QED
      BY <3>1, <3>2
  <2>2. original' \in [Hooks -> Functions \cup {Nothing}]
    BY DEF PInv, PCore, PatchTypeOK, Install
  <2>3. wrote' \in BOOLEAN
    BY DEF Install
  <2> QED
    BY <2>1, <2>2, <2>3 DEF PInv, PCore, PatchTypeOK, Install
<1>4. CallsReachTheHost'
  BY <1>1, <1>2 DEF PInv, PCore, CallsReachTheHost, Install, Fresh, PatchTypeOK
<1>5. Unreached'
  BY DEF PInv, PCore, Unreached, Install, Fresh
<1>6. original' [h] = f /\ hook' = h /\ f \notin Hooks /\ f # Torn
  BY NamesAssumption DEF Install, PInv, PCore, PatchTypeOK
<1>7. Placing'
  <2>1. \A s \in Slots : relro[s] = f => image.relro[s] = f
    BY <1>6 DEF PInv, PCore, CallsReachTheHost
  <2>2. \A c \in Sites : calls[c] = f => image.calls[c] = f
    BY <1>6 DEF PInv, PCore, CallsReachTheHost
  <2>3. \A c, d \in Sites : image.calls[c] = image.calls[d] => calls[c] = calls[d]
    BY DEF PInv, PCore, OthersWhole
  <2>4. \A c \in Sites : calls[c] # Torn
    BY DEF PInv, PCore, Placing
  <2> QED
    BY <1>1, <1>2, <1>6, <2>1, <2>2, <2>3, <2>4 DEF Install, Placing, Mine, Fresh
<1>8. OthersWhole'
  BY <1>1 DEF PInv, PCore, OthersWhole, Install
<1> QED
  BY <1>3, <1>4, <1>5, <1>7, <1>8 DEF PInv, PCore

\* WriteSlot writes the original's own slots.
LEMMA SlotWritten ==
  ASSUME PInv, WriteSlot, UNCHANGED host
  PROVE  PInv'
<1>1. image' = image
  BY DEF image
<1>2. PICK s \in todo :
        /\ todo' = todo \ {s}
        /\ \/ relro' = [relro EXCEPT ![s] = hook] /\ wrote' = TRUE /\ UNCHANGED refusals
           \/ refusals' = refusals + 1 /\ UNCHANGED <<relro, wrote>>
  BY DEF WriteSlot
<1>3. /\ phase = "slots" /\ s \in Slots /\ hook \in Hooks
      /\ relro[s] = original[hook] /\ image.relro[s] = original[hook]
      /\ original[hook] \in Functions /\ HookRank(hook) = Rank(step)
      /\ relro \in [Slots -> Functions \cup {Data} \cup Hooks]
      /\ relro' \in [Slots -> Functions \cup {Data} \cup Hooks]
      /\ HookRank(hook) \in Nat /\ todo \subseteq Slots
  BY <1>2 DEF PInv, PCore, PatchTypeOK, Placing, WriteSlot, HookRank
<1>4. UNCHANGED <<calls, original, platform, step, phase, hook, copy>>
  BY DEF WriteSlot
<1>5. \A r \in Slots : relro'[r] = relro[r] \/ (r = s /\ relro'[r] = hook /\ wrote')
  BY <1>2, <1>3
<1>6. PatchTypeOK'
  <2>1. todo' \in (SUBSET Slots) \cup (SUBSET Sites)
    BY <1>2, <1>3 DEF PInv, PCore, Placing
  <2>2. refusals' \in Nat
    BY <1>2 DEF PInv, PCore, PatchTypeOK
  <2>3. wrote' \in BOOLEAN
    BY <1>2 DEF PInv, PCore, PatchTypeOK
  <2> QED
    BY <1>3, <1>4, <2>1, <2>2, <2>3 DEF PInv, PCore, PatchTypeOK
<1>7. CallsReachTheHost'
  BY <1>1, <1>3, <1>4, <1>5 DEF PInv, PCore, CallsReachTheHost
<1>8. Unreached'
  BY <1>3, <1>4, <1>5 DEF PInv, PCore, Unreached, Fresh
<1>9. Placing'
  <2>1. ~wrote' => Fresh(hook)'
    BY <1>2, <1>3, <1>4 DEF PInv, PCore, Placing, Fresh
  <2>2. \A r \in todo' : relro'[r] = relro[r]
    BY <1>2, <1>3
  <2> QED
    BY <1>1, <1>2, <1>3, <1>4, <2>1, <2>2 DEF PInv, PCore, Placing
<1>10. OthersWhole'
  BY <1>1, <1>3, <1>4 DEF PInv, PCore, OthersWhole, Mine
<1>11. Neighbours'
  <2> SUFFICES ASSUME step \in {"path", "metrics", "image"}, NEW p \in Slots, Marked(p)'
               PROVE  /\ p > 2
                      /\ \A q \in Slots : Marked(q)' => q = p
                      /\ ~(step = "image") => relro'[p - 1] \in Functions
                      /\ step = "path" => relro'[p - 2] \in Functions
                      /\ step = "metrics" => todo' \subseteq {p - 2}
    BY <1>3, <1>4 DEF Neighbours
  <2>1. step = "path" <=> hook = "DwcGeneratePath"
    BY <1>3 DEF Rank, HookRank, Hooks
  <2>2. \A q \in Slots : Marked(q)' => Marked(q)
    BY <1>2, <1>3, <1>4, <1>5, <2>1 DEF Marked
  <2>3. Marked(p) /\ p > 2 /\ (\A q \in Slots : Marked(q) => q = p)
    BY <2>2 DEF PInv, Neighbours
  <2>4. step = "path" => s = p
    BY <1>3, <2>3 DEF Marked
  <2>5. p - 1 \in Slots /\ p - 2 \in Slots
    BY <2>3, NamesAssumption DEF Slots
  <2>6. step = "metrics" => s = p - 2 /\ todo' \subseteq {p - 2}
    BY <1>2, <2>3 DEF PInv, Neighbours
  <2>7. step # "image" => relro'[p - 1] \in Functions
    BY <1>3, <1>5, <2>3, <2>4, <2>5, <2>6 DEF PInv, Neighbours, Slots
  <2>8. step = "path" => relro'[p - 2] \in Functions
    BY <1>3, <1>5, <2>3, <2>4, <2>5 DEF PInv, Neighbours, Slots
  <2> QED
    BY <2>2, <2>3, <2>6, <2>7, <2>8
<1> QED
  BY <1>6, <1>7, <1>8, <1>9, <1>10, <1>11 DEF PInv, PCore

\* When its slots are written or refused, a hook that is nowhere forgets its original.
LEMMA SlotsDone ==
  ASSUME PInv, SlotsWritten, UNCHANGED host
  PROVE  PInv'
<1>1. image' = image
  BY DEF image
<1>2. /\ phase = "slots" /\ todo = {} /\ phase' = "find" /\ todo' = {} /\ step' = AfterSlots
      /\ UNCHANGED <<relro, calls, platform, hook, wrote, copy, refusals>>
      /\ HookRank(hook) = Rank(step) /\ hook \in Hooks /\ step \in Replacing
      /\ original' = IF wrote THEN original ELSE [original EXCEPT ![hook] = Nothing]
  BY DEF SlotsWritten, GoOn, PInv, PCore, Placing, PatchTypeOK
<1>3. ~wrote => Fresh(hook)
  BY <1>2 DEF PInv, PCore, Placing
<1>4. AfterSlots \in Steps /\ Rank(step) < Rank(AfterSlots)
  <2>1. \/ step = "fallback" /\ AfterSlots \in {"over", "underline"}
        \/ step = "path" /\ AfterSlots \in {"bounds", "metrics"}
        \/ step = "metrics" /\ AfterSlots = "image"
        \/ step = "image" /\ AfterSlots = "bounds"
        \/ step = "bounds" /\ AfterSlots = "vorigin"
    BY <1>2 DEF AfterSlots, Following, Replacing
  <2> QED
    BY <2>1 DEF Rank, Steps
<1>5. PatchTypeOK'
  BY <1>2, <1>4 DEF PInv, PCore, PatchTypeOK
<1>6. CallsReachTheHost'
  BY <1>1, <1>2, <1>3 DEF PInv, PCore, CallsReachTheHost, Fresh, PatchTypeOK
<1>7. Unreached'
  <2> SUFFICES ASSUME NEW h \in Hooks, HookRank(h) >= Rank(AfterSlots)
               PROVE  Fresh(h)'
    BY <1>2, <1>4 DEF Unreached, Rank, HookRank, Hooks, Steps
  <2>1. HookRank(h) > Rank(step)
    BY <1>2, <1>4 DEF Rank, HookRank, Hooks, Steps, Replacing
  <2> QED
    BY <1>2, <2>1 DEF PInv, PCore, Unreached, Fresh
<1>8. Placing'
  BY <1>1, <1>2 DEF PInv, PCore, Placing
<1>9. OthersWhole'
  BY <1>1, <1>2 DEF PInv, PCore, OthersWhole
<1>10. Neighbours'
  <2> SUFFICES ASSUME AfterSlots \in {"path", "metrics", "image"}, NEW p \in Slots, Marked(p)'
               PROVE  /\ p > 2
                      /\ \A q \in Slots : Marked(q)' => q = p
                      /\ relro'[p - 1] \in Functions
                      /\ AfterSlots = "metrics" => relro'[p - 2] \in Functions
                      /\ AfterSlots # "path"
    BY <1>2 DEF Neighbours
  <2>1. \A q \in Slots : Marked(q)' => Marked(q)
    BY <1>2 DEF Marked
  <2>2. \/ AfterSlots = "path" /\ step = "underline"
        \/ AfterSlots = "metrics" /\ step = "path"
        \/ AfterSlots = "image" /\ step = "metrics"
    BY <1>2 DEF AfterSlots, Following, Replacing
  <2>3. step = "underline" => Fresh("DwcGeneratePath")
    BY DEF PInv, PCore, Unreached, Rank, HookRank, Hooks
  <2>4. step # "underline"
    BY <1>2, <2>2, <2>3 DEF Marked, Fresh
  <2> QED
    BY <1>2, <2>1, <2>2, <2>4 DEF PInv, Neighbours
<1> QED
  BY <1>5, <1>6, <1>7, <1>8, <1>9, <1>10 DEF PInv, PCore

\* A redirection that is refused has written nothing.
LEMMA Refused ==
  ASSUME PInv, RedirectRefused, UNCHANGED host
  PROVE  PInv'
<1>1. image' = image
  BY DEF image
<1>2. /\ phase = "open" /\ phase' = "find" /\ todo' = {} /\ step' = AfterCalls(FALSE)
      /\ original' = [original EXCEPT ![hook] = Nothing]
      /\ UNCHANGED <<relro, calls, platform, hook, wrote>>
      /\ HookRank(hook) = Rank(step) /\ hook \in Hooks /\ step \in Redirecting
      /\ Fresh(hook)
  BY DEF RedirectRefused, GoOn, PInv, PCore, Placing, PatchTypeOK
<1>3. /\ step' \in Steps \ {"metrics", "image"}
      /\ Rank(step) < Rank(step)' \/ (step = "fixup" /\ step' = "fixup" /\ Rank(step)' = 10)
      /\ Rank(step) \in Nat /\ Rank(step)' \in Nat
  <2>1. \/ step = "underline" /\ step' = "path"
        \/ step = "vorigin" /\ step' = "webrender"
        \/ step = "webrender" /\ step' = "platform"
        \/ step = "fixup" /\ step' = "fixup"
    BY <1>2 DEF AfterCalls, Following, Redirecting
  <2> QED
    BY <2>1 DEF Rank, Steps
<1>4. PatchTypeOK'
  <2>1. copy' \in Nat /\ refusals' \in Nat
    BY DEF RedirectRefused, PInv, PCore, PatchTypeOK
  <2> QED
    BY <1>2, <1>3, <2>1 DEF PInv, PCore, PatchTypeOK
<1>5. CallsReachTheHost'
  BY <1>1, <1>2 DEF PInv, PCore, CallsReachTheHost, Fresh, PatchTypeOK
<1>6. Unreached'
  <2> SUFFICES ASSUME NEW h \in Hooks, HookRank(h) >= Rank(step)'
               PROVE  Fresh(h)'
    BY <1>3, RanksAreNumbers DEF Unreached
  <2>1. HookRank(h) > Rank(step) \/ (step = "fixup" /\ HookRank(h) >= 10)
    BY <1>3, RanksAreNumbers
  <2>2. step = "fixup" /\ HookRank(h) >= 10 => h = hook
    BY <1>2 DEF Rank, HookRank, Hooks
  <2> QED
    BY <1>2, <2>1, <2>2 DEF PInv, PCore, Unreached, Fresh
<1>7. Placing'
  BY <1>1, <1>2 DEF PInv, PCore, Placing
<1>8. OthersWhole'
  BY <1>1, <1>2 DEF PInv, PCore, OthersWhole
<1>9. Neighbours'
  <2> SUFFICES ASSUME step' = "path" PROVE Neighbours'
    BY <1>3 DEF Neighbours
  <2>1. step = "underline"
    BY <1>2 DEF AfterCalls, Following, Redirecting
  <2>2. Fresh("DwcGeneratePath")
    BY <2>1 DEF PInv, PCore, Unreached, Rank, HookRank, Hooks
  <2> QED
    BY <1>2, <2>2 DEF Neighbours, Marked, Fresh
<1> QED
  BY <1>4, <1>5, <1>6, <1>7, <1>8, <1>9 DEF PInv, PCore

\* Every call of the function is on the list when its pages are open.
LEMMA Opened ==
  ASSUME PInv, OpenPages, UNCHANGED host
  PROVE  PInv'
<1>1. image' = image
  BY DEF image
<1>2. /\ phase = "open" /\ phase' = "write" /\ todo # {}
      /\ UNCHANGED <<relro, calls, original, platform, step, hook, todo, wrote, copy, refusals>>
      /\ step \in Redirecting /\ Fresh(hook)
  BY DEF OpenPages, CallsSound, PInv, PCore, Placing
<1>3. PCore'
  <2>1. PatchTypeOK' /\ CallsReachTheHost' /\ Unreached'
    BY <1>1, <1>2 DEF PInv, PCore, PatchTypeOK, CallsReachTheHost, Unreached, Fresh
  <2>2. Placing'
    BY <1>1, <1>2 DEF PInv, PCore, Placing, Mine, Fresh
  <2>3. OthersWhole'
    BY <1>1, <1>2 DEF PInv, PCore, OthersWhole, Mine
  <2> QED
    BY <2>1, <2>2, <2>3 DEF PInv, PCore
<1>4. Neighbours'
  BY <1>2 DEF Neighbours, Redirecting, PInv, Marked
<1> QED
  BY <1>3, <1>4 DEF PInv

\* One call, or one half of it, is written.
LEMMA CallWritten ==
  ASSUME PInv, WriteDisplacement \/ WriteOtherHalf, UNCHANGED host
  PROVE  PInv'
<1>1. image' = image
  BY DEF image
<1>2. PICK c \in todo :
        \/ /\ phase = "write" /\ phase' = "write"
           /\ calls' = [calls EXCEPT ![c] = hook] /\ todo' = todo \ {c}
        \/ /\ phase = "write" /\ phase' = "tear"
           /\ calls' = [calls EXCEPT ![c] = Torn] /\ todo' = todo
        \/ /\ phase = "tear" /\ phase' = "write" /\ calls[c] = Torn
           /\ calls' = [calls EXCEPT ![c] = hook] /\ todo' = todo \ {c}
  BY DEF WriteDisplacement, WriteOtherHalf
<1>3. /\ UNCHANGED <<relro, original, platform, step, hook, wrote, copy, refusals>>
      /\ phase \in {"write", "tear"} /\ phase' \in {"write", "tear"}
      /\ c \in Sites /\ hook \in Hooks /\ Mine(c) /\ todo' \subseteq todo
      /\ HookRank(hook) = Rank(step) /\ step \in Redirecting /\ todo \subseteq Sites
      /\ calls \in [Sites -> Functions \cup {Torn} \cup Hooks]
      /\ original[hook] \in Functions /\ HookRank(hook) \in Nat
  BY <1>2 DEF WriteDisplacement, WriteOtherHalf, PInv, PCore, Placing, PatchTypeOK, HookRank
<1>4. calls'[c] \in {hook, Torn} /\ \A d \in Sites \ {c} : calls'[d] = calls[d]
  BY <1>2, <1>3
<1>5. PatchTypeOK'
  <2>1. calls' \in [Sites -> Functions \cup {Torn} \cup Hooks]
    BY <1>2, <1>3
  <2>2. todo' \subseteq Sites
    BY <1>3
  <2>3. todo' \in (SUBSET Slots) \cup (SUBSET Sites)
    BY <2>2, Zenon
  <2> QED
    BY <1>3, <2>1, <2>3 DEF PInv, PCore, PatchTypeOK
<1>6. CallsReachTheHost'
  BY <1>1, <1>3, <1>4 DEF PInv, PCore, CallsReachTheHost, Mine
<1>7. Unreached'
  <2>1. \A h \in Hooks : HookRank(h) > Rank(step) => Fresh(h) /\ h # hook /\ h # Torn
    BY <1>3, NamesAssumption DEF PInv, PCore, Unreached
  <2> QED
    BY <1>3, <1>4, <2>1 DEF Unreached, Fresh
<1>8. Placing'
  <2>1. \A d \in Sites : Mine(d)' <=> Mine(d)
    BY <1>1, <1>3 DEF Mine
  <2>2. hook # Torn
    BY <1>3, NamesAssumption
  <2>3. \A d \in todo' : Mine(d) /\ calls'[d] \in {image.calls[d], Torn}
    BY <1>2, <1>3, <1>4 DEF PInv, PCore, Placing
  <2>4. \A d \in Sites \ todo' : Mine(d) <=> calls'[d] = hook
    BY <1>2, <1>3, <1>4 DEF PInv, PCore, Placing
  <2>5. \A d \in Sites : calls'[d] = Torn =>
            phase' = "tear" /\ d \in todo' /\ \A e \in Sites : calls'[e] = Torn => e = d
    BY <1>2, <1>3, <1>4, <2>2 DEF PInv, PCore, Placing
  <2> QED
    BY <1>1, <1>3, <2>1, <2>3, <2>4, <2>5 DEF PInv, PCore, Placing
<1>9. OthersWhole'
  BY <1>1, <1>3, <1>4 DEF PInv, PCore, OthersWhole, Mine
<1>10. Neighbours'
  BY <1>3 DEF Neighbours, Redirecting, PInv, Marked
<1> QED
  BY <1>5, <1>6, <1>7, <1>8, <1>9, <1>10 DEF PInv, PCore

\* When the list is empty, all the calls lead to the hook.
LEMMA CallsDone ==
  ASSUME PInv, CallsRedirected, UNCHANGED host
  PROVE  PInv'
<1>1. image' = image
  BY DEF image
<1>2. /\ phase = "write" /\ todo = {} /\ phase' = "find" /\ todo' = {}
      /\ step' = AfterCalls(TRUE)
      /\ UNCHANGED <<relro, calls, original, platform, hook, wrote, copy, refusals>>
      /\ step \in Redirecting
  BY DEF CallsRedirected, GoOn, PInv, PCore, Placing
<1>3. /\ step' \in Steps \ {"metrics", "image"}
      /\ Rank(step) < Rank(step)'
      /\ Rank(step) \in Nat /\ Rank(step)' \in Nat
  <2>1. \/ step = "underline" /\ step' = "path"
        \/ step = "vorigin" /\ step' = "webrender"
        \/ step = "webrender" /\ step' = "platform"
        \/ step = "fixup" /\ step' = "over"
    BY <1>2 DEF AfterCalls, Following, Redirecting
  <2> QED
    BY <2>1 DEF Rank, Steps
<1>4. PatchTypeOK' /\ CallsReachTheHost'
  BY <1>1, <1>2, <1>3 DEF PInv, PCore, PatchTypeOK, CallsReachTheHost
<1>5. Unreached'
  <2> SUFFICES ASSUME NEW h \in Hooks, HookRank(h) >= Rank(step)'
               PROVE  Fresh(h)'
    BY <1>3, RanksAreNumbers DEF Unreached
  <2>1. HookRank(h) > Rank(step)
    BY <1>3, RanksAreNumbers
  <2> QED
    BY <1>2, <2>1 DEF PInv, PCore, Unreached, Fresh
<1>6. Placing'
  BY <1>1, <1>2 DEF PInv, PCore, Placing
<1>7. OthersWhole'
  <2>1. \A c \in Sites : Mine(c) <=> calls[c] = hook
    BY <1>2 DEF PInv, PCore, Placing
  <2> QED
    BY <1>1, <1>2, <2>1 DEF PInv, PCore, OthersWhole, Mine
<1>8. Neighbours'
  <2> SUFFICES ASSUME step' = "path" PROVE Neighbours'
    BY <1>3 DEF Neighbours
  <2>1. Fresh("DwcGeneratePath")
    BY <1>3 DEF PInv, PCore, Unreached, Rank, HookRank, Hooks
  <2> QED
    BY <1>2, <2>1 DEF Neighbours, Marked, Fresh
<1> QED
  BY <1>4, <1>5, <1>6, <1>7, <1>8 DEF PInv, PCore

\* What a finder finds are functions of the image.
LEMMA FindersFindFunctions ==
  ASSUME host \in Hosts
  PROVE  /\ FindOwningFunction \subseteq Functions
         /\ FindInitMetrics \subseteq Functions
         /\ FindGlyphBounds \subseteq Functions
         /\ FindGlyphVOrigin \subseteq Functions
         /\ FindWebRenderLoadGlyph \subseteq Functions
         /\ \A k : InlinedFixups(k) \subseteq Functions
<1>1. \A S : Lone(S) \subseteq S
  BY DEF Lone
<1>2. \A f : DirectCallers(f) \subseteq Functions
  BY ImageTyped DEF DirectCallers
<1>3. FindOwningFunction \subseteq Functions
  BY DEF FindOwningFunction
<1>4. FindInitMetrics \subseteq Functions
  BY <1>1 DEF FindInitMetrics, FunctionsCalling
<1>5. FindGlyphBounds \subseteq Functions
  <2> DEFINE Above(e) == IF TooMany(DirectCallers(e)) THEN {} ELSE DirectCallers(e)
             Slotted(f) == CollectVtableSlots(f) # {} /\ ~TooMany(CollectVtableSlots(f))
             S == {f \in UNION {Above(e) : e \in FindGlyphExtents} : Slotted(f)}
  <2>1. S \subseteq Functions
    BY <1>2
  <2>2. FindGlyphBounds = Lone(S)
    BY DEF FindGlyphBounds
  <2> QED
    BY <1>1, <2>1, <2>2
<1>6. FindGlyphVOrigin \subseteq Functions
  BY <1>1 DEF FindGlyphVOrigin, FunctionsHolding
<1>7. FindWebRenderLoadGlyph \subseteq Functions
  BY <1>1 DEF FindWebRenderLoadGlyph
<1>8. \A k : InlinedFixups(k) \subseteq Functions
  BY ImageTyped DEF InlinedFixups
<1> QED
  BY <1>3, <1>4, <1>5, <1>6, <1>7, <1>8

\* generatePath lies behind two functions.
LEMMA GeneratePathHasNeighbours ==
  ASSUME host \in Hosts, NEW f \in FindGeneratePath
  PROVE  /\ f \in Functions
         /\ \E s \in Slots : /\ CollectVtableSlots(f) = {s} /\ s > 2
                            /\ {relro[s - 1], relro[s - 2]} \subseteq Functions
<1> DEFINE walkers == FunctionsCalling("FT_Outline_Decompose")
           loaders == FunctionsCalling("FT_Load_Glyph")
           walking == UNION {Truncated(DirectCallers(w), MaxFunctions) : w \in walkers}
           Loads(g) == \E l \in loaders \ walkers :
                          /\ ~TooMany(DirectCallers(l)) /\ g \in DirectCallers(l)
                          /\ Beside(g, DirectCallers(l))
           S == {g \in walking \ Rasterizers : Loads(g)}
<1>1. \A l : DirectCallers(l) \subseteq Functions
  BY ImageTyped DEF DirectCallers
<1>2. f \in S
  BY DEF FindGeneratePath, Lone
<1>3. PICK l : f \in DirectCallers(l) /\ Beside(f, DirectCallers(l))
  BY <1>2
<1> QED
  BY <1>1, <1>3 DEF Beside

\* A patch whose function is written into slots, or whose calls are redirected.
LEMMA Replaced ==
  ASSUME PInv, UNCHANGED host,
         NEW s \in Replacing \ {"path", "metrics", "image"}, NEW h \in Hooks, HookRank(h) = Rank(s),
         NEW found, found \subseteq Functions,
         NEW other \in Steps \ {"metrics", "image"}, Rank(s) < Rank(other),
         Replace(s, h, found, other)
  PROVE  PInv'
<1>1. step = s /\ phase = "find"
  BY DEF Replace, At
<1>2. CASE Skip(other)
  BY <1>1, <1>2, Skipping
<1>3. CASE \E f \in found : Install(h, f, CollectVtableSlots(f), "slots")
  <2>1. PICK f \in Functions : Install(h, f, CollectVtableSlots(f), "slots")
    BY <1>3
  <2>2. CollectVtableSlots(f) \subseteq {p \in Slots : relro[p] = f}
    BY DEF CollectVtableSlots
  <2>3. step # "over"
    BY <1>1 DEF Replacing
  <2>4. PCore'
    BY <1>1, <2>1, <2>2, <2>3, Installing
  <2>5. Neighbours'
    BY <1>1, <2>1 DEF Install, Neighbours
  <2> QED
    BY <2>4, <2>5 DEF PInv
<1> QED
  BY <1>2, <1>3 DEF Replace

LEMMA Redirected ==
  ASSUME PInv, UNCHANGED host,
         NEW s \in Redirecting \ {"fixup"}, NEW h \in Hooks, HookRank(h) = Rank(s),
         NEW found, found \subseteq Functions,
         Redirect(s, h, found)
  PROVE  PInv'
<1>1. step = s /\ phase = "find"
  BY DEF Redirect, At
<1>2. CASE Skip(Following(s))
  <2>1. Following(s) \in Steps \ {"metrics", "image"} /\ Rank(s) < Rank(Following(s))
    <3>1. \/ s = "underline" /\ Following(s) = "path"
          \/ s = "vorigin" /\ Following(s) = "webrender"
          \/ s = "webrender" /\ Following(s) = "platform"
      BY DEF Redirecting, Following
    <3> QED
      BY <3>1 DEF Rank, Steps
  <2> QED
    BY <1>1, <1>2, <2>1, Skipping
<1>3. CASE \E f \in found : Install(h, f, {c \in Sites : calls[c] = f}, "open")
  <2>1. PICK f \in Functions : Install(h, f, {c \in Sites : calls[c] = f}, "open")
    BY <1>3
  <2>2. step # "over"
    BY <1>1 DEF Redirecting
  <2>3. PCore'
    BY <1>1, <2>1, <2>2, Installing
  <2>4. Neighbours'
    BY <1>1, <2>1 DEF Install, Neighbours, Redirecting
  <2> QED
    BY <2>3, <2>4 DEF PInv
<1> QED
  BY <1>2, <1>3 DEF Redirect

LEMMA PathReplaced ==
  ASSUME PInv, UNCHANGED host, PatchGlyphPath
  PROVE  PInv'
<1>1. step = "path" /\ phase = "find" /\ host \in Hosts
  BY DEF PatchGlyphPath, Replace, At, PInv, PCore
<1>2. CASE Skip("bounds")
  <2>1. "bounds" \in Steps \ {"metrics", "image"} /\ Rank("path") < Rank("bounds")
    BY DEF Steps, Rank
  <2> QED
    BY <1>1, <1>2, <2>1, Skipping
<1>3. CASE \E f \in FindGeneratePath :
              Install("DwcGeneratePath", f, CollectVtableSlots(f), "slots")
  <2>1. PICK f \in FindGeneratePath :
             Install("DwcGeneratePath", f, CollectVtableSlots(f), "slots")
    BY <1>3
  <2>2. f \in Functions
    BY <1>1, GeneratePathHasNeighbours
  <2>3. PICK s \in Slots : /\ CollectVtableSlots(f) = {s} /\ s > 2
                           /\ {relro[s - 1], relro[s - 2]} \subseteq Functions
    BY <1>1, GeneratePathHasNeighbours
  <2>4. HookRank("DwcGeneratePath") = Rank(step) /\ "DwcGeneratePath" \in Hooks
    BY <1>1 DEF HookRank, Rank, Hooks
  <2>5. /\ CollectVtableSlots(f) \subseteq {p \in Slots : relro[p] = f}
        /\ step # "over" /\ step \in Replacing
    BY <1>1 DEF CollectVtableSlots, Replacing
  <2>6. PCore'
    BY <1>1, <2>1, <2>2, <2>4, <2>5, Installing
  <2>7. Fresh("DwcGeneratePath")
    BY <1>1, <2>4 DEF PInv, PCore, Unreached
  <2>8. Neighbours'
    BY <1>1, <2>1, <2>3, <2>7 DEF Install, Neighbours, Marked, Fresh
  <2> QED
    BY <2>6, <2>8 DEF PInv
<1> QED
  BY <1>2, <1>3 DEF PatchGlyphPath, Replace

LEMMA BesideReplaced ==
  ASSUME PInv, UNCHANGED host,
         \/ PatchBeside("metrics", "DwcGenerateMetrics", 2)
         \/ PatchBeside("image", "DwcGenerateImage", 1)
  PROVE  PInv'
<1>1. PICK s \in {"metrics", "image"}, h \in Hooks, back \in {1, 2} :
        /\ PatchBeside(s, h, back) /\ HookRank(h) = Rank(s)
        /\ s = "metrics" <=> back = 2
  <2>1. CASE PatchBeside("metrics", "DwcGenerateMetrics", 2)
    BY <2>1 DEF Hooks, HookRank, Rank
  <2>2. CASE PatchBeside("image", "DwcGenerateImage", 1)
    BY <2>2 DEF Hooks, HookRank, Rank
  <2> QED
    BY <2>1, <2>2
<1>2. step = s /\ phase = "find"
  BY <1>1 DEF PatchBeside, At
<1>3. PICK p \in CollectVtableSlots("DwcGeneratePath") :
           Install(h, relro[p - back], {p - back}, "slots")
  BY <1>1 DEF PatchBeside
<1>4. p \in Slots /\ Marked(p)
  BY <1>3 DEF CollectVtableSlots, Marked
<1>5. /\ p > 2 /\ \A q \in Slots : Marked(q) => q = p
      /\ relro[p - 1] \in Functions /\ relro[p - back] \in Functions
      /\ p - back \in Slots
  BY <1>1, <1>2, <1>4, NamesAssumption DEF PInv, Neighbours, Slots
<1>6. {p - back} \subseteq {q \in Slots : relro[q] = relro[p - back]}
  BY <1>5
<1>7. PCore'
  <2>1. step # "over" /\ step \in Replacing
    BY <1>2 DEF Replacing
  <2> QED
    BY <1>1, <1>2, <1>3, <1>5, <1>6, <2>1, Installing
<1>8. Neighbours'
  <2>1. \A q \in Slots : Marked(q)' => Marked(q)
    BY <1>2, <1>3 DEF Install, Marked
  <2> QED
    BY <1>1, <1>2, <1>3, <1>5, <2>1 DEF Install, Neighbours
<1> QED
  BY <1>7, <1>8 DEF PInv

\* The platform comparison is written on its own.
LEMMA PlatformPatched ==
  ASSUME PInv, UNCHANGED host, PatchPlatformMediaFeature
  PROVE  PInv'
<1>1. image' = image
  BY DEF image
<1>2. /\ step = "platform" /\ phase = "find" /\ step' = "fixup"
      /\ UNCHANGED <<relro, calls, original, phase, hook, todo, wrote, copy>>
  BY DEF PatchPlatformMediaFeature, At, Following
<1>3. PatchTypeOK'
  <2>1. refusals' \in Nat /\ step' \in Steps
    BY <1>2 DEF PatchPlatformMediaFeature, PInv, PCore, PatchTypeOK, Steps
  <2>2. platform' \in BOOLEAN
    BY DEF PatchPlatformMediaFeature, PInv, PCore, PatchTypeOK
  <2> QED
    BY <1>2, <2>1, <2>2 DEF PInv, PCore, PatchTypeOK
<1>4. CallsReachTheHost' /\ OthersWhole' /\ Neighbours'
  BY <1>1, <1>2 DEF PInv, PCore, CallsReachTheHost, OthersWhole, Neighbours
<1>5. Unreached'
  <2> SUFFICES ASSUME NEW h \in Hooks, HookRank(h) >= 10 PROVE Fresh(h)'
    BY <1>2, RanksAreNumbers DEF Unreached, Rank
  <2>1. HookRank(h) > Rank(step)
    BY <1>2, RanksAreNumbers DEF Rank
  <2> QED
    BY <1>2, <2>1 DEF PInv, PCore, Unreached, Fresh
<1>6. Placing'
  BY <1>1, <1>2 DEF PInv, PCore, Placing
<1> QED
  BY <1>3, <1>4, <1>5, <1>6 DEF PInv, PCore

LEMMA FixupPatched ==
  ASSUME PInv, UNCHANGED host, PatchPostShapingFixup
  PROVE  PInv'
<1>1. step = "fixup" /\ phase = "find" /\ host \in Hosts
  BY DEF PatchPostShapingFixup, At, PInv, PCore
<1>2. CASE Skip("over")
  <2>1. "over" \in Steps \ {"metrics", "image"} /\ Rank("fixup") < Rank("over")
    BY DEF Steps, Rank
  <2> QED
    BY <1>1, <1>2, <2>1, Skipping
<1>3. CASE /\ copy' = copy + 1
           /\ UNCHANGED <<relro, calls, original, platform, step, phase, hook, todo, wrote,
                          refusals>>
  <2>1. image' = image
    BY DEF image
  <2>2. PatchTypeOK'
    BY <1>3 DEF PInv, PCore, PatchTypeOK
  <2>3. CallsReachTheHost' /\ Unreached' /\ Placing' /\ OthersWhole' /\ Neighbours'
    BY <1>1, <1>3, <2>1
    DEF PInv, PCore, CallsReachTheHost, Unreached, Fresh, Placing, OthersWhole, Neighbours
  <2> QED
    BY <2>2, <2>3 DEF PInv, PCore
<1>4. CASE \E f \in InlinedFixups(copy) :
              Install("DwcInlinedFixup", f, {c \in Sites : calls[c] = f}, "open")
  <2>1. PICK f \in Functions :
             Install("DwcInlinedFixup", f, {c \in Sites : calls[c] = f}, "open")
    BY <1>1, <1>4, FindersFindFunctions
  <2>2. /\ HookRank("DwcInlinedFixup") = Rank(step) /\ "DwcInlinedFixup" \in Hooks
        /\ step # "over" /\ step \in Redirecting
    BY <1>1 DEF HookRank, Rank, Hooks, Redirecting
  <2>3. PCore'
    BY <1>1, <2>1, <2>2, Installing
  <2>4. Neighbours'
    BY <1>1, <2>1 DEF Install, Neighbours
  <2> QED
    BY <2>3, <2>4 DEF PInv
<1> QED
  BY <1>2, <1>3, <1>4 DEF PatchPostShapingFixup

\* Every step of Apply keeps the invariant.
LEMMA PatchStepKeeps ==
  ASSUME PInv, UNCHANGED host, PatchStep
  PROVE  PInv'
<1>1. host \in Hosts
  BY DEF PInv, PCore
<1>2. CASE PatchFallback
  <2>1. /\ "fallback" \in Replacing \ {"path", "metrics", "image"}
        /\ "DwcGetCommonFallbackFonts" \in Hooks
        /\ HookRank("DwcGetCommonFallbackFonts") = Rank("fallback")
        /\ "over" \in Steps \ {"metrics", "image"} /\ Rank("fallback") < Rank("over")
    BY DEF Replacing, Hooks, HookRank, Rank, Steps
  <2>2. {f \in FindOwningFunction : /\ image.anchors = 1 /\ image.bounded
                                    /\ Cardinality(CollectVtableSlots(f)) = 1} \subseteq Functions
    BY <1>1, FindersFindFunctions
  <2> QED
    BY <1>2, <2>1, <2>2, Replaced DEF PatchFallback
<1>3. CASE PatchUnderline
  <2>1. /\ "underline" \in Redirecting \ {"fixup"} /\ "DwcInitMetrics" \in Hooks
        /\ HookRank("DwcInitMetrics") = Rank("underline")
    BY DEF Redirecting, Hooks, HookRank, Rank
  <2> QED
    BY <1>1, <1>3, <2>1, FindersFindFunctions, Redirected DEF PatchUnderline
<1>4. CASE PatchGlyphPath
  BY <1>4, PathReplaced
<1>5. CASE \/ PatchBeside("metrics", "DwcGenerateMetrics", 2)
           \/ PatchBeside("image", "DwcGenerateImage", 1)
  BY <1>5, BesideReplaced
<1>6. CASE PatchGlyphBounds
  <2>1. /\ "bounds" \in Replacing \ {"path", "metrics", "image"} /\ "DwcGetGlyphBounds" \in Hooks
        /\ HookRank("DwcGetGlyphBounds") = Rank("bounds")
        /\ "vorigin" \in Steps \ {"metrics", "image"} /\ Rank("bounds") < Rank("vorigin")
    BY DEF Replacing, Hooks, HookRank, Rank, Steps
  <2> QED
    BY <1>1, <1>6, <2>1, FindersFindFunctions, Replaced DEF PatchGlyphBounds
<1>7. CASE PatchGlyphVOrigin
  <2>1. /\ "vorigin" \in Redirecting \ {"fixup"} /\ "DwcGetGlyphVOrigin" \in Hooks
        /\ HookRank("DwcGetGlyphVOrigin") = Rank("vorigin")
    BY DEF Redirecting, Hooks, HookRank, Rank
  <2> QED
    BY <1>1, <1>7, <2>1, FindersFindFunctions, Redirected DEF PatchGlyphVOrigin
<1>8. CASE PatchWebRenderSize
  <2>1. /\ "webrender" \in Redirecting \ {"fixup"} /\ "DwcWrLoadGlyphThunk" \in Hooks
        /\ HookRank("DwcWrLoadGlyphThunk") = Rank("webrender")
    BY DEF Redirecting, Hooks, HookRank, Rank
  <2> QED
    BY <1>1, <1>8, <2>1, FindersFindFunctions, Redirected DEF PatchWebRenderSize
<1>9. CASE PatchPlatformMediaFeature
  BY <1>9, PlatformPatched
<1>10. CASE PatchPostShapingFixup
  BY <1>10, FixupPatched
<1>11. CASE WriteSlot
  BY <1>11, SlotWritten
<1>12. CASE SlotsWritten
  BY <1>12, SlotsDone
<1>13. CASE RedirectCalls
  BY <1>13, Opened, Refused, CallWritten, CallsDone DEF RedirectCalls
<1> QED
  BY <1>2, <1>3, <1>4, <1>5, <1>6, <1>7, <1>8, <1>9, <1>10, <1>11, <1>12, <1>13 DEF PatchStep

-----------------------------------------------------------------------------
(* A Gecko process *)

LEMMA GeckoInitHolds ==
  ASSUME GeckoInit
  PROVE  GeckoTypeOK /\ PInv
<1>1. host \in Hosts
  BY DEF GeckoInit, WatchInit
<1>2. PatchTypeOK
  BY <1>1, ImageTyped DEF GeckoInit, PatchInit, PatchTypeOK, Steps, Hooks
<1>3. GeckoTypeOK
  BY <1>2, WatchAssumption DEF GeckoInit, WatchInit, GeckoTypeOK, WatchTypeOK, WatchPlaces
<1>4. CallsReachTheHost
  BY DEF GeckoInit, PatchInit, CallsReachTheHost
<1>5. Unreached
  <2> SUFFICES ASSUME NEW h \in Hooks PROVE Fresh(h)
    BY DEF Unreached
  <2> QED
    BY <1>1, ImageTyped, NamesAssumption DEF GeckoInit, PatchInit, Fresh, Hooks
<1>6. Placing
  BY <1>1, ImageTyped, NamesAssumption DEF GeckoInit, PatchInit, Placing
<1>7. OthersWhole /\ Neighbours
  BY DEF GeckoInit, PatchInit, OthersWhole, Neighbours
<1> QED
  BY <1>1, <1>2, <1>3, <1>4, <1>5, <1>6, <1>7 DEF PInv, PCore

\* A step of the watch, or of the loader, leaves the image alone.
LEMMA WatchTyped ==
  ASSUME GeckoTypeOK, WatchNext
  PROVE  /\ host' = host /\ WatchTypeOK'
         /\ pc' \in [Threads -> WatchPlaces \cup {"apply", "patch"}]
<1> USE DEF GeckoTypeOK, WatchTypeOK, WatchPlaces, loader, notes, Goto, Return
<1>1. CASE Tick
  BY <1>1 DEF Tick
<1>2. ASSUME NEW t \in Threads, Dlopen(t)
      PROVE  /\ host' = host /\ WatchTypeOK'
             /\ pc' \in [Threads -> WatchPlaces \cup {"apply", "patch"}]
  BY <1>2
  DEF Dlopen, DlopenStarts, OtherStarts, DlopenStep, DlopenLists, DlopenEnds, OtherEnds
<1>3. ASSUME NEW t \in Threads, NoteOpen(t)
      PROVE  /\ host' = host /\ WatchTypeOK'
             /\ pc' \in [Threads -> WatchPlaces \cup {"apply", "patch"}]
  <2>1. CASE NoteLibxul(t)
    BY <2>1 DEF NoteLibxul
  <2>2. CASE NoteProbe(t)
    <3>1. why' \in [Threads -> {"load", "probe", "open"}] /\ g_probes' \in Nat
      BY <2>2 DEF NoteProbe
    <3>2. probe_due' \in BOOLEAN
      BY <2>2 DEF NoteProbe
    <3> QED
      BY <2>2, <3>1, <3>2 DEF NoteProbe
  <2>3. ASSUME NEW in_libc \in BOOLEAN, NoteRecorded(t, in_libc)
        PROVE  /\ host' = host /\ WatchTypeOK'
               /\ pc' \in [Threads -> WatchPlaces \cup {"apply", "patch"}]
    BY <2>3 DEF NoteRecorded
  <2> QED
    BY <1>3, <2>1, <2>2, <2>3 DEF NoteOpen
<1>4. ASSUME NEW t \in Threads, WatchStep(t)
      PROVE  /\ host' = host /\ WatchTypeOK'
             /\ pc' \in [Threads -> WatchPlaces \cup {"apply", "patch"}]
  <2>1. CASE TakeRecorded(t)
    BY <2>1 DEF TakeRecorded
  <2>2. CASE ScanStarts(t)
    BY <2>2 DEF ScanStarts
  <2>3. CASE ScanEnds(t)
    BY <2>3 DEF ScanEnds
  <2>4. CASE Missed(t)
    <3>1. g_libxul_misses' \in Nat
      BY <2>4 DEF Missed
    <3>2. g_libxul_open' \in BOOLEAN
      BY <2>4 DEF Missed
    <3> QED
      BY <2>4, <3>1, <3>2 DEF Missed
  <2>5. CASE Found(t)
    <3>1. g_done' \in BOOLEAN
      BY <2>5 DEF Found
    <3> QED
      BY <2>5, <3>1 DEF Found
  <2> QED
    BY <1>4, <2>1, <2>2, <2>3, <2>4, <2>5 DEF WatchStep
<1> QED
  BY <1>1, <1>2, <1>3, <1>4 DEF WatchNext

\* Every step of a Gecko process keeps the types and the invariant.
LEMMA GeckoStepKeeps ==
  ASSUME GeckoTypeOK, PInv, GeckoNext
  PROVE  GeckoTypeOK' /\ PInv'
<1>1. CASE WatchNext /\ UNCHANGED patchVars
  BY <1>1, WatchTyped, PatchUnchanged DEF GeckoTypeOK, PInv, PCore
<1>2. ASSUME NEW t \in Threads, Apply(t)
      PROVE  GeckoTypeOK' /\ PInv'
  <2>1. host' = host /\ PInv'
    <3>1. CASE ApplyStep(t)
      BY <3>1, PatchStepKeeps DEF ApplyStep, watchVars
    <3>2. CASE ResolveHelpers(t) \/ ApplyEnds(t)
      BY <3>2, PatchUnchanged DEF ResolveHelpers, ApplyEnds
    <3> QED
      BY <1>2, <3>1, <3>2 DEF Apply
  <2>2. WatchTypeOK' /\ pc' \in [Threads -> WatchPlaces \cup {"apply", "patch"}]
    BY <1>2
    DEF Apply, ApplyStep, ResolveHelpers, ApplyEnds, Goto, watchVars, loader, notes, GeckoTypeOK,
        WatchTypeOK, WatchPlaces
  <2> QED
    BY <2>1, <2>2 DEF GeckoTypeOK, PInv, PCore
<1> QED
  BY <1>1, <1>2 DEF GeckoNext

-----------------------------------------------------------------------------
(* A Chromium process *)

LEMMA CacheInitHolds ==
  ASSUME CacheInit
  PROVE  CInv
<1>1. CacheTypeOK
  BY CacheAssumption DEF CacheInit, CacheTypeOK, Ids
<1>2. TypefacesKeepTheirBytes
  BY CacheAssumption DEF CacheInit, TypefacesKeepTheirBytes, TablesGoTogether, BytesStay, Ids
<1>3. Reading /\ BytesThere
  BY CacheAssumption DEF CacheInit, Reading, Reads, BytesThere
<1> QED
  BY <1>1, <1>2, <1>3 DEF CInv

LEMMA CacheUnchanged ==
  ASSUME CInv, UNCHANGED cacheVars
  PROVE  CInv'
<1> USE DEF cacheVars, skia, bridge, tables, caller
<1>1. CacheTypeOK'
  BY DEF CInv, CacheTypeOK
<1>2. TypefacesKeepTheirBytes'
  BY DEF CInv, TypefacesKeepTheirBytes, TablesGoTogether, BytesStay
<1>3. Reading' /\ BytesThere'
  BY DEF CInv, Reading, Reads, BytesThere
<1> QED
  BY <1>1, <1>2, <1>3 DEF CInv

\* Typefaces come and go, and classes are learnt, beside the tables.
LEMMA SkiaStep ==
  ASSUME CInv,
         \/ \E a \in Addresses : NewTypeface(a) \/ FreeTypeface(a)
         \/ SetAnchors
         \/ FindVariationSlot
  PROVE  CInv'
<1> USE DEF tables, caller, skia, bridge
<1>1. UNCHANGED <<tables, font_mutex, faces, caller>>
  BY DEF NewTypeface, FreeTypeface, SetAnchors, FindVariationSlot
<1>2. CacheTypeOK'
  <2>1. ASSUME NEW a \in Addresses, NewTypeface(a)
        PROVE  object' \in [Addresses -> Objects \cup {None}] /\ last_id' \in 0 .. MaxIds
    <3>1. PICK o \in Objects : object' = [object EXCEPT ![a] = o]
      BY <2>1 DEF NewTypeface
    <3>2. last_id' \in 0 .. MaxIds
      BY <2>1, CacheAssumption DEF NewTypeface, CInv, CacheTypeOK
    <3> QED
      BY <3>1, <3>2 DEF CInv, CacheTypeOK
  <2>2. ASSUME NEW a \in Addresses, FreeTypeface(a)
        PROVE  object' \in [Addresses -> Objects \cup {None}]
    BY <2>2 DEF FreeTypeface, CInv, CacheTypeOK
  <2>3. object' \in [Addresses -> Objects \cup {None}] /\ last_id' \in 0 .. MaxIds
    BY <2>1, <2>2 DEF FreeTypeface, SetAnchors, FindVariationSlot, CInv, CacheTypeOK
  <2>4. variation' \in {"unknown", "refuted", "unconfirmed", "confirmed"}
    BY DEF NewTypeface, FreeTypeface, SetAnchors, FindVariationSlot, CInv, CacheTypeOK
  <2>5. g_real' \in [Addresses -> Addresses \cup {None, Unusable}]
    BY DEF NewTypeface, FreeTypeface, SetAnchors, FindVariationSlot, CInv, CacheTypeOK
  <2>6. anchors' \in BOOLEAN
    BY DEF NewTypeface, FreeTypeface, SetAnchors, FindVariationSlot, CInv, CacheTypeOK
  <2> QED
    BY <1>1, <2>3, <2>4, <2>5, <2>6 DEF CInv, CacheTypeOK
<1>3. TypefacesKeepTheirBytes'
  BY <1>1 DEF CInv, TypefacesKeepTheirBytes, TablesGoTogether, BytesStay
<1>4. Reading'
  <2> SUFFICES ASSUME NEW t \in Callers, place[t] \notin {"never", "out"}
               PROVE  object'[on[t]] = object[on[t]]
    BY <1>1 DEF CInv, Reading, Reads
  <2>1. on[t] \in Addresses /\ object[on[t]] # None
    BY DEF CInv, Reading
  <2> QED
    BY <2>1 DEF NewTypeface, FreeTypeface, SetAnchors, FindVariationSlot, CInv, CacheTypeOK
<1>5. BytesThere'
  BY <1>1 DEF CInv, BytesThere
<1> QED
  BY <1>2, <1>3, <1>4, <1>5 DEF CInv

\* A typeface that is asked for the first time gets an answer, and keeps it.
LEMMA BridgeTyped ==
  ASSUME CacheTypeOK, NEW a \in Addresses, object[a] # None, LooksUsable(a)
  PROVE  g_real' \in [Addresses -> Addresses \cup {None, Unusable}]
<1>1. object[a].inner \in Addresses \cup {None}
  BY DEF CacheTypeOK, Objects
<1> QED
  BY <1>1 DEF CacheTypeOK, LooksUsable

\* Who has the bytes, or waits for them under the mutex.
LEMMA HookKeeps ==
  ASSUME CInv, NEW t \in Callers, NEW a \in Addresses, Hook(t, a)
  PROVE  CInv'
<1> DEFINE key == object[a].id
<1>1. /\ place[t] = "out" /\ font_mutex = NoCaller /\ object[a] # None /\ key \in Ids
      /\ on' = [on EXCEPT ![t] = a]
      /\ UNCHANGED <<object, last_id, anchors, vectors, g_fonts, g_var_coords, g_font_order,
                     variation, faces, coords_key>>
  BY DEF Hook, Unlocked, skia, CInv, CacheTypeOK, Objects
<1>2. \A u \in Callers : ~Reads(u)
  BY <1>1, CacheAssumption DEF CInv, Reading
<1>3. CASE MustRead(t, a, "reading")
  <2>1. /\ g_fonts[key] = None /\ font_mutex' = t
        /\ place' = [place EXCEPT ![t] = "reading"]
        /\ UNCHANGED <<use, g_plain_fontations, g_facts>>
        /\ LooksUsable(a)
    BY <1>3 DEF MustRead
  <2>2. CacheTypeOK'
    BY <1>1, <2>1, BridgeTyped DEF CInv, CacheTypeOK
  <2>3. TypefacesKeepTheirBytes' /\ BytesThere'
    BY <1>1, <2>1 DEF CInv, TypefacesKeepTheirBytes, TablesGoTogether, BytesStay, BytesThere
  <2>4. Reading'
    BY <1>1, <1>2, <2>1 DEF CInv, Reading, Reads, CacheTypeOK
  <2> QED
    BY <2>2, <2>3, <2>4 DEF CInv
<1>4. CASE /\ g_fonts[key] # None
           /\ use' = [use EXCEPT ![t] = g_fonts[key]]
           /\ g_plain_fontations' =
                  PlainFontations(g_plain_fontations, key, vectors[g_fonts[key]])
           /\ place' = [place EXCEPT ![t] = "have"]
           /\ UNCHANGED <<g_real, font_mutex, g_facts>>
  <2>1. g_plain_fontations' \in [Ids -> BOOLEAN \cup {None}]
    BY <1>1, <1>4 DEF PlainFontations, CInv, CacheTypeOK
  <2>2. CacheTypeOK'
    BY <1>1, <1>4, <2>1 DEF CInv, CacheTypeOK
  <2>3. \A k \in Ids : g_plain_fontations'[k] # None =>
            \/ g_plain_fontations'[k] = g_plain_fontations[k] /\ g_plain_fontations[k] # None
            \/ k = key /\ g_plain_fontations'[k] = (vectors[g_fonts[k]] \in Plain)
    BY <1>1, <1>4 DEF PlainFontations, CInv, CacheTypeOK
  <2>4. \A k \in Ids : g_fonts[k] = None => g_plain_fontations'[k] = None
    BY <1>1, <1>4 DEF PlainFontations, CInv, CacheTypeOK, TypefacesKeepTheirBytes, TablesGoTogether
  <2>5. TablesGoTogether'
    BY <1>1, <1>4, <2>3, <2>4, SMTT(30) DEF CInv, TypefacesKeepTheirBytes, TablesGoTogether
  <2>6. BytesStay' /\ BytesThere'
    BY <1>1, <1>4 DEF CInv, TypefacesKeepTheirBytes, BytesStay, BytesThere, CacheTypeOK
  <2>7. Reading'
    BY <1>1, <1>2, <1>4 DEF CInv, Reading, Reads, CacheTypeOK
  <2> QED
    BY <2>2, <2>5, <2>6, <2>7 DEF CInv, TypefacesKeepTheirBytes
<1> QED
  BY <1>3, <1>4 DEF Hook

\* What is worked out again comes from the bytes that are cached now.
LEMMA FactsKeep ==
  ASSUME CInv, NEW t \in Callers, FactsFor(t)
  PROVE  CInv'
<1> DEFINE a == on[t]
           key == object[a].id
<1>1. /\ place[t] = "have" /\ font_mutex = NoCaller
      /\ UNCHANGED <<object, last_id, anchors, vectors, g_fonts, g_var_coords, g_font_order,
                     variation, faces, on, coords_key>>
  BY DEF FactsFor, StandsIn, Unlocked, skia
<1>2. a \in Addresses /\ object[a] # None /\ use[t] # None
  BY <1>1 DEF CInv, Reading
<1>3. key \in Ids
  BY <1>2 DEF CInv, CacheTypeOK, Objects
<1>4. \A u \in Callers : ~Reads(u)
  BY <1>1, CacheAssumption DEF CInv, Reading
<1>5. CASE MustRead(t, a, "describing")
  <2>1. /\ g_fonts[key] = None /\ font_mutex' = t
        /\ place' = [place EXCEPT ![t] = "describing"]
        /\ UNCHANGED <<use, g_plain_fontations, g_facts>>
        /\ LooksUsable(a)
    BY <1>5 DEF MustRead
  <2>2. CacheTypeOK'
    BY <1>1, <1>2, <2>1, BridgeTyped DEF CInv, CacheTypeOK
  <2>3. TypefacesKeepTheirBytes' /\ BytesThere'
    BY <1>1, <2>1 DEF CInv, TypefacesKeepTheirBytes, TablesGoTogether, BytesStay, BytesThere
  <2>4. Reading'
    BY <1>1, <1>2, <1>4, <2>1 DEF CInv, Reading, Reads, CacheTypeOK
  <2> QED
    BY <2>2, <2>3, <2>4 DEF CInv
<1>6. CASE /\ g_fonts[key] # None
           /\ g_facts' = [g_facts EXCEPT ![key] = vectors[g_fonts[key]]]
           /\ UNCHANGED <<g_real, font_mutex, place, use, g_plain_fontations>>
  <2>1. vectors[g_fonts[key]] \in Contents
    BY <1>3, <1>6 DEF CInv, BytesThere, CacheTypeOK
  <2>2. CacheTypeOK'
    BY <1>1, <1>3, <1>6, <2>1 DEF CInv, CacheTypeOK
  <2>3. TablesGoTogether'
    BY <1>1, <1>3, <1>6 DEF CInv, CacheTypeOK, TypefacesKeepTheirBytes, TablesGoTogether
  <2>4. BytesStay' /\ BytesThere' /\ Reading'
    BY <1>1, <1>6 DEF CInv, TypefacesKeepTheirBytes, BytesStay, BytesThere, Reading, Reads
  <2> QED
    BY <2>2, <2>3, <2>4 DEF CInv, TypefacesKeepTheirBytes
<1> QED
  BY <1>5, <1>6 DEF FactsFor

\* The rest of a hook touches the caller and the faces only.
LEMMA RestOfHookKeeps ==
  ASSUME CInv, NEW t \in Callers, Leave(t) \/ CoordsHashFor(t) \/ SlotFor(t)
  PROVE  CInv'
<1> USE DEF skia, bridge, tables, caller
<1>1. UNCHANGED <<skia, bridge, tables, variation, font_mutex>>
  BY DEF Leave, CoordsHashFor, SlotFor
<1>2. CASE Leave(t)
  <2>1. CacheTypeOK'
    BY <1>2 DEF Leave, CInv, CacheTypeOK
  <2>2. TypefacesKeepTheirBytes' /\ BytesThere'
    BY <1>2
    DEF Leave, CInv, TypefacesKeepTheirBytes, TablesGoTogether, BytesStay, BytesThere, CacheTypeOK
  <2>3. Reading'
    BY <1>2 DEF Leave, CInv, Reading, Reads, CacheTypeOK
  <2> QED
    BY <2>1, <2>2, <2>3 DEF CInv
<1>3. CASE CoordsHashFor(t)
  <2>1. place[t] = "have" /\ on[t] \in Addresses /\ object[on[t]] # None
    BY <1>3 DEF CoordsHashFor, StandsIn, CInv, Reading
  <2>2. object[on[t]].id \in Ids
    BY <2>1 DEF CInv, CacheTypeOK, Objects
  <2>3. VariationCoords(object[on[t]].id) \in Positions \cup {None}
    BY <2>2 DEF VariationCoords, CInv, CacheTypeOK
  <2>4. CacheTypeOK'
    BY <1>3, <2>3 DEF CoordsHashFor, CInv, CacheTypeOK
  <2>5. TypefacesKeepTheirBytes' /\ BytesThere'
    BY <1>3
    DEF CoordsHashFor, CInv, TypefacesKeepTheirBytes, TablesGoTogether, BytesStay, BytesThere
  <2>6. Reading'
    BY <1>3, <2>1 DEF CoordsHashFor, CInv, Reading, Reads, CacheTypeOK
  <2> QED
    BY <2>4, <2>5, <2>6 DEF CInv
<1>4. CASE SlotFor(t)
  <2> DEFINE key == <<use[t], coords_key[t]>>
  <2>1. /\ place[t] = "slot"
        /\ place' = [place EXCEPT ![t] = "out"]
        /\ on' = [on EXCEPT ![t] = None] /\ use' = [use EXCEPT ![t] = None]
        /\ coords_key' = [coords_key EXCEPT ![t] = None]
        /\ faces' = [k \in DOMAIN faces \cup {key} |->
                        IF k \in DOMAIN faces THEN faces[k] ELSE vectors[use[t]]]
    BY <1>4 DEF SlotFor
  <2>2. /\ use[t] \in Vectors /\ vectors[use[t]] \in Contents
        /\ coords_key[t] \in Positions \cup {None}
    BY <2>1 DEF CInv, Reading, TypefacesKeepTheirBytes, BytesStay, CacheTypeOK
  <2>3. \A k \in DOMAIN faces' :
            /\ k \in Vectors \X (Positions \cup {None})
            /\ faces'[k] = vectors[k[1]] /\ faces'[k] \in Contents
    <3>1. key \in Vectors \X (Positions \cup {None}) /\ key[1] = use[t]
      BY <2>2
    <3>2. \A k \in DOMAIN faces : /\ k \in Vectors \X (Positions \cup {None})
                                  /\ faces[k] = vectors[k[1]] /\ faces[k] \in Contents
      BY DEF CInv, TypefacesKeepTheirBytes, BytesStay, CacheTypeOK
    <3> HIDE DEF key
    <3> QED
      BY <2>1, <2>2, <3>1, <3>2
  <2>4. CacheTypeOK'
    BY <1>1, <2>1, <2>3 DEF CInv, CacheTypeOK
  <2>5. TypefacesKeepTheirBytes' /\ BytesThere'
    BY <1>1, <2>1, <2>3
    DEF CInv, TypefacesKeepTheirBytes, TablesGoTogether, BytesStay, BytesThere, CacheTypeOK
  <2>6. Reading'
    BY <1>1, <2>1 DEF CInv, Reading, Reads, CacheTypeOK
  <2> QED
    BY <2>4, <2>5, <2>6 DEF CInv
<1> QED
  BY <1>2, <1>3, <1>4

\* Only a font with axes has a position.
LEMMA CoordsRead ==
  ASSUME CacheTypeOK, NEW a \in Addresses, object[a] # None,
         NEW content \in Contents, NEW coords, ReadVariationCoords(a, content, coords)
  PROVE  /\ variation' \in {"unknown", "refuted", "unconfirmed", "confirmed"}
         /\ coords \in Positions => content \in Variable
<1>1. /\ "empty" \notin Positions /\ None \notin Positions
      /\ variation \in {"unknown", "refuted", "unconfirmed", "confirmed"}
  BY CacheAssumption DEF CacheTypeOK
<1>2. CASE variation \in {"unknown", "refuted"}
  BY <1>1, <1>2 DEF ReadVariationCoords
<1>3. CASE variation \in {"unconfirmed", "confirmed"} /\ content \notin Variable
  BY <1>1, <1>3 DEF ReadVariationCoords
<1>4. CASE variation = "confirmed" /\ content \in Variable
  BY <1>1, <1>4 DEF ReadVariationCoords
<1>5. CASE variation = "unconfirmed" /\ content \in Variable
  BY <1>1, <1>5 DEF ReadVariationCoords
<1> QED
  BY <1>1, <1>2, <1>3, <1>4, <1>5

\* The newcomer is in the order, and what it pushes out is another font, and nowhere.
LEMMA OrderKept ==
  ASSUME CacheTypeOK, TablesGoTogether, NEW key \in Ids, g_fonts[key] = None
  PROVE  LET later == IF Forgotten(key) = {} THEN Order(key) ELSE Tail(Order(key))
         IN  /\ later \in Seq(Ids) /\ Len(later) <= MaxCachedTypefaces
             /\ \A i, j \in DOMAIN later : later[i] = later[j] => i = j
             /\ key \notin Forgotten(key)
             /\ \A k \in Ids : (\E i \in DOMAIN later : later[i] = k)
                    <=> k \notin Forgotten(key) /\ (k = key \/ g_fonts[k] # None)
<1> DEFINE s == g_font_order
           n == Len(s)
           q == Append(s, key)
           later == IF Forgotten(key) = {} THEN Order(key) ELSE Tail(Order(key))
<1>1. /\ s \in Seq(Ids) /\ n \in Nat /\ DOMAIN s = 1 .. n /\ n <= MaxCachedTypefaces
      /\ MaxCachedTypefaces \in Nat \ {0}
  BY CacheAssumption DEF CacheTypeOK, TablesGoTogether
<1>2. \A i, j \in 1 .. n : s[i] = s[j] => i = j
  BY <1>1 DEF TablesGoTogether
<1>3. \A k \in Ids : (\E i \in 1 .. n : s[i] = k) <=> g_fonts[k] # None
  BY <1>1 DEF TablesGoTogether
<1>4. \A i \in 1 .. n : s[i] \in Ids /\ s[i] # key
  BY <1>1, <1>3
<1>5. /\ q \in Seq(Ids) /\ Len(q) = n + 1 /\ q[n + 1] = key
      /\ \A i \in 1 .. n : q[i] = s[i]
  BY <1>1
<1>6. \A i, j \in 1 .. n + 1 : q[i] = q[j] => i = j
  BY <1>1, <1>2, <1>4, <1>5
<1>7. \A k \in Ids : (\E i \in 1 .. n + 1 : q[i] = k) <=> (k = key \/ g_fonts[k] # None)
  BY <1>1, <1>3, <1>5
<1>8. Order(key) = q
  BY DEF Order
<1> HIDE DEF q
<1>9. CASE n + 1 <= MaxCachedTypefaces
  <2>1. Forgotten(key) = {} /\ later = q
    BY <1>1, <1>5, <1>8, <1>9 DEF Forgotten
  <2>2. DOMAIN q = 1 .. n + 1
    BY <1>1, <1>5
  <2> HIDE DEF later
  <2>3. /\ later \in Seq(Ids) /\ Len(later) <= MaxCachedTypefaces
        /\ \A i, j \in DOMAIN later : later[i] = later[j] => i = j
    BY <1>5, <1>6, <1>9, <2>1, <2>2
  <2>4. \A k \in Ids : (\E i \in DOMAIN later : later[i] = k)
                         <=> k \notin Forgotten(key) /\ (k = key \/ g_fonts[k] # None)
    BY <1>7, <2>1, <2>2
  <2> QED
    BY <2>1, <2>3, <2>4 DEF later
<1>10. CASE n + 1 > MaxCachedTypefaces
  <2>1. Forgotten(key) = {q[1]} /\ later = Tail(q) /\ n >= 1
    BY <1>1, <1>5, <1>8, <1>10 DEF Forgotten
  <2>2. /\ Tail(q) \in Seq(Ids) /\ Len(Tail(q)) = n /\ DOMAIN Tail(q) = 1 .. n
        /\ \A i \in 1 .. n : Tail(q)[i] = q[i + 1]
    BY <1>1, <1>5, <2>1
  <2>3. key # q[1]
    BY <1>4, <1>5, <2>1
  <2> HIDE DEF later
  <2>4. /\ later \in Seq(Ids) /\ Len(later) <= MaxCachedTypefaces
        /\ \A i, j \in DOMAIN later : later[i] = later[j] => i = j
    BY <1>1, <1>6, <2>1, <2>2
  <2>5. \A k \in Ids : (\E i \in 1 .. n : q[i + 1] = k)
                         <=> k # q[1] /\ (\E i \in 1 .. n + 1 : q[i] = k)
    <3> SUFFICES ASSUME NEW k \in Ids
                 PROVE  (\E i \in 1 .. n : q[i + 1] = k)
                           <=> k # q[1] /\ (\E i \in 1 .. n + 1 : q[i] = k)
      OBVIOUS
    <3>1. ASSUME NEW i \in 1 .. n, q[i + 1] = k
          PROVE  k # q[1] /\ \E j \in 1 .. n + 1 : q[j] = k
      BY <1>1, <1>6, <3>1
    <3>2. ASSUME NEW i \in 1 .. n + 1, q[i] = k, k # q[1]
          PROVE  \E j \in 1 .. n : q[j + 1] = k
      <4>1. i - 1 \in 1 .. n /\ (i - 1) + 1 = i
        BY <1>1, <3>2
      <4> QED
        BY <3>2, <4>1
    <3> QED
      BY <3>1, <3>2
  <2>6. \A k \in Ids : (\E i \in DOMAIN later : later[i] = k)
                         <=> k \notin Forgotten(key) /\ (k = key \/ g_fonts[k] # None)
    <3>1. \A k \in Ids : (\E i \in DOMAIN later : later[i] = k)
                            <=> (\E i \in 1 .. n : q[i + 1] = k)
      BY <2>1, <2>2
    <3>2. \A k \in Ids : k \notin Forgotten(key) <=> k # q[1]
      BY <2>1
    <3> QED
      BY <1>7, <2>5, <3>1, <3>2, Zenon
  <2> QED
    BY <2>1, <2>3, <2>4, <2>6 DEF later
<1>11. n + 1 <= MaxCachedTypefaces \/ n + 1 > MaxCachedTypefaces
  BY <1>1
<1> QED
  BY <1>9, <1>10, <1>11, Zenon

\* The vector that answers for a content had it, or had nothing.
LEMMA VectorsGrow ==
  ASSUME CacheTypeOK, NEW content \in Contents, NEW v \in SharedByContent(content),
         vectors' = [vectors EXCEPT ![v] = content]
  PROVE  /\ v \in Vectors /\ vectors'[v] = content
         /\ vectors' \in [Vectors -> Contents \cup {None}]
         /\ \A u \in Vectors : vectors[u] # None => vectors'[u] = vectors[u]
<1>1. v \in Vectors /\ vectors[v] \in {None, content}
  BY DEF SharedByContent, Lowest
<1> QED
  BY <1>1 DEF CacheTypeOK

\* The bytes are read, and all that is kept of them goes into the tables together.
LEMMA FontBytesKeep ==
  ASSUME CInv, NEW t \in Callers, FontBytesLocked(t)
  PROVE  CInv'
<1> DEFINE a == on[t]
           key == object[a].id
<1>1. /\ Reads(t) /\ a \in Addresses /\ object[a] # None /\ g_fonts[key] = None
      /\ font_mutex = t /\ \A u \in Callers \ {t} : ~Reads(u)
  BY DEF FontBytesLocked, Reads, CInv, Reading
<1>2. key \in Ids /\ CacheTypeOK /\ TablesGoTogether
  BY <1>1 DEF CInv, CacheTypeOK, Objects, TypefacesKeepTheirBytes
<1>3. ReadFontFile(a) \subseteq Contents
  <2>1. g_real[a] \in Addresses \cup {None, Unusable}
    BY <1>1, <1>2 DEF CacheTypeOK
  <2>2. \A b \in Addresses : object[b] # None => object[b].content \in Contents
    BY <1>2 DEF CacheTypeOK, Objects
  <2> QED
    BY <2>1, <2>2, CacheAssumption DEF ReadFontFile
<1>4. PICK content \in ReadFontFile(a), coords \in Positions \cup {"empty", None} :
        \E v \in SharedByContent(content) :
          /\ vectors' = [vectors EXCEPT ![v] = content]
          /\ ReadVariationCoords(a, content, coords)
          /\ CacheFont(key, v, coords)
          /\ LET plain == Forget(g_plain_fontations, key)
                 facts == Forget(g_facts, key)
             IN  IF place[t] = "reading"
                 THEN /\ use' = [use EXCEPT ![t] = v]
                      /\ g_plain_fontations' = PlainFontations(plain, key, content)
                      /\ g_facts' = facts
                 ELSE /\ g_facts' = [facts EXCEPT ![key] = content]
                      /\ g_plain_fontations' = plain
                      /\ UNCHANGED use
  BY Zenon DEF FontBytesLocked
<1>5. PICK v \in SharedByContent(content) :
          /\ vectors' = [vectors EXCEPT ![v] = content]
          /\ ReadVariationCoords(a, content, coords)
          /\ CacheFont(key, v, coords)
          /\ LET plain == Forget(g_plain_fontations, key)
                 facts == Forget(g_facts, key)
             IN  IF place[t] = "reading"
                 THEN /\ use' = [use EXCEPT ![t] = v]
                      /\ g_plain_fontations' = PlainFontations(plain, key, content)
                      /\ g_facts' = facts
                 ELSE /\ g_facts' = [facts EXCEPT ![key] = content]
                      /\ g_plain_fontations' = plain
                      /\ UNCHANGED use
  BY <1>4, Zenon
<1>6. /\ font_mutex' = NoCaller /\ place' = [place EXCEPT ![t] = "have"]
      /\ UNCHANGED <<object, last_id, anchors, g_real, faces, on, coords_key>>
  BY DEF FontBytesLocked, skia, bridge
<1>7. content \in Contents
  BY <1>3
<1>8. /\ v \in Vectors /\ vectors'[v] = content /\ content # None /\ v # None
      /\ vectors' \in [Vectors -> Contents \cup {None}]
      /\ \A u \in Vectors : vectors[u] # None => vectors'[u] = vectors[u]
  <2>1. /\ v \in Vectors /\ vectors'[v] = content
        /\ vectors' \in [Vectors -> Contents \cup {None}]
        /\ \A u \in Vectors : vectors[u] # None => vectors'[u] = vectors[u]
    <3>1. vectors' = [vectors EXCEPT ![v] = content]
      BY <1>5
    <3> QED
      BY <1>2, <1>7, <3>1, VectorsGrow
  <2>2. content # None /\ v # None
    BY <1>7, <2>1, CacheAssumption
  <2> QED
    BY <2>1, <2>2
<1>9. /\ variation' \in {"unknown", "refuted", "unconfirmed", "confirmed"}
      /\ coords \in Positions => content \in Variable
  BY <1>1, <1>2, <1>5, <1>7, CoordsRead
<1>10. /\ g_font_order' \in Seq(Ids) /\ Len(g_font_order') <= MaxCachedTypefaces
       /\ \A i, j \in DOMAIN g_font_order' : g_font_order'[i] = g_font_order'[j] => i = j
       /\ key \notin Forgotten(key)
       /\ \A k \in Ids : (\E i \in DOMAIN g_font_order' : g_font_order'[i] = k)
              <=> k \notin Forgotten(key) /\ (k = key \/ g_fonts[k] # None)
  <2>1. g_font_order' = IF Forgotten(key) = {} THEN Order(key) ELSE Tail(Order(key))
    BY <1>5 DEF CacheFont
  <2> HIDE DEF key
  <2>2. LET later == IF Forgotten(key) = {} THEN Order(key) ELSE Tail(Order(key))
        IN  /\ later \in Seq(Ids) /\ Len(later) <= MaxCachedTypefaces
            /\ \A i, j \in DOMAIN later : later[i] = later[j] => i = j
            /\ key \notin Forgotten(key)
            /\ \A k \in Ids : (\E i \in DOMAIN later : later[i] = k)
                   <=> k \notin Forgotten(key) /\ (k = key \/ g_fonts[k] # None)
    BY <1>1, <1>2, OrderKept
  <2> QED
    BY <2>1, <2>2, Zenon
<1>11. /\ g_var_coords[key] = None /\ g_facts[key] = None /\ g_plain_fontations[key] = None
  BY <1>1, <1>2 DEF TablesGoTogether
<1>12. g_fonts' = [k \in Ids |-> IF k \in Forgotten(key) THEN None
                                 ELSE IF k = key THEN v ELSE g_fonts[k]]
  BY <1>2, <1>5 DEF CacheFont, Forget, CacheTypeOK
<1>13. g_var_coords' = [k \in Ids |-> IF k \in Forgotten(key) THEN None
                                      ELSE IF k = key THEN coords ELSE g_var_coords[k]]
  BY <1>2, <1>5, <1>11 DEF CacheFont, Forget, CacheTypeOK
<1>14. \A k \in Ids : /\ k \in Forgotten(key) => g_facts'[k] = None
                      /\ k \notin Forgotten(key) /\ k # key => g_facts'[k] = g_facts[k]
                      /\ k = key => g_facts'[k] \in {None, content}
  <2>1. CASE place[t] = "reading"
    BY <1>2, <1>5, <1>11, <2>1 DEF Forget
  <2>2. CASE place[t] # "reading"
    <3>1. g_facts' = [Forget(g_facts, key) EXCEPT ![key] = content]
      BY <1>5, <2>2
    <3> QED
      BY <1>2, <1>10, <3>1 DEF Forget
  <2> QED
    BY <2>1, <2>2
<1>15. \A k \in Ids :
         /\ k \in Forgotten(key) => g_plain_fontations'[k] = None
         /\ k \notin Forgotten(key) /\ k # key => g_plain_fontations'[k] = g_plain_fontations[k]
         /\ k = key => g_plain_fontations'[k] \in {(content \in Plain), None}
  BY <1>2, <1>5, <1>10, <1>11 DEF Forget, PlainFontations, CacheTypeOK
<1>16. use'[t] # None /\ \A u \in Callers \ {t} : use'[u] = use[u]
  BY <1>1, <1>5, <1>8 DEF Reads, CInv, Reading, CacheTypeOK
<1>17. use' \in [Callers -> Vectors \cup {None}] /\ (use'[t] = v \/ use'[t] = use[t])
  BY <1>2, <1>5, <1>8 DEF CacheTypeOK
<1>18. CacheTypeOK'
  <2>1. g_fonts' \in [Ids -> Vectors \cup {None}]
    BY <1>2, <1>8, <1>12 DEF CacheTypeOK
  <2>2. g_var_coords' \in [Ids -> Positions \cup {"empty", None}]
    BY <1>2, <1>13 DEF CacheTypeOK
  <2>3. g_facts' \in [Ids -> Contents \cup {None}]
    BY <1>2, <1>5, <1>7 DEF CacheTypeOK, Forget
  <2>4. g_plain_fontations' \in [Ids -> BOOLEAN \cup {None}]
    <3>1. Forget(g_plain_fontations, key) \in [Ids -> BOOLEAN \cup {None}]
      BY <1>2 DEF CacheTypeOK, Forget
    <3>2. \A plain \in [Ids -> BOOLEAN \cup {None}] :
              PlainFontations(plain, key, content) \in [Ids -> BOOLEAN \cup {None}]
      BY <1>2 DEF PlainFontations
    <3> QED
      BY <1>5, <3>1, <3>2
  <2>5. place' \in [Callers -> {"never", "out", "reading", "have", "describing", "slot"}]
    BY <1>2, <1>6 DEF CacheTypeOK
  <2> QED
    BY <1>2, <1>6, <1>8, <1>9, <1>10, <1>17, <2>1, <2>2, <2>3, <2>4, <2>5 DEF CacheTypeOK
<1>19. TablesGoTogether'
  <2> SUFFICES ASSUME NEW k \in Ids
               PROVE  /\ g_fonts'[k] # None
                             <=> \E i \in DOMAIN g_font_order' : g_font_order'[i] = k
                      /\ g_fonts'[k] = None => /\ g_var_coords'[k] = None /\ g_facts'[k] = None
                                               /\ g_plain_fontations'[k] = None
                      /\ g_facts'[k] # None => g_facts'[k] = vectors'[g_fonts'[k]]
                      /\ g_plain_fontations'[k] # None =>
                             g_plain_fontations'[k] = (vectors'[g_fonts'[k]] \in Plain)
                      /\ g_var_coords'[k] \in Positions => vectors'[g_fonts'[k]] \in Variable
    BY <1>10 DEF TablesGoTogether
  <2>1. CASE k \in Forgotten(key)
    BY <1>10, <1>12, <1>13, <1>14, <1>15, <2>1, CacheAssumption
  <2>2. CASE k = key
    BY <1>8, <1>9, <1>10, <1>12, <1>13, <1>14, <1>15, <2>2
  <2>3. CASE k \notin Forgotten(key) /\ k # key
    <3>1. /\ g_fonts'[k] = g_fonts[k] /\ g_var_coords'[k] = g_var_coords[k]
          /\ g_facts'[k] = g_facts[k] /\ g_plain_fontations'[k] = g_plain_fontations[k]
      BY <1>12, <1>13, <1>14, <1>15, <2>3
    <3>2. g_fonts[k] # None => vectors'[g_fonts[k]] = vectors[g_fonts[k]]
      BY <1>2, <1>8 DEF CInv, BytesThere, CacheTypeOK
    <3> QED
      BY <1>2, <1>10, <2>3, <3>1, <3>2, CacheAssumption DEF TablesGoTogether
  <2> QED
    BY <2>1, <2>2, <2>3
<1>20. BytesStay'
  <2>1. ASSUME NEW k \in DOMAIN faces PROVE faces[k] = vectors'[k[1]]
    <3>1. k[1] \in Vectors /\ faces[k] = vectors[k[1]] /\ faces[k] # None
      BY <1>2, CacheAssumption DEF CInv, TypefacesKeepTheirBytes, BytesStay, CacheTypeOK
    <3> QED
      BY <1>8, <3>1
  <2>2. ASSUME NEW u \in Callers, use'[u] # None PROVE vectors'[use'[u]] # None
    <3>1. use[u] # None => use[u] \in Vectors /\ vectors[use[u]] # None
      BY <1>2 DEF CInv, TypefacesKeepTheirBytes, BytesStay, CacheTypeOK
    <3> QED
      BY <1>8, <1>16, <1>17, <2>2, <3>1
  <2> QED
    BY <1>6, <2>1, <2>2 DEF BytesStay
<1>21. BytesThere'
  BY <1>2, <1>8, <1>12 DEF CInv, BytesThere, CacheTypeOK
<1>22. Reading'
  BY <1>1, <1>2, <1>6, <1>16, CacheAssumption DEF CInv, Reading, Reads, CacheTypeOK
<1> QED
  BY <1>18, <1>19, <1>20, <1>21, <1>22 DEF CInv, TypefacesKeepTheirBytes

LEMMA CacheStepKeeps ==
  ASSUME CInv, CacheNext
  PROVE  CInv'
<1>1. ASSUME NEW t \in Callers, CallerNext(t) PROVE CInv'
  BY <1>1, HookKeeps, FontBytesKeep, FactsKeep, RestOfHookKeeps DEF CallerNext
<1> QED
  BY <1>1, SkiaStep DEF CacheNext

-----------------------------------------------------------------------------
(* The whole process *)

LEMMA InitIInv == Init => IInv
  BY GeckoInitHolds, CacheInitHolds DEF Init, IInv

LEMMA NextIInv == IInv /\ [Next]_vars => IInv'
<1> SUFFICES ASSUME IInv, [Next]_vars PROVE IInv'
  OBVIOUS
<1>1. CASE GeckoNext /\ UNCHANGED <<role, cacheVars>>
  BY <1>1, GeckoStepKeeps, CacheUnchanged DEF IInv
<1>2. CASE CacheNext /\ UNCHANGED <<role, geckoVars>>
  <2>1. GeckoTypeOK'
    BY <1>2
    DEF IInv, geckoVars, GeckoTypeOK, WatchTypeOK, PatchTypeOK, watchVars, patchVars, loader, notes
  <2> QED
    BY <1>2, <2>1, CacheStepKeeps, PatchUnchanged DEF IInv, geckoVars, watchVars
<1>3. CASE UNCHANGED vars
  <2>1. GeckoTypeOK'
    BY <1>3
    DEF vars, IInv, geckoVars, GeckoTypeOK, WatchTypeOK, PatchTypeOK, watchVars, patchVars, loader,
        notes
  <2> QED
    BY <1>3, <2>1, CacheUnchanged, PatchUnchanged DEF vars, IInv, geckoVars, watchVars
<1> QED
  BY <1>1, <1>2, <1>3 DEF Next

LEMMA IInvHolds == Spec => []IInv
  BY InitIInv, NextIInv, PTL DEF Spec

\* The variables keep their types, whatever an image holds and whatever Skia answers: the patches
\* install only what is a function of the image, also beside generatePath (LibxulPatch), and the
\* caches take only what a font file can be (TypefaceCache).
THEOREM TypesHold == Spec => []TypeOK
<1>1. IInv => TypeOK
  BY DEF IInv, TypeOK, CInv
<1> QED
  BY <1>1, IInvHolds, PTL

\* Whatever mprotect refuses and wherever the finders point, behind a hook is the function that
\* was there (Apply, PatchGlyphPath, PatchGlyphBounds, RedirectCalls).
THEOREM HooksLeadBack == Spec => []CallsReachTheHost
<1>1. IInv => CallsReachTheHost
  BY DEF IInv, PInv, PCore
<1> QED
  BY <1>1, IInvHolds, PTL

\* RedirectCalls redirects all the calls of a function or none, in any image.
THEOREM RedirectsAllOrNone == Spec => []AllOrNothing
<1>1. IInv => AllOrNothing
  BY DEF IInv, PInv, PCore, OthersWhole, AllOrNothing
<1> QED
  BY <1>1, IInvHolds, PTL

\* No order of reads, evictions and reused addresses takes the bytes from under a face or tears
\* the tables behind g_font_mutex apart (FontBytesLocked, ForgetOldestTypefacesLocked).
THEOREM TypefaceTablesAgree == Spec => []TypefacesKeepTheirBytes
<1>1. IInv => TypefacesKeepTheirBytes
  BY DEF IInv, CInv
<1> QED
  BY <1>1, IInvHolds, PTL

-----------------------------------------------------------------------------
(* The loader's locks, and the one attempt *)

Applies(t) == pc[t] \in {"apply", "patch"}

\* One thread applies the patches, after the flag was set, and until then libxul is as it was.
OneAttempt ==
    /\ \A t, u \in Threads : Applies(t) => g_done /\ (Applies(u) => u = t)
    /\ ~g_done => relro = image.relro /\ calls = image.calls

\* The list of images is walked by who has its lock.
WalksTheList == \A t \in Threads : list_lock = t <=> pc[t] = "scanning"

\* What a thread has to get before its next step: the list as it scans or as its dlopen puts an
\* image there or takes one away, the loader's lock as it looks for a symbol.
WaitsFor(t, lock) ==
    \/ lock = "list" /\ pc[t] = "scan"
    \/ lock = "list" /\ pc[t] = "out" /\ load_lock = t /\ dlopen \in {"mapping", "other"}
    \/ lock = "load" /\ pc[t] = "apply"

Has(t, lock) ==
    \/ lock = "list" /\ list_lock = t
    \/ lock = "load" /\ load_lock = t

\* Each of these threads waits for a lock that another of them has; for its own none waits, since
\* both are recursive.
WaitForEachOther(ring) ==
    \A t \in ring : \E lock \in {"list", "load"}, u \in ring \ {t} : WaitsFor(t, lock) /\ Has(u, lock)

WInv == OneAttempt /\ WalksTheList

LEMMA InitWInv == Init => WInv
  BY WatchAssumption
  DEF Init, GeckoInit, WatchInit, PatchInit, WInv, OneAttempt, Applies, WalksTheList

\* A step of a thread that watches changes no word of libxul; Found alone makes it apply, and the
\* flag is then set in the same exchange.
LEMMA WatchKeepsWInv ==
  ASSUME IInv, WInv, WatchNext, UNCHANGED patchVars
  PROVE  WInv'
<1> USE DEF WInv, OneAttempt, Applies, WalksTheList, IInv, GeckoTypeOK, WatchTypeOK, patchVars, image
<1>1. CASE Tick
  BY <1>1 DEF Tick, loader
<1>2. ASSUME NEW t \in Threads, WatchStep(t)
      PROVE  WInv'
  <2>1. CASE TakeRecorded(t)
    BY <2>1 DEF TakeRecorded, Goto, loader
  <2>2. CASE ScanStarts(t)
    BY <2>2, WatchAssumption DEF ScanStarts, Goto, notes, FreeFor
  <2>3. CASE ScanEnds(t)
    BY <2>3, WatchAssumption DEF ScanEnds, Goto, notes
  <2>4. CASE Missed(t)
    BY <2>4 DEF Missed, Return, Goto, loader
  <2>5. CASE Found(t)
    BY <2>5 DEF Found, Return, Goto, loader, notes
  <2> QED
    BY <1>2, <2>1, <2>2, <2>3, <2>4, <2>5 DEF WatchStep
<1>3. ASSUME NEW t \in Threads, Dlopen(t)
      PROVE  WInv'
  BY <1>3
  DEF Dlopen, DlopenStep, DlopenStarts, DlopenLists, DlopenEnds, OtherStarts, OtherEnds, notes
<1>4. ASSUME NEW t \in Threads, NoteOpen(t)
      PROVE  WInv'
  BY <1>4 DEF NoteOpen, NoteLibxul, NoteProbe, NoteRecorded, Watching, Goto, loader, notes
<1> QED
  BY <1>1, <1>2, <1>3, <1>4 DEF WatchNext

LEMMA ApplyKeepsWInv ==
  ASSUME IInv, WInv, NEW t \in Threads, Apply(t)
  PROVE  WInv'
  BY DEF WInv, OneAttempt, Applies, WalksTheList, IInv, GeckoTypeOK, WatchTypeOK, Apply,
         ResolveHelpers, ApplyStep, ApplyEnds, Goto, loader, notes, patchVars, watchVars, image

LEMMA NextWInv == IInv /\ WInv /\ [Next]_vars => WInv'
<1> SUFFICES ASSUME IInv, WInv, [Next]_vars PROVE WInv'
  OBVIOUS
<1>1. CASE GeckoNext
  BY <1>1, WatchKeepsWInv, ApplyKeepsWInv DEF GeckoNext
<1>2. CASE UNCHANGED geckoVars
  BY <1>2
  DEF WInv, OneAttempt, Applies, WalksTheList, geckoVars, watchVars, patchVars, loader, image
<1> QED
  BY <1>1, <1>2 DEF Next, vars

LEMMA WInvHolds == Spec => []WInv
  BY InitWInv, NextWInv, IInvHolds, PTL DEF Spec

\* Whoever finds libxul, however many at once, one thread patches it, and before that no word of it
\* is another (NoteOpenImpl, ScanLoadedImages, Apply).
THEOREM PatchedByOne == Spec => []OneAttempt
<1>1. WInv => OneAttempt
  BY DEF WInv
<1> QED
  BY <1>1, WInvHolds, PTL

\* An attempt that began, and may have failed half way, is never made again: the flag stays, and
\* with it set nobody begins.
THEOREM NoSecondAttempt ==
    Spec => [][g_done => g_done' /\ \A t \in Threads : Applies(t)' => Applies(t)]_vars
<1> DEFINE Stays == g_done => g_done' /\ \A t \in Threads : Applies(t)' => Applies(t)
<1>1. IInv /\ [Next]_vars => [Stays]_vars
  <2> SUFFICES ASSUME IInv, Next PROVE Stays
    OBVIOUS
  <2> USE DEF Applies, IInv, GeckoTypeOK, WatchTypeOK, Goto, loader, notes
  <2>1. CASE WatchNext /\ UNCHANGED patchVars
    <3>1. CASE Tick
      BY <3>1 DEF Tick
    <3>2. ASSUME NEW t \in Threads, WatchStep(t) PROVE Stays
      BY <3>2 DEF WatchStep, TakeRecorded, ScanStarts, ScanEnds, Missed, Found, Return
    <3>3. ASSUME NEW t \in Threads, Dlopen(t) \/ NoteOpen(t) PROVE Stays
      BY <3>3
      DEF Dlopen, DlopenStep, DlopenStarts, DlopenLists, DlopenEnds, OtherStarts, OtherEnds,
          NoteOpen, NoteLibxul, NoteProbe, NoteRecorded, Watching
    <3> QED
      BY <2>1, <3>1, <3>2, <3>3 DEF WatchNext
  <2>2. ASSUME NEW t \in Threads, Apply(t) PROVE Stays
    BY <2>2 DEF Apply, ResolveHelpers, ApplyStep, ApplyEnds, watchVars
  <2>3. CASE UNCHANGED geckoVars
    BY <2>3 DEF geckoVars, watchVars
  <2> QED
    BY <2>1, <2>2, <2>3 DEF Next, GeckoNext
<1> QED
  BY <1>1, IInvHolds, PTL DEF Spec

\* Who walks the list waits for nothing, and the loader's lock has one holder.
LEMMA NoRing ==
  ASSUME WInv, NEW ring \in SUBSET Threads, WaitForEachOther(ring)
  PROVE  ring = {}
<1>1. \A u \in ring : ~Has(u, "list")
  BY DEF WInv, WalksTheList, WaitForEachOther, WaitsFor, Has
<1>2. \A t \in ring : \E u \in ring \ {t} : load_lock = u
  BY <1>1 DEF WaitForEachOther, Has
<1> QED
  BY <1>2

\* However libxul and other images arrive, and whoever scans or patches meanwhile, no set of threads
\* waits in a ring for the loader's lock and that of the list (libxul_patch.cpp:4338-4340).
THEOREM TheLoaderNeverHangs ==
    Spec => [](\A ring \in SUBSET Threads : WaitForEachOther(ring) => ring = {})
<1>1. WInv => \A ring \in SUBSET Threads : WaitForEachOther(ring) => ring = {}
  BY NoRing
<1> QED
  BY <1>1, WInvHolds, PTL
===============================================================================
