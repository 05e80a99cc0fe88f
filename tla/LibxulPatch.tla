------------------------------ MODULE LibxulPatch ------------------------------
(***************************************************************************)
(* What Apply does to libxul once LibxulWatch has found it: it finds each  *)
(* function by what the function does, keeps its address as the original,  *)
(* and puts one of this library's hooks in its place, in the vtable slots  *)
(* that hold it or in the calls that name it (src/libxul_patch.cpp).  The  *)
(* host's threads run in the image while it is written.                    *)
(*                                                                         *)
(* An image is a record of what the finders look at.  They read the slots  *)
(* and calls as earlier patches left them.  mprotect may refuse a page.    *)
(***************************************************************************)
EXTENDS LibxulWatch, Sequences, FiniteSets

CONSTANTS
    Functions,    \* of an image
    Sites,        \* places in its text that look like a direct call
    NumSlots,     \* the words of its relocated read-only data
    Data,         \* what a word holds that is no function
    Torn,         \* a call of which one half is written
    Nothing,
    MaxFunctions, \* the length of the lists the finders keep: 8, 12, 16, 24 or 64 functions
    MaxOwners,    \* kMaxFtOwners
    MaxCallSites, \* kMaxCallSites
    MaxRefusals   \* bound: how many pages mprotect will not open

Slots == 1 .. NumSlots

Hooks == {"DwcGetCommonFallbackFonts", "DwcInitMetrics", "DwcGeneratePath",
          "DwcGenerateMetrics", "DwcGenerateImage", "DwcGetGlyphBounds",
          "DwcGetGlyphVOrigin", "DwcWrLoadGlyphThunk", "DwcInlinedFixup"}

ASSUME NamesAssumption ==
    /\ Functions \cap Hooks = {}
    /\ {Data, Torn, Nothing} \cap (Functions \cup Hooks) = {}
    /\ NumSlots \in Nat

VARIABLES
    relro,        \* what its slots hold now
    calls,        \* what its direct calls name now
    original,     \* g_original, g_init_metrics, g_generate_path, ...: the function behind a hook
    platform,     \* -moz-platform compares with windows
    step, phase,  \* which patch Apply is at, and how far that is
    hook, todo,   \* the hook being put in place, and where it still has to be
    wrote,        \* it was put somewhere
    copy,         \* which copy of the bold threshold PatchPostShapingFixup looks at
    refusals

patchVars == <<relro, calls, original, platform, step, phase, hook, todo, wrote, copy, refusals>>

-----------------------------------------------------------------------------
(* An image *)

Imports == {"malloc", "free", "FT_Get_Sfnt_Table", "FT_Set_Char_Size", "FT_Outline_Decompose",
            "FT_Load_Glyph", "FT_Render_Glyph", "FT_Outline_Get_Bitmap", "FT_MulFix",
            "FT_Set_Transform", "FT_Select_Size"}
Tags == {"SVG ", "COLR", "hhea", "OS/2", "vhea", "post", "hmtx"}

ImageRecords ==
    [off : BOOLEAN,                      \* CLEARTYPE_LIBXUL_PATCH says so
     described : BOOLEAN,                \* its segments are the ones DescribeImage wants
     bounded : BOOLEAN,                  \* its eh_frame_hdr can be read
     unichar : BOOLEAN,                  \* the process has g_unichar_type
     got : SUBSET Imports,               \* the functions its relocations bind
     anchors : Nat,                      \* how often its data has the run of family names
     references : [Functions -> Nat],    \* to that run
     relro : [Slots -> Functions \cup {Data}],
     calls : [Sites -> Functions],
     owner : [Sites -> Functions \cup {Nothing}],  \* the function a call lies in
     sound : SUBSET Sites,               \* with all five bytes, and this library in reach
     oneword : SUBSET Sites,             \* its displacement lies in one aligned word
     imports : [Functions -> SUBSET Imports],  \* which of them a function calls
     tags : [Functions -> SUBSET Tags],  \* which tags it holds
     small : SUBSET Functions,           \* kSmallFunction bytes at the most
     large : SUBSET Functions,           \* more than that
     thresholds : Seq(SUBSET Functions), \* who reads each copy of the bold threshold
     compares : Nat]                     \* functions that are the platform comparison

ASSUME ImagesAssumption == \A h \in Hosts : h.image \in ImageRecords

image == host.image    \* libxul as it was mapped

Steps == {"fallback", "underline", "path", "metrics", "image", "bounds", "vorigin",
          "webrender", "platform", "fixup", "over"}
Following(s) ==
    CASE s = "fallback" -> "underline"
      [] s = "underline" -> "path"
      [] s = "path" -> "metrics"
      [] s = "metrics" -> "image"
      [] s = "image" -> "bounds"
      [] s = "bounds" -> "vorigin"
      [] s = "vorigin" -> "webrender"
      [] s = "webrender" -> "platform"
      [] OTHER -> "fixup"

PatchTypeOK ==
    /\ relro \in [Slots -> Functions \cup {Data} \cup Hooks]
    /\ calls \in [Sites -> Functions \cup {Torn} \cup Hooks]
    /\ original \in [Hooks -> Functions \cup {Nothing}]
    /\ platform \in BOOLEAN
    /\ step \in Steps
    /\ phase \in {"find", "slots", "open", "write", "tear"}
    /\ hook \in Hooks
    /\ todo \in (SUBSET Slots) \cup (SUBSET Sites)
    /\ wrote \in BOOLEAN
    /\ copy \in Nat
    /\ refusals \in Nat

PatchInit ==
    /\ relro = image.relro /\ calls = image.calls
    /\ original = [h \in Hooks |-> Nothing]
    /\ platform = FALSE
    /\ step = "fallback" /\ phase = "find"
    /\ hook = "DwcGetCommonFallbackFonts" /\ todo = {} /\ wrote = FALSE
    /\ copy = 1 /\ refusals = 0

-----------------------------------------------------------------------------
(* The finders *)

Lone(S) == IF Cardinality(S) = 1 THEN S ELSE {}
TooMany(S) == Cardinality(S) > MaxFunctions

\* a list that is cut off where its caller does not look whether it was
Truncated(S, max) ==
    IF Cardinality(S) <= max THEN S
    ELSE CHOOSE K \in SUBSET S : Cardinality(K) = max

FunctionsCalling(name) == {f \in Functions : name \in image.got \cap image.imports[f]}
FunctionsHolding(tag) == {f \in Functions : tag \in image.tags[f]}
CollectVtableSlots(f) == {s \in Slots : relro[s] = f}
DirectCallers(f) == {image.owner[c] : c \in {d \in Sites : calls[d] = f}} \ {Nothing}

\* the function that refers to the names most often, and no other as often
FindOwningFunction ==
    {f \in Functions : /\ image.references[f] >= 6
                       /\ \A g \in Functions \ {f} : image.references[g] < image.references[f]}

FindInitMetrics ==
    LET readers == FunctionsCalling("FT_Get_Sfnt_Table")
        sizers == FunctionsCalling("FT_Set_Char_Size")
    IN  IF TooMany(readers) \/ TooMany(sizers) THEN {} ELSE Lone(readers \cap sizers)

Rasterizers ==
    UNION {f \in {FunctionsCalling("FT_Render_Glyph"), FunctionsCalling("FT_Outline_Get_Bitmap")} :
              ~TooMany(f)}

\* (Mutants, here and below, are plausible bugs of the definition they precede.)
MutantBesideAnything(f, loading) == \E s \in Slots : CollectVtableSlots(f) = {s} /\ s > 2

\* the two slots before it hold functions that load glyphs the same way
Beside(f, loading) ==
    \E s \in Slots : /\ CollectVtableSlots(f) = {s} /\ s > 2
                     /\ {relro[s - 1], relro[s - 2]} \subseteq loading

\* A function that both walks outlines and loads glyphs is looked for once, as a walker.
FindGeneratePath ==
    LET walkers == FunctionsCalling("FT_Outline_Decompose")
        loaders == FunctionsCalling("FT_Load_Glyph")
        walking == UNION {Truncated(DirectCallers(w), MaxFunctions) : w \in walkers}
    IN  IF TooMany(walkers) \/ TooMany(loaders) THEN {}
        ELSE Lone({f \in walking \ Rasterizers :
                      \E l \in loaders \ walkers :
                          /\ ~TooMany(DirectCallers(l)) /\ f \in DirectCallers(l)
                          /\ Beside(f, DirectCallers(l))})

FindGlyphExtents ==
    LET lists == {FunctionsHolding("SVG "), FunctionsHolding("COLR"),
                  FunctionsCalling("FT_Set_Char_Size"), FunctionsCalling("FT_MulFix")}
    IN  IF \E l \in lists : TooMany(l) THEN {}
        ELSE Lone({f \in Functions : \A l \in lists : f \in l})

FindGlyphBounds ==
    LET InVtable(f) == CollectVtableSlots(f) # {} /\ ~TooMany(CollectVtableSlots(f))
        Above(e) == IF TooMany(DirectCallers(e)) THEN {} ELSE DirectCallers(e)
    IN  Lone({f \in UNION {Above(e) : e \in FindGlyphExtents} : InVtable(f)})

\* Two that have one caller both count as called from a function nothing calls.
FindGlyphVOrigin ==
    LET metrics == {"OS/2", "vhea", "post", "hmtx"}
        below == {f \in FunctionsHolding("hhea") : image.tags[f] \cap metrics = {}}
        single == {f \in below : Cardinality(DirectCallers(f)) = 1}
        Orphan(f) == \/ \A c \in DirectCallers(f) : DirectCallers(c) = {}
                     \/ \E g \in single \ {f} : DirectCallers(g) = DirectCallers(f)
    IN  IF \E tag \in metrics \cup {"hhea"} : TooMany(FunctionsHolding(tag)) THEN {}
        ELSE Lone({f \in single : Orphan(f)})

FindWebRenderLoadGlyph ==
    LET names == {"FT_Set_Char_Size", "FT_Set_Transform", "FT_Load_Glyph", "FT_Select_Size"}
    IN  Lone({f \in Functions : \A n \in names : f \in Truncated(FunctionsCalling(n), MaxOwners)})

\* the small functions that read the bold threshold, and the large ones that read one copy of it
OffsetFunctions == {f \in image.small : \E k \in DOMAIN image.thresholds :
                                            f \in Truncated(image.thresholds[k], MaxFunctions)}
InlinedFixups(k) == Truncated(image.thresholds[k], MaxFunctions) \cap image.large

-----------------------------------------------------------------------------
(* Putting a hook in place *)

At(s, p) == step = s /\ phase = p

GoOn(s) ==
    /\ step' = s /\ phase' = "find"
    /\ todo' = {}
    /\ UNCHANGED platform

Skip(s) == GoOn(s) /\ UNCHANGED <<relro, calls, original, hook, wrote, copy, refusals>>

\* the original first
Install(h, f, places, p) ==
    /\ original' = [original EXCEPT ![h] = f]
    /\ hook' = h /\ todo' = places /\ wrote' = FALSE
    /\ phase' = p
    /\ UNCHANGED <<relro, calls, platform, step, copy, refusals>>

\* the patches after the first do not depend on each other
AfterSlots ==
    CASE step = "fallback" /\ ~wrote -> "over"
      [] step = "path" /\ ~wrote -> "bounds"
      [] OTHER -> Following(step)

AfterCalls(done) == IF step # "fixup" THEN Following(step) ELSE IF done THEN "over" ELSE "fixup"

\* What the last slot said is what counts.
MutantLastSlotCounts ==
    /\ phase = "slots"
    /\ \E s \in todo :
        /\ \A r \in todo : s <= r
        /\ todo' = todo \ {s}
        /\ \/ relro' = [relro EXCEPT ![s] = hook] /\ wrote' = TRUE /\ UNCHANGED refusals
           \/ /\ refusals < MaxRefusals /\ refusals' = refusals + 1
              /\ wrote' = FALSE /\ UNCHANGED relro
    /\ UNCHANGED <<calls, original, platform, step, phase, hook, copy>>

WriteSlot ==
    /\ phase = "slots"
    /\ \E s \in todo :
        /\ \A r \in todo : s <= r
        /\ todo' = todo \ {s}
        /\ \/ /\ relro' = [relro EXCEPT ![s] = hook]
              /\ wrote' = TRUE
              /\ UNCHANGED refusals
           \/ /\ refusals < MaxRefusals
              /\ refusals' = refusals + 1
              /\ UNCHANGED <<relro, wrote>>
    /\ UNCHANGED <<calls, original, platform, step, phase, hook, copy>>

SlotsWritten ==
    /\ phase = "slots" /\ todo = {}
    /\ original' = IF wrote THEN original ELSE [original EXCEPT ![hook] = Nothing]
    /\ GoOn(AfterSlots)
    /\ UNCHANGED <<relro, calls, hook, wrote, copy, refusals>>

\* RedirectCalls, its first two passes: every call is checked, and every page opened, or none is
\* written
CallsSound == todo # {} /\ Cardinality(todo) <= MaxCallSites /\ todo \subseteq image.sound

OpenPages ==
    /\ phase = "open" /\ CallsSound
    /\ phase' = "write"
    /\ UNCHANGED <<relro, calls, original, platform, step, hook, todo, wrote, copy, refusals>>

\* Each page is opened as its call is written.
MutantOpensLate ==
    /\ phase \in {"open", "write"}
    /\ \/ ~CallsSound /\ phase = "open" /\ UNCHANGED refusals
       \/ todo # {} /\ refusals < MaxRefusals /\ refusals' = refusals + 1
    /\ original' = IF phase = "open" THEN [original EXCEPT ![hook] = Nothing] ELSE original
    /\ copy' = IF step = "fixup" THEN copy + 1 ELSE copy
    /\ GoOn(AfterCalls(FALSE))
    /\ UNCHANGED <<relro, calls, hook, wrote>>

RedirectRefused ==
    /\ phase = "open"
    /\ \/ ~CallsSound /\ UNCHANGED refusals
       \/ CallsSound /\ refusals < MaxRefusals /\ refusals' = refusals + 1
    /\ original' = [original EXCEPT ![hook] = Nothing]
    /\ copy' = IF step = "fixup" THEN copy + 1 ELSE copy
    /\ GoOn(AfterCalls(FALSE))
    /\ UNCHANGED <<relro, calls, hook, wrote>>

\* the last pass: one store where the displacement lies in one word, two where it does not
WriteDisplacement ==
    /\ phase = "write"
    /\ \E c \in todo :
        IF c \in image.oneword
        THEN /\ calls' = [calls EXCEPT ![c] = hook]
             /\ todo' = todo \ {c}
             /\ UNCHANGED phase
        ELSE /\ calls' = [calls EXCEPT ![c] = Torn]
             /\ phase' = "tear"
             /\ UNCHANGED todo
    /\ UNCHANGED <<relro, original, platform, step, hook, wrote, copy, refusals>>

WriteOtherHalf ==
    /\ phase = "tear"
    /\ \E c \in todo :
        /\ calls[c] = Torn
        /\ calls' = [calls EXCEPT ![c] = hook]
        /\ todo' = todo \ {c}
    /\ phase' = "write"
    /\ UNCHANGED <<relro, original, platform, step, hook, wrote, copy, refusals>>

CallsRedirected ==
    /\ phase = "write" /\ todo = {}
    /\ GoOn(AfterCalls(TRUE))
    /\ UNCHANGED <<relro, calls, original, hook, wrote, copy, refusals>>

RedirectCalls ==
    \/ OpenPages
    \/ RedirectRefused
    \/ WriteDisplacement
    \/ WriteOtherHalf
    \/ CallsRedirected

-----------------------------------------------------------------------------
(* The patches *)

\* one whose calls are redirected, if it was found
Redirect(s, h, found) ==
    /\ At(s, "find")
    /\ \/ found = {} /\ Skip(Following(s))
       \/ \E f \in found : Install(h, f, {c \in Sites : calls[c] = f}, "open")

\* one that is written into its slots
Replace(s, h, found, otherwise) ==
    /\ At(s, "find")
    /\ \/ found = {} /\ Skip(otherwise)
       \/ \E f \in found : Install(h, f, CollectVtableSlots(f), "slots")

PatchFallback ==
    Replace("fallback", "DwcGetCommonFallbackFonts",
            {f \in FindOwningFunction : /\ image.anchors = 1 /\ image.bounded
                                        /\ Cardinality(CollectVtableSlots(f)) = 1}, "over")

PatchUnderline == Redirect("underline", "DwcInitMetrics", FindInitMetrics)

PatchGlyphPath == Replace("path", "DwcGeneratePath", FindGeneratePath, "bounds")

\* the slots before generatePath's
PatchBeside(s, h, back) ==
    /\ At(s, "find")
    /\ \E p \in CollectVtableSlots("DwcGeneratePath") :
           Install(h, relro[p - back], {p - back}, "slots")

PatchGlyphBounds == Replace("bounds", "DwcGetGlyphBounds", FindGlyphBounds, "vorigin")

PatchGlyphVOrigin == Redirect("vorigin", "DwcGetGlyphVOrigin", FindGlyphVOrigin)

PatchWebRenderSize == Redirect("webrender", "DwcWrLoadGlyphThunk", FindWebRenderLoadGlyph)

PatchPlatformMediaFeature ==
    /\ At("platform", "find")
    /\ \/ /\ image.compares = 1
          /\ platform' = TRUE
          /\ UNCHANGED refusals
       \/ /\ image.compares # 1
          /\ UNCHANGED <<platform, refusals>>
       \/ /\ image.compares = 1 /\ refusals < MaxRefusals
          /\ refusals' = refusals + 1
          /\ UNCHANGED platform
    /\ step' = Following(step)
    /\ UNCHANGED <<relro, calls, original, phase, hook, todo, wrote, copy>>

\* The first large function of each copy in turn, until one is redirected.  The function that is
\* looked for after that is only located.
PatchPostShapingFixup ==
    /\ At("fixup", "find")
    /\ LET copies == Len(image.thresholds)
       IN  \/ /\ copy > copies \/ copies > MaxFunctions \/ Cardinality(OffsetFunctions) > 1
              /\ Skip("over")
           \/ /\ copy <= copies /\ copies <= MaxFunctions /\ Cardinality(OffsetFunctions) <= 1
              /\ \/ /\ InlinedFixups(copy) = {}
                    /\ copy' = copy + 1
                    /\ UNCHANGED <<relro, calls, original, platform, step, phase, hook, todo,
                                   wrote, refusals>>
                 \/ \E f \in InlinedFixups(copy) :
                        Install("DwcInlinedFixup", f, {c \in Sites : calls[c] = f}, "open")

PatchStep ==
    \/ PatchFallback
    \/ PatchUnderline
    \/ PatchGlyphPath
    \/ PatchBeside("metrics", "DwcGenerateMetrics", 2)
    \/ PatchBeside("image", "DwcGenerateImage", 1)
    \/ PatchGlyphBounds
    \/ PatchGlyphVOrigin
    \/ PatchWebRenderSize
    \/ PatchPlatformMediaFeature
    \/ PatchPostShapingFixup
    \/ WriteSlot
    \/ SlotsWritten
    \/ RedirectCalls

-----------------------------------------------------------------------------
(* Apply *)

CanApply == ~image.off /\ image.described /\ {"malloc", "free"} \subseteq image.got

\* the symbol is looked for with dlsym, which needs the loader's lock
ResolveHelpers(t) ==
    /\ pc[t] = "apply"
    /\ CanApply => FreeFor(t, load_lock)
    /\ Goto(t, IF CanApply /\ image.unichar THEN "patch" ELSE "out")
    /\ UNCHANGED <<host, loader, notes, g_gecko_loaded, g_done, why, patchVars>>

ApplyStep(t) ==
    /\ pc[t] = "patch" /\ step # "over"
    /\ PatchStep
    /\ UNCHANGED watchVars

ApplyEnds(t) ==
    /\ pc[t] = "patch" /\ step = "over"
    /\ Goto(t, "out")
    /\ UNCHANGED <<host, loader, notes, g_gecko_loaded, g_done, why, patchVars>>

Apply(t) ==
    \/ ResolveHelpers(t)
    \/ ApplyStep(t)
    \/ ApplyEnds(t)

GeckoInit == WatchInit /\ PatchInit
GeckoNext == (WatchNext /\ UNCHANGED patchVars) \/ (\E t \in Threads : Apply(t))
geckoVars == <<watchVars, patchVars>>

GeckoTypeOK ==
    /\ WatchTypeOK
    /\ PatchTypeOK
    /\ pc \in [Threads -> WatchPlaces \cup {"apply", "patch"}]

-----------------------------------------------------------------------------
(* Properties *)

(***************************************************************************)
(* A slot or call that leads to a hook finds behind the hook the function  *)
(* that slot or call led to when libxul was mapped.                        *)
(***************************************************************************)
CallsReachTheHost ==
    /\ \A s \in Slots : relro[s] # image.relro[s] =>
           relro[s] \in Hooks /\ original[relro[s]] = image.relro[s]
    /\ \A c \in Sites : calls[c] \notin {image.calls[c], Torn} =>
           calls[c] \in Hooks /\ original[calls[c]] = image.calls[c]

(***************************************************************************)
(* Except while they are being written, the calls of one function of       *)
(* libxul all lead to the hook or all to the function.                     *)
(***************************************************************************)
AllOrNothing ==
    phase \notin {"write", "tear"} =>
        \A c, d \in Sites : image.calls[c] = image.calls[d] => calls[c] = calls[d]

(***************************************************************************)
(* Once libxul is in the list under its name and Gecko's patches are       *)
(* wanted, they are tried, unless the probes run out first while no open   *)
(* of libxul is on record.  An open that is on record after libxul is in   *)
(* the list always leads to it.                                            *)
(***************************************************************************)
Findable == InList /\ host.named /\ ParityActive
Tried == g_done /\ \A t \in Threads : pc[t] # "apply"

LibxulIsFound ==
    /\ Findable ~> (Tried \/ (g_probes = MaxProbes /\ ~g_libxul_open))
    /\ (Findable /\ g_libxul_open) ~> Tried
===============================================================================
