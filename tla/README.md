# Verification of libdwritecore

TLA+ models of the code in `src/`, the TLC configurations that check them, and proofs that TLAPS
checks. Paths below are relative to `src/`; `freetype.cpp` is `cleartype/src/freetype.cpp`.

## 1. The system

Two shared libraries come out of the repository.

- **libdwritecore.so** (`src/`, `bionic-compat/`) is Microsoft's DirectWrite engine, a Bionic build
  loaded into a glibc process behind a factory proxy that adds the system's fonts.
- **libcleartype.so** (`cleartype/src/`) is preloaded under an application. It interposes FreeType,
  fontconfig and, in Firefox and Chromium, some of the host's own code, so that text is drawn and
  measured by DirectWrite.

### Components

| Component | State | Operations | What makes it correct |
|---|---|---|---|
| **Face table** (`freetype.cpp:1089-1291`, `7320-7460`) | `g_faces`: `FT_Face` → entry, with its library and a mirror of FreeType's reference count | the interposed `FT_New_Face` and kin, `FT_Reference_Face`, `FT_Done_Face`, `FT_Done_FreeType` | an entry lives exactly as long as its face, although the table is updated after the real call has returned and addresses are reused |
| **Outline side tables** (`freetype.cpp:2426-2857`, `6202`, `7480-8010`, `9472-9661`) | `g_shifts` (what the caller did to an outline), `g_owners` (which glyph it holds), `g_tracked` (installed bitmaps), all keyed by address | load, translate, embolden, transform, render, get bitmap, outline done | a render draws what the caller asked of this glyph and nothing older; no bitmap leaks or is freed twice |
| **Memory fonts and font files** (`freetype.cpp:1360-1935`) | the font file cache, counted blobs, the id table DirectWrite's streams look up | `GetFontFileLocked`, `ForgetMemoryFontLocked`, the loader's and the streams' COM methods | bytes live as long as a reader and no longer; a face never reads another font |
| **DirectWrite face cache** (`freetype.cpp:1937-2040`, `4960-5153`, `6723-7230`, `9300-9361`) | `dwrite_faces` (24) and `instances` (32) of each entry, COM references | lookup, eviction, rasterization and decomposition that read a face after the unlock | what is read outside the lock is held; every reference is somebody's |
| Host detection (`freetype.cpp:100-260`) | a sticky answer and a call counter | rescan of the link map on calls 1, 2, 4, 8… | the answer never goes back to no, and an importer is found in the end |
| **Glyph rasterization and paths** (`freetype.cpp:2062-2417`, `6242-7230`, `8778-8952`, `9035-9659`, `libxul_patch.cpp:3045-3304`) | who a thread is, Skia's libraries, kept recommendations, the points of one path | choose an analysis, draw, replay an outline, repair the path | both of Gecko's rasterizers get Windows' modes; a path is given the places it has on Windows or left alone |
| Glyph metrics | none | Windows advances, recovered shapes | exact against its definition |
| **Claimed sizes and the em size** (`freetype.cpp:2900-3650`, `4455-4524`, `7864-7949`, `8488-8550`) | 64 rows of 16 sizes, what WebRender last named, a memo, app units per pixel | claim, touch, forget, recover | the size a glyph is drawn at is the one Gecko laid it out at |
| Windows instances and sfnt copies | per-entry vectors with caps | parity's substitution of metrics and tables | no pointer given to the host dangles |
| **DWriteCore shim** (`src/dwritecore_shim.cpp:224-477`) | a once flag, the loaded image | load, create a factory | loaded once or failed once, for every thread alike |
| **Factory proxy and system collection** (`src/factory_proxy_overrides.cpp`, `src/system_fonts.cpp:90-447`, `freetype.cpp:851-881`, `4827-4862`) | proxy cache, reference counts, the collection | QueryInterface, Release, build the collection on first use | one live proxy for an inner object; the collection is built once and the build does not take `g_faces_mutex` twice |
| System font fallback (`src/system_fallback.cpp`) | a table | range lookup | every code point gets the range it is in |
| **Bionic synchronisation** (`bionic-compat/libc_compat.c:196-461`) | futex words in DWriteCore's own memory: mutex, condition variable, read-write lock, once | `pthread_mutex_*`, `pthread_cond_*`, `pthread_rwlock_*`, `pthread_once` | mutual exclusion, and no wakeup lost, whatever waits end early |
| Bionic compatibility: the rest (`bionic-compat/`) | none of its own | threads, keys, stdio, the loader, libm, liblog, passed on to glibc | each call reaches the glibc function of its name |
| **Watching for libxul** (`cleartype/src/libxul_patch.cpp:4148-4371`) | a recorded open, counts of misses and probes, two sticky flags | `AtLoad`, `NoteOpen`, the scan of the loader's list | a libxul that arrives, whenever and on whatever thread, is found; nothing is scanned inside a `dlopen` |
| **libxul patching** (`libxul_patch.cpp:234-4146`) | vtable slots and call displacements of libxul, the original behind each hook | `Apply` and its patches: find a function by what it does, keep it, put a hook in its place | a hook that can be called knows its original; a function's calls are redirected all or none |
| **Chromium's typefaces** (`cleartype/src/chromium/vtable_patch.cpp:2198-2672`, `3455-3531`, `typeface_bridge.cpp:138-309`, `dwrite_raster.cpp:227-371`) | four tables by typeface behind `g_font_mutex`, the shared bytes, the usable object of a proxy, DirectWrite faces by bytes and position | the filter, metrics and image hooks; eviction at the cap | what is kept of a typeface goes together; no face loses the bytes it reads |
| **Chromium's vtables** (`chromium/vtable_patch.cpp:188-2176`, `typeface_bridge.cpp:52-309`) | words of the image's relocations, the original behind each hook, what is known of the typeface's table | choose the image, find the tables by what their functions call, write the slots, again when a typeface is seen | a hook that is called goes back to what it replaced; nothing is written where two tables could be meant |
| **Chromium: weights and faces** (`cleartype/src/chromium/family_match.cpp`, `weight_style.cpp`, `bold_fallback.cpp`) | sticky answers, lists of families | a sort reordered, rules written, a weight reported | the face drawn is the one DirectWrite would pick |
| **Chromium: fallback by character** (`fallback_order.cpp`, `static_fontconfig.cpp`, `fallback_hook.cpp`, `dwrite_raster.cpp:560-680`) | charsets by family, a survey, the document served for a configuration | a sort reordered, coverage answered; a configuration of rules, a tag asked by | a character gets the family Windows gives it, by either route |
| **Chromium: what the hooks draw** (`render_params.cpp`, `windows_path.cpp`, `font_facts.cpp`, `colr_outline.cpp`, the hooks of `vtable_patch.cpp:2674-3531`) | what one probe leaves for the next, the source of the last image | filter a record, choose a path, measure, draw, outline, paint a color glyph | a glyph is measured, boxed, drawn and outlined as Windows would, by one decision |
| **Chromium: code without a slot** (`code_patch.h`, `render_params.cpp`, `fallback_hook.cpp`, `bold_weight.cpp`, `weight_style.cpp`, `chromium/system_fonts.cpp`, `colr_outline.cpp`, `hb_abi.cpp`) | branches and entries written, the originals | find a function by what it reads, lead its calls or its entry to a hook | a hook reaches what it replaced and never itself; where two functions could be meant nothing is written |
| **Chromium: families of a script** (`generic_families.cpp`) | what was learned from resource packs, a longer copy of a table | rewrite a pack, lead the loop over the table to the copy | a pack stays one; the loop reads each row Windows has once |
| **Chromium: bold shaping** (`bold_shaping.cpp`) | per-thread caches by font | build a bold font in place of a regular one, swap it for one call | text is shaped by the face it is drawn with |
| **fontconfig interposition, preferences, gates** (`cleartype/src/fontconfig.cpp`, `prefs.cpp`, `parity_mode.cpp`, `chromium/parity_gate.cpp`) | answers decided once, a reduced font set, lists of families | the interposed `Fc*`, a constructor | a request stays what was asked; no family Windows lacks is offered |

### How they interact

The host calls FreeType; the interposed function runs the real one and then updates the face table
and the side tables under `g_faces_mutex` and the tables' own mutexes. A load or a render inside
FreeType calls back into interposed functions on the same thread (`FT_Outline_Translate`,
`FT_Render_Glyph`). A render finds the entry, its font file and its DirectWrite face, takes a
reference, drops the mutex and lets DirectWrite rasterize. DirectWrite opens and drops streams of
this library's memory loader on its own threads. `EraseFaceLocked` is where the parts meet: the end
of an entry drops its owners, bitmaps and pending outlines, its font file and its DirectWrite faces.
In Firefox, the interposed `open` and `FT_New_Face` also tell `NoteOpen`, which looks for libxul and
patches it once; in Chromium, hooks in Skia's vtables ask the tables of typefaces for bytes and draw
with DirectWrite faces made of them. A process is one or the other.
Host detection gates all of it, and may say yes only after the host has opened faces.

### What is hard

- The two halves of an interposed call are not atomic, and addresses are keys. An address freed by
  the real half is handed out again before the table half runs.
- A key is an address inside an object that dies without telling the table (an outline in a glyph
  slot, an outline over the caller's own arrays, a face whose library went).
- Counted objects are shared with DirectWrite's threads; the counts live in three places.
- Caches are bounded and evict what somebody may still be using.
- Every allocation and DirectWrite call may fail half way through a sequence.
- Measuring a face needs the system's fonts, and listing those comes back through the same
  interposed calls, five locks deep.
- libxul is loaded at any time, on any thread, while the loader holds locks that a scan needs; it is
  patched while its other threads run in it, and any page may refuse.
- Skia's typefaces are proxies that come and go, at addresses used again, while faces made of their
  bytes stay.
- DWriteCore's locks are written from scratch on futexes, where one missed wakeup is a hang.

`PROJECT.json` lists each of these at the line where it bites, with the properties for it.

## 2. The models

Every module is the specification of one component; `MC<module>` gives it finite sets for TLC.
`PROJECT.json` maps each definition to the lines it models.

### FaceTable

`g_faces` maps an address to `[refcount, library]` or `NoEntry`. `real`, `home` and `open` are what
FreeType itself has. An interposed call is two steps: the real half (`OpenFace`,
`FT_Reference_Face`, `FT_Done_Face`, `FT_Done_FreeType`), which leaves a record in `call[t]`, and
the table half (`RecordFace`, `ReferenceFace`, `ReleaseFace`, `ForgetLibrary`), one critical section
each. Threads obey FreeType's contract, one thread at a time in a library and its faces, and nothing
more; `serialized` is a host that makes one call at a time. `FT_Done_FreeType` destroys every face of
its library without calling `FT_Done_Face`, as FreeType does. `DetectHost` turns `wanted` on, and
faces opened before it stay out of the table. `FT_New_Library`, `FT_Done_Library` and
`FT_Init_FreeType` are not interposed: only the appearance of a library is a step.

### OutlineState

The tables map an outline to its entry or `None`. A slot's outline lives and dies with its face
(`OpenFace`, `CloseFace`, then `EraseFaceLocked`); `bare` outlines are the caller's. `reshape` is the
truth the tables are held against: what was done to the outline a slot holds since it was loaded or
last rasterized. A reshape is a member of `Reshapes`: which one it is (a shift, a matrix, a bold)
makes no difference to the tables, except for two. `Delta` is the delta of `FT_Set_Transform`, which
reaches the table by FreeType's own translate, or by `RecordTransformDelta` under parity. `Grid` is
the translate FreeType makes as it renders. A call on a face is one step, because FreeType's
contract gives the face to one thread; faces interleave, and so does the end of a face
(`CloseFace`/`EraseFaceLocked`). `FT_LOAD_RENDER`, where FreeType calls this library back, is
`LoadRenderGlyph`. `FT_GlyphSlot_Embolden` on a strike is the sequence of a load, a reshape and a
render. A full vector drops any one of its entries: the code drops the front, and its erase moves the
last entry into the hole, so the front can be any of them.

### MemoryFonts

A thread in `GetFontFileLocked` or `EraseFaceLocked` holds `g_faces_mutex` throughout; `holder` says
how far it is, one step for each call into DirectWrite and each section of `g_blobs_mutex`.
DirectWrite's steps (`CreateStreamFromKey`, `ReleaseStream`, `DeleteBlob`, `Keep`, `LetGo`) come in
between. `refs` counts the references on a font file as COM would; `made` remembers what bytes and
which key a file was made with, so that a file DirectWrite still has can be held against the table.
`Digest` lets two fonts share hash and size, which is why `SameFontBytes` exists. A zero count and
the `delete` after the unlock are two steps (`freeing`). Failures are steps: no memory for the copy,
the reference refused, `Analyze` failing before or after the loader, no loader. A file of a face that
stays open is asked for once (`file_failed`).

### DWriteFaceCache

One entry of the face table, its two caches and the threads that rasterize with it. `refs` is the
COM count of a DirectWrite face and drops to 0 when it is destroyed, after which its address may be
used again; `made_for` is the simulation and axis position it was made for. `Looked`, `Counted` and
`Yields` are `GetDWriteFaceLocked`; a cached null is an answer too. `Rasterize` and `Decompose` end
at the unlock with a reference (`HoldFace`), and `FinishTexture`, `TextureNoMemory` and
`FinishOutline` come after it, whatever evictions or `EraseFaceLocked` did meanwhile.

### Monitor, BionicMutex

`Monitor` is the promise: one thread inside, as deep as it has locked, and a wait that lets go and
begins in one step. `BionicMutex` is the code: `futex`, `owner`, `recursion` and `type` of a
`bionic_mutex_t`, `seq` of a `bionic_cond_t`, and for each thread where it is (`pc`) and what it last
read (`seen`). Each atomic operation and each futex call is a step; the kernel's queues are the
threads at `asleep` and `blocked`. Two things are taken together with the step next to them because
no other thread can tell: the check of `owner` against oneself (`Lock`, `Reenter`, `Refuse`), and what
an unlock does before its exchange (`Unlock`). `Interrupted` is the kernel's: a wait may end without
a wake, and no caller looks at the answer. The caller is DWriteCore, external: it unlocks and waits
only with the mutex, waits one lock deep and does not lock a normal mutex it holds; `depth` is what it
believes. It may signal with the mutex or without. `since` and `passed` are history for one property:
`seq` when a waiting thread let go, and the signals since that woke somebody else. The refinement
mapping puts a thread inside from the swap that takes the word to the exchange that gives it back.

### BionicLocks

The word of a read-write lock and of a `pthread_once_t`. The load of `pthread_rwlock_unlock` is one
step with the store or the subtraction after it: its caller holds the lock, so the sign cannot
change in between. The routine given to `pthread_once` is external (`RunInit`) and returns. A thread
holds the lock once at a time and may call `pthread_once` while it does.

### FactoryProxy

The way from `DWriteCoreCreateFactory` to the system's fonts, for an application (`AppCreates`, `AppGets`)
and for libcleartype when it measures a face (`Measure` to `Measured`). `refs` and `proxy_refs` count the
references on a factory and on its proxy, `cached` is `g_proxies`; `attempted`, `set`, `view` and
`fallback_attempted` are a proxy's `SystemFonts`; `g_collection` and `tried` are libcleartype's own. What a
real factory answers when a list cannot be built is not told apart. `holder` has the five kinds of lock that
are held across a call: `g_faces_mutex`, `g_factory_mutex`, the two `pthread_once_t` and the lock of each
list. A section of `g_proxy_lock` or `g_collection_mutex` calls nothing that takes another lock of this code
and is one step. The grouped views of a list, the legacy one and one for each family model, are the members
of `Views`; a view is numbered by how often it was made. Three things are external: the implementation
(`CreateReal`: the shared factory, one of the caller's own, or none), fontconfig (`MayScan`: it may open a
font through the interposed `FT_New_Face`, which takes `g_faces_mutex`; it sets no size on it, so none of
its calls measures), and an application's releases. `held`, `held_views` and `given` are what the
application has, `scans` how often a list was made.

### LibxulWatch, LibxulPatch, TypefaceCache, HostProcess

`HostProcess` is the process libcleartype is in: a Gecko one, whose steps are those of `LibxulWatch`
and `LibxulPatch`, or a Chromium one, whose steps are those of `TypefaceCache`. Neither can happen in
the other's process, so the composition is a sum.

`LibxulWatch` has the loader as its environment: a `dlopen` holds `load_lock` from start to end and
takes `list_lock` to put the image in the list (`DlopenLists`); a scan holds `list_lock`. `pc[t]` is
where a thread is between `NoteOpen` and the end of its scan. `probe_due` stands for the 250 ms since
`g_last_probe`. A host (a member of `Hosts`) says what does not change in a process: whether libxul
was mapped before this library, whether it has its own name in the list, whether libc's span is known,
whether the option is on and the host wants it. `in_libc` is whether the caller of `open` lies in libc.

`LibxulPatch` describes an image by what the finders look at, one record field for each: which
functions call which imports and hold which tags, who refers to the family names, the words of the
relocated data, the direct calls and the functions they lie in. The finders are operators over it
(`FindInitMetrics`, `FindGeneratePath`, …), the cut-off lists included (`Truncated`). `Apply` is a
sequence of steps: `step` is the patch, `phase` how far it is; one step writes one slot or one
displacement, a displacement that crosses a word in two (`Torn`), for the host's threads run there
meanwhile. A page may refuse at any of them (`refusals`). `ResolveHelpers` needs the loader's lock.
`DescribeImage`'s failures are `described` and `bounded`.

`TypefaceCache` has Skia's typefaces as `object`: an address holds a typeface with its id, its bytes,
its position and, for a proxy, its inner typeface, or nothing; ids are never used again, addresses
are. `g_real` is what `typeface_bridge` keeps by address. The four tables, `g_fonts`,
`g_plain_fontations`, `g_var_coords` and `g_facts`, are by id, `g_font_order` is the eviction order,
`vectors` the shared bytes that are never freed. `font_mutex` is held over a read of the file, which is
a step of its own. `variation` is what is believed of the slot that reads a position. `faces` is the
table of `dwrite_raster`; a face keeps the bytes it was made of. A typeface is not freed while a hook
has it.

### The pure modules

Some parts of the program are decisions, not protocols. Their modules have no variables: a state is a record
that an operator takes and gives back. What they should come to is stated as named assumptions in their `MC`
modules, by a reference definition wherever there is one, and TLC evaluates them over bounded inputs as a
run starts: those of `MCGlyphs` and `MCChromium` with the runs of `DWriteFaceCache`, those of `MCVtables`
with the run `FactoryProxy`, the others with the run `HostProcess`. An assumption is about every input in
its range; a few pin a single case where the code does what a reader would not expect (section 4).

`FaceWeights` has the two scales of weights, the order of a sorted set (`ReorderForWindows`), the
rules a built-in fontconfig is served (`WeightRules`) and when a bold is a real one (`RealBoldFor`).
An OpenType weight is in quarters. External: what fontconfig makes of the rules (`ApplyRules`).
`ScalesAgree`, over all 216 and 1000 weights; `SplittingIsExact`, `RulesDoNotMeet`,
`RulesOfManyFamilies`, a request for any weight finds the face DirectWrite picks; `FailureLeavesNoRule`;
`ReorderPicksForWindows`, against DirectWrite's own order of closeness, with nothing lost;
`FallbackSortIsLeftAlone`; `BoldIsTheFamilys`, `RegularIsEmboldenedAsOnWindows`,
`OnlyRegularAloneIsChanged`, `AnswersAreKept`. Pinned: `FacesTooCloseMeet`. It also has the bold
font a thread shapes a run with: a record is the fonts HarfBuzz has, what is at an address, and what
each thread keeps. `ShapedAsItIsDrawn`: over the faces and rules a run can have, the font it is shaped
with is the face it is drawn with; `NothingElseStandsIn`. Pinned: `TheFirstRunDecides`,
`AFontAtAnAddressAgain`, `OneReferenceOfTwo`, `OnePlaceForAll`, `ReadingIsCheckedOnce`.

`FallbackOrder` is the route by a sort whose order and coverage answers are changed, `StaticFallback`
the route by a tag and a block of rules; both are for the same table. External: what Skia does with
either (`FontForChar`) and which families a block is answered with (`FamiliesOf`). `WhicheverSortAnswers`
and `TheTagAnswers` hold each route against what Windows would do, on five machines, in six locales,
for nineteen characters and every order of the installed families, up to ten. `TagsHaveBlocks`, no
tag is asked for that has no rule; `OrderKeepsEdges`, against all orders of small graphs;
`LocalesReadAlike`, `Samples`. Pinned: `WhatTheSetDoesNotSay`, `EarlierSorts`, `BopomofoTwins`,
`WhatNoBlockSays`, `AskedByTheOtherName`, `LighterBehindACycle`. Of what stands behind the rules,
`OneCollection`, the four questions of a family agree; `LeaningIsUpright`; `DirectoriesOfOneByte`;
`TheDocumentIsMadeOnce`, over every course of five opens by two threads, the document is made once and never
served empty; `NeitherAlone`, it is there only with rules and directories; `WhereTheConfigurationIs` and
`ServedWhereItIsBuiltIn`, which file it stands for and where. Pinned: `ListedByTheFirstName`,
`DirectoriesOfOtherLetters`, `AnEmptyFirstMaking`.

`FaceSizes` recovers the size a glyph is drawn at. A size is a fraction of 64ths of a pixel, where the
code has a `float` or a `double`; the axes are alike. `NewProcess` is the state of a process with one
thread, with FreeType's own sizes: what it settles on (`Settled`, `Installed`, `FT_Select_Size`) is
external, and `FT_Set_Char_Size` takes whether it refuses, calls back, or neither. §5 says which of what
follows is proved without bounds. `WholeUnitsComeBack`
for every zoom at which a pixel has 64 units or fewer; `SearchIsWideEnough`, `SearchRoundsBack`,
`EverySizeRoundsBack`: an answer is never a size that FreeType would have been told otherwise;
`ClaimsAreKept`, `AdjustedIsTheNewest`, `FontsDrawAtTheirSize`, `ClaimsEndWithTheFace`,
`MeasuredAtItsOwnSize` over histories of calls on tables of two by two and three by three, in which
rows and sizes are evicted; `SkiaFindsItsSize`; `InstanceIsRead` and `InstanceIsSpent` over histories of
WebRender's instances. The others are pinned.

`FontAnswers` is what fontconfig is asked and made to answer. `RealSubstitute` and `RealSort` are
fontconfig: rules put families before one and after all, a sort goes by family. A process `p` has its
environment, what has been seen loaded and what it decided. `RequestStaysFirst`, `OthersAreKept`,
`ChosenFontsAreLeftAlone`: over every request of up to two families. `ChromiumSeesWindows`: over 128
machines, by a sort no face Windows lacks, and nothing for a family it lacks. `SetsAreReduced`, over
histories of three calls on two addresses. `WeightsAreEdited`, `AccessorsAgree`, `LayoutDecidesInTime`
over every history of four events. `ChainsStayAlive`, `ChromeTravelsTogether`, `PrefsAreInherited` over
forty machines. Pinned: `MatchIsNotReduced`, `SetsGoStale`, `ListsAreMadeOnce`, `TooEarlyIsForGood`,
`NoneIsRemembered`, `InstalledButNotFound`.

`GlyphRaster` is how one glyph is asked of DirectWrite. Sizes are in 128ths of a pixel, a matrix is four
fixed-point numbers; a glyph `g` is a record of everything the decision reads. `MCGlyphs` has
`TheNameThatSettles` over every order of six events of a thread, `FirstComeFirstClaimed` and
`HeldOnceIsForgotten` over the calls on Skia's libraries, `GaspRowOfASize` and
`TwoReadingsOfTheStrikes` against set definitions, and over products of fonts, options, callers, sizes
and shapes `NothingIsAskedThatFails`, `WhatTheFontDecides`, `SmallTextThroughSkia`,
`OptionsGoTogether`, `OnlyWebRenderDropsThePhase`, `OnceBoldOnceSlanted`, `TransformWhereThereIsOne`;
`RecommendationsAreKept` over histories, `MaskTakesTheGlyph`, `StrikesSpreadInk`, `StrikesOnlyDarken`,
`OneStrikeIn48Pixels`. Pinned: `ASecondClaimOutlivesItsLibrary`.

`GlyphPaths` is the walk of an outline for a path, with Skia's sink as an external (`HostPath`), and the
repair. `PathIsRecognised`: over all outlines of two segments, and of two contours of lines, on places
that fall together in 64ths, under two transforms, the caller keeps as many points as Windows does and
the record has them all; `PathIsRepaired`, `DoubtLeavesThePath`, `ErrorEndsTheWalk`,
`QuadraticsComeBack`, `AxesTurnedTwice`, `NearestSixtyFourth`, `RecordOfOnePath` over every history of
four calls on a thread, `OutlinesOfItsOwn`, `EachOutcomeOnce`, `NearestQuarter`, `FatRectangles` against
the set of all rectangles. Pinned: `ColumnsLeftOfTheMask`.

`VtableSlots` is where in a Chromium image the hooks go: code is the branches and tags it holds, data the
words of its relocations, and `s` is those words with what the shim remembers of them. A patch is an
operator on `s`. `MCVtables` has `ThreeBranchesReach`, `FourBranchesDoNot`, `EveryWayIsFollowed` and
`ThunksAreShort` over programs of five functions that branch to one another; `HeadIsWhereTheWalkEnds` over
every six words; `SevenDistinctMethods`, `OneIsClearlyTheScalers`, `TablesOfTheClass`, `OneTableThatReads`,
`TwoReadersAreNone`, `NothingWithoutAScaler`: nothing is written where two are meant.
`CallsAndTheirOriginals` is a search and then a typeface seen, over one typeface or two that differ in none,
one or the other of the functions concerned, with any page closed: but for the cases pinned, what is called
through a slot ends where it would have, and what does not open stays. `LeaveMayComeLater`,
`ProxiesStandForOne`, `TwoDistances`, `PositionIsSeenToCall`, `InDoubtUnlessSeen` are about a live typeface,
`TablesInOrder` and `DirectoryAddsUp` about the file read out of it, `WhichImage` and `WhichProcess` about
who is searched.

`ChromiumRec` is what is decided of a scaler's record before a glyph is asked for, `ChromiumHooks` what
the hooks do with one glyph. A size is in 128ths of a pixel, a matrix in fifths, so that the turns of
the 3-4-5 triangle are exact. `MCChromium` holds the filter against what Windows would have written
(`TheRecordWindowsWouldHave`), the height against the geometry of the matrix
(`TheHeightIsThatOfTheText`), and the two halves of the shim against one another: the tree of Skia's
paths and the tables of a font are read for Gecko in `freetype.cpp` and for Chromium here, and must
come to the same (`TwoReadingsOfTheTables`, `TwoReplaysOfAnOutline`; `TwoReadingsOfTheTree` but for the
case it names). `TheStrikeThatDrawsASize`, `TheFamilyIsReadTwice`, `WhomFontationsDraws` and
`TheDirectoryOfAFace` are about the font. `OneDecisionOfFourHooks`: a glyph is outlined, boxed, measured
and drawn of one size and one face, though each hook decides anew. `APathIsTouchedWhole` and
`DoubtKeepsThePath`, over what skrifa may have of a triangle; `AnAdvanceAlongTheBaseline`,
`TheMaskThatWasMeasured`, `OthersKeepTheirBox`, `CoverageByChannel`, `LinesAroundTheBaseline`; of color
glyphs `ThePlaceBetweenPixels`, `ClipsOnWholePixels`, `TheBoxMovesWithTheGlyph`, `MeasuredWhereItIsDrawn`;
`NoHookCallsItself`, over histories of tables met, with pages closed. Pinned: `WhereTheFamilyDiffers`,
`OneWayToBeBold`, `AnotherThreadsProbe`, `VerbsPastTheEnd`, `TheBoxOfAnotherTexture`,
`TheSourceOfTheLastImage`.

`CodePatches` is what is patched in Chromium where there is no slot to write. An image is what the
finders look at: strings and where their addresses are taken, branches, padding, which prologues can be
moved, which pages open; `s` is what is written. The images of `MCVtables` place one function among
others in each way a build might. `TheQueryIsBehindPadding`, `JumpsAreCalls`, `OneReadingOfAName`,
`OneReaderOfAll`, `AllSixOrNone`, `NoReaderOfTwo`, `CalledFromAbove`: which function is found and that every
branch to it, and no other, is led to a hook that knows it; `NoEntryWithoutItsTrampoline` and
`WholeInstructionsMove` about an entry overwritten; `WhereShapingIs`, `NoEndNoImport` and
`TheHookShapesElsewhere` about the HarfBuzz that shapes for Blink. What a hook answers:
`TheLayoutIsSeen`, `BoldWhereTheWeightIsKnown`, `TheInnermostRunDecides` over nested fallbacks,
`OneVectorForBoth`, `TheKeywordsOfAMenu`, `TheSwitchOfABrowser`. Of the families of a script:
`TheTablesAgree`, `ThePackHoldsTogether`, a pack rewritten is a pack of the same length whose resources keep
their numbers and order; `EveryRowOfWindows` and `OneRowForEachPref`, over the orders in which packs
arrive, the loop reads every row once with the resource it was learned from; `TheRowsAroundTheAnchor`. Pinned:
`TakenForTheOneBefore`, `LessThanRegularWhereNoneIsBold`, `EntriesByName`, `DrawnWithoutItsOutlines`,
`HalfAMenu`, `MintedInOnePackOnly`, `OneLoop`.

## 3. The runs

| Run | Properties | What it shows |
|---|---|---|
| `FaceTable` | `TypeOK`, `MirrorsFreeType`, `NeverOutlivesFace`, `SerializedKeepsEntry`, `DeadEntryGoes` | for a host that serialises its calls the table is FreeType's own count; for any host, an entry that no call will still correct is that of a live face, and a dead face's entry goes |
| `FaceTable_late_release` | `LiveFaceKeepsEntry` (violated) | finding 1 |
| `OutlineState` | `TypeOK`, `RenderTakesReshape`, `EarlyHostDrawsTheGlyphHeld`, `BitmapsAccountedFor`, `GridGoesWithFace` | a render takes the caller's reshape of this glyph and nothing older; owners, bitmaps and what rendering leaves go with the face |
| `OutlineState_late_host` | `DrawsTheGlyphHeld` (violated) | finding 2 |
| `OutlineState_load_render` | `LoadRenderTakesDelta` (violated) | finding 3 |
| `MemoryFonts` | `TypeOK`, `StreamsReadLiveBytes`, `BytesHeldForAReader`, `UsesCountFaces`, `ReadsItsOwnFont`, `KeyNamesItsFont` | bytes live as long as a stream or a face reads them, `uses` and the COM count agree, nobody is handed another font |
| `DWriteFaceCache` | `TypeOK`, `ReadsTheFaceItAskedFor`, `EveryReferenceIsHeld`, `AnswersTheKey` | a face read outside the lock is held and is the one asked for; references add up through evictions, failures and the end of the entry. The assumptions of `MCGlyphs` and `MCChromium` are evaluated in it |
| `DWriteFaceCache_no_memory` | `NoAnalysisLeaks` (violated) | finding 4 |
| `BionicMutex` | `TypeOK`, `NoSleeperForgotten`, `EverySignalReachesAWaiter`, `ImplementsMonitor`, `SomebodyGetsIn` | mutual exclusion for the three types; no sleeper is left behind when a newcomer writes 1 over its 2; no signal falls between the unlock and the sleep; the words refine `Monitor` |
| `BionicLocks` | `TypeOK`, `WordCountsHolders`, `NoSleeperForgotten`, `OnceBeforeAnyReturn`, `OnceComesBack`, `SomebodyGetsIn` | readers share and a writer is alone; the routine runs once, before anybody returns; no wakeup is lost |
| `FactoryProxy` | `TypeOK`, `LocksInOrder`, `ReferencesAddUp`, `OneListForAll` | list, fontconfig, faces, factory, load: nobody waits against that order; every reference on a factory, a proxy and a collection is somebody's, whoever raced; a proxy lists the fonts once and everybody has the same collection. The assumptions of `MCVtables` are evaluated in it |
| `HostProcess` | `TypeOK`, `CallsReachTheHost`, `AllOrNothing`, `TypefacesKeepTheirBytes`, `LibxulIsFound` | in ten builds of libxul, and with any page refused, a hook leads back to what it replaced and a function is redirected at all of its calls or none; libxul is found however it arrives; what is kept of a typeface is dropped together and no face loses its bytes. The assumptions of the other pure modules are evaluated in it |

Every property of a passing run has a mutant in `PROJECT.json`: a plausible bug in a definition that
models code, under which TLC finds the property violated. Its `map` names the lines each definition
stands for; a constant or a short helper whose lines lie within those of another definition has no
row of its own there.

### Bounds

- `FaceTable`: two threads, two faces, two libraries, counts to two. A race is between two calls; the
  second face and library are for the sweep of one and not the other. No symmetry is declared, since
  a liveness property is checked.
- `OutlineState`: two faces, two outlines, tables of one entry, three buffers. Two outlines contend
  for a table of one, so it is full whenever a second is touched; every table is only ever indexed
  by address, so two addresses show all reuse.
- `MemoryFonts`: two faces share or reopen a file; three fonts, two with one digest; two file
  addresses, two blobs ever (`MaxId`), so that an id handed out anew would show; one stream on each
  blob (`MaxStreams`).
- `DWriteFaceCache`: two threads, a cache of two and one instance against three keys or more, three
  objects so that a held face, a cached face and a new one exist at a time; `MaxAnalyses` 2.
- `BionicMutex`: three threads are a holder, a sleeper and a newcomer; depth 2 is a lock and one
  more; `MaxSeq` 1 is one signal or broadcast, which is what one wait can miss. The proofs are for
  any of the three numbers.
- `BionicLocks`: three threads, for two readers and a writer, or a runner, a sleeper and a newcomer.
- `FactoryProxy`: two threads, since each hazard is a race of two; two factories, one shared and one an
  application's own, each with a list of its own; one of the views, which differ in name only;
  one reference on each object before an application asks for no more (`MaxHeld`), two when both
  threads ask at once. Threads and factories are symmetric. It has a million states.
- `HostProcess`: two threads, one to load and one to look. `MaxProbes` 1, and `MaxMissed` 1 is how many
  misses the host's opens of libxul go on after; both make the scan run out. The images differ from the
  one the patches were made for in one check each: a site that is no whole call, two candidates, a list
  that overflows, an image that is not named, not wanted, not enabled, loaded late. A list holds four
  functions and two calls (`MaxFunctions`, `MaxOwners`, `MaxCallSites`), and one page refuses
  (`MaxRefusals`). For typefaces: two addresses and three ids, so an address is used again; a cap of one;
  three contents, static, variable and empty; one face (`MaxFaces`). `MCSettings` are three ways of
  calling: nobody, one caller with the slot unknown, two with the anchors found. The lowest free
  address and vector is taken, as no property tells them apart; `SetAnchors` happens once.

The runs that check liveness declare no symmetry: `FaceTable`, `BionicMutex`, `BionicLocks` and
`HostProcess`. The symmetric sets of the others are interchangeable in every definition and property:
no element is ordered or named (in `MemoryFonts` only the two fonts that share a digest are).

### Fairness

`FairSpec` of `FaceTable`: weak fairness of each thread's table half. A thread that
has come back from the real FreeType call goes on to it with nothing to wait for but a mutex that is
held for a bounded time. Nothing is assumed about the host.

`FairSpec` of `BionicMutex` and of `BionicLocks`: weak fairness of `Continue(t)`, the steps of a thread
in a call that is not asleep, which the scheduler grants. No wait need end by itself, and no thread
need unlock or call: `SomebodyGetsIn` has for its hypothesis that the lock is free again and again,
and promises that somebody gets it, not who. `OnceComesBack` needs the routine to return, which is
DWriteCore's part of `Continue`.

`Fairness` of `HostProcess`: time passes (`Tick`), a thread in a scan or in a `dlopen` goes on, and a
Gecko process goes on opening files and fonts from outside libc (`NoteProbe` or
`NoteRecorded(t, FALSE)`), which every page load does. `ResolveHelpers` has strong fairness: it waits
for the loader's lock, which other `dlopen`s take and release again and again, and a mutex that is
free again and again is got. No fairness is assumed of the start of any `dlopen`, of Skia or of the
patches after it.

## 4. Findings

1. **A face can lose its record to the release of the one before it** (`freetype.cpp:7415`).
   `FT_Done_Face` releases by address after the real call has freed it. A face that another thread
   opens from another library at that address, and records, is erased. The comment at `7408` calls
   tearing down afterwards safe.
2. **Owners outlive a face opened before the host was detected** (`freetype.cpp:2732`).
   `RecordOutlineOwner` asks `Enabled()`, `RecordFace` asks `InterposerWanted()`; such a face owns
   outlines and is never forgotten, and its entry speaks for a later outline at the address.
3. **`FT_LOAD_RENDER` under parity draws without `FT_Set_Transform`'s delta** (`freetype.cpp:7796`
   against the comment at `7511`): the callback renders before the load puts the delta back.
4. **An analysis leaks when memory runs out for its texture** (`freetype.cpp:7135`): the two
   `bad_alloc` handlers return without the release every other way out makes.

### Divergences seen while modelling

Places where the code does not do what a comment beside it says, which no run is about. Lines are of
`libxul_patch.cpp` unless a file is named.

- `1238-1298`: `FindMetrics` stores the offset it found at the first match, before it sees that there
  are two; the next call takes the stored one. The comment has nothing written when it is ambiguous.
- `2489-2494`, `2775-2780`: the fixup hook is said to remove itself once it has its number.
  `g_fixup_sites` and `g_fixup_original` are written and never read; the hook stays.
- `4345-4348`: without libc's span "every caller is believed to be in the loader, and the scan is
  refused". `InLoader` (`4286`) is false without a span, and a probe never asks it. In the model
  `InLoader` is what the code does, and libxul is found in that build too.
- `4335`: "will not be applied" is logged while probes go on and may still apply it.
- `1086-1092`, `1218`: a compare-and-swap on a counter is taken for the exclusion of another thread.
- `3860-3935`, `2736`, `2974`: lists that were cut off are used, against the rule stated at `2188`
  (`Truncated` in the model).
- `2341`: when a page refuses, only the first page of each call before it is closed again.
- `chromium/vtable_patch.cpp:2660`: `ChromiumVariationCoords` hands out a pointer because "entries are
  never erased"; `ForgetOldestTypefacesLocked` (`2508`) erases them.
- `chromium/vtable_patch.cpp:2198` says what keys the tables by id and not by address;
  `typeface_bridge.cpp:192` keys by address. `ReadFontFile` in the model then answers anything.
- `chromium/vtable_patch.cpp:1900-1928`, `2729`: one original `onFilterRec` and one pair of flags for
  every table and thread.
- `chromium/parity_gate.h` says "Off unless asked for"; `ParityWanted` (`parity_gate.cpp:151`) is on
  unless it is turned off.
- `chromium/dwrite_raster.cpp:321-371`: `SlotFor` reads the position twice, for the key and for the
  face; an eviction in between keeps a default instance under a varied key.

In fontconfig's answers (`fontconfig.cpp`, `prefs.cpp`):

- `16-25` has hinting off; `BoolAnswer` (`281`) and `IntegerAnswer` (`262`) answer on, and slight.
- `148-151`: "a failed open is retried rather than remembered". Every caller of `Next` keeps its null
  in a static (`NoneIsRemembered`).
- `204`, `chromium/parity_gate.cpp:151`: decided by the first question. A Gecko with no libxul.so beside
  it that asks before libxul is loaded is not answered again, while `ParityActive` turns true
  (`TooEarlyIsForGood`).
- `439`: an author's list that begins with `fantasy` or `-moz-default` loses everything after it, for
  `FcPatternDel` drops the whole list (`OthersAreKept`).
- `737`: a request is hidden only while the made-up name is first; a distribution's rule that puts a
  family before every request brings it back (`MatchIsNotReduced`). `FcFontMatch` is not reduced.
- `601`: faces that did not fit in memory make the whole set the cached answer for good, where a set
  that did not is asked for again (`SetsGoStale`).
- `972`, `1037`: the lists of families with a bold or a light face are made once, empty if fontconfig
  had nothing yet, and only `FcPatternGetInteger` reads them (`ListsAreMadeOnce`).
- `prefs.cpp:57`: a family that is installed is taken for missing when a rule puts another before it,
  or when the face's first name is another (`InstalledButNotFound`).

In Chromium's fallback (`chromium/`):

- `weight_style.h` has the threshold of Windows "exactly" at 399; weights from 599.25 to 599.75 differ.
- `static_fontconfig.cpp:437-445`: two faces closer than fontconfig's scale is fine, such as 345 and
  352, are not kept apart (`FacesTooCloseMeet`).
- `family_match.cpp:142`: `DWriteWantsUpright` keeps a failure for ever, and has no lock.
- `static_fontconfig.cpp:181`: the edge dropped may be one behind a cycle (`LighterBehindACycle`).
- `fallback_order.cpp:651`: `HanForLocale` settles nothing for zh-CN and zh-SG, which
  `static_fontconfig.cpp:320` lists as settled; `HanLocaleIndex` (`891`) reads `jav` and `kok` as ja and
  ko and misses `zh_TW` (`LocalesReadAlike`).
- The two routes differ: a row's `ahead` is ignored by the sort, so U+FF70 is Yu Gothic's by one and
  MS PGothic's by the other; a block is under one tag and asked for by another when its front is not
  installed (`AskedByTheOtherName`); with no family of the settled list installed, the block's unsettled
  front answers.
- `fallback_order.cpp:1314`: charsets learnt from earlier sorts make every face of a later set decline
  (`EarlierSorts`); in a traditional run Bopomofo is answered from the face for user interfaces
  (`BopomofoTwins`).
- `static_fontconfig.cpp:102`: of a range of nine to fifteen characters the first eight are looked at.

In the sizes (`freetype.cpp`):

- `2991`: zoomed out, above 64 units a pixel, two sizes round alike and a neighbour is answered; nothing
  is declined (`FinerUnitsCollide`).
- `3072-3140`: "Two that disagree answer nothing and FreeType's own value stands". When two script sizes
  disagree a small capital may answer, and most reduced sizes are taken for whole units before the
  search (`ScriptTakenForAnother`). The memo is by size alone and outlives a change of app units
  (`MemoOutlivesTheRatio`).
- `3157`: rows are taken in turn, which is not "whichever face has gone longest without one": a row freed
  and taken again may be the newest. A row drops the size it was first given, though it be just used
  (`WhoLosesARow`).
- `7943`: a font of half a pixel is touched as the one of a whole pixel, so it is measured at that
  (`HalfAPixelLosesToOne`).
- `3553`: a later claim with the same product lowers the age of the answer, so a size set to earlier may
  win (`OneProductOfTwoClaims`).
- `3303`: "distinct sizes" are changes of size; two that alternate are enough. An offset once ruled out
  never comes back (`InstanceIsMissed`).

In drawing glyphs (`freetype.cpp`):

- `6384`, `6409`: `RecordSkiaLibrary` claims a second slot for a library when an earlier one was
  vacated, and `ForgetSkiaLibrary` clears one; the comment at `6403` has a destroyed library belong to
  nobody (`ASecondClaimOutlivesItsLibrary`).
- `6304`: a thread that is renamed after it was first asked keeps its first answer
  (`TheNameThatSettles`), though the comment is about names that arrive late.
- `2303` against `6519`: the strike of a size is judged by the first of that size for WebRender, by any
  for Skia (`TwoReadingsOfTheStrikes`).
- `2377`: DirectWrite's failure to recommend a mode is kept like an answer (`RecommendationsAreKept`).
- `8815`: "A gray target is drawn by FreeType now and not by DirectWrite"; `FT_Outline_Get_Bitmap`
  (`9472`) draws it by DirectWrite wherever `BlobPrefersDWriteMask` says so, which is for any sized face.
  For the same reason `DrawGlyphsFromPath` (`libxul_patch.cpp:3219`) is hardly ever the route.
- `9395`: "Only one walk per armed generatePath can be answered for; a second one ... means the path is
  not the one recorded". A second walk that is answered leaves the record usable and adds to it
  (`RecordOfOnePath`).
- `9352`: an outline that fails half way has made calls already; FreeType's walk then makes all of its own
  on top. A walk the caller broke off (`9355`) leaves its record usable.
- `8905`: on the left of the first pixel one column too many is counted (`ColumnsLeftOfTheMask`).

In finding Chromium's tables (`chromium/vtable_patch.cpp`):

- `1511`, `1652`: outline-format holders are to "serve as anchors" for builds of the FreeType scaler.
  They are computed after the hops that would use them, and nothing asks for them, so such a build
  without names is not recognised (`OnlyTheAxesName`).
- `1232`: a live typeface with another `onFilterRec` gives the guessed slots back; those the COLR tag led
  to are not in `g_filter_rec_slots`, and their calls go to the other's function (pinned in
  `CallsAndTheirOriginals`).
- `1312-1389`: two typefaces that one function builds are both written and share one original, which is
  also forgotten when the second's page does not open.
- `1128-1277`: a typeface whose `onGetTableData` is replaced already does not answer a head table to
  the probe, so it is never resolved, and its font is not read.
- `1721`: "only the sites near the scaler context" have an effect on nothing, since every kept function
  that holds the tag is asked (`NearnessDoesNotCount`).

In what Chromium's hooks draw (`chromium/`):

- `windows_path.cpp` against `freetype.cpp`: above twenty pixels Gecko's side smooths in both directions
  whatever the gasp table says, Chromium's asks the table first (`TwoReadingsOfTheTree`). The family that
  blocks bitmaps and the one that keeps a color font are read by two rules (`WhereTheFamilyDiffers`).
- `vtable_patch.cpp:3517-3523`: a glyph that was to be emboldened and has no bold face is said to go back to
  Skia; the hook reports it handled and it is not drawn (`OneWayToBeBold`).
- `vtable_patch.cpp:2729`: what the first probe leaves is one word for all threads
  (`AnotherThreadsProbe`).
- The retry with the aliased texture makes the mask one of bits, which the image is not told: gray text is
  drawn a byte to a pixel in rows of bits (`TheBoxOfAnotherTexture`).
- As many verbs are compared as Skia's path has, though DirectWrite's has fewer (`VerbsPastTheEnd`).
- Metrics come before the image and take the source the last image on the thread left
  (`TheSourceOfTheLastImage`).

In the code without a slot (`chromium/`):

- `fallback_hook.cpp:404-407`: "The whole image is looked at", but the loop stops at the site, so a call
  from below does not count and an earlier function is taken (`CalledFromAbove`, `TakenForTheOneBefore`).
  A query that is not called or not behind padding is taken for an earlier one
  (`TheQueryIsBehindPadding`), and an address inside the reader of the parameters that seems to be called
  hides it or is taken for it (`OneReaderOfAll`).
- Where the page of a menu's family refuses, the sizes stay Windows' (`HalfAMenu`). The drawing of a color
  glyph is led to its hook even when the outlines are not (`DrawnWithoutItsOutlines`).
- Without a page nearby only calls of the first segment are moved, and jumps never are
  (`TheHookShapesElsewhere`). The list of bold families is made once
  (`LessThanRegularWhereNoneIsBold`); of entries of one name the style is any one's (`EntriesByName`).
- `generic_families.cpp:225`: ids are minted in the first pack only (`MintedInOnePackOnly`). `655` leaves a
  build untouched "instead of half patched"; `PointLoopAt` writes the loop's start before its end, and a
  refusal of the end leaves the start (`OneLoop`).
- `bold_shaping.cpp:341-347`: what is remembered of a font is "settled by the typeface"; the slant is not,
  and the first bold run on a thread decides it (`TheFirstRunDecides`). `606`: what was learned about an
  address "has to go with it"; it does not where HarfBuzz is in the image, nor on other threads
  (`AFontAtAnAddressAgain`), and it goes with any reference while the font lives (`OneReferenceOfTwo`). A
  word that looks like a font by chance hides every later one (`OnePlaceForAll`), and the first pair of
  words decides whether they are trusted (`ReadingIsCheckedOnce`).
- `static_fontconfig.cpp:749`: "FONTCONFIG_FILE when set"; a relative one is passed over
  (`WhereTheConfigurationIs`). Directories keep one byte of each UTF-16 unit and are written unescaped
  (`DirectoriesOfOtherLetters`). An empty first document is kept for ever (`AnEmptyFirstMaking`), and every
  other thread that reads a configuration waits for the one that builds it (`TheDocumentIsMadeOnce`).
- `dwrite_raster.cpp:599`: "Every family the system collection holds" is those whose first name is ASCII
  (`ListedByTheFirstName`).

## 5. The proofs

`FaceTableProofs`, `OutlineStateProofs`, `MemoryFontsProofs`, `DWriteFaceCacheProofs`, `BionicMutexProofs`,
`BionicLocksProofs`, `FactoryProxyProofs` and `HostProcessProofs` hold for any number of threads, faces,
libraries, outlines, glyphs, buffers, fonts, files, blobs, images and typefaces and any caps, under the
named assumptions of the modules: finite threads and faces, positive bounds, and `None` outside the sets it
is told apart from.

- **FaceTable.** `TypeCorrect`, `AccountingHolds`, `EntriesDoNotOutliveFaces`, `MirrorHolds`, `EntryKept`.
  `Accounting` is not inductive: a table half changes an entry on the strength of `call[t]`, so the
  invariant adds that a pending call has its library to itself, that a face being recorded has one reference
  and one being referenced is alive, in the library of the call, and that a settled entry of a live face
  names its library. The counts of pending calls are cardinalities, and lemmas say how a step changes them.
  The mirror for serialised hosts has an invariant of its own on top, which says what the entry is one half
  of a call away from the mirror.
- **FaceSizes**, whose claims go with the faces of the table, in the same module. Its operators are not
  recursive, so what they compute is proved for every size and every table, with at least one row, slot and
  app unit: `WholeUnitsAreRecovered`, `AspectsAreRecovered` and `AspectsStretchAlike` are
  `WholeUnitsComeBack` and `AspectsComeBack` of `MCFaceSizes` without their bounds. `TableStaysSound`:
  from the empty table, whatever is claimed, touched and forgotten, a face has one row, a size one claim in
  it, filed under what it rounds to, and no two claims have one `used` (`SoundTable`).
  `TheClaimIsAnswered` and `OnlyTheFaceIsForgotten` say which answers each operation changes: a claim is
  answered with, and evicts but never falsifies; a face made at a dead one's address is told none of its
  sizes. `ProcessStaysSound` carries `SoundTable` and the memo's consistency through every call
  (`FirstProcess`, that a process begins so), and on it rests `ReportedSizeRoundsBack`: the size reported
  rounds to what FreeType is set to, also when the memo is older than the ratio of the screen. For a face
  that Skia draws it is proved where the scaler's own size explains it; `ScaledEmSize` otherwise folds over
  the claims of the face, and a fold is induction over data, so that stays `SkiaFindsItsSize`.
  `ClaimedSizeRoundsBack` says the same of a running `InitMetrics`. Rows and slots are found with
  `Min`; that a set of naturals has a least member is from the library.
- **OutlineState.** `TypeCorrect`, `RendersTakeTheirReshapes`, `BitmapsAreAccountedFor`,
  `EarlyHostDraws`, `GridEntriesGo`. The invariant is `TypeOK`, `RenderTakesReshape`,
  `BitmapsAccountedFor` and `HostInv` (slots are distinct, closing faces have none, a host found early
  knows every open face), `PendingInv` (what is pending for an outline in a slot names no other face),
  `OwnerInv` and `GridInv`. The last two are what the two properties about early hosts need between
  the halves of a close.

- **MemoryFonts.** `TypeCorrect`, `StreamsNeverDangle`, `BytesAreGivenBack`, `UsesAreFaces`,
  `FacesReadTheirFonts`, `KeysNameTheirFonts`. None of the five is inductive, because `holder` is half
  way through `GetFontFileLocked` or `EraseFaceLocked` while streams come and go. The invariant is
  `TypeOK` and: `HolderInv`, what is in the holder's hands at each place it can be; `BlobInv`, a
  blob's count is its streams and the reference of the table, or of the entry being forgotten, and its
  bytes are there exactly while it is counted or being freed; `EntryInv`, an id of the table is in one
  entry of the cache or in the holder's hands, which is what makes an id name one font; `FileInv`, a
  file's count is its faces, the cache, what DirectWrite keeps and the holder's own reference, and
  `uses` is the faces; `MadeInv`, a file is still what it was made from. `FileInv` counts faces, so the
  lemmas about cardinalities say what a face that opens or closes does to the count.
- **DWriteFaceCache.** `TypesHold`, `CountsAreHeld`, `ReadersKeepTheirFace`, `CacheAnswersTheKey`.
  The invariant is the four properties' substance (a reader's face is counted by the reader itself, so
  being alive follows) and `AnalysesCounted`, which keeps the count of analyses a number. `Lookup` says
  what `GetDWriteFaceLocked` does to a count that also has other holders: the new face is made at an
  address nothing counts, so it replaces no key that anyone relies on. `HeldAppend`, `HeldTail`,
  `Begins` and `Ends` say how one element or one reader changes a cardinality.
- **BionicMutex.** `TypeCorrect`, `MutualExclusion`, `RecursionCounts`, `SleepersAreWoken`,
  `SignalsReachWaiters`, `IsAMonitor`. The invariant adds to the properties: `HolderInv`, where a holder can
  be, and that a normal mutex is never counted; `SleepInv`, that a thread whose swap failed has read 1 or 2;
  `CondInv`, that a waiter's value of `seq` is no newer than what stood when it let go. The sum of signals
  passed and signals under way is a cardinality, and lemmas say what a signal sent and a signal spent do to
  it. `IsAMonitor` maps every step to a step of `Monitor` or a stutter under that invariant.
  `SleepersAreOwedAWake` draws from it that a sleeper on the mutex always has a thread that is awake and has
  the wake to make, the safety that `SomebodyGetsIn` rests on.
- **BionicLocks.** `TypeCorrect`, `WordCounts`, `SleepersAreWoken`, `RunsOnce`, and `NeverAllAsleep`, which
  follows: no set of sleeps on the lock and on `pthread_once` stops every thread. `WordInv` is
  `WordCountsHolders` with what a thread that is about to swap has read; `OnceInv` says where the one runner
  is for each value of the word.
- **FactoryProxy.** `NoWaitAgainstTheOrder`, `NobodyWaitsInARing`, `EveryReferenceIsSomebodys`,
  `OneListIsBuilt`, `CountsStayAboveZero`. `LocksInOrder` says nothing of a holder that waits for nothing,
  so its invariant `IInv` is `Holding`: where in the code the holder of each lock is, and that whoever
  creates the factories with the faces locked goes back to the measurement (`back`). `Shapes` is as much of
  `TypeOK` as that needs. `NobodyWaitsInARing` is what the order is for: the locks of a ring of waiting
  threads would have a least one (`OrderBreaksRings`), so there is no ring, of any number of threads. The
  other three have one invariant, `RInv`. `TypeOK` says that a count is a number, which a release preserves
  only because somebody holds what is released; so `RInv` has the counts for integers (`Types`) and gets
  their signs from the sums. To it belong: `Registers`, a thread has a reference in its hands only on the
  way to where it puts it, who creates the factories for libcleartype has their lock and there are none yet,
  and a proxy that is asked something is in the table (the hazard of a release that races a query: a wrapper
  the table forgot is nobody's); `NotMade`, what was not made counts nothing; `ScansAttempted`, a list was
  made as often as it was tried. A step changes the share of its own thread only, so a count is that share
  and a rest no step of this thread moves (`RestOfReal`, `RestOfProxy`, `RestOfView`); `FactoriesBalance`,
  `ViewsBalance` and `StillAddUp` weigh the one against the other, and `CountMoves` and its kin say what a
  step does to a cardinality. The assumptions: no factory is one of the named locks, no view has another
  getter's name, the null pointer is no factory and no proxy, and threads are finitely many.
- **HostProcess.** `TypesHold`, `HooksLeadBack`, `RedirectsAllOrNone`, `TypefaceTablesAgree`,
  `PatchedByOne`, `NoSecondAttempt`, `TheLoaderNeverHangs`, for any image. `CallsReachTheHost` is not
  inductive: a patch stores its original before it writes and forgets it when nothing was written, so a hook
  must be nowhere before its patch (`Unreached`), the places still to be written must hold the original and
  a torn call is the one being written (`Placing`), the functions not being written must be whole
  (`OthersWhole`), and the slots beside `generatePath` must be where they were when it was found, two
  patches before (`Neighbours`). For typefaces `Reading` says who holds `g_font_mutex` and for what, and
  `BytesThere` that every vector named in a table has bytes. The last three have `WInv`: one thread at a
  time is between `g_done` and the end of its patches, libxul is as mapped before that, and only a scan has
  the list's lock. Since nobody resolves a symbol during a scan, who has the list's lock waits for nothing,
  and a ring over the two locks of the loader is impossible.

`Accounting` of `FaceTable` and `OneHolder` and `RecursionIsDepth` of `BionicMutex` are stated by
theorems only, as parts of those invariants; no run is spent on them.

Model-checked only: `DeadEntryGoes`, `SomebodyGetsIn`, `OnceComesBack` and `LibxulIsFound` (liveness is out
of the prover's reach), the assumptions of the pure modules but for what is proved of `FaceSizes` (recursive
definitions and folds would need induction over data), and the four violations. Every invariant and action
property of a passing run is stated by a theorem.

## 6. What is not modelled

The pixels and numbers: what an advance, a shift or a texture is. The geometry of outlines is a set of
names. Memory outside the tables. FreeType, DirectWrite, the allocator and the host are external, modelled
by what this code relies on. In `FaceTable` the caches of an entry are left out; the other modules are about
those, each with faces whose addresses are not reused between the halves of a close. Of libxul's patches:
the protection of a page before and after, `g_fixup_sites`, and what the hooks over underlines and metrics
do once they are called. Of Chromium's: gamma and the coverage of a pixel; of its machine code no more than
the branches, the strings and the tags. `TypefaceCache` takes a variation position in one step. The
components listed above without a module of their own are in the plan, except the generated tables and the
tools and tests. In the pure modules: the locks of their caches, the spelling of names (a name is spelled in
one way, where the code compares some with case and some without), the loader, an allocation that fails for
some faces of a set and not for others, and how a `float` rounds.

## 7. Plan

1. Theorems about the operators of `DWriteFaceCache` and `TypefaceCache` apart from their specifications, and
   the action properties that the invariants already imply.
2. The rest of the pure arithmetic against reference definitions: `MulFix`, Windows' metrics.
3. `FaceCopies`: sfnt copies and Windows instances; host detection.
4. `FaceRegistry`, what the face table promises in the abstract, implemented by `FaceTable` for a
   serialised host.
