------------------------------ MODULE FontAnswers ------------------------------
(***************************************************************************)
(* What fontconfig is asked and what it is made to answer                  *)
(* (src/fontconfig.cpp), the preferences Firefox is started with           *)
(* (src/prefs.cpp), and which host either is for (src/parity_mode.cpp and  *)
(* src/chromium/parity_gate.cpp).                                          *)
(*                                                                         *)
(* A name is a model value and is spelled in one way.  A pattern is a list *)
(* of families and whether it names a language; a face is the names its    *)
(* family goes by, its weight and an identity.                             *)
(***************************************************************************)
EXTENDS Integers, Sequences, FiniteSets
LOCAL INSTANCE SequencesExt

CONSTANTS
    kBaseInstall,               \* the families that ship with Windows
    kFontSubstitutes,           \* what Windows takes some names for, a function of names
    kMinimumWindowsFamilies,    \* fewer of them on a machine are none
    Rules,                      \* the families the distribution puts before a family, by its name
    Defaults                    \* and after any

NoName == "no name"
NoFace == [id |-> 0, names |-> <<>>, weight |-> 0]

ShipsWithWindows(name) == name \in kBaseInstall
FaceShips(face) == \E i \in DOMAIN face.names : ShipsWithWindows(face.names[i])
First(pattern) == IF pattern.families = <<>> THEN NoName ELSE Head(pattern.families)

----------------------------------------------------------------------------
(* Which host.  A process p has what its environment says (`enabled' is    *)
(* CLEARTYPE, and so on), whether libxul.so lies beside its executable and *)
(* has been seen loaded, whether an image of Chromium is, and what was     *)
(* decided: "undecided", "yes" or "no".  p.fonts, p.bold and p.light are    *)
(* what was kept of fontconfig's answers and p.supplied the preferences    *)

IsOffValue(value) == value = "off"
Decided(yes) == IF yes THEN "yes" ELSE "no"

ParityActive(p) ==
    ~IsOffValue(p.cleartype) /\ ~IsOffValue(p.firefox) /\ (p.layout \/ p.gecko_loaded)

NoteGeckoLoaded(p) == [p EXCEPT !.gecko_loaded = TRUE]

\* these two are decided by whoever asks first
ParityWanted(p) ==
    IF p.wanted # "undecided" THEN p
    ELSE [p EXCEPT !.wanted =
              Decided(~IsOffValue(p.cleartype) /\ ~IsOffValue(p.chromium) /\ p.chromium_image)]

Answering(p) ==
    IF p.answering # "undecided" THEN p
    ELSE [p EXCEPT !.answering =
              Decided(/\ ~IsOffValue(p.cleartype)
                      /\ IF p.fontconfig = "unset" THEN ParityActive(p) ELSE ~IsOffValue(p.fontconfig))]

Answers(p) == Answering(p).answering = "yes"
Wanted(p) == ParityWanted(p).wanted = "yes"

\* The function behind one of the entry points, looked for once: in the scope of the process, else in
\* the library, opened if need be.  host says where it is to be found at the time
Next(host, entry) ==
    IF entry # "unresolved" THEN entry
    ELSE IF host.in_scope THEN "scope"
    ELSE IF host.mapped \/ host.on_disk THEN "library" ELSE "none"

----------------------------------------------------------------------------
(* Settings *)

SettingValues == [rgba |-> 1, lcdfilter |-> 1, hintstyle |-> 1, antialias |-> 1, hinting |-> 1,
                  embeddedbitmap |-> 0]
Integers3 == {"rgba", "lcdfilter", "hintstyle"}
Booleans3 == {"antialias", "hinting", "embeddedbitmap"}

\* the answer given in fontconfig's place, of the type that the accessor is for
Setting(p, accessor, object, n) ==
    IF /\ Answers(p) /\ n = 0
       /\ \/ accessor \in {"Integer", "Any"} /\ object \in Integers3
          \/ accessor \in {"Bool", "Any"} /\ object \in Booleans3
    THEN [match |-> TRUE, value |-> SettingValues[object],
          type |-> IF object \in Integers3 THEN "integer" ELSE "bool"]
    ELSE [match |-> FALSE, value |-> 0, type |-> "none"]

kFcWeightLight == 50
kFcWeightDemilight == 55
kFcWeightRegular == 80
kFcWeightBold == 200

NoList == [made |-> FALSE, names |-> {}]
AllNames(faces) == UNION { { face.names[i] : i \in DOMAIN face.names } : face \in faces }

\* the families with a face among these, counted when the first face asks; an empty system is counted
Listed(list, faces) == IF list.made THEN list ELSE [made |-> TRUE, names |-> AllNames(faces)]

FamilyHasBoldFace(p, system) == Listed(p.bold, { f \in system : f.weight >= kFcWeightBold })
FamilyHasLightFace(p, system) == Listed(p.light, { f \in system : f.weight = kFcWeightLight })

\* system is what fontconfig has when it is asked.  A face with no name is taken to have a bold face
\* and no light one
FcPatternGetWeight(p, system, face) ==
    LET bold == FamilyHasBoldFace(p, system)
        light == FamilyHasLightFace(p, system)
        name == First([families |-> face.names])
        asks_bold == face.weight = kFcWeightRegular /\ Wanted(p) /\ name # NoName
        asks_light == face.weight = kFcWeightDemilight /\ ParityActive(p) /\ name # NoName
    IN  [value |-> IF asks_bold /\ name \notin bold.names THEN kFcWeightRegular - 1
                   ELSE IF asks_light /\ name \in light.names THEN kFcWeightRegular
                   ELSE face.weight,
         p |-> [p EXCEPT !.bold = IF asks_bold THEN bold ELSE @,
                         !.light = IF asks_light THEN light ELSE @]]

----------------------------------------------------------------------------
(* Requests *)

kNoSuchFamily == "DWriteCoreNoSuchFamily"
kConstructorCursive == "Script"
kWindowsCursive == "Comic Sans MS"
Sentinel == "-moz-sentinel"

kGenerics == { "serif", "sans-serif", "monospace", "cursive", "fantasy", "system-ui", "-moz-default" }
IsGenericRequest(name) == name \in kGenerics
ResolvesToArial(name) == name \in {"-moz-default", "fantasy"}

HasGeckoSentinel(pattern) == Sentinel \in ToSet(pattern.families)
QuotedGenericSentinel(pattern) == HasGeckoSentinel(pattern) /\ IsGenericRequest(First(pattern))

\* a generic loses its language, and two of them are Arial
EditInPlace(pattern) ==
    IF ~IsGenericRequest(First(pattern)) THEN pattern
    ELSE [pattern EXCEPT !.lang = FALSE,
                         !.families = IF ResolvesToArial(First(pattern)) THEN <<"Arial">> ELSE @]

WindowsFontSubstitute(p, name) ==
    IF /\ ParityActive(p) /\ ~ShipsWithWindows(name)
       /\ name \in DOMAIN kFontSubstitutes
    THEN IF ShipsWithWindows(kFontSubstitutes[name]) THEN kFontSubstitutes[name] ELSE name
    ELSE name

KeepRequestedFamilyFirst(pattern, name) ==
    IF First(pattern) \in {NoName, name} THEN pattern
    ELSE [pattern EXCEPT !.families = <<name>> \o SelectSeq(@, LAMBDA f : f # name)]

HiddenRequest(pattern) == First(pattern) = kNoSuchFamily

\* renamed so that nothing answers, or the constructor's cursive renamed to what Windows has
HideFromChromium(pattern) ==
    LET name == First(pattern)
        to(with) == [pattern EXCEPT !.families = <<with>>]
    IN  IF name = NoName THEN pattern
        ELSE IF name = kConstructorCursive THEN to(kWindowsCursive)
        ELSE IF ShipsWithWindows(name) THEN pattern
        ELSE to(kNoSuchFamily)

\* fontconfig's own rules put families before those of a pattern and after them
RealSubstitute(pattern) ==
    LET before(name) == IF name \in DOMAIN Rules THEN Rules[name] ELSE <<>>
        each == [i \in DOMAIN pattern.families |->
                    before(pattern.families[i]) \o <<pattern.families[i]>>]
    IN  [pattern EXCEPT !.families = FlattenSeq(each) \o Defaults]

\* kind is "pattern" for a request, and something else for a font already chosen
FcConfigSubstitute(p, pattern, kind) ==
    LET seen == IF Wanted(p) THEN HideFromChromium(pattern) ELSE pattern
        edited == EditInPlace(seen)
        name == WindowsFontSubstitute(p, First(edited))
        asked == IF name = First(edited) THEN edited
                 ELSE [edited EXCEPT !.families = <<name>> \o Tail(@)]
    IN  IF kind # "pattern" THEN RealSubstitute(pattern)
        ELSE IF Wanted(p) /\ HiddenRequest(seen) THEN RealSubstitute(seen)
        ELSE IF ~Answers(p) THEN RealSubstitute(seen)
        ELSE IF QuotedGenericSentinel(seen) THEN seen
        ELSE IF name = NoName THEN RealSubstitute(asked)
        ELSE KeepRequestedFamilyFirst(RealSubstitute(asked), name)

----------------------------------------------------------------------------
(* Faces *)

\* fontconfig's order: the faces of the first family, of the next, and then the rest
RealSort(system, pattern) ==
    LET has(face, name) == name \in ToSet(face.names)
        of(i) == SelectSeq(system, LAMBDA f : /\ has(f, pattern.families[i])
                                              /\ \A j \in 1 .. i - 1 : ~has(f, pattern.families[j]))
        rest == SelectSeq(system, LAMBDA f : \A j \in DOMAIN pattern.families :
                                                 ~has(f, pattern.families[j]))
    IN  FlattenSeq([i \in DOMAIN pattern.families |-> of(i)]) \o rest

WindowsOnlyPrune(sorted) == SelectSeq(sorted, FaceShips)

\* the caller's own pattern is left alone
WindowsPattern(p, pattern) == IF Answers(p) THEN EditInPlace(pattern) ELSE pattern

\* inside says that FcFontMatch is reading the sort.  Chromium's families are noted and its faces
\* reordered afterwards (FallbackOrder, FaceWeights)
FcFontSort(p, system, pattern, inside) ==
    LET sorted == RealSort(system, WindowsPattern(p, pattern))
    IN  IF Wanted(p) /\ HiddenRequest(pattern) THEN <<>>
        ELSE IF Wanted(p) /\ ~inside THEN WindowsOnlyPrune(sorted) ELSE sorted

FcFontMatch(p, system, pattern) ==
    LET sorted == FcFontSort(p, system, WindowsPattern(p, pattern), TRUE)
    IN  IF sorted = <<>> THEN NoFace ELSE Head(sorted)

\* The set of all faces, at an address, as the host sees it, and what is kept of the answer: whether
\* it was the set itself.  Memory may run out for the new set or for each of its faces
NoAnswer == [for |-> 0, whole |-> TRUE, faces |-> <<>>]

WindowsOnlySet(kept, address, all, memory) ==
    LET shipping == SelectSeq(all, FaceShips)
        families == { Head(face.names) : face \in ToSet(shipping) }
        added == IF memory = "no faces" THEN <<>> ELSE shipping
        whole == Cardinality(families) < kMinimumWindowsFamilies \/ added = <<>>
        answer == [for |-> address, whole |-> whole, faces |-> IF whole THEN <<>> ELSE added]
        Seen(a) == IF a.whole THEN all ELSE a.faces
    IN  IF kept.for = address THEN [faces |-> Seen(kept), kept |-> kept]
        ELSE IF all = <<>> \/ memory = "no set" THEN [faces |-> all, kept |-> kept]
        ELSE [faces |-> Seen(answer), kept |-> answer]

\* p.fonts is what is kept of it
FcConfigGetFonts(p, address, all, memory) ==
    LET answer == WindowsOnlySet(p.fonts, address, all, memory)
    IN  IF Answers(p) THEN [faces |-> answer.faces, p |-> [p EXCEPT !.fonts = answer.kept]]
        ELSE [faces |-> all, p |-> p]

----------------------------------------------------------------------------
(* Preferences.  A line is about a chain of families ("name-list"), the    *)
(* chrome's own font ("ui", or "shell" of a button, list or field) with    *)
(* the families it names, or anything else                                 *)

BoldFirst(system) ==
    SelectSeq(system, LAMBDA f : f.weight >= kFcWeightBold)
        \o SelectSeq(system, LAMBDA f : f.weight < kFcWeightBold)

\* asked of fontconfig itself: what comes back under another name, or lighter than asked, is not it
FamilyInstalled(system, name, require_bold) ==
    LET sorted == RealSort(IF require_bold THEN BoldFirst(system) ELSE system,
                           RealSubstitute([families |-> <<name>>, lang |-> FALSE]))
    IN  /\ sorted # <<>>
        /\ First([families |-> Head(sorted).names]) = name
        /\ require_bold => Head(sorted).weight >= kFcWeightBold

AnyInstalled(system, list) == \E i \in DOMAIN list : FamilyInstalled(system, list[i], FALSE)

WindowsFirst(system, list) ==
    LET windows == SelectSeq(list, ShipsWithWindows)
    IN  IF AnyInstalled(system, windows) THEN windows ELSE list

PrefsForThisMachine(system, lines) ==
    LET segoe == FamilyInstalled(system, "Segoe UI", TRUE)
        selawik == ~segoe /\ FamilyInstalled(system, "Selawik", TRUE)
        shell_dlg == FamilyInstalled(system, "Tahoma", TRUE)
        Kept(line) == CASE line.kind = "shell" -> shell_dlg
                        [] line.kind = "ui" -> segoe \/ selawik
                        [] OTHER -> TRUE
        Renamed(name) == IF selawik /\ name = "Segoe UI" THEN "Selawik" ELSE name
        Line(line) ==
            CASE line.kind = "name-list" -> [line EXCEPT !.names = WindowsFirst(system, @)]
              [] line.kind = "ui" -> [line EXCEPT !.names = [i \in DOMAIN @ |-> Renamed(@[i])]]
              [] OTHER -> line
        kept == SelectSeq(lines, Kept)
    IN  [i \in DOMAIN kept |-> Line(kept[i])]

NoPrefs == <<>>

\* in the environment, which every child inherits, before anything is loaded
SupplyWindowsPrefs(p, system, lines) ==
    IF ~ParityActive(p) \/ IsOffValue(p.prefs) \/ p.supplied # NoPrefs THEN p
    ELSE [p EXCEPT !.supplied = PrefsForThisMachine(system, lines)]
===============================================================================
