----------------------------- MODULE MCFontAnswers -----------------------------
(***************************************************************************)
(* Small machines, requests and short histories for FontAnswers, and what  *)
(* its operators should come to, evaluated over them.                      *)
(***************************************************************************)
LOCAL INSTANCE Integers
LOCAL INSTANCE Sequences
LOCAL INSTANCE FiniteSets
LOCAL INSTANCE SequencesExt
LOCAL INSTANCE FiniteSetsExt
LOCAL INSTANCE TLC

FaWindows == {"Arial", "Comic Sans MS", "Segoe UI", "Tahoma", "MS Gothic"}
FaSubstitutes ==
    [n \in {"Helvetica", "Helv", "MS Shell Dlg 2", "Arial"} |->
        CASE n = "Helvetica" -> "Arial" [] n = "Helv" -> "MS Sans Serif"
          [] n = "MS Shell Dlg 2" -> "Tahoma" [] OTHER -> "Tahoma"]

\* a distribution that ships a symbol font as an addition to two families
Fonts == INSTANCE FontAnswers WITH
    kBaseInstall <- FaWindows, kFontSubstitutes <- FaSubstitutes, kMinimumWindowsFamilies <- 2,
    Rules <- [n \in {"Arial", "serif"} |-> <<"Symbols">>], Defaults <- <<"Noto">>

\* and one with a rule for every request
Eager == INSTANCE FontAnswers WITH
    kBaseInstall <- FaWindows, kFontSubstitutes <- FaSubstitutes, kMinimumWindowsFamilies <- 2,
    Rules <- [n \in {"DWriteCoreNoSuchFamily", "Segoe UI"} |-> <<"Symbols">>],
    Defaults <- <<"Noto">>

FaProcess ==
    [cleartype |-> "unset", firefox |-> "unset", chromium |-> "unset", fontconfig |-> "unset",
     prefs |-> "unset", layout |-> FALSE, gecko_loaded |-> FALSE, chromium_image |-> FALSE,
     answering |-> "undecided", wanted |-> "undecided", fonts |-> Fonts!NoAnswer,
     bold |-> Fonts!NoList, light |-> Fonts!NoList, supplied |-> Fonts!NoPrefs]
FaGecko == [FaProcess EXCEPT !.layout = TRUE]
FaChromium == { [FaProcess EXCEPT !.chromium_image = TRUE, !.fontconfig = v] : v \in {"unset", "on"} }

----------------------------------------------------------------------------
(* Requests *)

FaAskable == FaWindows \cup {"Helvetica", "Helv", "MS Shell Dlg 2", "Noto", "Script", "serif",
                             "fantasy", "-moz-default", "DWriteCoreNoSuchFamily"}
FaRequests ==
    { [families |-> f, lang |-> l] :
        f \in { <<a>> : a \in FaAskable } \cup (FaAskable \X (FaAskable \cup {Fonts!Sentinel})),
        l \in BOOLEAN }

FaOnWindows(name) ==
    CASE name \in {"fantasy", "-moz-default", "Helvetica"} -> "Arial"
      [] name = "MS Shell Dlg 2" -> "Tahoma"
      [] OTHER -> name

\* Gecko takes the families before its sentinel
FaCollected(families) ==
    IF Fonts!Sentinel \in ToSet(families)
    THEN SubSeq(families, 1, Min({ i \in DOMAIN families : families[i] = Fonts!Sentinel }) - 1)
    ELSE families

\* What Firefox asks for by name is what it is answered with first, under the name Windows would look
\* for, whatever the distribution puts in front; a generic in quotes is answered with nothing else.
ASSUME RequestStaysFirst ==
    \A r \in FaRequests :
        LET asked == Head(r.families)
            got == Fonts!FcConfigSubstitute(FaGecko, r, "pattern")
        IN  IF Fonts!QuotedGenericSentinel(r)
            THEN FaCollected(got.families) = <<asked>>
            ELSE /\ Head(FaCollected(got.families)) = FaOnWindows(asked)
                 /\ got.lang = (r.lang /\ ~Fonts!IsGenericRequest(asked))

\* Nothing the author or the distribution named after it is lost or moved, except behind the two
\* names for Arial, which lose the rest of the author's list.
ASSUME OthersAreKept ==
    \A r \in FaRequests :
        LET asked == Head(r.families)
            got == Fonts!FcConfigSubstitute(FaGecko, r, "pattern").families
            Without(s) == SelectSeq(s, LAMBDA n : n \notin {asked, FaOnWindows(asked)})
            given == [r EXCEPT !.families = <<FaOnWindows(asked)>> \o Tail(@)]
        IN  IF Fonts!QuotedGenericSentinel(r) THEN TRUE
            ELSE IF Fonts!ResolvesToArial(asked)
            THEN Without(got) = <<"Symbols", "Noto">>
            ELSE Without(got) = Without(Fonts!RealSubstitute(given).families)

\* A font that was chosen already keeps its languages and its name.
ASSUME ChosenFontsAreLeftAlone ==
    \A p \in FaChromium \cup {FaGecko}, r \in FaRequests :
        Fonts!FcConfigSubstitute(p, r, "font") = Fonts!RealSubstitute(r)

----------------------------------------------------------------------------
(* Faces *)

FaFace(id, names, weight) == [id |-> id, names |-> names, weight |-> weight]
FaFaces ==
    <<FaFace(1, <<"Symbols">>, 80), FaFace(2, <<"Arial">>, 80), FaFace(3, <<"Arial Bold", "Arial">>, 200),
      FaFace(4, <<"Noto">>, 80), FaFace(5, <<"Gothic", "MS Gothic">>, 55),
      FaFace(6, <<"MS Gothic">>, 50), FaFace(7, <<"Segoe UI">>, 80), FaFace(8, <<"Tahoma">>, 200),
      FaFace(12, <<"Comic Sans MS">>, 80)>>

\* the faces of some of these, in their order
FaSystem(ids) == SelectSeq(FaFaces, LAMBDA f : f.id \in ids)
FaSystems == { FaSystem(ids) : ids \in SUBSET ({2, 3, 4, 5, 6, 7, 12}) }

\* Chromium is offered no face that Windows lacks by a sort, and none at all for a family Windows
\* lacks, by a sort or a match; what it asks for by a name that Windows has comes first.
ASSUME ChromiumSeesWindows ==
    \A p \in FaChromium, a \in FaAskable, system \in FaSystems :
        LET r == Fonts!FcConfigSubstitute(p, [families |-> <<a>>, lang |-> TRUE], "pattern")
            sorted == Fonts!FcFontSort(p, system, r, FALSE)
            on_windows == IF a = "Script" THEN "Comic Sans MS" ELSE a
            had == { i \in DOMAIN system : on_windows \in ToSet(system[i].names) }
        IN  /\ \A i \in DOMAIN sorted : Fonts!FaceShips(sorted[i])
            /\ on_windows \notin FaWindows =>
                   sorted = <<>> /\ Fonts!FcFontMatch(p, system, r) = Fonts!NoFace
            /\ on_windows \in FaWindows /\ had # {} => sorted[1] = system[Min(had)]

\* Firefox is, of all that the machine has.
ASSUME FirefoxSeesAll ==
    \A system \in FaSystems, r \in { q \in FaRequests : ~Fonts!IsGenericRequest(Head(q.families)) } :
        Fonts!FcFontSort(FaGecko, system, r, FALSE) = Fonts!RealSort(system, r)

\* A match is not reduced: a Windows family that the machine lacks is matched by a face Windows has
\* not.  And a rule that puts a family before every request brings the hidden ones back.
ASSUME MatchIsNotReduced ==
    /\ \A p \in FaChromium :
           LET r == Fonts!FcConfigSubstitute(p, [families |-> <<"Tahoma">>, lang |-> TRUE], "pattern")
           IN  Fonts!FcFontMatch(p, FaSystem(1 .. 7), r) = FaFaces[4]
    /\ \E p \in FaChromium :
           LET r == Eager!FcConfigSubstitute(p, [families |-> <<"Noto">>, lang |-> TRUE], "pattern")
           IN  Eager!FcFontMatch(p, FaSystem(1 .. 7), r) = FaFaces[1]

----------------------------------------------------------------------------
(* The system's set *)

FaReduced(all) ==
    LET shipping == SelectSeq(all, Fonts!FaceShips)
    IN  IF Cardinality({ Head(f.names) : f \in ToSet(shipping) }) < 2 THEN all ELSE shipping

FaSets == { FaSystem(ids) : ids \in { {}, {1, 2}, {1, 2, 3}, {1, 2, 4, 6}, {2, 7, 8} } }
\* an address, what is there, and whether memory lasts
FaAsk(p, ask) == Fonts!FcConfigGetFonts(p, ask[1], ask[2], ask[3])
RECURSIVE FaAfter(_, _)
FaAfter(p, asks) == IF asks = <<>> THEN p ELSE FaAfter(FaAsk(p, Head(asks)).p, Tail(asks))

\* While each address keeps its set and memory lasts, or fails for the new set alone, what the host
\* sees is its set reduced, or, for that once, the set itself.
ASSUME SetsAreReduced ==
    \A one \in FaSets, two \in FaSets :
        LET asks == { <<1, one>>, <<2, two>> } \X {"enough", "no set"}
            Flat(a) == <<a[1][1], a[1][2], a[2]>>
        IN  \A a \in asks, b \in asks, c \in asks :
                LET p == FaAfter(FaGecko, <<Flat(a), Flat(b)>>)
                    got == FaAsk(p, Flat(c)).faces
                IN  \/ got = FaReduced(c[1][2])
                    \/ c[2] = "no set" /\ got = c[1][2]

\* A set rebuilt at the address of the last is answered with the last; faces that did not fit in
\* memory once are the whole set for good.
ASSUME SetsGoStale ==
    LET old == FaSystem({1, 2, 7})
        new == FaSystem({1, 2, 7, 8})
        After(asks, ask) == FaAsk(FaAfter(FaGecko, asks), ask).faces
    IN  /\ After(<< <<1, old, "enough">> >>, <<1, new, "enough">>) = FaReduced(old)
        /\ After(<< <<1, old, "no faces">> >>, <<1, old, "enough">>) = old
        /\ After(<< <<1, old, "no set">> >>, <<1, old, "enough">>) = FaReduced(old)

----------------------------------------------------------------------------
(* Weights and settings *)

FaSiblings(system, face, Is(_)) ==
    \E i \in DOMAIN system : Head(face.names) \in ToSet(system[i].names) /\ Is(system[i].weight)

\* A regular face is lightened for Chromium where nothing of its family is bold, and a semilight one
\* made regular for Gecko where something of its family is light; no other weight changes.
ASSUME WeightsAreEdited ==
    \A system \in FaSystems, p \in FaChromium \cup {FaGecko} :
        \A i \in DOMAIN system :
            LET face == system[i]
                got == Fonts!FcPatternGetWeight(p, ToSet(system), face).value
            IN  got = IF p = FaGecko
                      THEN IF face.weight = 55 /\ FaSiblings(system, face, LAMBDA w : w = 50)
                           THEN 80 ELSE face.weight
                      ELSE IF face.weight = 80 /\ ~FaSiblings(system, face, LAMBDA w : w >= 200)
                           THEN 79 ELSE face.weight

\* The families are listed once: a first question before fontconfig has its fonts leaves every
\* regular face without a bold one for good, and only one of the accessors is edited.
ASSUME ListsAreMadeOnce ==
    \A p \in FaChromium :
        LET early == Fonts!FcPatternGetWeight(p, {}, FaFaces[2])
        IN  /\ Fonts!FcPatternGetWeight(early.p, ToSet(FaFaces), FaFaces[2]).value = 79
            /\ Fonts!FcPatternGetWeight(p, ToSet(FaFaces), FaFaces[2]).value = 80
            /\ ~Fonts!Setting(p, "Any", "weight", 0).match

\* Whoever asks, and through whichever accessor, hears the same: one answer for each setting, of the
\* type of the accessor, and none for another element of its list.
ASSUME AccessorsAgree ==
    \A p \in FaChromium \cup {FaGecko}, n \in 0 .. 1, o \in DOMAIN Fonts!SettingValues :
        LET Got(a) == Fonts!Setting(p, a, o, n)
        IN  /\ Got("Any").match = (Fonts!Answers(p) /\ n = 0)
            /\ \A a \in {"Integer", "Bool"} : Got(a).match => Got(a) = Got("Any")
            /\ Got("Any").match => Got("Integer").match # Got("Bool").match

----------------------------------------------------------------------------
(* When it is decided *)

FaEvents == {"libxul", "image", "settings", "chromium"}
FaHear(p, e) ==
    CASE e = "libxul" -> Fonts!NoteGeckoLoaded(p)
      [] e = "image" -> [p EXCEPT !.chromium_image = TRUE]
      [] e = "settings" -> Fonts!Answering(p)
      [] OTHER -> Fonts!ParityWanted(p)
RECURSIVE FaHears(_, _)
FaHears(p, es) == IF es = <<>> THEN p ELSE FaHears(FaHear(p, Head(es)), Tail(es))
FaHistories == UNION { [1 .. n -> FaEvents] : n \in 0 .. 4 }

\* With libxul.so beside the executable fontconfig is answered exactly where parity is active, however
\* early it is asked; without, it may have been asked too early, and never the other way round.
ASSUME LayoutDecidesInTime ==
    \A h \in FaHistories, switch \in {"unset", "off"}, layout \in BOOLEAN :
        LET p == FaHears([FaProcess EXCEPT !.firefox = switch, !.layout = layout], <<>> \o h)
        IN  /\ Fonts!Answers(p) => Fonts!ParityActive(p)
            /\ layout => Fonts!Answers(p) = Fonts!ParityActive(p)

\* What is asked first decides: before libxul is seen, or the image of Chromium, it is no for good.
ASSUME TooEarlyIsForGood ==
    /\ LET p == FaHears(FaProcess, <<"settings", "libxul">>)
       IN  Fonts!ParityActive(p) /\ ~Fonts!Answers(p)
    /\ LET p == FaHears(FaProcess, <<"chromium", "image">>) IN ~Fonts!Wanted(p)
    /\ LET p == FaHears(FaProcess, <<"image", "chromium">>) IN Fonts!Wanted(p)

\* An entry point that was looked for before fontconfig was there stays without one behind it.
ASSUME NoneIsRemembered ==
    LET before == [in_scope |-> FALSE, mapped |-> FALSE, on_disk |-> FALSE]
        after == [before EXCEPT !.mapped = TRUE]
    IN  /\ Fonts!Next(after, Fonts!Next(before, "unresolved")) = "none"
        /\ Fonts!Next(after, "unresolved") = "library"

----------------------------------------------------------------------------
(* Preferences *)

FaSelawik == {FaFace(9, <<"Selawik">>, 80), FaFace(10, <<"Selawik">>, 200)}
FaMachines == { FaSystem(ids) : ids \in SUBSET {1, 2, 4, 5, 6, 7, 8} }
              \cup { SetToSeq(FaSelawik) \o FaSystem(ids) : ids \in SUBSET {4, 7, 8} }
              \cup { <<FaFace(11, <<"Segoe UI">>, 200)>> \o SetToSeq(FaSelawik) }
              \cup { <<FaFace(11, <<"Segoe UI">>, 200)>> \o FaSystem(ids) : ids \in SUBSET {1, 4, 8} }

FaChains == { <<"MS Gothic", "Noto">>, <<"Noto", "Symbols">>, <<"Noto", "Tahoma", "Arial">>,
              <<"Segoe UI", "Tahoma">>, <<>> }

FaInstalled(machine, list) == \E i \in DOMAIN list : Fonts!FamilyInstalled(machine, list[i], FALSE)

\* A chain is left as it is or without what Windows does not ship; it keeps a family the machine has
\* if it had one; and where the machine has one of Windows' no other is left.
ASSUME ChainsStayAlive ==
    \A m \in FaMachines, c \in FaChains :
        LET got == Fonts!WindowsFirst(m, c)
            windows == SelectSeq(c, Fonts!ShipsWithWindows)
        IN  /\ got \in {c, windows}
            /\ FaInstalled(m, c) => FaInstalled(m, got)
            /\ FaInstalled(m, windows) => got = windows

FaLines ==
    << [kind |-> "name-list", names |-> <<"Noto", "Tahoma">>], [kind |-> "ui", names |-> <<"Segoe UI">>],
       [kind |-> "other", names |-> <<>>], [kind |-> "ui", names |-> <<>>],
       [kind |-> "shell", names |-> <<"MS Shell Dlg 2">>] >>

\* The chrome's font and the sizes measured with it are given together or not at all, and only where
\* the family named has a bold face; the buttons' only where Tahoma has.  Other lines always are.
ASSUME ChromeTravelsTogether ==
    \A m \in FaMachines :
        LET lines == Fonts!SupplyWindowsPrefs(FaGecko, m, FaLines).supplied
            Of(kind) == { i \in DOMAIN lines : lines[i].kind = kind }
            Bold(name) == \E i \in DOMAIN m : m[i].names = <<name>> /\ m[i].weight >= 200
        IN  /\ Cardinality(Of("ui")) \in {0, 2}
            /\ (Of("ui") # {}) = (Bold("Segoe UI") \/ Bold("Selawik"))
            /\ \A i \in Of("ui"), n \in {"Segoe UI", "Selawik"} : n \in ToSet(lines[i].names) => Bold(n)
            /\ Bold("Segoe UI") => \E i \in Of("ui") : lines[i].names = <<"Segoe UI">>
            /\ (Of("shell") # {}) = Bold("Tahoma")
            /\ Cardinality(Of("other")) = 1 /\ Cardinality(Of("name-list")) = 1

\* A child's are its parent's; a process that is Gecko only once libxul is loaded gets none, although
\* it may answer fontconfig; and what the user has exported is not touched.
ASSUME PrefsAreInherited ==
    /\ \A m \in FaMachines, n \in FaMachines :
           LET parent == Fonts!SupplyWindowsPrefs(FaGecko, m, FaLines)
               child == [FaGecko EXCEPT !.supplied = parent.supplied]
           IN  Fonts!SupplyWindowsPrefs(child, n, FaLines) = child
    /\ LET late == FaHears(Fonts!SupplyWindowsPrefs(FaProcess, FaFaces, FaLines),
                           <<"libxul", "settings">>)
       IN  Fonts!Answers(late) /\ late.supplied = Fonts!NoPrefs

\* fontconfig itself is asked what is installed: a rule that puts another family ahead hides one that
\* is, and one whose other name comes first is not found by its own.
ASSUME InstalledButNotFound ==
    /\ Eager!FamilyInstalled(FaFaces, "Tahoma", TRUE)
    /\ ~Eager!FamilyInstalled(FaFaces, "Segoe UI", FALSE)
    /\ Eager!FamilyInstalled(FaSystem(2 .. 8), "Segoe UI", FALSE)
    /\ ~Fonts!FamilyInstalled(FaSystem(2 .. 5), "MS Gothic", FALSE)
===============================================================================
