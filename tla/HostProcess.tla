------------------------------ MODULE HostProcess ------------------------------
(***************************************************************************)
(* libcleartype in the process it was loaded into.  A Gecko process has    *)
(* libxul, which LibxulWatch waits for and LibxulPatch patches; a Chromium *)
(* process has Skia, whose typefaces TypefaceCache keeps.  A process is    *)
(* one or the other: where libxul is not, nothing is found to patch, and   *)
(* where Skia is not, no typeface asks for its bytes.                      *)
(***************************************************************************)
EXTENDS LibxulPatch, TypefaceCache

CONSTANT Roles       \* what a process can be

ASSUME RolesAssumption == Roles \subseteq {"gecko", "chromium"}

VARIABLE role

vars == <<role, geckoVars, cacheVars>>

\* a Chromium process has no libxul to look for
Idle == host = CHOOSE h \in Hosts : TRUE

Init ==
    /\ role \in Roles
    /\ GeckoInit /\ (role = "chromium" => Idle)
    /\ CacheInit /\ (role = "gecko" <=> \A t \in Callers : place[t] = "never")

Next ==
    \/ role = "gecko" /\ GeckoNext /\ UNCHANGED <<role, cacheVars>>
    \/ role = "chromium" /\ CacheNext /\ UNCHANGED <<role, geckoVars>>

Watch(step_taken) ==
    role = "gecko" /\ step_taken /\ UNCHANGED <<patchVars, role, cacheVars>>

\* The scheduler lets every thread go on, and time passes.  The threads of Gecko open files and
\* load fonts all along.  A thread that waits for the loader's lock, taken again and again by
\* others, gets it at last.
Fairness ==
    /\ WF_vars(Watch(Tick))
    /\ \A t \in Threads :
        /\ WF_vars(Watch(WatchStep(t)))
        /\ WF_vars(Watch(DlopenStep(t)))
        /\ WF_vars(Watch(NoteProbe(t) \/ NoteRecorded(t, FALSE)))
        /\ SF_vars(role = "gecko" /\ ResolveHelpers(t) /\ UNCHANGED <<role, cacheVars>>)

Spec == Init /\ [][Next]_vars /\ Fairness

\* Every variable keeps its type, whatever is found in libxul and whatever Skia answers.
TypeOK ==
    /\ role \in Roles
    /\ GeckoTypeOK
    /\ CacheTypeOK
===============================================================================
