------------------------------ MODULE LibxulWatch ------------------------------
(***************************************************************************)
(* How libcleartype notices that libxul has arrived in a Gecko process     *)
(* (the end of src/libxul_patch.cpp).  The interposed open() and the       *)
(* FT_New_Face family tell NoteOpen of every file and face; the list of    *)
(* images is scanned for libxul until it is found, and Apply then runs     *)
(* once.                                                                   *)
(*                                                                         *)
(* The loader is external, and has two locks.  A dlopen holds load_lock    *)
(* from its start to its end and takes list_lock inside it to put the      *)
(* image in the list; dl_iterate_phdr holds list_lock, and dlsym needs     *)
(* load_lock.                                                              *)
(***************************************************************************)
EXTENDS Naturals

CONSTANTS
    Hosts,        \* the processes this library can find itself in, as records
    Threads,
    Main,         \* the one that runs the constructors
    MaxProbes,    \* kMaxProbes
    MaxMissed,    \* bound: after that many misses the host opens libxul's file no more
    NoThread

MaxMisses == 3

ASSUME WatchAssumption ==
    /\ Main \in Threads
    /\ \A h \in Hosts : /\ h.mapped \in BOOLEAN   \* libxul was in the list before this library
                        /\ h.named \in BOOLEAN    \* libxul has its own name in the list
                        /\ h.span \in BOOLEAN     \* AtLoad found where libc lies
                        /\ h.enabled \in BOOLEAN  \* Enabled
                        /\ h.wanted \in BOOLEAN   \* ParityActive, once libxul was found
    /\ NoThread \notin Threads
    /\ MaxProbes \in Nat
    /\ MaxMissed \in Nat

VARIABLES
    host,          \* which of the processes this is
    dlopen,        \* external: how far the dlopen of libxul is, later that of others
    load_lock,     \* external: who holds the loader's lock
    list_lock,     \* external: who walks the list of images
    g_libxul_open, g_libxul_misses, g_probes,
    probe_due,     \* 250 ms have passed since g_last_probe
    g_gecko_loaded, g_done,
    pc,            \* where each thread is in this file
    why            \* whose scan it makes: AtLoad's, a probe's, or a recorded open's

loader == <<dlopen, load_lock, list_lock>>
notes == <<g_libxul_open, g_libxul_misses, g_probes, probe_due>>
watchVars == <<host, loader, notes, g_gecko_loaded, g_done, pc, why>>

-----------------------------------------------------------------------------

WatchPlaces == {"out", "take", "scan", "scanning", "found", "missed"}

WatchTypeOK ==
    /\ host \in Hosts
    /\ dlopen \in {"before", "mapping", "listed", "done", "other"}
    /\ load_lock \in Threads \cup {NoThread}
    /\ list_lock \in Threads \cup {NoThread}
    /\ g_libxul_open \in BOOLEAN
    /\ g_libxul_misses \in Nat
    /\ g_probes \in Nat
    /\ probe_due \in BOOLEAN
    /\ g_gecko_loaded \in BOOLEAN
    /\ g_done \in BOOLEAN
    /\ why \in [Threads -> {"load", "probe", "open"}]

Goto(t, place) == pc' = [pc EXCEPT ![t] = place]

FreeFor(t, lock) == lock \in {t, NoThread}    \* both are recursive

InList == dlopen \in {"listed", "done", "other"}

\* AtLoad runs
WatchInit ==
    /\ host \in Hosts
    /\ dlopen = IF host.mapped THEN "done" ELSE "before"
    /\ load_lock = NoThread /\ list_lock = NoThread
    /\ g_libxul_open = FALSE /\ g_libxul_misses = 0 /\ g_probes = 0 /\ probe_due = TRUE
    /\ g_gecko_loaded = FALSE /\ g_done = FALSE
    /\ why = [t \in Threads |-> "load"]
    /\ pc = [t \in Threads |-> IF t = Main THEN "scan" ELSE "out"]

-----------------------------------------------------------------------------
(* The loader, and the clock *)

DlopenStarts(t) ==
    /\ pc[t] = "out" /\ dlopen = "before" /\ FreeFor(t, load_lock)
    /\ dlopen' = "mapping" /\ load_lock' = t
    /\ UNCHANGED <<host, list_lock, notes, g_gecko_loaded, g_done, pc, why>>

DlopenLists(t) ==
    /\ pc[t] = "out" /\ dlopen = "mapping" /\ load_lock = t /\ FreeFor(t, list_lock)
    /\ dlopen' = "listed"
    /\ UNCHANGED <<host, load_lock, list_lock, notes, g_gecko_loaded, g_done, pc, why>>

DlopenEnds(t) ==
    /\ pc[t] = "out" /\ dlopen = "listed" /\ load_lock = t
    /\ dlopen' = "done" /\ load_lock' = NoThread
    /\ UNCHANGED <<host, list_lock, notes, g_gecko_loaded, g_done, pc, why>>

\* a dlopen of another image, once libxul is there
OtherStarts(t) ==
    /\ pc[t] = "out" /\ dlopen = "done" /\ FreeFor(t, load_lock)
    /\ dlopen' = "other" /\ load_lock' = t
    /\ UNCHANGED <<host, list_lock, notes, g_gecko_loaded, g_done, pc, why>>

OtherEnds(t) ==
    /\ pc[t] = "out" /\ dlopen = "other" /\ load_lock = t /\ FreeFor(t, list_lock)
    /\ dlopen' = "done" /\ load_lock' = NoThread
    /\ UNCHANGED <<host, list_lock, notes, g_gecko_loaded, g_done, pc, why>>

Tick ==
    /\ ~probe_due
    /\ probe_due' = TRUE
    /\ UNCHANGED <<host, loader, g_libxul_open, g_libxul_misses, g_probes,
                   g_gecko_loaded, g_done, pc, why>>

-----------------------------------------------------------------------------
(* NoteOpen *)

InLoader(in_libc) == host.span /\ in_libc

Watching(t) == pc[t] = "out" /\ host.enabled /\ ~g_done

NoteLibxul(t) ==
    /\ Watching(t) /\ ~g_libxul_open
    /\ g_libxul_misses < MaxMissed
    /\ g_libxul_open' = TRUE
    /\ UNCHANGED <<host, loader, g_libxul_misses, g_probes, probe_due, g_gecko_loaded, g_done,
                   pc, why>>

\* only one of the threads that find the probe due moves g_last_probe
NoteProbe(t) ==
    /\ Watching(t) /\ ~g_libxul_open
    /\ g_probes < MaxProbes /\ probe_due
    /\ probe_due' = FALSE
    /\ g_probes' = g_probes + 1
    /\ why' = [why EXCEPT ![t] = "probe"]
    /\ Goto(t, "scan")
    /\ UNCHANGED <<host, loader, g_libxul_open, g_libxul_misses, g_gecko_loaded, g_done>>

NoteRecorded(t, in_libc) ==
    /\ Watching(t) /\ g_libxul_open
    /\ ~InLoader(in_libc)
    /\ Goto(t, "take")
    /\ UNCHANGED <<host, loader, notes, g_gecko_loaded, g_done, why>>

\* another thread may have read the flag too
TakeRecorded(t) ==
    /\ pc[t] = "take"
    /\ g_libxul_open' = FALSE
    /\ why' = [why EXCEPT ![t] = "open"]
    /\ Goto(t, "scan")
    /\ UNCHANGED <<host, loader, g_libxul_misses, g_probes, probe_due, g_gecko_loaded, g_done>>

-----------------------------------------------------------------------------
(* The scan, and what a caller makes of it *)

ScanStarts(t) ==
    /\ pc[t] = "scan" /\ FreeFor(t, list_lock)
    /\ list_lock' = t
    /\ Goto(t, "scanning")
    /\ UNCHANGED <<host, dlopen, load_lock, notes, g_gecko_loaded, g_done, why>>

\* LookForLibxul only records; what it found is acted on after the list is let go
ScanEnds(t) ==
    /\ pc[t] = "scanning"
    /\ list_lock' = NoThread
    /\ Goto(t, IF InList /\ host.named THEN "found" ELSE "missed")
    /\ UNCHANGED <<host, dlopen, load_lock, notes, g_gecko_loaded, g_done, why>>

Return(t, place) == Goto(t, place) /\ why' = [why EXCEPT ![t] = "load"]

\* The flag is set from the count alone, over an open recorded meanwhile.
MutantForgetsOpen(t) ==
    /\ pc[t] = "missed"
    /\ IF why[t] = "open"
       THEN /\ g_libxul_misses' = g_libxul_misses + 1
            /\ g_libxul_open' = (g_libxul_misses + 1 < MaxMisses)
       ELSE UNCHANGED <<g_libxul_open, g_libxul_misses>>
    /\ Return(t, "out")
    /\ UNCHANGED <<host, loader, g_probes, probe_due, g_gecko_loaded, g_done>>

Missed(t) ==
    /\ pc[t] = "missed"
    /\ IF why[t] = "open"
       THEN /\ g_libxul_misses' = g_libxul_misses + 1
            /\ g_libxul_open' = (g_libxul_open \/ g_libxul_misses + 1 < MaxMisses)
       ELSE UNCHANGED <<g_libxul_open, g_libxul_misses>>
    /\ Return(t, "out")
    /\ UNCHANGED <<host, loader, g_probes, probe_due, g_gecko_loaded, g_done>>

ParityActive == host.enabled /\ host.wanted

\* Apply makes one attempt, whoever comes first
Found(t) ==
    /\ pc[t] = "found"
    /\ g_gecko_loaded' = TRUE
    /\ g_done' = (g_done \/ ParityActive)
    /\ Return(t, IF ParityActive /\ ~g_done THEN "apply" ELSE "out")
    /\ UNCHANGED <<host, loader, notes>>

-----------------------------------------------------------------------------

WatchStep(t) ==
    \/ TakeRecorded(t)
    \/ ScanStarts(t)
    \/ ScanEnds(t)
    \/ Missed(t)
    \/ Found(t)

DlopenStep(t) ==
    \/ DlopenLists(t)
    \/ DlopenEnds(t)
    \/ OtherEnds(t)

Dlopen(t) ==
    \/ DlopenStarts(t)
    \/ OtherStarts(t)
    \/ DlopenStep(t)

NoteOpen(t) ==
    \/ NoteLibxul(t)
    \/ NoteProbe(t)
    \/ \E in_libc \in BOOLEAN : NoteRecorded(t, in_libc)

WatchNext ==
    \/ Tick
    \/ \E t \in Threads : WatchStep(t) \/ Dlopen(t) \/ NoteOpen(t)
===============================================================================
