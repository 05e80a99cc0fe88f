------------------------------ MODULE BionicLocks ------------------------------
(***************************************************************************)
(* The other primitives bionic-compat gives DWriteCore on futexes          *)
(* (bionic-compat/libc_compat.c): the read-write lock, whose word is the   *)
(* number of readers or -1, and pthread_once.  Each atomic operation and   *)
(* each futex call is a step; only the load in pthread_rwlock_unlock is    *)
(* taken together with the store after it, since while the caller holds    *)
(* the lock the sign of the word stays.                                    *)
(*                                                                         *)
(* DWriteCore is external: a thread locks once at a time, unlocks what it  *)
(* has locked, and its routine of pthread_once returns.                    *)
(***************************************************************************)
EXTENDS Integers, FiniteSets

CONSTANT Threads

ASSUME ThreadsAssumption == IsFiniteSet(Threads)

VARIABLES
    state,   \* bionic_rwlock_t::state
    once,    \* the word of a pthread_once_t
    pc,      \* where each thread is
    seen,    \* the value of `state' a thread last read
    holds,   \* external: what each thread has of the read-write lock
    inits,   \* external: the routines of pthread_once that ran to their end
    returned \* history: pthread_once has returned to somebody

rwlock == <<state, seen, holds>>
vars == <<rwlock, once, pc, inits, returned>>

-----------------------------------------------------------------------------
(* Types *)

Pending == 0    \* ONCE_PENDING
Running == 1    \* ONCE_RUNNING
Done == 2       \* ONCE_DONE

Nothing == "nothing"
Read == "read"
Write == "write"

ReadPlaces == {"rdlock", "rdswap", "rdwait", "rdasleep"}
WritePlaces == {"wrlock", "wrwait", "wrasleep"}
OncePlaces == {"once", "onceswap", "init", "done", "oncewake", "oncewait", "onceasleep"}

TypeOK ==
    /\ state \in Int /\ state >= -1
    /\ once \in {Pending, Running, Done}
    /\ pc \in [Threads -> {"out", "wake"} \cup ReadPlaces \cup WritePlaces \cup OncePlaces]
    /\ seen \in [Threads -> Int]
    /\ holds \in [Threads -> {Nothing, Read, Write}]
    /\ inits \in Nat
    /\ returned \in BOOLEAN

Goto(t, place) == pc' = [pc EXCEPT ![t] = place]
At(place) == {t \in Threads : pc[t] = place}

\* Every word starts as the zeros of a static initialiser.
Init ==
    /\ state = 0 /\ once = Pending
    /\ pc = [t \in Threads |-> "out"]
    /\ seen = [t \in Threads |-> 0]
    /\ holds = [t \in Threads |-> Nothing]
    /\ inits = 0 /\ returned = FALSE

-----------------------------------------------------------------------------
(* pthread_rwlock_rdlock *)

Call(t, place) ==
    /\ pc[t] = "out"
    /\ Goto(t, place)
    /\ UNCHANGED <<rwlock, once, inits, returned>>

\* DWriteCore's calls: it locks what it does not hold.
Calls(t) ==
    \/ holds[t] = Nothing /\ (Call(t, "rdlock") \/ Call(t, "wrlock"))
    \/ Call(t, "once")

ReadLoad(t) ==
    /\ pc[t] = "rdlock"
    /\ seen' = [seen EXCEPT ![t] = state]
    /\ Goto(t, IF state >= 0 THEN "rdswap" ELSE "rdwait")
    /\ UNCHANGED <<state, holds, once, inits, returned>>

\* (Mutants, here and below, are plausible bugs of the definition they precede.)
MutantIncrementsAnyway(t) == TRUE

\* The compare half of the compare-and-swap.
StillSeen(t) == state = seen[t]

ReadSwap(t) ==
    /\ pc[t] = "rdswap"
    /\ \/ /\ StillSeen(t)
          /\ state' = seen[t] + 1
          /\ holds' = [holds EXCEPT ![t] = Read]
          /\ Goto(t, "out")
       \/ /\ ~StillSeen(t)
          /\ Goto(t, "rdlock")
          /\ UNCHANGED <<state, holds>>
    /\ seen' = [seen EXCEPT ![t] = 0]
    /\ UNCHANGED <<once, inits, returned>>

ReadWait(t) ==
    /\ pc[t] = "rdwait"
    /\ Goto(t, IF state = seen[t] THEN "rdasleep" ELSE "rdlock")
    /\ seen' = [seen EXCEPT ![t] = 0]
    /\ UNCHANGED <<state, holds, once, inits, returned>>

-----------------------------------------------------------------------------
(* pthread_rwlock_wrlock *)

WriteSwap(t) ==
    /\ pc[t] = "wrlock"
    /\ \/ /\ state = 0
          /\ state' = -1
          /\ holds' = [holds EXCEPT ![t] = Write]
          /\ Goto(t, "out")
          /\ UNCHANGED seen
       \/ /\ state # 0
          /\ seen' = [seen EXCEPT ![t] = state]
          /\ Goto(t, "wrwait")
          /\ UNCHANGED <<state, holds>>
    /\ UNCHANGED <<once, inits, returned>>

WriteWait(t) ==
    /\ pc[t] = "wrwait"
    /\ Goto(t, IF state = seen[t] THEN "wrasleep" ELSE "wrlock")
    /\ seen' = [seen EXCEPT ![t] = 0]
    /\ UNCHANGED <<state, holds, once, inits, returned>>

-----------------------------------------------------------------------------
(* pthread_rwlock_unlock *)

MutantForgetsWriters == FALSE

\* The sign of the word says what is let go.
LockedToWrite == state < 0

MutantReadersWakeNobody(left) == FALSE

\* A reader wakes the others when it is the last to leave.
LastToLeave(left) == left = 0

Unlock(t) ==
    /\ pc[t] = "out"
    /\ holds[t] # Nothing
    /\ holds' = [holds EXCEPT ![t] = Nothing]
    /\ IF LockedToWrite
       THEN state' = 0 /\ Goto(t, "wake")
       ELSE state' = state - 1 /\ Goto(t, IF LastToLeave(state - 1) THEN "wake" ELSE "out")
    /\ UNCHANGED <<seen, once, inits, returned>>

\* Readers and writers sleep on the same word.
Wake(t) ==
    /\ pc[t] = "wake"
    /\ pc' = [u \in Threads |-> IF u = t THEN "out"
                                ELSE IF pc[u] = "rdasleep" THEN "rdlock"
                                ELSE IF pc[u] = "wrasleep" THEN "wrlock" ELSE pc[u]]
    /\ UNCHANGED <<rwlock, once, inits, returned>>

-----------------------------------------------------------------------------
(* pthread_once *)

OnceReturns(t) == Goto(t, "out") /\ returned' = TRUE

OnceLoad(t) ==
    /\ pc[t] = "once"
    /\ \/ once = Done /\ OnceReturns(t)
       \/ once = Pending /\ Goto(t, "onceswap") /\ UNCHANGED returned
       \/ once = Running /\ Goto(t, "oncewait") /\ UNCHANGED returned
    /\ UNCHANGED <<rwlock, once, inits>>

MutantEverybodyRuns == TRUE

\* Only one thread swaps PENDING for RUNNING.
MayRun == once = Pending

OnceSwap(t) ==
    /\ pc[t] = "onceswap"
    /\ \/ MayRun /\ once' = Running /\ Goto(t, "init")
       \/ ~MayRun /\ Goto(t, "once") /\ UNCHANGED once
    /\ UNCHANGED <<rwlock, inits, returned>>

\* External: the routine runs.
RunInit(t) ==
    /\ pc[t] = "init"
    /\ inits' = inits + 1
    /\ Goto(t, "done")
    /\ UNCHANGED <<rwlock, once, returned>>

OnceDone(t) ==
    /\ pc[t] = "done"
    /\ once' = Done
    /\ Goto(t, "oncewake")
    /\ UNCHANGED <<rwlock, inits, returned>>

OnceWake(t) ==
    /\ pc[t] = "oncewake"
    /\ pc' = [u \in Threads |-> IF u = t THEN "out"
                                ELSE IF pc[u] = "onceasleep" THEN "once" ELSE pc[u]]
    /\ returned' = TRUE
    /\ UNCHANGED <<rwlock, once, inits>>

MutantSleepsAnyway == TRUE

\* FUTEX_WAIT compares once more.
StillRunning == once = Running

OnceWait(t) ==
    /\ pc[t] = "oncewait"
    /\ Goto(t, IF StillRunning THEN "onceasleep" ELSE "once")
    /\ UNCHANGED <<rwlock, once, inits, returned>>

-----------------------------------------------------------------------------
\* External: a signal handler ends a FUTEX_WAIT early, and nobody looks at the answer.
Interrupted(t) ==
    /\ \/ pc[t] = "rdasleep" /\ Goto(t, "rdlock")
       \/ pc[t] = "wrasleep" /\ Goto(t, "wrlock")
       \/ pc[t] = "onceasleep" /\ Goto(t, "once")
    /\ UNCHANGED <<rwlock, once, inits, returned>>

\* What a thread in a call goes on to do.
Continue(t) ==
    \/ ReadLoad(t) \/ ReadSwap(t) \/ ReadWait(t) \/ WriteSwap(t) \/ WriteWait(t) \/ Wake(t)
    \/ OnceLoad(t) \/ OnceSwap(t) \/ RunInit(t) \/ OnceDone(t) \/ OnceWake(t) \/ OnceWait(t)

Next == \E t \in Threads : Calls(t) \/ Unlock(t) \/ Interrupted(t) \/ Continue(t)

Spec == Init /\ [][Next]_vars

\* The scheduler runs a thread that is not asleep.
FairSpec == Spec /\ \A t \in Threads : WF_vars(Continue(t))

-----------------------------------------------------------------------------
(* Properties *)

Readers == {t \in Threads : holds[t] = Read}
Writers == {t \in Threads : holds[t] = Write}

\* The word is the readers that hold the lock, or -1 for one writer and nobody else,
\* whatever swaps fail and sleeps end early (pthread_rwlock_*).
WordCountsHolders ==
    \/ Writers = {} /\ state = Cardinality(Readers)
    \/ Readers = {} /\ state = -1 /\ \E t \in Threads : Writers = {t}

\* Who sleeps on the lock has somebody to wake it: a holder, or a thread that has let
\* go and is about to.  A reader only ever waits for a writer (futex_wait, futex_wake).
NoSleeperForgotten ==
    /\ At("rdasleep") # {} => state = -1 \/ At("wake") # {}
    /\ At("wrasleep") # {} => state # 0 \/ At("wake") # {}
    /\ At("onceasleep") # {} => once = Running \/ At("oncewake") # {}

\* pthread_once returns to nobody before the routine has run to its end, and it runs
\* once, whoever comes first and whoever comes while it runs.
OnceBeforeAnyReturn ==
    /\ inits <= 1
    /\ returned => inits = 1

\* A thread that calls pthread_once comes back (OnceWait against OnceDone and OnceWake).
OnceComesBack == \A t \in Threads : pc[t] \in OncePlaces ~> pc[t] = "out"

\* If the lock is free again and again, then while a reader or a writer sleeps on it
\* somebody gets it.  A given writer need not: readers may keep it out.
SomebodyGetsIn ==
    ([]<>(state = 0)) =>
        (At("rdasleep") \cup At("wrasleep") # {} ~> Readers \cup Writers # {})
=============================================================================
