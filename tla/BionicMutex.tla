------------------------------ MODULE BionicMutex ------------------------------
(***************************************************************************)
(* The mutex and the condition variable that bionic-compat gives           *)
(* DWriteCore (bionic-compat/libc_compat.c): two words of the caller's     *)
(* memory and the kernel's futex queues on them.  Each atomic operation    *)
(* and each futex call is a step.  A step also takes in what comes before  *)
(* it and only its own thread can tell: the check of `owner' against       *)
(* oneself, and its reset before the exchange that lets go.                *)
(*                                                                         *)
(* DWriteCore is the caller, and external: it unlocks and waits only while *)
(* it holds the mutex, waits only one lock deep, and does not lock a       *)
(* normal mutex it holds.                                                  *)
(***************************************************************************)
EXTENDS Integers, FiniteSets

CONSTANTS
    Threads,
    MaxDepth,   \* bound on the depth of a recursive lock
    MaxSeq,     \* bound on the signals ever sent
    NoThread    \* the owner 0

ASSUME ThreadsAssumption == IsFiniteSet(Threads) /\ NoThread \notin Threads
ASSUME BoundsAssumption == MaxDepth \in Nat \ {0} /\ MaxSeq \in Nat

VARIABLES
    type,        \* bionic_mutex_t::type
    futex,       \* bionic_mutex_t::futex: unlocked, locked, locked with waiters
    owner,       \* bionic_mutex_t::owner
    recursion,   \* bionic_mutex_t::recursion
    seq,         \* bionic_cond_t::seq
    pc,          \* where each thread is
    seen,        \* the word a thread last read (or, signalling, wrote)
    waits,       \* the threads between the start of a wait and having the mutex again
    depth,       \* external: the locks each thread knows it holds
    since,       \* history: seq when a waiting thread let the mutex go
    passed       \* history: later signals that woke somebody else

mutex == <<type, futex, owner, recursion>>
history == <<since, passed>>
vars == <<mutex, seq, pc, seen, waits, depth, history>>

-----------------------------------------------------------------------------
(* Types *)

Normal == "normal"
Recursive == "recursive"
ErrorCheck == "errorcheck"

Locking == {"lock", "contend", "wait", "asleep", "retry"}
Places == Locking \cup {"out", "own", "release", "wake", "block", "blocked", "signal", "broadcast"}

TypeOK ==
    /\ type \in {Normal, Recursive, ErrorCheck}
    /\ futex \in 0 .. 2
    /\ owner \in Threads \cup {NoThread}
    /\ recursion \in 0 .. MaxDepth - 1
    /\ seq \in 0 .. MaxSeq
    /\ pc \in [Threads -> Places]
    /\ seen \in [Threads -> Nat]
    /\ waits \in [Threads -> BOOLEAN]
    /\ depth \in [Threads -> 0 .. MaxDepth]
    /\ since \in [Threads -> 0 .. MaxSeq]
    /\ passed \in [Threads -> Nat]

Goto(t, place) == pc' = [pc EXCEPT ![t] = place]
At(place) == {t \in Threads : pc[t] = place}

\* pthread_mutex_init, or the zeros of a static initialiser.
Init ==
    /\ type \in {Normal, Recursive, ErrorCheck}
    /\ futex = 0 /\ owner = NoThread /\ recursion = 0 /\ seq = 0
    /\ pc = [t \in Threads |-> "out"]
    /\ seen = [t \in Threads |-> 0]
    /\ waits = [t \in Threads |-> FALSE]
    /\ depth = [t \in Threads |-> 0]
    /\ since = [t \in Threads |-> 0]
    /\ passed = [t \in Threads |-> 0]

-----------------------------------------------------------------------------
(* pthread_mutex_lock *)

Lock(t) ==
    /\ pc[t] = "out"
    /\ IF type = Normal THEN depth[t] = 0 ELSE owner # t
    /\ Goto(t, "lock")
    /\ UNCHANGED <<mutex, seq, seen, waits, depth, history>>

\* The caller holds it already.
Reenter(t) ==
    /\ pc[t] = "out"
    /\ type = Recursive /\ owner = t
    /\ depth[t] < MaxDepth
    /\ recursion' = recursion + 1
    /\ depth' = [depth EXCEPT ![t] = @ + 1]
    /\ UNCHANGED <<type, futex, owner, seq, pc, seen, waits, history>>

\* EDEADLK: the answer of an error-checking mutex.
Refuse(t) ==
    /\ pc[t] = "out"
    /\ type = ErrorCheck /\ owner = t
    /\ UNCHANGED vars

\* A compare-and-swap of 0 to `to', and what it found if it failed.
Acquire(t, to) ==
    \/ /\ futex = 0
       /\ futex' = to
       /\ seen' = [seen EXCEPT ![t] = 0]
       /\ waits' = [waits EXCEPT ![t] = FALSE]
       /\ since' = [since EXCEPT ![t] = 0]
       /\ passed' = [passed EXCEPT ![t] = 0]
       /\ Goto(t, "own")
    \/ /\ futex # 0
       /\ seen' = [seen EXCEPT ![t] = futex]
       /\ Goto(t, "contend")
       /\ UNCHANGED <<futex, waits, history>>

TryLock(t) ==
    /\ pc[t] = "lock"
    /\ Acquire(t, 1)
    /\ UNCHANGED <<type, owner, recursion, seq, depth>>

\* "Locked with waiters", unless it said so already or is free by now.
Contend(t) ==
    /\ pc[t] = "contend"
    /\ \/ seen[t] = 2 /\ Goto(t, "wait") /\ UNCHANGED futex
       \/ seen[t] # 2 /\ futex = seen[t] /\ futex' = 2 /\ Goto(t, "wait")
       \/ seen[t] # 2 /\ futex # seen[t] /\ Goto(t, "retry") /\ UNCHANGED futex
    /\ UNCHANGED <<type, owner, recursion, seq, seen, waits, depth, history>>

\* FUTEX_WAIT on the value 2.
FutexWait(t) ==
    /\ pc[t] = "wait"
    /\ Goto(t, IF futex = 2 THEN "asleep" ELSE "retry")
    /\ UNCHANGED <<mutex, seq, seen, waits, depth, history>>

\* (Mutants, here and below, are plausible bugs of the definition they precede.)
MutantRetryValue == 1

\* Whoever slept may not be the last one: it locks with the waiters' value.
RetryValue == 2

Retry(t) ==
    /\ pc[t] = "retry"
    /\ Acquire(t, RetryValue)
    /\ UNCHANGED <<type, owner, recursion, seq, depth>>

Own(t) ==
    /\ pc[t] = "own"
    /\ IF type = Normal THEN UNCHANGED <<owner, recursion>>
                        ELSE owner' = t /\ recursion' = 0
    /\ depth' = [depth EXCEPT ![t] = 1]
    /\ Goto(t, "out")
    /\ UNCHANGED <<type, futex, seq, seen, waits, history>>

-----------------------------------------------------------------------------
(* pthread_mutex_unlock *)

MutantCountsBelowZero == type # Normal

\* A recursive lock that was taken more than once is only counted down.
StaysLocked == type # Normal /\ recursion > 0

MutantKeepsOwner == owner

\* The last unlock forgets the owner before it lets go.
OwnerAfter == IF type = Normal THEN owner ELSE NoThread

UnlockOnce(t) ==
    /\ pc[t] = "out"
    /\ depth[t] > 0
    /\ StaysLocked
    /\ recursion' = recursion - 1
    /\ depth' = [depth EXCEPT ![t] = @ - 1]
    /\ UNCHANGED <<type, futex, owner, seq, pc, seen, waits, history>>

Unlock(t) ==
    /\ pc[t] = "out"
    /\ depth[t] > 0
    /\ ~StaysLocked
    /\ owner' = OwnerAfter
    /\ depth' = [depth EXCEPT ![t] = @ - 1]
    /\ Goto(t, "release")
    /\ UNCHANGED <<type, futex, recursion, seq, seen, waits, history>>

\* Where a thread goes on when it has unlocked.
Unlocked(t) == IF waits[t] THEN "block" ELSE "out"

Release(t) ==
    /\ pc[t] = "release"
    /\ futex' = 0
    /\ Goto(t, IF futex = 2 THEN "wake" ELSE Unlocked(t))
    /\ since' = IF waits[t] THEN [since EXCEPT ![t] = seq] ELSE since
    /\ UNCHANGED <<type, owner, recursion, seq, seen, waits, depth, passed>>

\* FUTEX_WAKE of one: the kernel chooses.
Wake(t) ==
    /\ pc[t] = "wake"
    /\ \/ At("asleep") = {} /\ Goto(t, Unlocked(t))
       \/ \E u \in At("asleep") : pc' = [pc EXCEPT ![t] = Unlocked(t), ![u] = "retry"]
    /\ UNCHANGED <<mutex, seq, seen, waits, depth, history>>

-----------------------------------------------------------------------------
(* Condition variable *)

\* pthread_cond_wait: seq is read while the mutex is held, then it is unlocked.
CondWait(t) ==
    /\ pc[t] = "out"
    /\ depth[t] = 1
    /\ seen' = [seen EXCEPT ![t] = seq]
    /\ waits' = [waits EXCEPT ![t] = TRUE]
    /\ owner' = OwnerAfter
    /\ depth' = [depth EXCEPT ![t] = 0]
    /\ Goto(t, "release")
    /\ UNCHANGED <<type, futex, recursion, seq, history>>

MutantSleepsAnyway(t) == TRUE

\* FUTEX_WAIT sleeps only on the value that was read.
NothingSince(t) == seq = seen[t]

\* The sleep; after it, the mutex again.
Block(t) ==
    /\ pc[t] = "block"
    /\ Goto(t, IF NothingSince(t) THEN "blocked" ELSE "lock")
    /\ passed' = [passed EXCEPT ![t] = 0]
    /\ UNCHANGED <<mutex, seq, seen, waits, depth, since>>

\* pthread_cond_signal and pthread_cond_broadcast, with or without the mutex.
Notify(t, how) ==
    /\ pc[t] = "out"
    /\ seq < MaxSeq
    /\ seq' = seq + 1
    /\ seen' = [seen EXCEPT ![t] = seq + 1]
    /\ Goto(t, how)
    /\ UNCHANGED <<mutex, waits, depth, history>>

PassedOver(t, woken) ==
    [u \in Threads |->
        IF pc[u] = "blocked" /\ u # woken /\ since[u] < seen[t] THEN passed[u] + 1 ELSE passed[u]]

WakeOne(t) ==
    /\ pc[t] = "signal"
    /\ \/ At("blocked") = {} /\ Goto(t, "out") /\ UNCHANGED passed
       \/ \E u \in At("blocked") :
            /\ pc' = [pc EXCEPT ![t] = "out", ![u] = "lock"]
            /\ passed' = PassedOver(t, u)
    /\ seen' = [seen EXCEPT ![t] = 0]
    /\ UNCHANGED <<mutex, seq, waits, depth, since>>

WakeAll(t) ==
    /\ pc[t] = "broadcast"
    /\ pc' = [u \in Threads |-> IF u = t THEN "out"
                                ELSE IF pc[u] = "blocked" THEN "lock" ELSE pc[u]]
    /\ seen' = [seen EXCEPT ![t] = 0]
    /\ UNCHANGED <<mutex, seq, waits, depth, history>>

\* External: a signal handler ends a FUTEX_WAIT early, and nobody looks at the answer.
Interrupted(t) ==
    /\ \/ pc[t] = "asleep" /\ Goto(t, "retry")
       \/ pc[t] = "blocked" /\ Goto(t, "lock")
    /\ UNCHANGED <<mutex, seq, seen, waits, depth, history>>

-----------------------------------------------------------------------------
\* What a thread in a call goes on to do.
Continue(t) ==
    \/ TryLock(t) \/ Contend(t) \/ FutexWait(t) \/ Retry(t) \/ Own(t)
    \/ Release(t) \/ Wake(t) \/ Block(t) \/ WakeOne(t) \/ WakeAll(t)

Next ==
    \E t \in Threads :
        \/ Lock(t) \/ Reenter(t) \/ Refuse(t) \/ UnlockOnce(t) \/ Unlock(t) \/ CondWait(t)
        \/ Notify(t, "signal") \/ Notify(t, "broadcast") \/ Interrupted(t)
        \/ Continue(t)

Spec == Init /\ [][Next]_vars

\* The scheduler runs a thread that is not asleep.
FairSpec == Spec /\ \A t \in Threads : WF_vars(Continue(t))

-----------------------------------------------------------------------------
(* Properties *)

\* The threads that are inside, by what they were told or by the word they took.
Holders == {t \in Threads : depth[t] > 0 \/ pc[t] \in {"own", "release"}}

\* One thread at a time is inside, however locks, waits, wakes and interruptions
\* interleave, and the word says so (pthread_mutex_lock and pthread_mutex_unlock).
OneHolder ==
    /\ \A t, u \in Holders : t = u
    /\ Holders = {} <=> futex = 0

\* `owner' and `recursion' are what the holder believes, so that its next lock or
\* unlock counts or lets go as it expects (the recursive and checking types).
RecursionIsDepth ==
    type # Normal =>
        \A t \in Threads :
            /\ owner = t <=> depth[t] > 0
            /\ depth[t] > 0 => recursion = depth[t] - 1

\* Nobody sleeps on the mutex unless the word tells its holder to wake somebody,
\* somebody is about to be woken, or a thread awake will put the word right: the
\* 1 that a newcomer writes over a waiter's 2 loses no wakeup.
NoSleeperForgotten ==
    At("asleep") # {} =>
        \/ futex = 2
        \/ At("wake") \cup At("retry") # {}
        \/ \E t \in At("contend") : seen[t] = 1

\* Signals sent since thread t let the mutex go, and on their way to somebody still.
OnTheirWay(t) == {u \in At("signal") \cup At("broadcast") : seen[u] > since[t]}

\* A thread sleeps through a signal only if the signal woke another or has yet to
\* wake somebody: none falls between unlocking the mutex and going to sleep ("a
\* condvar must release the mutex atomically with the wait", libc_compat.c:336).
EverySignalReachesAWaiter ==
    \A t \in At("blocked") : passed[t] + Cardinality(OnTheirWay(t)) = seq - since[t]

\* To its callers the two words are a monitor: a thread is inside from the swap that
\* takes the word to the exchange that gives it back, where a wait begins.
Inside == [t \in Threads |-> IF pc[t] \in {"own", "release"} THEN 1 ELSE depth[t]]
Waiting == {t \in Threads : waits[t] /\ pc[t] # "release"}
Abstract == INSTANCE Monitor WITH inside <- Inside, waiting <- Waiting
ImplementsMonitor == Abstract!Spec

\* If the mutex is free again and again, then while a thread sleeps on it somebody
\* gets in: the lock never stays with sleepers and no holder (Wake, FutexWait).
SomebodyGetsIn ==
    ([]<>(\A t \in Threads : depth[t] = 0)) => (At("asleep") # {} ~> At("own") # {})
=============================================================================
