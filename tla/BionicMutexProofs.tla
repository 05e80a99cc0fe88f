--------------------------- MODULE BionicMutexProofs ---------------------------
(* Proofs of BionicMutex: its safety properties, and that it is a Monitor. *)
EXTENDS BionicMutex, FiniteSetTheorems, TLAPS

\* A thread in the middle of a call knows of no lock, unless it is signalling.
HolderInv ==
    /\ \A t \in Threads : depth[t] > 0 => pc[t] \in {"out", "signal", "broadcast"}
    /\ \A t, u \in Holders : t = u
    /\ Holders = {} <=> futex = 0
    /\ type = Normal => recursion = 0 /\ \A t \in Threads : depth[t] <= 1

\* What a thread that contends has read is not the free word.
SleepInv ==
    /\ \A t \in At("contend") : seen[t] \in {1, 2}
    /\ NoSleeperForgotten

\* What was read before the mutex was let go is not newer than what stood then.
CondInv ==
    /\ \A t \in Threads : waits[t] => pc[t] \notin {"out", "own", "signal", "broadcast"}
    /\ \A t \in At("release") : waits[t] => seen[t] <= seq
    /\ \A t \in At("wake") : waits[t] => seen[t] <= since[t]
    /\ \A t \in At("block") : seen[t] <= since[t]
    /\ \A t \in Threads : since[t] <= seq
    /\ \A t \in At("signal") \cup At("broadcast") : seen[t] <= seq

IInv ==
    /\ TypeOK
    /\ HolderInv
    /\ RecursionIsDepth
    /\ SleepInv
    /\ CondInv
    /\ EverySignalReachesAWaiter

-----------------------------------------------------------------------------
(* Types *)

LEMMA InitTypeOK == Init => TypeOK
  BY BoundsAssumption DEF Init, TypeOK, Places, Locking, Normal, Recursive, ErrorCheck

LEMMA AcquireTypes ==
  ASSUME TypeOK, NEW t \in Threads, NEW to \in {1, 2}, futex = 0, Acquire(t, to),
         UNCHANGED <<type, owner, recursion, seq, depth>>
  PROVE  TypeOK'
<1> USE DEF TypeOK, Acquire
<1>1. futex' \in 0 .. 2
  OBVIOUS
<1>2. since' \in [Threads -> 0 .. MaxSeq] /\ passed' \in [Threads -> Nat]
  BY BoundsAssumption
<1>3. seen' \in [Threads -> Nat]
  OBVIOUS
<1>4. waits' \in [Threads -> BOOLEAN]
  <2>1. waits' = [waits EXCEPT ![t] = FALSE]
    OBVIOUS
  <2> QED
    BY <2>1
<1>5. pc' \in [Threads -> Places]
  BY DEF Goto, Places
<1> QED
  BY <1>1, <1>2, <1>3, <1>4, <1>5

LEMMA TypeStep ==
  ASSUME TypeOK, HolderInv, RecursionIsDepth, [Next]_vars
  PROVE  TypeOK'
<1> USE BoundsAssumption DEF TypeOK, Places, Locking, Goto, history
<1>1. CASE UNCHANGED vars
  BY <1>1 DEF vars, mutex
<1>2. ASSUME NEW t \in Threads, Lock(t) PROVE TypeOK'
  BY <1>2 DEF Lock, mutex
<1>3. ASSUME NEW t \in Threads, Reenter(t) PROVE TypeOK'
  BY <1>3 DEF Reenter, RecursionIsDepth, Recursive, Normal
<1>4. ASSUME NEW t \in Threads, UnlockOnce(t) PROVE TypeOK'
  BY <1>4 DEF UnlockOnce, StaysLocked
<1>5. ASSUME NEW t \in Threads, Unlock(t) PROVE TypeOK'
  BY <1>5 DEF Unlock, OwnerAfter
<1>6. ASSUME NEW t \in Threads, CondWait(t) PROVE TypeOK'
  BY <1>6 DEF CondWait, OwnerAfter
<1>7. ASSUME NEW t \in Threads, NEW how \in {"signal", "broadcast"}, Notify(t, how) PROVE TypeOK'
  BY <1>7 DEF Notify, mutex
<1>8. ASSUME NEW t \in Threads, Interrupted(t) PROVE TypeOK'
  BY <1>8 DEF Interrupted, mutex
<1>9. ASSUME NEW t \in Threads, Continue(t) PROVE TypeOK'
  <2>1. CASE TryLock(t)
    <3>1. CASE futex = 0
      BY <2>1, <3>1, AcquireTypes DEF TryLock
    <3>2. CASE futex # 0
      BY <2>1, <3>2 DEF TryLock, Acquire
    <3> QED
      BY <3>1, <3>2
  <2>2. CASE Contend(t)
    BY <2>2 DEF Contend
  <2>3. CASE FutexWait(t)
    BY <2>3 DEF FutexWait, mutex
  <2>4. CASE Retry(t)
    <3>1. CASE futex = 0
      BY <2>4, <3>1, AcquireTypes DEF Retry, RetryValue
    <3>2. CASE futex # 0
      BY <2>4, <3>2 DEF Retry, Acquire
    <3> QED
      BY <3>1, <3>2
  <2>5. CASE Own(t)
    BY <2>5 DEF Own
  <2>6. CASE Release(t)
    BY <2>6 DEF Release, Unlocked
  <2>7. CASE Wake(t)
    BY <2>7 DEF Wake, Unlocked, At, mutex
  <2>8. CASE Block(t)
    BY <2>8 DEF Block, NothingSince, mutex
  <2>9. CASE WakeOne(t)
    BY <2>9 DEF WakeOne, PassedOver, At, mutex
  <2>10. CASE WakeAll(t)
    BY <2>10 DEF WakeAll, mutex
  <2> QED
    BY <1>9, <2>1, <2>2, <2>3, <2>4, <2>5, <2>6, <2>7, <2>8, <2>9, <2>10 DEF Continue
<1> QED
  BY <1>1, <1>2, <1>3, <1>4, <1>5, <1>6, <1>7, <1>8, <1>9 DEF Next, Refuse

-----------------------------------------------------------------------------
(* Who is inside *)

LEMMA InitHolderInv == Init => HolderInv /\ RecursionIsDepth
  BY ThreadsAssumption DEF Init, HolderInv, RecursionIsDepth, Holders

LEMMA HolderStep ==
  ASSUME TypeOK, HolderInv, RecursionIsDepth, SleepInv, CondInv, [Next]_vars
  PROVE  HolderInv' /\ RecursionIsDepth'
<1> USE ThreadsAssumption, BoundsAssumption
    DEF TypeOK, HolderInv, RecursionIsDepth, Holders, Goto
<1>1. CASE UNCHANGED vars
  BY <1>1 DEF vars, mutex
<1>2. ASSUME NEW t \in Threads, Lock(t) PROVE HolderInv' /\ RecursionIsDepth'
  BY <1>2 DEF Lock, mutex
<1>3. ASSUME NEW t \in Threads, Reenter(t) PROVE HolderInv' /\ RecursionIsDepth'
  BY <1>3 DEF Reenter, Normal, Recursive
<1>4. ASSUME NEW t \in Threads, UnlockOnce(t) PROVE HolderInv' /\ RecursionIsDepth'
  BY <1>4 DEF UnlockOnce, StaysLocked
<1>5. ASSUME NEW t \in Threads, Unlock(t) PROVE HolderInv' /\ RecursionIsDepth'
  BY <1>5 DEF Unlock, OwnerAfter, StaysLocked
<1>6. ASSUME NEW t \in Threads, CondWait(t) PROVE HolderInv' /\ RecursionIsDepth'
  BY <1>6 DEF CondWait, OwnerAfter
<1>7. ASSUME NEW t \in Threads, NEW how \in {"signal", "broadcast"}, Notify(t, how)
      PROVE  HolderInv' /\ RecursionIsDepth'
  BY <1>7 DEF Notify, mutex
<1>8. ASSUME NEW t \in Threads, Interrupted(t) PROVE HolderInv' /\ RecursionIsDepth'
  BY <1>8 DEF Interrupted, mutex
<1>9. ASSUME NEW t \in Threads, Continue(t) PROVE HolderInv' /\ RecursionIsDepth'
  <2>1. CASE TryLock(t)
    BY <2>1 DEF TryLock, Acquire
  <2>2. CASE Contend(t)
    BY <2>2 DEF Contend, SleepInv, At
  <2>3. CASE FutexWait(t)
    BY <2>3 DEF FutexWait, mutex
  <2>4. CASE Retry(t)
    BY <2>4 DEF Retry, Acquire, RetryValue
  <2>5. CASE Own(t)
    BY <2>5 DEF Own
  <2>6. CASE Release(t)
    BY <2>6 DEF Release, Unlocked
  <2>7. CASE Wake(t)
    BY <2>7 DEF Wake, Unlocked, At, mutex
  <2>8. CASE Block(t)
    BY <2>8 DEF Block, NothingSince, mutex
  <2>9. CASE WakeOne(t)
    BY <2>9 DEF WakeOne, At, mutex
  <2>10. CASE WakeAll(t)
    BY <2>10 DEF WakeAll, mutex
  <2> QED
    BY <1>9, <2>1, <2>2, <2>3, <2>4, <2>5, <2>6, <2>7, <2>8, <2>9, <2>10 DEF Continue
<1> QED
  BY <1>1, <1>2, <1>3, <1>4, <1>5, <1>6, <1>7, <1>8, <1>9 DEF Next, Refuse

-----------------------------------------------------------------------------
(* Sleepers *)

LEMMA InitSleepInv == Init => SleepInv
  BY DEF Init, SleepInv, NoSleeperForgotten, At

LEMMA SleepStep ==
  ASSUME TypeOK, HolderInv, SleepInv, [Next]_vars
  PROVE  SleepInv'
<1> USE DEF TypeOK, SleepInv, NoSleeperForgotten, At, Goto
<1>1. CASE UNCHANGED vars
  BY <1>1 DEF vars, mutex
<1>2. ASSUME NEW t \in Threads, Lock(t) PROVE SleepInv'
  BY <1>2 DEF Lock, mutex
<1>3. ASSUME NEW t \in Threads, Reenter(t) PROVE SleepInv'
  BY <1>3 DEF Reenter
<1>4. ASSUME NEW t \in Threads, UnlockOnce(t) PROVE SleepInv'
  BY <1>4 DEF UnlockOnce
<1>5. ASSUME NEW t \in Threads, Unlock(t) PROVE SleepInv'
  BY <1>5 DEF Unlock
<1>6. ASSUME NEW t \in Threads, CondWait(t) PROVE SleepInv'
  BY <1>6 DEF CondWait
<1>7. ASSUME NEW t \in Threads, NEW how \in {"signal", "broadcast"}, Notify(t, how)
      PROVE  SleepInv'
  BY <1>7 DEF Notify, mutex
<1>8. ASSUME NEW t \in Threads, Interrupted(t) PROVE SleepInv'
  BY <1>8 DEF Interrupted, mutex
<1>9. ASSUME NEW t \in Threads, Continue(t) PROVE SleepInv'
  <2>1. CASE TryLock(t)
    BY <2>1 DEF TryLock, Acquire
  <2>2. CASE Contend(t)
    BY <2>2 DEF Contend
  <2>3. CASE FutexWait(t)
    BY <2>3 DEF FutexWait, mutex
  <2>4. CASE Retry(t)
    BY <2>4 DEF Retry, Acquire, RetryValue
  <2>5. CASE Own(t)
    BY <2>5 DEF Own
  <2>6. CASE Release(t)
    BY <2>6 DEF Release, Unlocked
  <2>7. CASE Wake(t)
    BY <2>7 DEF Wake, Unlocked, mutex
  <2>8. CASE Block(t)
    BY <2>8 DEF Block, mutex
  <2>9. CASE WakeOne(t)
    BY <2>9 DEF WakeOne, mutex
  <2>10. CASE WakeAll(t)
    BY <2>10 DEF WakeAll, mutex
  <2> QED
    BY <1>9, <2>1, <2>2, <2>3, <2>4, <2>5, <2>6, <2>7, <2>8, <2>9, <2>10 DEF Continue
<1> QED
  BY <1>1, <1>2, <1>3, <1>4, <1>5, <1>6, <1>7, <1>8, <1>9 DEF Next, Refuse

-----------------------------------------------------------------------------
(* Signals *)

LEMMA InitCondInv == Init => CondInv
  BY BoundsAssumption DEF Init, CondInv, At

LEMMA CondStep ==
  ASSUME TypeOK, CondInv, [Next]_vars
  PROVE  CondInv'
<1> USE BoundsAssumption DEF TypeOK, CondInv, At, Goto, history
<1>1. CASE UNCHANGED vars
  BY <1>1 DEF vars, mutex
<1>2. ASSUME NEW t \in Threads, Lock(t) PROVE CondInv'
  BY <1>2 DEF Lock, mutex
<1>3. ASSUME NEW t \in Threads, Reenter(t) PROVE CondInv'
  BY <1>3 DEF Reenter
<1>4. ASSUME NEW t \in Threads, UnlockOnce(t) PROVE CondInv'
  BY <1>4 DEF UnlockOnce
<1>5. ASSUME NEW t \in Threads, Unlock(t) PROVE CondInv'
  BY <1>5 DEF Unlock
<1>6. ASSUME NEW t \in Threads, CondWait(t) PROVE CondInv'
  BY <1>6 DEF CondWait
<1>7. ASSUME NEW t \in Threads, NEW how \in {"signal", "broadcast"}, Notify(t, how)
      PROVE  CondInv'
  BY <1>7 DEF Notify, mutex
<1>8. ASSUME NEW t \in Threads, Interrupted(t) PROVE CondInv'
  BY <1>8 DEF Interrupted, mutex
<1>9. ASSUME NEW t \in Threads, Continue(t) PROVE CondInv'
  <2>1. CASE TryLock(t)
    BY <2>1 DEF TryLock, Acquire
  <2>2. CASE Contend(t)
    BY <2>2 DEF Contend
  <2>3. CASE FutexWait(t)
    BY <2>3 DEF FutexWait, mutex
  <2>4. CASE Retry(t)
    BY <2>4 DEF Retry, Acquire
  <2>5. CASE Own(t)
    BY <2>5 DEF Own
  <2>6. CASE Release(t)
    BY <2>6 DEF Release, Unlocked
  <2>7. CASE Wake(t)
    BY <2>7 DEF Wake, Unlocked, mutex
  <2>8. CASE Block(t)
    BY <2>8 DEF Block, mutex
  <2>9. CASE WakeOne(t)
    BY <2>9 DEF WakeOne, mutex
  <2>10. CASE WakeAll(t)
    BY <2>10 DEF WakeAll, mutex
  <2> QED
    BY <1>9, <2>1, <2>2, <2>3, <2>4, <2>5, <2>6, <2>7, <2>8, <2>9, <2>10 DEF Continue
<1> QED
  BY <1>1, <1>2, <1>3, <1>4, <1>5, <1>6, <1>7, <1>8, <1>9 DEF Next, Refuse

LEMMA FewOnTheirWay ==
  ASSUME NEW t \in Threads
  PROVE  IsFiniteSet(OnTheirWay(t)) /\ Cardinality(OnTheirWay(t)) \in Nat
<1>1. IsFiniteSet(OnTheirWay(t))
  BY ThreadsAssumption, FS_Subset DEF OnTheirWay, At
<1> QED
  BY <1>1, FS_CardinalityType

LEMMA InitSignals == Init => EverySignalReachesAWaiter
  BY DEF Init, EverySignalReachesAWaiter, At

\* Steps after which a blocked thread was blocked before, with the same signals.
LEMMA SameSignals ==
  ASSUME TypeOK, EverySignalReachesAWaiter, NEW u \in At("blocked"),
         passed'[u] = passed[u], since'[u] = since[u], seq' = seq,
         OnTheirWay(u)' = OnTheirWay(u)
  PROVE  passed'[u] + Cardinality(OnTheirWay(u)') = seq' - since'[u]
  BY DEF EverySignalReachesAWaiter

LEMMA SignalStep ==
  ASSUME TypeOK, CondInv, EverySignalReachesAWaiter, [Next]_vars
  PROVE  EverySignalReachesAWaiter'
<1> SUFFICES ASSUME NEW u \in Threads, pc'[u] = "blocked"
             PROVE  passed'[u] + Cardinality(OnTheirWay(u)') = seq' - since'[u]
  BY DEF EverySignalReachesAWaiter, At
<1> USE DEF TypeOK, At, Goto, history
<1>0. ASSUME pc[u] = "blocked", passed'[u] = passed[u], since'[u] = since[u], seq' = seq,
             \A v \in Threads : pc'[v] \in {"signal", "broadcast"}
                                    <=> pc[v] \in {"signal", "broadcast"},
             \A v \in Threads : pc[v] \in {"signal", "broadcast"} => seen'[v] = seen[v]
      PROVE  passed'[u] + Cardinality(OnTheirWay(u)') = seq' - since'[u]
  <2>1. OnTheirWay(u)' = OnTheirWay(u)
    BY <1>0 DEF OnTheirWay
  <2> QED
    BY <1>0, <2>1, SameSignals
<1>1. CASE UNCHANGED vars
  BY <1>0, <1>1 DEF vars, mutex
<1>2. ASSUME NEW t \in Threads, Lock(t)
      PROVE  passed'[u] + Cardinality(OnTheirWay(u)') = seq' - since'[u]
  BY <1>0, <1>2 DEF Lock, mutex
<1>3. ASSUME NEW t \in Threads, Reenter(t)
      PROVE  passed'[u] + Cardinality(OnTheirWay(u)') = seq' - since'[u]
  BY <1>0, <1>3 DEF Reenter
<1>4. ASSUME NEW t \in Threads, UnlockOnce(t)
      PROVE  passed'[u] + Cardinality(OnTheirWay(u)') = seq' - since'[u]
  BY <1>0, <1>4 DEF UnlockOnce
<1>5. ASSUME NEW t \in Threads, Unlock(t)
      PROVE  passed'[u] + Cardinality(OnTheirWay(u)') = seq' - since'[u]
  BY <1>0, <1>5 DEF Unlock
<1>6. ASSUME NEW t \in Threads, CondWait(t)
      PROVE  passed'[u] + Cardinality(OnTheirWay(u)') = seq' - since'[u]
  BY <1>0, <1>6 DEF CondWait
<1>7. ASSUME NEW t \in Threads, NEW how \in {"signal", "broadcast"}, Notify(t, how)
      PROVE  passed'[u] + Cardinality(OnTheirWay(u)') = seq' - since'[u]
  <2>1. pc[u] = "blocked" /\ t # u /\ pc[t] = "out"
    BY <1>7 DEF Notify
  <2>2. passed' = passed /\ since' = since /\ seq' = seq + 1
    BY <1>7 DEF Notify
  <2>3. OnTheirWay(u)' = OnTheirWay(u) \cup {t} /\ t \notin OnTheirWay(u)
    BY <1>7, <2>1, <2>2 DEF Notify, OnTheirWay, CondInv
  <2>4. Cardinality(OnTheirWay(u)') = Cardinality(OnTheirWay(u)) + 1
    BY <2>3, FewOnTheirWay, FS_AddElement
  <2> QED
    BY <2>1, <2>2, <2>4, FewOnTheirWay DEF EverySignalReachesAWaiter
<1>8. ASSUME NEW t \in Threads, Interrupted(t)
      PROVE  passed'[u] + Cardinality(OnTheirWay(u)') = seq' - since'[u]
  BY <1>0, <1>8 DEF Interrupted, mutex
<1>9. ASSUME NEW t \in Threads, Continue(t)
      PROVE  passed'[u] + Cardinality(OnTheirWay(u)') = seq' - since'[u]
  <2>1. CASE TryLock(t)
    BY <1>0, <2>1 DEF TryLock, Acquire
  <2>2. CASE Contend(t)
    BY <1>0, <2>2 DEF Contend
  <2>3. CASE FutexWait(t)
    BY <1>0, <2>3 DEF FutexWait, mutex
  <2>4. CASE Retry(t)
    BY <1>0, <2>4 DEF Retry, Acquire
  <2>5. CASE Own(t)
    BY <1>0, <2>5 DEF Own
  <2>6. CASE Release(t)
    BY <1>0, <2>6 DEF Release, Unlocked
  <2>7. CASE Wake(t)
    BY <1>0, <2>7 DEF Wake, Unlocked, mutex
  <2>8. CASE Block(t)
    <3>1. CASE t = u
      <4>1. seq' = seq /\ since' = since /\ passed'[u] = 0 /\ seq = seen[u] /\ pc[u] = "block"
        BY <2>8, <3>1 DEF Block, NothingSince, mutex
      <4>2. since[u] = seq
        BY <4>1 DEF CondInv
      <4>3. OnTheirWay(u)' = {}
        BY <2>8, <4>1, <4>2, <3>1 DEF Block, OnTheirWay, CondInv
      <4> QED
        BY <4>1, <4>2, <4>3, FS_EmptySet
    <3>2. CASE t # u
      BY <1>0, <2>8, <3>2 DEF Block, mutex
    <3> QED
      BY <3>1, <3>2
  <2>9. CASE WakeOne(t)
    <3>1. PICK w \in At("blocked") :
            /\ pc' = [pc EXCEPT ![t] = "out", ![w] = "lock"]
            /\ passed' = PassedOver(t, w)
      BY <2>9 DEF WakeOne
    <3>2. pc[u] = "blocked" /\ u # w /\ u # t /\ pc[t] = "signal"
      BY <2>9, <3>1 DEF WakeOne
    <3>3. seq' = seq /\ since' = since /\ seen' = [seen EXCEPT ![t] = 0]
      BY <2>9 DEF WakeOne
    <3>4. CASE since[u] < seen[t]
      <4>1. passed'[u] = passed[u] + 1
        BY <3>1, <3>2, <3>4 DEF PassedOver
      <4>2. OnTheirWay(u)' = OnTheirWay(u) \ {t} /\ t \in OnTheirWay(u)
        BY <3>1, <3>2, <3>3, <3>4 DEF OnTheirWay
      <4>3. Cardinality(OnTheirWay(u)') = Cardinality(OnTheirWay(u)) - 1
        BY <4>2, FewOnTheirWay, FS_RemoveElement
      <4> QED
        BY <3>2, <3>3, <4>1, <4>3, FewOnTheirWay DEF EverySignalReachesAWaiter
    <3>5. CASE ~(since[u] < seen[t])
      <4>1. passed'[u] = passed[u]
        BY <3>1, <3>2, <3>5 DEF PassedOver
      <4>2. OnTheirWay(u)' = OnTheirWay(u)
        BY <3>1, <3>2, <3>3, <3>5 DEF OnTheirWay
      <4> QED
        BY <3>2, <3>3, <4>1, <4>2, SameSignals
    <3> QED
      BY <3>4, <3>5
  <2>10. CASE WakeAll(t)
    BY <2>10 DEF WakeAll
  <2> QED
    BY <1>9, <2>1, <2>2, <2>3, <2>4, <2>5, <2>6, <2>7, <2>8, <2>9, <2>10 DEF Continue
<1> QED
  BY <1>1, <1>2, <1>3, <1>4, <1>5, <1>6, <1>7, <1>8, <1>9 DEF Next, Refuse

-----------------------------------------------------------------------------
(* Theorems *)

LEMMA InitIInv == Init => IInv
  BY InitTypeOK, InitHolderInv, InitSleepInv, InitCondInv, InitSignals DEF IInv

LEMMA IInvStep == IInv /\ [Next]_vars => IInv'
  BY TypeStep, HolderStep, SleepStep, CondStep, SignalStep DEF IInv

THEOREM Invariance == Spec => []IInv
<1>1. Init => IInv
  BY InitIInv
<1>2. IInv /\ [Next]_vars => IInv'
  BY IInvStep
<1> QED
  BY <1>1, <1>2, PTL DEF Spec

\* The mutex and the condition variable are well typed in every reachable state.
THEOREM TypeCorrect == Spec => []TypeOK
<1>1. IInv => TypeOK
  BY DEF IInv
<1> QED
  BY <1>1, Invariance, PTL

\* Mutual exclusion (pthread_mutex_lock, pthread_mutex_unlock, pthread_cond_wait).
THEOREM MutualExclusion == Spec => []OneHolder
<1>1. IInv => OneHolder
  BY DEF IInv, HolderInv, OneHolder
<1> QED
  BY <1>1, Invariance, PTL

\* A recursive mutex counts what its holder counts.
THEOREM RecursionCounts == Spec => []RecursionIsDepth
<1>1. IInv => RecursionIsDepth
  BY DEF IInv
<1> QED
  BY <1>1, Invariance, PTL

\* No wakeup of the mutex is lost (the 0, 1, 2 of its word).
THEOREM SleepersAreWoken == Spec => []NoSleeperForgotten
<1>1. IInv => NoSleeperForgotten
  BY DEF IInv, SleepInv
<1> QED
  BY <1>1, Invariance, PTL

\* Who can be waited for: awake, and the mutex is its own or it has yet to wake somebody or to put
\* the word right.
Owes(t) ==
    \/ t \in Holders /\ futex = 2 /\ pc[t] \in {"out", "signal", "broadcast", "own", "release"}
    \/ pc[t] \in {"wake", "retry"}
    \/ pc[t] = "contend" /\ seen[t] = 1

\* While a thread sleeps on the mutex another owes it a wake: one that is awake and holds the mutex
\* with a 2 in its word, which its unlock will see, or that is on its way to wake or to contend; so
\* never are all threads asleep with one of them on the mutex (pthread_mutex_unlock, FutexWait).
THEOREM SleepersAreOwedAWake == Spec => [](At("asleep") # {} => \E t \in Threads : Owes(t))
<1>1. IInv => (At("asleep") # {} => \E t \in Threads : Owes(t))
  <2> SUFFICES ASSUME IInv, At("asleep") # {} PROVE \E t \in Threads : Owes(t)
    OBVIOUS
  <2>1. CASE futex = 2
    <3>1. PICK t \in Threads : t \in Holders
      BY <2>1 DEF IInv, HolderInv, Holders
    <3>2. pc[t] \in {"out", "signal", "broadcast", "own", "release"}
      BY <3>1, BoundsAssumption DEF IInv, HolderInv, Holders
    <3> QED
      BY <2>1, <3>1, <3>2 DEF Owes
  <2>2. CASE futex # 2
    BY <2>2 DEF IInv, SleepInv, NoSleeperForgotten, At, Owes
  <2> QED
    BY <2>1, <2>2
<1> QED
  BY <1>1, Invariance, PTL

\* No signal falls between the unlock and the sleep of pthread_cond_wait.
THEOREM SignalsReachWaiters == Spec => []EverySignalReachesAWaiter
<1>1. IInv => EverySignalReachesAWaiter
  BY DEF IInv
<1> QED
  BY <1>1, Invariance, PTL

-----------------------------------------------------------------------------
(* Refinement *)

LEMMA InitRefines == Init => Abstract!Init
  BY DEF Init, Abstract!Init, Inside, Waiting

\* The word is taken: a thread comes in, and out of the wait it was in.
LEMMA AcquireRefines ==
  ASSUME IInv, NEW t \in Threads, NEW to \in {1, 2}, futex = 0, Acquire(t, to),
         pc[t] \in {"lock", "retry"}, depth' = depth
  PROVE  Abstract!Enter(t)
<1> USE DEF IInv, TypeOK
<1>1. /\ pc' = [pc EXCEPT ![t] = "own"]
      /\ waits' = [waits EXCEPT ![t] = FALSE]
  BY DEF Acquire, Goto
<1>2. Abstract!Free
  BY DEF Abstract!Free, Inside, HolderInv, Holders
<1>3. depth[t] = 0
  BY DEF HolderInv
<1>4. Inside' = [Inside EXCEPT ![t] = 1]
  BY <1>1, <1>3 DEF Inside
<1>5. Waiting' = Waiting \ {t}
  BY <1>1 DEF Waiting
<1> QED
  BY <1>2, <1>4, <1>5 DEF Abstract!Enter

\* Steps the monitor does not see.
LEMMA Unseen ==
  ASSUME IInv, depth' = depth, waits' = waits,
         \A v \in Threads : pc'[v] \in {"own", "release"} <=> pc[v] \in {"own", "release"},
         \A v \in Threads : waits[v] => (pc'[v] = "release" <=> pc[v] = "release")
  PROVE  UNCHANGED <<Inside, Waiting>>
<1>1. Inside' = Inside
  <2>1. \A v \in Threads : (IF pc'[v] \in {"own", "release"} THEN 1 ELSE depth[v])
                           = (IF pc[v] \in {"own", "release"} THEN 1 ELSE depth[v])
    OBVIOUS
  <2> QED
    BY <2>1, Zenon DEF Inside
<1>2. Waiting' = Waiting
  BY DEF Waiting
<1> QED
  BY <1>1, <1>2

LEMMA StepRefines ==
  ASSUME IInv, [Next]_vars
  PROVE  Abstract!Next \/ UNCHANGED <<Inside, Waiting>>
<1> USE DEF IInv, TypeOK, At, Goto
<1> DEFINE Goal == Abstract!Next \/ UNCHANGED <<Inside, Waiting>>
<1>1. CASE UNCHANGED vars
  BY <1>1, Unseen DEF vars, mutex
<1>2. ASSUME NEW t \in Threads, Lock(t) PROVE Goal
  BY <1>2, Unseen DEF Lock
<1>3. ASSUME NEW t \in Threads, Reenter(t) PROVE Goal
  <2>1. /\ pc' = pc /\ waits' = waits /\ depth' = [depth EXCEPT ![t] = @ + 1]
        /\ pc[t] = "out" /\ depth[t] > 0
    BY <1>3 DEF Reenter, RecursionIsDepth, Recursive, Normal
  <2>2. Inside' = [Inside EXCEPT ![t] = @ + 1] /\ Inside[t] > 0
    BY <2>1 DEF Inside
  <2>3. Waiting' = Waiting
    BY <2>1 DEF Waiting
  <2> QED
    BY <2>2, <2>3 DEF Abstract!Next, Abstract!Reenter
<1>4. ASSUME NEW t \in Threads, UnlockOnce(t) PROVE Goal
  <2>1. /\ pc' = pc /\ waits' = waits /\ depth' = [depth EXCEPT ![t] = @ - 1]
        /\ pc[t] = "out" /\ depth[t] > 0
    BY <1>4 DEF UnlockOnce
  <2>2. Inside' = [Inside EXCEPT ![t] = @ - 1] /\ Inside[t] > 0
    BY <2>1 DEF Inside
  <2>3. Waiting' = Waiting
    BY <2>1 DEF Waiting
  <2> QED
    BY <2>2, <2>3 DEF Abstract!Next, Abstract!Leave
<1>5. ASSUME NEW t \in Threads, Unlock(t) PROVE Goal
  <2>0. depth[t] = 1
    <3>1. depth[t] > 0 /\ (type = Normal \/ ~(recursion > 0)) /\ recursion \in Nat
      BY <1>5, BoundsAssumption DEF Unlock, StaysLocked
    <3>2. type = Normal => depth[t] <= 1
      BY DEF HolderInv
    <3>3. type # Normal => recursion = depth[t] - 1
      BY <3>1 DEF RecursionIsDepth
    <3>4. depth[t] \in Nat
      BY BoundsAssumption
    <3> QED
      BY <3>1, <3>2, <3>3, <3>4
  <2>1. /\ pc' = [pc EXCEPT ![t] = "release"] /\ waits' = waits /\ ~waits[t]
        /\ pc[t] = "out" /\ depth' = [depth EXCEPT ![t] = 0]
    BY <1>5, <2>0 DEF Unlock, CondInv
  <2>2. Inside' = Inside
    BY <2>0, <2>1 DEF Inside
  <2>3. Waiting' = Waiting
    BY <2>1 DEF Waiting
  <2> QED
    BY <2>2, <2>3
<1>6. ASSUME NEW t \in Threads, CondWait(t) PROVE Goal
  <2>1. /\ pc' = [pc EXCEPT ![t] = "release"] /\ waits' = [waits EXCEPT ![t] = TRUE]
        /\ ~waits[t] /\ pc[t] = "out" /\ depth[t] = 1 /\ depth' = [depth EXCEPT ![t] = 0]
    BY <1>6 DEF CondWait, CondInv
  <2>2. Inside' = Inside
    BY <2>1 DEF Inside
  <2>3. Waiting' = Waiting
    BY <2>1 DEF Waiting
  <2> QED
    BY <2>2, <2>3
<1>7. ASSUME NEW t \in Threads, NEW how \in {"signal", "broadcast"}, Notify(t, how) PROVE Goal
  BY <1>7, Unseen DEF Notify
<1>8. ASSUME NEW t \in Threads, Interrupted(t) PROVE Goal
  BY <1>8, Unseen DEF Interrupted
<1>9. ASSUME NEW t \in Threads, Continue(t) PROVE Goal
  <2>1. CASE TryLock(t)
    <3>1. CASE futex = 0
      BY <2>1, <3>1, AcquireRefines DEF TryLock, Abstract!Next
    <3>2. CASE futex # 0
      BY <2>1, <3>2, Unseen DEF TryLock, Acquire
    <3> QED
      BY <3>1, <3>2
  <2>2. CASE Contend(t)
    BY <2>2, Unseen DEF Contend
  <2>3. CASE FutexWait(t)
    BY <2>3, Unseen DEF FutexWait
  <2>4. CASE Retry(t)
    <3>1. CASE futex = 0
      BY <2>4, <3>1, AcquireRefines DEF Retry, RetryValue, Abstract!Next
    <3>2. CASE futex # 0
      BY <2>4, <3>2, Unseen DEF Retry, Acquire
    <3> QED
      BY <3>1, <3>2
  <2>5. CASE Own(t)
    <3>1. /\ pc' = [pc EXCEPT ![t] = "out"] /\ waits' = waits /\ ~waits[t]
          /\ pc[t] = "own" /\ depth' = [depth EXCEPT ![t] = 1]
      BY <2>5 DEF Own, CondInv
    <3>2. Inside' = Inside
      BY <3>1 DEF Inside
    <3>3. Waiting' = Waiting
      BY <3>1 DEF Waiting
    <3> QED
      BY <3>2, <3>3
  <2>6. CASE Release(t)
    <3>1. /\ pc' = [pc EXCEPT ![t] = IF futex = 2 THEN "wake" ELSE Unlocked(t)]
          /\ waits' = waits /\ pc[t] = "release" /\ depth' = depth /\ depth[t] = 0
      BY <2>6 DEF Release, HolderInv
    <3>2. pc'[t] \notin {"own", "release"}
      BY <3>1 DEF Unlocked
    <3>3. Inside[t] = 1 /\ Inside' = [Inside EXCEPT ![t] = 0]
      BY <3>1, <3>2 DEF Inside
    <3>4. CASE waits[t]
      <4>1. Waiting' = Waiting \cup {t}
        BY <3>1, <3>2, <3>4 DEF Waiting
      <4> QED
        BY <3>3, <4>1 DEF Abstract!Next, Abstract!Wait
    <3>5. CASE ~waits[t]
      <4>1. Waiting' = Waiting
        BY <3>1, <3>2, <3>5 DEF Waiting
      <4>2. Inside' = [Inside EXCEPT ![t] = Inside[t] - 1] /\ Inside[t] > 0
        BY <3>3
      <4>3. Abstract!Leave(t)
        BY <4>1, <4>2 DEF Abstract!Leave
      <4> QED
        BY <4>3 DEF Abstract!Next
    <3> QED
      BY <3>4, <3>5
  <2>7. CASE Wake(t)
    BY <2>7, Unseen DEF Wake, Unlocked
  <2>8. CASE Block(t)
    BY <2>8, Unseen DEF Block
  <2>9. CASE WakeOne(t)
    BY <2>9, Unseen DEF WakeOne
  <2>10. CASE WakeAll(t)
    BY <2>10, Unseen DEF WakeAll
  <2> QED
    BY <1>9, <2>1, <2>2, <2>3, <2>4, <2>5, <2>6, <2>7, <2>8, <2>9, <2>10 DEF Continue
<1> QED
  BY <1>1, <1>2, <1>3, <1>4, <1>5, <1>6, <1>7, <1>8, <1>9 DEF Next, Refuse

\* The mutex and the condition variable are a monitor, in which a wait gives the mutex
\* up and begins in one step.
THEOREM IsAMonitor == Spec => ImplementsMonitor
<1>1. IInv /\ [Next]_vars => [Abstract!Next]_<<Inside, Waiting>>
  BY StepRefines
<1> QED
  BY <1>1, InitRefines, Invariance, PTL DEF Spec, ImplementsMonitor, Abstract!Spec
=============================================================================
