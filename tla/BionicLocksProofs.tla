--------------------------- MODULE BionicLocksProofs ---------------------------
(* Proofs of the safety properties of BionicLocks. *)
EXTENDS BionicLocks, FiniteSetTheorems, TLAPS

\* What the word counts, and what a thread in a call on the lock has read of it.
WordInv ==
    /\ WordCountsHolders
    /\ \A t \in Threads : pc[t] \in ReadPlaces \cup WritePlaces \cup {"wake"} => holds[t] = Nothing
    /\ \A t \in At("rdswap") : seen[t] >= 0
    /\ \A t \in At("rdwait") : seen[t] < 0
    /\ \A t \in At("wrwait") : seen[t] # 0

\* RUNNING is one thread, before or after its routine has ended.
RunningThreads == At("init") \cup At("done")

OnceInv ==
    /\ \A t, u \in RunningThreads : t = u
    /\ RunningThreads # {} <=> once = Running
    /\ once = Pending => inits = 0
    /\ At("init") # {} => inits = 0
    /\ At("done") # {} => inits = 1
    /\ once = Done => inits = 1
    /\ At("oncewake") # {} \/ returned => once = Done

IInv == TypeOK /\ WordInv /\ OnceInv /\ NoSleeperForgotten

-----------------------------------------------------------------------------
(* The read-write lock *)

LEMMA FewReaders == IsFiniteSet(Readers) /\ Cardinality(Readers) \in Nat
<1>1. IsFiniteSet(Readers)
  BY ThreadsAssumption, FS_Subset DEF Readers
<1> QED
  BY <1>1, FS_CardinalityType

\* A writer alone, or readers.
LEMMA WordCases ==
  ASSUME WordCountsHolders
  PROVE  /\ state < 0 => state = -1 /\ Readers = {} /\ \E t \in Threads : Writers = {t}
         /\ state >= 0 => Writers = {} /\ state = Cardinality(Readers)
         /\ state = 0 => Readers = {}
<1>1. state = 0 => Writers = {} /\ state = Cardinality(Readers)
  BY DEF WordCountsHolders
<1> QED
  BY <1>1, FewReaders, FS_EmptySet DEF WordCountsHolders

\* A step that leaves the word and the holders alone.
LEMMA SameWord ==
  ASSUME WordCountsHolders, state' = state, holds' = holds
  PROVE  WordCountsHolders'
<1>1. Readers' = Readers /\ Writers' = Writers
  BY DEF Readers, Writers
<1> QED
  BY <1>1 DEF WordCountsHolders

LEMMA ReaderComes ==
  ASSUME TypeOK, WordCountsHolders, NEW t \in Threads, holds[t] = Nothing, state >= 0,
         state' = state + 1, holds' = [holds EXCEPT ![t] = Read]
  PROVE  WordCountsHolders'
<1>1. Writers' = {} /\ Readers' = Readers \cup {t} /\ t \notin Readers
  BY WordCases DEF Writers, Readers, TypeOK, Read, Write, Nothing
<1>2. Cardinality(Readers') = Cardinality(Readers) + 1
  BY <1>1, FewReaders, FS_AddElement
<1> QED
  BY <1>1, <1>2, WordCases DEF WordCountsHolders

LEMMA WriterComes ==
  ASSUME TypeOK, WordCountsHolders, NEW t \in Threads, state = 0,
         state' = -1, holds' = [holds EXCEPT ![t] = Write]
  PROVE  WordCountsHolders'
<1>1. Writers' = {t} /\ Readers' = {}
  BY WordCases DEF Writers, Readers, TypeOK, Read, Write
<1> QED
  BY <1>1 DEF WordCountsHolders

LEMMA HolderLeaves ==
  ASSUME TypeOK, WordCountsHolders, NEW t \in Threads, Unlock(t)
  PROVE  WordCountsHolders'
<1> USE DEF TypeOK, Read, Write, Nothing
<1>1. holds[t] # Nothing /\ holds' = [holds EXCEPT ![t] = Nothing] /\ state \in Int
  BY DEF Unlock
<1>2. CASE state < 0
  <2>1. state' = 0 /\ Writers' = {} /\ Readers' = {}
    BY <1>1, <1>2, WordCases DEF Unlock, LockedToWrite, Writers, Readers
  <2> QED
    BY <2>1, FS_EmptySet DEF WordCountsHolders
<1>3. CASE state >= 0
  <2>1. state' = state - 1
    BY <1>3 DEF Unlock, LockedToWrite
  <2>2. Writers' = {} /\ Readers' = Readers \ {t} /\ t \in Readers
    BY <1>1, <1>3, WordCases DEF Writers, Readers
  <2>3. Cardinality(Readers') = Cardinality(Readers) - 1
    BY <2>2, FewReaders, FS_RemoveElement
  <2> QED
    BY <1>3, <2>1, <2>2, <2>3, WordCases DEF WordCountsHolders
<1> QED
  BY <1>1, <1>2, <1>3

-----------------------------------------------------------------------------
(* The invariant *)

LEMMA InitIInv == Init => IInv
<1> SUFFICES ASSUME Init PROVE IInv
  OBVIOUS
<1> USE DEF Init, At
<1>1. TypeOK
  <2>1. inits \in Nat /\ state \in Int /\ state >= -1
    OBVIOUS
  <2>2. holds \in [Threads -> {Nothing, Read, Write}] /\ seen \in [Threads -> Int]
    OBVIOUS
  <2>3. returned \in BOOLEAN
    OBVIOUS
  <2>4. once \in {Pending, Running, Done}
    OBVIOUS
  <2>5. pc \in [Threads -> {"out", "wake"} \cup ReadPlaces \cup WritePlaces \cup OncePlaces]
    OBVIOUS
  <2> QED
    BY <2>1, <2>2, <2>3, <2>4, <2>5 DEF TypeOK
<1>2. WordInv
  <2>1. Readers = {} /\ Writers = {}
    BY DEF Readers, Writers, Nothing, Read, Write
  <2> QED
    BY <2>1, FS_EmptySet DEF WordInv, WordCountsHolders
<1>3. OnceInv
  BY DEF OnceInv, RunningThreads, Pending, Running, Done
<1>4. NoSleeperForgotten
  BY DEF NoSleeperForgotten
<1> QED
  BY <1>1, <1>2, <1>3, <1>4 DEF IInv

LEMMA TypeStep ==
  ASSUME TypeOK, WordInv, [Next]_vars
  PROVE  TypeOK'
<1> USE DEF TypeOK, ReadPlaces, WritePlaces, OncePlaces, Goto, rwlock, At, WordInv
<1>1. CASE UNCHANGED vars
  BY <1>1 DEF vars
<1>2. ASSUME NEW t \in Threads, NEW place \in {"rdlock", "wrlock", "once"}, Call(t, place),
             holds[t] = Nothing \/ place = "once"
      PROVE  TypeOK'
  BY <1>2 DEF Call
<1>3. ASSUME NEW t \in Threads, Unlock(t) PROVE TypeOK'
  BY WordCases, <1>3 DEF Unlock, LockedToWrite, LastToLeave
<1>4. ASSUME NEW t \in Threads, Interrupted(t) PROVE TypeOK'
  BY <1>4 DEF Interrupted
<1>5. ASSUME NEW t \in Threads, Continue(t) PROVE TypeOK'
  <2>1. CASE ReadLoad(t)
    BY <2>1 DEF ReadLoad
  <2>2. CASE ReadSwap(t)
    BY <2>2 DEF ReadSwap, StillSeen
  <2>3. CASE ReadWait(t)
    BY <2>3 DEF ReadWait
  <2>4. CASE WriteSwap(t)
    BY <2>4 DEF WriteSwap
  <2>5. CASE WriteWait(t)
    BY <2>5 DEF WriteWait
  <2>6. CASE Wake(t)
    BY <2>6 DEF Wake
  <2>7. CASE OnceLoad(t)
    BY <2>7 DEF OnceLoad, OnceReturns
  <2>8. CASE OnceSwap(t)
    BY <2>8 DEF OnceSwap, MayRun
  <2>9. CASE RunInit(t)
    BY <2>9 DEF RunInit
  <2>10. CASE OnceDone(t)
    BY <2>10 DEF OnceDone
  <2>11. CASE OnceWake(t)
    BY <2>11 DEF OnceWake
  <2>12. CASE OnceWait(t)
    BY <2>12 DEF OnceWait, StillRunning
  <2> QED
    BY <1>5, <2>1, <2>2, <2>3, <2>4, <2>5, <2>6,
       <2>7, <2>8, <2>9, <2>10, <2>11, <2>12 DEF Continue
<1> QED
  BY <1>1, <1>2, <1>3, <1>4, <1>5 DEF Next, Calls

LEMMA WordStep ==
  ASSUME TypeOK, WordInv, [Next]_vars
  PROVE  WordInv'
<1> USE DEF TypeOK, WordInv, ReadPlaces, WritePlaces, Goto, rwlock, At
<1>1. CASE UNCHANGED vars
  BY SameWord, <1>1 DEF vars
<1>2. ASSUME NEW t \in Threads, NEW place \in {"rdlock", "wrlock", "once"}, Call(t, place),
             holds[t] = Nothing \/ place = "once"
      PROVE  WordInv'
  BY SameWord, <1>2 DEF Call
<1>3. ASSUME NEW t \in Threads, Unlock(t) PROVE WordInv'
  BY HolderLeaves, <1>3 DEF Unlock, LockedToWrite, LastToLeave
<1>4. ASSUME NEW t \in Threads, Interrupted(t) PROVE WordInv'
  BY SameWord, <1>4 DEF Interrupted
<1>5. ASSUME NEW t \in Threads, Continue(t) PROVE WordInv'
  <2>1. CASE ReadLoad(t)
    BY SameWord, <2>1 DEF ReadLoad
  <2>2. CASE ReadSwap(t)
    <3>1. CASE StillSeen(t)
      <4>1. /\ holds[t] = Nothing /\ state >= 0 /\ state' = state + 1
            /\ holds' = [holds EXCEPT ![t] = Read]
        BY <2>2, <3>1 DEF ReadSwap, StillSeen
      <4>2. WordCountsHolders'
        BY <4>1, ReaderComes
      <4> QED
        BY <2>2, <3>1, <4>2 DEF ReadSwap, StillSeen
    <3>2. CASE ~StillSeen(t)
      BY SameWord, <2>2, <3>2 DEF ReadSwap
    <3> QED
      BY <3>1, <3>2
  <2>3. CASE ReadWait(t)
    BY SameWord, <2>3 DEF ReadWait
  <2>4. CASE WriteSwap(t)
    BY SameWord, WriterComes, <2>4 DEF WriteSwap
  <2>5. CASE WriteWait(t)
    BY SameWord, <2>5 DEF WriteWait
  <2>6. CASE Wake(t)
    BY SameWord, <2>6 DEF Wake
  <2>7. CASE OnceLoad(t)
    BY SameWord, <2>7 DEF OnceLoad, OnceReturns
  <2>8. CASE OnceSwap(t)
    BY SameWord, <2>8 DEF OnceSwap, MayRun
  <2>9. CASE RunInit(t)
    BY SameWord, <2>9 DEF RunInit
  <2>10. CASE OnceDone(t)
    BY SameWord, <2>10 DEF OnceDone
  <2>11. CASE OnceWake(t)
    BY SameWord, <2>11 DEF OnceWake
  <2>12. CASE OnceWait(t)
    BY SameWord, <2>12 DEF OnceWait, StillRunning
  <2> QED
    BY <1>5, <2>1, <2>2, <2>3, <2>4, <2>5, <2>6,
       <2>7, <2>8, <2>9, <2>10, <2>11, <2>12 DEF Continue
<1> QED
  BY <1>1, <1>2, <1>3, <1>4, <1>5 DEF Next, Calls

LEMMA OnceStep ==
  ASSUME TypeOK, OnceInv, [Next]_vars
  PROVE  OnceInv'
<1> USE DEF TypeOK, OnceInv, RunningThreads, Goto, At, Pending, Running, Done
<1>1. CASE UNCHANGED vars
  BY <1>1 DEF vars
<1>2. ASSUME NEW t \in Threads, NEW place \in {"rdlock", "wrlock", "once"}, Call(t, place),
             holds[t] = Nothing \/ place = "once"
      PROVE  OnceInv'
  BY <1>2 DEF Call
<1>3. ASSUME NEW t \in Threads, Unlock(t) PROVE OnceInv'
  BY <1>3 DEF Unlock, LockedToWrite, LastToLeave
<1>4. ASSUME NEW t \in Threads, Interrupted(t) PROVE OnceInv'
  BY <1>4 DEF Interrupted
<1>5. ASSUME NEW t \in Threads, Continue(t) PROVE OnceInv'
  <2>1. CASE ReadLoad(t)
    BY <2>1 DEF ReadLoad
  <2>2. CASE ReadSwap(t)
    BY <2>2 DEF ReadSwap, StillSeen
  <2>3. CASE ReadWait(t)
    BY <2>3 DEF ReadWait
  <2>4. CASE WriteSwap(t)
    BY <2>4 DEF WriteSwap
  <2>5. CASE WriteWait(t)
    BY <2>5 DEF WriteWait
  <2>6. CASE Wake(t)
    BY <2>6 DEF Wake
  <2>7. CASE OnceLoad(t)
    BY <2>7 DEF OnceLoad, OnceReturns
  <2>8. CASE OnceSwap(t)
    BY <2>8 DEF OnceSwap, MayRun
  <2>9. CASE RunInit(t)
    BY <2>9 DEF RunInit
  <2>10. CASE OnceDone(t)
    BY <2>10 DEF OnceDone
  <2>11. CASE OnceWake(t)
    BY <2>11 DEF OnceWake
  <2>12. CASE OnceWait(t)
    BY <2>12 DEF OnceWait, StillRunning
  <2> QED
    BY <1>5, <2>1, <2>2, <2>3, <2>4, <2>5, <2>6,
       <2>7, <2>8, <2>9, <2>10, <2>11, <2>12 DEF Continue
<1> QED
  BY <1>1, <1>2, <1>3, <1>4, <1>5 DEF Next, Calls

LEMMA SleepStep ==
  ASSUME TypeOK, WordInv, OnceInv, NoSleeperForgotten, [Next]_vars
  PROVE  NoSleeperForgotten'
<1> USE DEF TypeOK, WordInv, OnceInv, RunningThreads, NoSleeperForgotten, Goto, At,
    Pending, Running, Done, rwlock
<1>1. CASE UNCHANGED vars
  BY <1>1 DEF vars
<1>2. ASSUME NEW t \in Threads, NEW place \in {"rdlock", "wrlock", "once"}, Call(t, place),
             holds[t] = Nothing \/ place = "once"
      PROVE  NoSleeperForgotten'
  BY <1>2 DEF Call
<1>3. ASSUME NEW t \in Threads, Unlock(t) PROVE NoSleeperForgotten'
  BY WordCases, <1>3 DEF Unlock, LockedToWrite, LastToLeave
<1>4. ASSUME NEW t \in Threads, Interrupted(t) PROVE NoSleeperForgotten'
  BY <1>4 DEF Interrupted
<1>5. ASSUME NEW t \in Threads, Continue(t) PROVE NoSleeperForgotten'
  <2>1. CASE ReadLoad(t)
    BY <2>1 DEF ReadLoad
  <2>2. CASE ReadSwap(t)
    BY WordCases, <2>2 DEF ReadSwap, StillSeen
  <2>3. CASE ReadWait(t)
    BY WordCases, <2>3 DEF ReadWait
  <2>4. CASE WriteSwap(t)
    BY WordCases, <2>4 DEF WriteSwap
  <2>5. CASE WriteWait(t)
    BY <2>5 DEF WriteWait
  <2>6. CASE Wake(t)
    BY <2>6 DEF Wake
  <2>7. CASE OnceLoad(t)
    BY <2>7 DEF OnceLoad, OnceReturns
  <2>8. CASE OnceSwap(t)
    BY <2>8 DEF OnceSwap, MayRun
  <2>9. CASE RunInit(t)
    BY <2>9 DEF RunInit
  <2>10. CASE OnceDone(t)
    BY <2>10 DEF OnceDone
  <2>11. CASE OnceWake(t)
    BY <2>11 DEF OnceWake
  <2>12. CASE OnceWait(t)
    BY <2>12 DEF OnceWait, StillRunning
  <2> QED
    BY <1>5, <2>1, <2>2, <2>3, <2>4, <2>5, <2>6,
       <2>7, <2>8, <2>9, <2>10, <2>11, <2>12 DEF Continue
<1> QED
  BY <1>1, <1>2, <1>3, <1>4, <1>5 DEF Next, Calls

LEMMA IInvStep == IInv /\ [Next]_vars => IInv'
  BY TypeStep, WordStep, OnceStep, SleepStep DEF IInv

THEOREM Invariance == Spec => []IInv
  BY InitIInv, IInvStep, PTL DEF Spec

-----------------------------------------------------------------------------
(* Theorems *)

\* The words and the threads are well typed in every reachable state.
THEOREM TypeCorrect == Spec => []TypeOK
<1>1. IInv => TypeOK
  BY DEF IInv
<1> QED
  BY <1>1, Invariance, PTL

\* Readers share the lock and a writer has it alone (pthread_rwlock_*).
THEOREM WordCounts == Spec => []WordCountsHolders
<1>1. IInv => WordCountsHolders
  BY DEF IInv, WordInv
<1> QED
  BY <1>1, Invariance, PTL

\* No wakeup of the lock or of pthread_once is lost.
THEOREM SleepersAreWoken == Spec => []NoSleeperForgotten
<1>1. IInv => NoSleeperForgotten
  BY DEF IInv
<1> QED
  BY <1>1, Invariance, PTL

Asleep(t) == pc[t] \in {"rdasleep", "wrasleep", "onceasleep"}

\* The threads never all sleep: a sleeper on the lock has a holder or a waker to wait for, a holder
\* does not sleep on the lock, and a sleeper in pthread_once has its runner, which does not sleep at
\* all (pthread_rwlock_unlock, pthread_once).
THEOREM NeverAllAsleep ==
    Spec => []((\E t \in Threads : Asleep(t)) => \E t \in Threads : ~Asleep(t))
<1>1. IInv => ((\E t \in Threads : Asleep(t)) => \E t \in Threads : ~Asleep(t))
  <2> SUFFICES ASSUME IInv, NEW s \in Threads, \A t \in Threads : Asleep(t) PROVE FALSE
    OBVIOUS
  <2>1. At("wake") = {} /\ At("oncewake") = {} /\ RunningThreads = {}
    BY DEF At, Asleep, RunningThreads
  <2>2. At("onceasleep") = {}
    BY <2>1 DEF IInv, NoSleeperForgotten, OnceInv
  <2>3. \A t \in Threads : holds[t] = Nothing
    BY <2>2 DEF IInv, WordInv, Asleep, At, ReadPlaces, WritePlaces
  <2>4. Readers = {} /\ Writers = {}
    BY <2>3 DEF Readers, Writers, Nothing, Read, Write
  <2>5. state = 0
    BY <2>4, WordCases, FS_EmptySet DEF IInv, WordInv, WordCountsHolders
  <2> QED
    BY <2>1, <2>2, <2>5 DEF IInv, NoSleeperForgotten, Asleep, At
<1> QED
  BY <1>1, Invariance, PTL

\* The routine of pthread_once runs once, and before anybody comes back.
THEOREM RunsOnce == Spec => []OnceBeforeAnyReturn
<1>1. IInv => OnceBeforeAnyReturn
  BY DEF IInv, TypeOK, OnceInv, RunningThreads, OnceBeforeAnyReturn
<1> QED
  BY <1>1, Invariance, PTL
=============================================================================
