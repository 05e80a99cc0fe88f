-------------------------------- MODULE Monitor --------------------------------
(***************************************************************************)
(* What DWriteCore is promised by pthread_mutex_* and pthread_cond_*: one  *)
(* thread at a time is inside, as deep as it has locked, and a wait gives  *)
(* the mutex up and begins in one step.  A wait may end at any time: what  *)
(* it waited for is the caller's to check again.                           *)
(***************************************************************************)
EXTENDS Naturals

CONSTANT Threads

VARIABLES
    inside,   \* how many times each thread has locked the mutex
    waiting   \* the threads in a wait

Free == \A t \in Threads : inside[t] = 0

Init ==
    /\ inside = [t \in Threads |-> 0]
    /\ waiting = {}

Enter(t) ==
    /\ Free
    /\ inside' = [inside EXCEPT ![t] = 1]
    /\ waiting' = waiting \ {t}   \* the end of a wait, where it was in one

Reenter(t) ==
    /\ inside[t] > 0
    /\ inside' = [inside EXCEPT ![t] = @ + 1]
    /\ UNCHANGED waiting

Leave(t) ==
    /\ inside[t] > 0
    /\ inside' = [inside EXCEPT ![t] = @ - 1]
    /\ UNCHANGED waiting

Wait(t) ==
    /\ inside[t] = 1
    /\ inside' = [inside EXCEPT ![t] = 0]
    /\ waiting' = waiting \cup {t}

Next == \E t \in Threads : Enter(t) \/ Reenter(t) \/ Leave(t) \/ Wait(t)

Spec == Init /\ [][Next]_<<inside, waiting>>
=============================================================================
