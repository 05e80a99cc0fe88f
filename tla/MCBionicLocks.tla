---------------------------- MODULE MCBionicLocks ----------------------------
(* BionicLocks with three threads. *)
EXTENDS BionicLocks

CONSTANTS t1, t2, t3

MCThreads == {t1, t2, t3}
=============================================================================
