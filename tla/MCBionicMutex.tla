---------------------------- MODULE MCBionicMutex ----------------------------
(* BionicMutex with three threads. *)
EXTENDS BionicMutex

CONSTANTS t1, t2, t3

MCThreads == {t1, t2, t3}
=============================================================================
