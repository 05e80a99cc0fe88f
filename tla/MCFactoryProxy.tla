---------------------------- MODULE MCFactoryProxy ----------------------------
(* FactoryProxy with two threads, two factories and two collections. *)
EXTENDS FactoryProxy, TLC, MCVtables

CONSTANTS t1, t2, r1, r2, v1, v2

MCThreads == {t1, t2}
MCReals == {r1, r2}
MCViews == {v1}

Symmetry == Permutations(MCThreads) \cup Permutations(MCReals)
=============================================================================
