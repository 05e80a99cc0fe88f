-------------------------- MODULE MCDWriteFaceCache --------------------------
(* DWriteFaceCache with two threads, two axis positions and three objects; the *)
(* cache holds two faces and there is room for one instance.                   *)
EXTENDS DWriteFaceCache, TLC, MCGlyphs, MCChromium

CONSTANTS t1, t2, x1, x2, s1, o1, o2, o3

MCThreads == {t1, t2}
MCAxes == {x1, x2}
MCSizes == {s1}
MCObjects == {o1, o2, o3}

Interchangeable ==
    Permutations(MCThreads) \cup Permutations(MCAxes) \cup Permutations(MCObjects)
=============================================================================
