---------------------------- MODULE MCMemoryFonts ----------------------------
(* MemoryFonts on two faces and three fonts, two of which share a digest. *)
EXTENDS MemoryFonts, TLC

CONSTANTS a1, a2, c1, c2, c3, d1, d2, x1, x2

MCFaces == {a1, a2}
MCFonts == {c1, c2, c3}
MCDigest == c1 :> d1 @@ c2 :> d1 @@ c3 :> d2
MCFiles == {x1, x2}

\* Fonts c1 and c2 are interchangeable, and c3 is not one of them.
Interchangeable ==
    Permutations(MCFaces) \cup Permutations(MCFiles) \cup Permutations({c1, c2})
=============================================================================
