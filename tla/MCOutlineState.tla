---------------------------- MODULE MCOutlineState ----------------------------
(* OutlineState on two faces and two outline addresses, tables of one entry. *)
EXTENDS OutlineState, TLC

CONSTANTS f1, f2, o1, o2, g1, g2, b1, b2, b3

MCFaces == {f1, f2}
MCOutlines == {o1, o2}
MCGlyphs == {g1, g2}
MCReshapes == {Delta, Grid, "bold"}
MCBuffers == {b1, b2, b3}

\* The members of each set are interchangeable; nothing is ordered by them.
Interchangeable ==
    Permutations(MCFaces) \cup Permutations(MCOutlines) \cup Permutations(MCGlyphs)
        \cup Permutations(MCBuffers)
=============================================================================
