----------------------------- MODULE MCFaceTable -----------------------------
(* FaceTable on two threads, two face addresses and two library addresses. *)
EXTENDS FaceTable

CONSTANTS t1, t2, f1, f2, l1, l2

MCThreads == {t1, t2}
MCFaces == {f1, f2}
MCLibs == {l1, l2}
=============================================================================
