---------------------------- MODULE MCTaskContent ----------------------------
(* Small instances of TaskContent.                                          *)
EXTENDS TaskContent, TLC

CONSTANTS h1, h2, u1, u2

MCHandler == {h1, h2}
MCUser == {u1, u2}
MCAssignable == {u1, u2}
Symmetry == Permutations(MCHandler) \cup Permutations(MCUser)
=============================================================================
