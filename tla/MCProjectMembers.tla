-------------------------- MODULE MCProjectMembers --------------------------
(* Small instances of ProjectMembers.                                       *)
EXTENDS ProjectMembers, TLC

CONSTANTS h1, h2, u1, u2

MCHandler == {h1, h2}
MCUser == {u1, u2}
Symmetry == Permutations(MCHandler) \cup Permutations(MCUser)
=============================================================================
