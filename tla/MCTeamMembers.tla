--------------------------- MODULE MCTeamMembers ---------------------------
(* Small instances of TeamMembers.                                          *)
EXTENDS TeamMembers, TLC

CONSTANTS h1, h2, u1, u2, u3

MCHandler == {h1, h2}
MCUser2 == {u1, u2}
MCUser3 == {u1, u2, u3}
Symmetry == Permutations(MCHandler) \cup Permutations(MCUser3)
=============================================================================
