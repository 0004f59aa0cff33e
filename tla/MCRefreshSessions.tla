------------------------- MODULE MCRefreshSessions -------------------------
(* Small instances of RefreshSessions.                                      *)
EXTENDS RefreshSessions

CONSTANTS h1, h2, s1, s2, s3

MCHandler == {h1, h2}
MCSession == {s1, s2, s3}
=============================================================================
