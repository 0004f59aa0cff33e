----------------------------- MODULE MCTaskPages -----------------------------
(* Small instances of TaskPages.                                            *)
EXTENDS TaskPages

MCTask == 1 .. 4
=============================================================================
