----------------------- MODULE MCAttachmentLifecycle -----------------------
(* Small instances of AttachmentLifecycle.                                  *)
EXTENDS AttachmentLifecycle, TLC

CONSTANTS h1, h2, u1, u2

MCHandler == {h1, h2}
MCUser == {u1, u2}
MCAll == Role \cup {None}
Symmetry == Permutations(MCHandler) \cup Permutations(MCUser)
=============================================================================
