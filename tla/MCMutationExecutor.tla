------------------------ MODULE MCMutationExecutor ------------------------
(* Three deliveries over an anonymous and an authenticated identity.        *)
EXTENDS MutationExecutor, TLC

CONSTANTS r1, r2, r3, register, create

MCRequest == {r1, r2, r3}
MCKey == {register, create}
MCAnonymousKey == {register}
Symmetry == Permutations(MCRequest)
=============================================================================
