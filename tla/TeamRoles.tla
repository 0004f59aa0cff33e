------------------------------ MODULE TeamRoles ------------------------------
(***************************************************************************)
(* What the projects of a team see of its members: whether somebody is an  *)
(* active member and may administer the team (an owner may do in a project *)
(* what an administrator may), and of nobody while the team is deleted.    *)
(* TeamMembers implements this, ProjectMembers relies on it.               *)
(***************************************************************************)
CONSTANTS User, None

VARIABLE roles

Role == {"ADMIN", "MEMBER"}

Closed == [u \in User |-> None]

Init == roles = Closed

\* Somebody founds the team, joins it, gets another role or is removed.
Grant(u, r) == roles' = [roles EXCEPT ![u] = r]

(***************************************************************************)
(* A transfer of the ownership writes two rows at once.  Neither comes     *)
(* back if it was removed meanwhile, and both may administer afterwards:   *)
(* the giver is an administrator, even one who was demoted meanwhile.      *)
(***************************************************************************)
HandOver(giver, taker) ==
    roles' = [u \in User |-> IF u \in {giver, taker} /\ roles[u] # None
                             THEN "ADMIN" ELSE roles[u]]

Close == roles' = Closed

\* Members who were removed or added meanwhile are missing or present afterwards.
Reopen ==
    /\ roles = Closed
    /\ roles' \in [User -> Role \cup {None}]

Next ==
    \/ \E u \in User, r \in Role \cup {None} : Grant(u, r)
    \/ \E u, v \in User : HandOver(u, v)
    \/ Close
    \/ Reopen

Spec == Init /\ [][Next]_roles
=============================================================================
