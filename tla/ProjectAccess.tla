---------------------------- MODULE ProjectAccess ----------------------------
(***************************************************************************)
(* What the tasks and comments of a project see of its members: the role   *)
(* of each active member, of nobody while the project is deleted.  The     *)
(* requests of modules/projects change one user's access at a time, except *)
(* that deleting the project ends everybody's and restoring it brings      *)
(* members back together.  ProjectMembers implements this, TaskContent     *)
(* relies on it.                                                           *)
(***************************************************************************)
CONSTANTS User, None

VARIABLE access

Role == {"ADMIN", "MEMBER", "VIEWER"}

Closed == [u \in User |-> None]

Init == access = Closed

Grant(u, r) == access' = [access EXCEPT ![u] = r]

Close == access' = Closed

\* Members who were removed or added meanwhile are missing or present afterwards.
Reopen ==
    /\ access = Closed
    /\ access' \in [User -> Role \cup {None}]

Next ==
    \/ \E u \in User, r \in Role \cup {None} : Grant(u, r)
    \/ Close
    \/ Reopen

Spec == Init /\ [][Next]_access
=============================================================================
