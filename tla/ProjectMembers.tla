--------------------------- MODULE ProjectMembers ---------------------------
(***************************************************************************)
(* One project of a team and its members (modules/projects), while the     *)
(* members of the team change.                                             *)
(*                                                                         *)
(* Every request runs in the READ COMMITTED transaction of executeMutation *)
(* and reads, one statement at a time, what it needs to decide: the        *)
(* actor's role in the project, in the team, and the target's row.  Its    *)
(* write then names a row by its key and repeats none of these conditions. *)
(***************************************************************************)
CONSTANTS
    User,
    Handler,     \* requests that the server works on at the same time
    Grantable,   \* roles that are asked for when a member is added or changed
    None

VARIABLES
    teamRole,  \* role of each active member of the team, None for anybody else
    project,   \* "absent" until it is created, "active", or "deleted"
    role,      \* role in the project_members row of each user, None without a row
    active,    \* users whose row has no removed_at
    tx         \* what each handler is doing

rows == <<project, role, active>>
vars == <<teamRole, rows, tx>>

Role == {"ADMIN", "MEMBER", "VIEWER"}

\* modules/teams, as projects see it.
Team == INSTANCE TeamRoles WITH roles <- teamRole

Op == {"create", "update", "delete", "restore", "add", "change", "remove"}

ASSUME NoneAssumption == None \notin User \cup Role \cup Team!Role \cup Op
ASSUME GrantableAssumption == Grantable \subseteq Role

\* The tables an operation bases its decision on.
Reads(op) ==
    CASE op = "create"  -> {"team"}
      [] op = "restore" -> {"members"}
      [] op = "add"     -> {"team", "project", "members"}
      [] OTHER          -> {"project", "members"}

\* Where a request is: the statement it executes next.
At == {"idle", "authorize", "teamRole", "target", "write", "commit"}

(***************************************************************************)
(* `actor` is the authenticated user, `target` and `new` are the request's *)
(* parameters.  `meanwhile` is history: which of the tables the operation  *)
(* reads other transactions have changed since the request began.          *)
(***************************************************************************)
Tx == [op: Op \cup {None}, at: At, actor: User \cup {None},
       target: User \cup {None}, new: Role \cup {None},
       meanwhile: SUBSET {"team", "project", "members"}]

Idle == [op |-> None, at |-> "idle", actor |-> None, target |-> None,
         new |-> None, meanwhile |-> {}]

Init ==
    /\ Team!Init
    /\ project = "absent"
    /\ role = [u \in User |-> None]
    /\ active = {}
    /\ tx = [h \in Handler |-> Idle]

\* membership: the row of a user who has not been removed, in a project not deleted.
Membership(u) == IF project = "active" /\ u \in active THEN role[u] ELSE None

canAdministerProject(r) == r = "ADMIN"
-----------------------------------------------------------------------------
(* Row locks: what a transaction has written and not committed.            *)

MemberLockedBy(h) ==
    IF tx[h].at = "commit" /\ tx[h].op \in {"add", "change", "remove"}
    THEN {tx[h].target} ELSE {}

ProjectLockedBy(h) == tx[h].at = "commit" /\ tx[h].op \in {"update", "delete", "restore"}

Goes(h, at) ==
    /\ tx' = [tx EXCEPT ![h].at = at]
    /\ UNCHANGED <<teamRole, rows>>

RollsBack(h) ==
    /\ tx' = [tx EXCEPT ![h] = Idle]
    /\ UNCHANGED <<teamRole, rows>>

\* What the request t misses when `table` changes.
Misses(t, table) ==
    IF t.at = "idle" \/ table \notin Reads(t.op) THEN t
    ELSE [t EXCEPT !.meanwhile = @ \cup {table}]

Begins(h, op, at, actor, target, new) ==
    /\ tx[h].at = "idle"
    /\ tx' = [tx EXCEPT ![h] = [op |-> op, at |-> at, actor |-> actor, target |-> target,
                               new |-> new, meanwhile |-> {}]]
    /\ UNCHANGED <<teamRole, rows>>
-----------------------------------------------------------------------------
\* A request refused by what it read first, with 403 or 404, changes nothing.
Refuse(h) == tx[h].at = "idle" /\ UNCHANGED vars

\* The statement that reads the actor's team membership.
BeginCreate(h, actor) ==
    /\ project = "absent"
    /\ \A g \in Handler : tx[g].op # "create"
    /\ teamRole[actor] \notin {None, "MEMBER"}
    /\ Begins(h, "create", "write", actor, actor, "ADMIN")

\* update and remove read the actor's membership.
BeginOnProject(h, op, actor) ==
    /\ canAdministerProject(Membership(actor))
    /\ Begins(h, op, "write", actor, None, None)

\* Mutant: a removed administrator's row suffices.
BeginRestore_RemovedToo(h, actor) ==
    /\ role[actor] = "ADMIN"
    /\ Begins(h, "restore", "write", actor, None, None)

\* restore reads the actor's row, whatever the state of the project.
BeginRestore(h, actor) ==
    /\ role[actor] = "ADMIN"
    /\ actor \in active
    /\ Begins(h, "restore", "write", actor, None, None)

\* addMember looks for the project first.
BeginAdd(h, actor, target, new) ==
    /\ project = "active"
    /\ Begins(h, "add", "authorize", actor, target, new)

BeginChange(h, actor, target, new) ==
    /\ canAdministerProject(Membership(actor))
    /\ Begins(h, "change", "target", actor, target, new)

BeginRemove(h, actor, target) ==
    /\ canAdministerProject(Membership(actor))
    /\ Begins(h, "remove", "target", actor, target, None)

\* A project administrator may add members; for anybody else the team decides.
Authorize(h) ==
    /\ tx[h].at = "authorize"
    /\ Goes(h, IF Membership(tx[h].actor) = "ADMIN" THEN "target" ELSE "teamRole")

\* Mutant: every member of the team may add members.
AuthorizeByTeam_AnyRole(h) ==
    /\ tx[h].at = "teamRole"
    /\ \/ teamRole[tx[h].actor] # None /\ Goes(h, "target")
       \/ teamRole[tx[h].actor] = None /\ RollsBack(h)

AuthorizeByTeam(h) ==
    /\ tx[h].at = "teamRole"
    /\ \/ teamRole[tx[h].actor] = "ADMIN" /\ Goes(h, "target")
       \/ teamRole[tx[h].actor] # "ADMIN" /\ RollsBack(h)

\* Mutant: nobody asks whether a new member belongs to the team.
ReadTarget_AnyUser(h) ==
    LET t == tx[h]
        found == t.op = "add" \/ t.target \in active
    IN
    /\ t.at = "target"
    /\ \/ found /\ Goes(h, "write")
       \/ ~found /\ RollsBack(h)

\* The target of add must be in the team, any other one's row must not be removed.
ReadTarget(h) ==
    LET t == tx[h]
        found == IF t.op = "add" THEN teamRole[t.target] # None ELSE t.target \in active
    IN
    /\ t.at = "target"
    /\ \/ found /\ Goes(h, "write")
       \/ ~found /\ RollsBack(h)
-----------------------------------------------------------------------------
(* The writes wait for the row lock; their values stay invisible until the *)
(* commit.                                                                 *)

Write(h) ==
    /\ tx[h].at = "write"
    /\ tx[h].op \in {"add", "change", "remove"} =>
          \A g \in Handler \ {h} : tx[h].target \notin MemberLockedBy(g)
    /\ tx[h].op \in {"update", "delete", "restore"} =>
          \A g \in Handler \ {h} : ~ProjectLockedBy(g)
    /\ Goes(h, "commit")

Commits(h, op, table) ==
    /\ tx[h].at = "commit" /\ tx[h].op = op
    /\ tx' = [g \in Handler |-> IF g = h THEN Idle ELSE Misses(tx[g], table)]
    /\ UNCHANGED teamRole

\* createWithAdmin inserts the project and its first member.
CommitCreation(h) ==
    /\ Commits(h, "create", "project")
    /\ project' = "active"
    /\ role' = [role EXCEPT ![tx[h].actor] = "ADMIN"]
    /\ active' = {tx[h].actor}

\* The name and the description, which nothing depends on.
CommitUpdate(h) == Commits(h, "update", "project") /\ UNCHANGED rows

CommitDeletion(h) ==
    /\ Commits(h, "delete", "project")
    /\ project' = "deleted"
    /\ UNCHANGED <<role, active>>

CommitRestoration(h) ==
    /\ Commits(h, "restore", "project")
    /\ project' = "active"
    /\ UNCHANGED <<role, active>>

\* Mutant: the upsert only clears removed_at.
CommitAddition_NoRole(h) ==
    /\ Commits(h, "add", "members")
    /\ active' = active \cup {tx[h].target}
    /\ UNCHANGED <<project, role>>

\* The upsert writes the role and clears removed_at.
CommitAddition(h) ==
    /\ Commits(h, "add", "members")
    /\ role' = [role EXCEPT ![tx[h].target] = tx[h].new]
    /\ active' = active \cup {tx[h].target}
    /\ UNCHANGED project

\* Mutant: the UPDATE names the project alone.
CommitChange_EveryMember(h) ==
    /\ Commits(h, "change", "members")
    /\ role' = [u \in User |-> IF u \in active THEN tx[h].new ELSE role[u]]
    /\ UNCHANGED <<project, active>>

\* The row may have been removed since it was read; it stays removed.
CommitChange(h) ==
    /\ Commits(h, "change", "members")
    /\ role' = [role EXCEPT ![tx[h].target] = tx[h].new]
    /\ UNCHANGED <<project, active>>

CommitRemoval(h) ==
    /\ Commits(h, "remove", "members")
    /\ active' = active \ {tx[h].target}
    /\ UNCHANGED <<project, role>>

\* A statement fails, the time limit of the transaction passes, or the process stops.
Abort(h) == tx[h].at # "idle" /\ RollsBack(h)

\* Members of the team come and go; the rows of the project stay as they are.
TeamChanges ==
    /\ Team!Next
    /\ teamRole' # teamRole
    /\ tx' = [g \in Handler |-> Misses(tx[g], "team")]
    /\ UNCHANGED rows

Begin(h) ==
    \E a \in User :
       \/ BeginCreate(h, a) \/ BeginRestore(h, a)
       \/ \E op \in {"update", "delete"} : BeginOnProject(h, op, a)
       \/ \E u \in User :
            \/ BeginRemove(h, a, u)
            \/ \E r \in Grantable : BeginAdd(h, a, u, r) \/ BeginChange(h, a, u, r)

Step(h) ==
    \/ Authorize(h) \/ AuthorizeByTeam(h) \/ ReadTarget(h) \/ Write(h)
    \/ CommitCreation(h) \/ CommitUpdate(h) \/ CommitDeletion(h) \/ CommitRestoration(h)
    \/ CommitAddition(h) \/ CommitChange(h) \/ CommitRemoval(h)

Next ==
    \/ \E h \in Handler : Refuse(h) \/ Begin(h) \/ Step(h) \/ Abort(h)
    \/ TeamChanges

Spec == Init /\ [][Next]_vars
-----------------------------------------------------------------------------
TypeOK ==
    /\ teamRole \in [User -> Team!Role \cup {None}]
    /\ project \in {"absent", "active", "deleted"}
    /\ role \in [User -> Role \cup {None}]
    /\ active \subseteq {u \in User : role[u] # None}
    /\ project = "absent" => active = {}
    /\ tx \in [Handler -> Tx]

\* The request of h commits in this step.
Committing(h, op) == tx[h].at = "commit" /\ tx[h].op = op /\ tx'[h] = Idle

(***************************************************************************)
(* "Only active team members can become project members": whoever becomes  *)
(* a member of the project, for the first time or again, is in the team    *)
(* then, or the team changed after the request had begun; and nobody       *)
(* becomes one but by being added or by creating the project.              *)
(***************************************************************************)
JoinersComeFromTeam ==
    [][\A u \in active' \ active :
          \E h \in Handler :
             /\ Committing(h, "create") \/ Committing(h, "add")
             /\ tx[h].target = u
             /\ teamRole[u] # None \/ "team" \in tx[h].meanwhile]_vars

Administrators == {u \in active : role[u] = "ADMIN"}

(***************************************************************************)
(* Nobody becomes an administrator of the project on their own: whoever    *)
(* does, does so by the request of somebody who administers the project or *)
(* the team at that moment, or did until something changed while the       *)
(* request ran.                                                            *)
(***************************************************************************)
AdministratorsAreAppointed ==
    [][\A u \in Administrators' \ Administrators :
          \E h \in Handler :
             /\ tx[h].at = "commit" /\ tx'[h] = Idle
             /\ tx[h].target = u
             /\ \/ Membership(tx[h].actor) = "ADMIN" \/ tx[h].meanwhile # {}
                \/ tx[h].op \in {"create", "add"} /\ teamRole[tx[h].actor] = "ADMIN"]_vars

(***************************************************************************)
(* A deleted project is frozen: its members change only by requests that   *)
(* were running when it was deleted, and only somebody who is one of its   *)
(* administrators, or was while the request ran, brings it back.           *)
(***************************************************************************)
DeletedProjectFrozen ==
    [][project = "deleted" /\ rows' # rows =>
          \E h \in Handler :
             \/ Committing(h, "restore")
                   /\ (tx[h].actor \in Administrators \/ "members" \in tx[h].meanwhile)
             \/ "project" \in tx[h].meanwhile /\ tx[h].at = "commit" /\ tx'[h] = Idle]_vars

Implemented == INSTANCE ProjectAccess WITH access <- [u \in User |-> Membership(u)]

(***************************************************************************)
(* To tasks and comments, all this looks as if one user at a time got or   *)
(* lost access, and everybody together when the project is deleted or      *)
(* restored: nothing a request does shows in parts.                        *)
(***************************************************************************)
ImplementsAccess == Implemented!Spec
=============================================================================
