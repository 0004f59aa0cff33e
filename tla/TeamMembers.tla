---------------------------- MODULE TeamMembers ----------------------------
(***************************************************************************)
(* The members of one team and its invitations (modules/teams): roles are  *)
(* changed, members removed, ownership handed over, the team deleted and   *)
(* restored, users invited by email and invitations accepted or revoked.   *)
(*                                                                         *)
(* Every request runs in the READ COMMITTED transaction of executeMutation *)
(* and first reads what it needs to decide, one statement at a time; its   *)
(* UPDATEs then name a row by its key and do not repeat the conditions     *)
(* that were read.  Only the claim of an invitation is conditional.  A     *)
(* user stands for the account and its email address, an invitation for    *)
(* its row and its token.                                                  *)
(***************************************************************************)
EXTENDS FiniteSets, Naturals

CONSTANTS
    User,
    Invitation,
    Handler,     \* requests that the server works on at the same time
    Offered,     \* the operations clients ask for
    None

Role == {"OWNER", "ADMIN", "MEMBER"}

Op == {"change", "remove", "transfer", "update", "delete", "restore", "invite", "revoke",
       "accept"}

ASSUME NoneAssumption == None \notin User \cup Invitation \cup Role \cup Op
ASSUME OfferedAssumption == Offered \subseteq Op

VARIABLES
    team,      \* "absent" until it is created, "active", or "deleted"
    role,      \* role in the row of each user, None without a row
    active,    \* users whose row has no removed_at
    to,        \* the user an invitation was sent to, None before it is sent
    grants,    \* the role it grants
    accepted,  \* invitations with accepted_at set
    revoked,   \* invitations with revoked_at set
    expired,   \* invitations past expires_at
    tx         \* what each handler is doing

members == <<team, role, active>>
invitations == <<to, grants, accepted, revoked>>
vars == <<members, invitations, expired, tx>>

\* Where a request is: the statement it executes next.
At == {"idle", "target", "count", "write", "demote", "claim", "waitClaim", "upsert",
       "commit"}

(***************************************************************************)
(* `actor` is the authenticated user, `target`, `new` and `inv` are the    *)
(* request's parameters, `seen` is the role that was read for the actor.   *)
(* `overlapped` is history: another request committed since this one began.*)
(***************************************************************************)
Tx == [op: Op \cup {None}, at: At, actor: User \cup {None},
       target: User \cup {None}, new: Role \cup {None},
       inv: Invitation \cup {None}, seen: Role \cup {None}, overlapped: BOOLEAN]

Request(op, at, actor, target, new, inv, seen) ==
    [op |-> op, at |-> at, actor |-> actor, target |-> target, new |-> new, inv |-> inv,
     seen |-> seen, overlapped |-> FALSE]

Idle == Request(None, "idle", None, None, None, None, None)

Init ==
    /\ team = "absent"
    /\ role = [u \in User |-> None]
    /\ active = {}
    /\ to = [i \in Invitation |-> None]
    /\ grants = [i \in Invitation |-> None]
    /\ accepted = {}
    /\ revoked = {}
    /\ expired = {}
    /\ tx = [h \in Handler |-> Idle]

\* membership: the row of a user who has not been removed, in a team not deleted.
Member(u) == team = "active" /\ u \in active

Owners == {u \in active : role[u] = "OWNER"}   \* activeOwnerCount

canAdministerTeam(r) == r \in {"OWNER", "ADMIN"}
canDeleteTeam(r) == r = "OWNER"
\* Mutant: an administrator may assign any role.
canAssignTeamRole_AnyRole(r, new) == canAdministerTeam(r)

canAssignTeamRole(r, new) == r = "OWNER" \/ (r = "ADMIN" /\ new # "OWNER")

\* Rows of invitations the partial unique index holds: expiry does not matter.
Open(i) == to[i] # None /\ i \notin accepted \cup revoked

-----------------------------------------------------------------------------
(* Row locks: what a transaction has written and not committed.            *)

\* Mutant: the membership of who changes or removes a member is read FOR UPDATE.
MembersLockedBy_ActorToo(h) ==
    LET t == tx[h] IN
    CASE t.at = "write" /\ t.op \in {"change", "remove"}      -> {t.actor}
      [] t.at = "demote"                                      -> {t.target}
      [] t.at = "commit" /\ t.op \in {"change", "remove"}     -> {t.target, t.actor}
      [] t.at = "commit" /\ t.op = "transfer"                 -> {t.target, t.actor}
      [] t.at = "commit" /\ t.op = "accept"                   -> {t.actor}
      [] OTHER                                                -> {}

MembersLockedBy(h) ==
    LET t == tx[h] IN
    CASE t.at = "demote"                                      -> {t.target}
      [] t.at = "commit" /\ t.op \in {"change", "remove"}     -> {t.target}
      [] t.at = "commit" /\ t.op = "transfer"                 -> {t.target, t.actor}
      [] t.at = "commit" /\ t.op = "accept"                   -> {t.actor}
      [] OTHER                                                -> {}

TeamLockedBy(h) == tx[h].at = "commit" /\ tx[h].op \in {"update", "delete", "restore"}

InvitationsLockedBy(h) ==
    LET t == tx[h] IN
    IF \/ t.at = "commit" /\ t.op \in {"invite", "revoke", "accept"}
       \/ t.at = "upsert"
    THEN {t.inv} ELSE {}

MemberFree(h, u) == \A g \in Handler \ {h} : u \notin MembersLockedBy(g)
InvitationFree(h, i) == \A g \in Handler \ {h} : i \notin InvitationsLockedBy(g)
TeamFree(h) == \A g \in Handler \ {h} : ~TeamLockedBy(g)

Goes(h, at) ==
    /\ tx' = [tx EXCEPT ![h].at = at]
    /\ UNCHANGED <<members, invitations, expired>>

RollsBack(h) ==
    /\ tx' = [tx EXCEPT ![h] = Idle]
    /\ UNCHANGED <<members, invitations, expired>>

\* The commit of h, as the transactions that are under way experience it.
Ends(h) ==
    /\ tx' = [g \in Handler |->
                IF g = h THEN Idle
                ELSE IF tx[g].at = "idle" THEN tx[g]
                ELSE [tx[g] EXCEPT !.overlapped = TRUE]]
    /\ UNCHANGED expired
-----------------------------------------------------------------------------
\* createWithOwner writes the team and its first member in one transaction.
Create(u) ==
    /\ team = "absent"
    /\ team' = "active"
    /\ role' = [role EXCEPT ![u] = "OWNER"]
    /\ active' = {u}
    /\ UNCHANGED <<invitations, expired, tx>>

Administrators == {r \in Role : canAdministerTeam(r)}

\* Mutant: the join on the team does not ask whether it is deleted.
RoleRead_DeletedToo(op, actor) == IF actor \in active THEN role[actor] ELSE None

\* The role that is read for the actor: restore looks at a deleted team, too.
RoleRead(op, actor) ==
    IF actor \in active /\ (team = "active" \/ op = "restore") THEN role[actor] ELSE None

\* A request refused by what it read first, with 404, 403 or 409, changes nothing.
Refuse(h) == tx[h].at = "idle" /\ UNCHANGED vars

\* Every other request begins with the statement that reads the actor's membership.
Begins(h, op, at, actor, permitted, target, new, inv) ==
    LET seen == RoleRead(op, actor) IN
    /\ tx[h].at = "idle"
    /\ op \in Offered
    /\ seen \in permitted
    /\ tx' = [tx EXCEPT ![h] = Request(op, at, actor, target, new, inv, seen)]
    /\ UNCHANGED <<members, invitations, expired>>

BeginChange(h, actor, target, new) ==
    Begins(h, "change", "target", actor, {r \in Role : canAssignTeamRole(r, new)},
           target, new, None)

BeginRemove(h, actor, target) ==
    Begins(h, "remove", "target", actor, Administrators, target, None, None)

\* Nothing keeps the new owner from being the old one.
BeginTransfer(h, actor, target) ==
    Begins(h, "transfer", "target", actor, {"OWNER"}, target, None, None)

BeginUpdate(h, actor) ==
    Begins(h, "update", "write", actor, Administrators, None, None, None)

BeginDelete(h, actor) ==
    Begins(h, "delete", "write", actor, {r \in Role : canDeleteTeam(r)}, None, None, None)

BeginRestore(h, actor) ==
    Begins(h, "restore", "write", actor, {"OWNER"}, None, None, None)

\* Mutant: the request schema lets the role OWNER through, and so does the service.
BeginInvite_AnyRole(h, actor, target, new, i) ==
    /\ to[i] = None
    /\ \A g \in Handler : tx[g].op = "invite" => tx[g].inv # i
    /\ Begins(h, "invite", "write", actor, Administrators, target, new, i)

\* Every invitation has a token of its own; none grants ownership.
BeginInvite(h, actor, target, new, i) ==
    /\ new # "OWNER"
    /\ to[i] = None
    /\ \A g \in Handler : tx[g].op = "invite" => tx[g].inv # i
    /\ Begins(h, "invite", "write", actor, Administrators, target, new, i)

BeginRevoke(h, actor, i) ==
    /\ to[i] # None
    /\ Begins(h, "revoke", "write", actor, Administrators, None, None, i)

(***************************************************************************)
(* accept reads the invitation, its team and the user, and refuses another *)
(* account's token, so the actor is the one invited.  An invitation that   *)
(* was accepted before is answered without a write.                        *)
(***************************************************************************)
BeginAccept(h, i) ==
    /\ tx[h].at = "idle"
    /\ "accept" \in Offered
    /\ to[i] # None
    /\ team = "active"
    /\ i \notin revoked \cup expired \cup accepted
    /\ tx' = [tx EXCEPT ![h] = Request("accept", "claim", to[i], None, None, i, None)]
    /\ UNCHANGED <<members, invitations, expired>>

-----------------------------------------------------------------------------
\* Mutant: changeMember does not look at removed_at of the target.
ReadTarget_RemovedToo(h) ==
    LET t == tx[h]
        owner == role[t.target] = "OWNER"
        refused == \/ t.op # "change" /\ t.target \notin active
                   \/ t.op = "transfer" /\ ~Member(t.target)
                   \/ t.op = "remove" /\ owner /\ t.seen # "OWNER"
        counts == \/ t.op = "change" /\ owner /\ t.new # "OWNER"
                  \/ t.op = "remove" /\ owner
    IN
    /\ t.at = "target"
    /\ \/ refused /\ RollsBack(h)
       \/ ~refused /\ counts /\ Goes(h, "count")
       \/ ~refused /\ ~counts /\ Goes(h, "write")

(***************************************************************************)
(* findMember reads the target without looking at the team; transfer asks  *)
(* for a member of a team that is not deleted.  An owner is demoted or     *)
(* removed only after the owners have been counted, and removed only by an *)
(* owner.                                                                  *)
(***************************************************************************)
ReadTarget(h) ==
    LET t == tx[h]
        owner == role[t.target] = "OWNER"
        refused == \/ t.target \notin active
                   \/ t.op = "transfer" /\ ~Member(t.target)
                   \/ t.op = "remove" /\ owner /\ t.seen # "OWNER"
        counts == \/ t.op = "change" /\ owner /\ t.new # "OWNER"
                  \/ t.op = "remove" /\ owner
    IN
    /\ t.at = "target"
    /\ \/ refused /\ RollsBack(h)
       \/ ~refused /\ counts /\ Goes(h, "count")
       \/ ~refused /\ ~counts /\ Goes(h, "write")

\* Mutant: off by one.
CountOwners_OffByOne(h) ==
    /\ tx[h].at = "count"
    /\ \/ Cardinality(Owners) < 1 /\ RollsBack(h)
       \/ Cardinality(Owners) >= 1 /\ Goes(h, "write")

CountOwners(h) ==
    /\ tx[h].at = "count"
    /\ \/ Cardinality(Owners) <= 1 /\ RollsBack(h)
       \/ Cardinality(Owners) > 1 /\ Goes(h, "write")

-----------------------------------------------------------------------------
(* The writes.  An UPDATE waits for the row lock, and the new values stay  *)
(* invisible until the commit.                                             *)

WriteMember(h) ==
    /\ tx[h].at = "write" /\ tx[h].op \in {"change", "remove"}
    /\ MemberFree(h, tx[h].target)
    /\ Goes(h, "commit")

\* transfer promotes the new owner first and then demotes the actor.
Promote(h) ==
    /\ tx[h].at = "write" /\ tx[h].op = "transfer"
    /\ MemberFree(h, tx[h].target)
    /\ Goes(h, "demote")

Demote(h) ==
    /\ tx[h].at = "demote"
    /\ MemberFree(h, tx[h].actor)
    /\ Goes(h, "commit")

WriteTeam(h) ==
    /\ tx[h].at = "write" /\ tx[h].op \in {"update", "delete", "restore"}
    /\ TeamFree(h)
    /\ Goes(h, "commit")

(***************************************************************************)
(* The partial unique index allows one open invitation per team and email. *)
(* The INSERT waits for transactions that are writing such a row, and      *)
(* fails if one is open then.                                              *)
(***************************************************************************)
InsertInvitation(h) ==
    LET t == tx[h]
        rivals == {i \in Invitation : to[i] = t.target /\ Open(i)}
    IN
    /\ t.at = "write" /\ t.op = "invite"
    /\ \A i \in rivals : InvitationFree(h, i)
    /\ \A g \in Handler \ {h} :
          ~(tx[g].at = "commit" /\ tx[g].op = "invite" /\ tx[g].target = t.target)
    /\ \/ rivals # {} /\ RollsBack(h)
       \/ rivals = {} /\ Goes(h, "commit")

WriteRevocation(h) ==
    /\ tx[h].at = "write" /\ tx[h].op = "revoke"
    /\ InvitationFree(h, tx[h].inv)
    /\ Goes(h, "commit")

(***************************************************************************)
(* UPDATE ... WHERE accepted_at IS NULL AND revoked_at IS NULL AND         *)
(* expires_at > $now: the time is the client's when the statement starts,  *)
(* and the row is looked at again once its lock is free.                   *)
(***************************************************************************)
ClaimStarts(h) ==
    LET i == tx[h].inv IN
    /\ tx[h].at = "claim"
    /\ \/ Open(i) /\ i \notin expired /\ Goes(h, "waitClaim")
       \/ ~(Open(i) /\ i \notin expired) /\ RollsBack(h)

\* Mutant: the row is claimed by its id alone.
ClaimLocks_NoRecheck(h) ==
    /\ tx[h].at = "waitClaim"
    /\ InvitationFree(h, tx[h].inv)
    /\ Goes(h, "upsert")

ClaimLocks(h) ==
    LET i == tx[h].inv IN
    /\ tx[h].at = "waitClaim"
    /\ InvitationFree(h, i)
    /\ \/ Open(i) /\ Goes(h, "upsert")
       \/ ~Open(i) /\ RollsBack(h)

Upsert(h) ==
    /\ tx[h].at = "upsert"
    /\ MemberFree(h, tx[h].actor)
    /\ Goes(h, "commit")

-----------------------------------------------------------------------------
Commits(h, op) == tx[h].at = "commit" /\ tx[h].op = op /\ Ends(h)

\* setMemberRole writes the role and clears removed_at.
CommitChange(h) ==
    /\ Commits(h, "change")
    /\ role' = [role EXCEPT ![tx[h].target] = tx[h].new]
    /\ active' = active \cup {tx[h].target}
    /\ UNCHANGED <<team, invitations>>

CommitRemoval(h) ==
    /\ Commits(h, "remove")
    /\ active' = active \ {tx[h].target}
    /\ UNCHANGED <<team, role, invitations>>

\* Mutant: the former owner becomes a plain member.
CommitTransfer_ToMember(h) ==
    /\ Commits(h, "transfer")
    /\ role' = [role EXCEPT ![tx[h].target] = "OWNER", ![tx[h].actor] = "MEMBER"]
    /\ UNCHANGED <<team, active, invitations>>

\* Both rows keep their removed_at, and the second write wins if they are one.
CommitTransfer(h) ==
    /\ Commits(h, "transfer")
    /\ role' = [role EXCEPT ![tx[h].target] = "OWNER", ![tx[h].actor] = "ADMIN"]
    /\ UNCHANGED <<team, active, invitations>>

\* The name and the slug, which nothing depends on.
CommitUpdate(h) == Commits(h, "update") /\ UNCHANGED <<members, invitations>>

CommitDeletion(h) ==
    /\ Commits(h, "delete")
    /\ team' = "deleted"
    /\ UNCHANGED <<role, active, invitations>>

CommitRestoration(h) ==
    /\ Commits(h, "restore")
    /\ team' = "active"
    /\ UNCHANGED <<role, active, invitations>>

CommitInvitation(h) ==
    /\ Commits(h, "invite")
    /\ to' = [to EXCEPT ![tx[h].inv] = tx[h].target]
    /\ grants' = [grants EXCEPT ![tx[h].inv] = tx[h].new]
    /\ UNCHANGED <<members, accepted, revoked>>

CommitRevocation(h) ==
    /\ Commits(h, "revoke")
    /\ revoked' = revoked \cup {tx[h].inv}
    /\ UNCHANGED <<members, to, grants, accepted>>

\* The upsert gives the invitation's role to a member who had another one, too.
CommitAcceptance(h) ==
    LET t == tx[h] IN
    /\ Commits(h, "accept")
    /\ accepted' = accepted \cup {t.inv}
    /\ role' = [role EXCEPT ![t.actor] = grants[t.inv]]
    /\ active' = active \cup {t.actor}
    /\ UNCHANGED <<team, to, grants, revoked>>

\* A statement fails, the time limit of the transaction passes, or the process stops.
Abort(h) == tx[h].at # "idle" /\ RollsBack(h)

\* Two transfers between the same users lock their rows in opposite orders.
WaitsFor(h) ==
    LET t == tx[h] IN
    CASE t.at = "write" /\ t.op \in {"change", "remove", "transfer"} -> {t.target}
      [] t.at \in {"demote", "upsert"}                               -> {t.actor}
      [] OTHER                                                       -> {}

BlockedBy(h, others) ==
    \E u \in WaitsFor(h), g \in others \ {h} : u \in MembersLockedBy(g)

DeadlockVictim(h) ==
    /\ \E cycle \in SUBSET Handler : h \in cycle /\ \A g \in cycle : BlockedBy(g, cycle)
    /\ RollsBack(h)

Expire(i) ==
    /\ to[i] # None
    /\ i \notin expired
    /\ expired' = expired \cup {i}
    /\ UNCHANGED <<members, invitations, tx>>

Begin(h) ==
    \/ \E a, u \in User :
         \/ \E r \in Role :
              \/ BeginChange(h, a, u, r)
              \/ \E i \in Invitation : BeginInvite(h, a, u, r, i)
         \/ BeginRemove(h, a, u) \/ BeginTransfer(h, a, u)
    \/ \E a \in User :
         \/ BeginUpdate(h, a) \/ BeginDelete(h, a) \/ BeginRestore(h, a)
         \/ \E i \in Invitation : BeginRevoke(h, a, i)
    \/ \E i \in Invitation : BeginAccept(h, i)

\* What the server does on its own once a request has begun.
Step(h) ==
    \/ ReadTarget(h) \/ CountOwners(h)
    \/ WriteMember(h) \/ Promote(h) \/ Demote(h) \/ WriteTeam(h)
    \/ InsertInvitation(h) \/ WriteRevocation(h)
    \/ ClaimStarts(h) \/ ClaimLocks(h) \/ Upsert(h)
    \/ CommitChange(h) \/ CommitRemoval(h) \/ CommitTransfer(h)
    \/ CommitUpdate(h) \/ CommitDeletion(h) \/ CommitRestoration(h)
    \/ CommitInvitation(h) \/ CommitRevocation(h) \/ CommitAcceptance(h)

Next ==
    \/ \E u \in User : Create(u)
    \/ \E h \in Handler : Refuse(h) \/ Begin(h) \/ Step(h) \/ Abort(h) \/ DeadlockVictim(h)
    \/ \E i \in Invitation : Expire(i)

Spec == Init /\ [][Next]_vars
-----------------------------------------------------------------------------
TypeOK ==
    /\ team \in {"absent", "active", "deleted"}
    /\ role \in [User -> Role \cup {None}]
    /\ active \subseteq {u \in User : role[u] # None}
    /\ team = "absent" => active = {}
    /\ to \in [Invitation -> User \cup {None}]
    /\ grants \in [Invitation -> {"ADMIN", "MEMBER", None}]
    /\ accepted \cup revoked \cup expired \subseteq {i \in Invitation : to[i] # None}
    /\ tx \in [Handler -> Tx]

\* The request of h commits in this step.
Committing(h, op) == tx[h].at = "commit" /\ tx[h].op = op /\ tx'[h] = Idle

(***************************************************************************)
(* "Last owner cannot be removed or demoted": as long as requests do not   *)
(* overlap, a team that has an active owner keeps one, whatever sequence   *)
(* of role changes, removals, transfers and invitations is asked for, with *)
(* two exceptions, which no check in the code covers: a transfer of the    *)
(* ownership to oneself and an owner accepting an invitation to a lower    *)
(* role.                                                                   *)
(***************************************************************************)
LastOwnerStays ==
    [][Owners # {} /\ Owners' = {} =>
          \E h \in Handler :
             \/ /\ tx[h].overlapped
                /\ Committing(h, "change") \/ Committing(h, "remove")
                      \/ Committing(h, "transfer")
             \/ Committing(h, "transfer") /\ tx[h].target = tx[h].actor
             \/ Committing(h, "accept")]_vars

(***************************************************************************)
(* "Reject accepted, revoked, expired, or mismatched invitations": however *)
(* acceptances and revocations of one invitation race, it is accepted at   *)
(* most once, never after it was revoked, by nobody but its addressee, and *)
(* only that acceptance changes the addressee's membership.                *)
(***************************************************************************)
InvitationUsedOnce ==
    [][\A h \in Handler : Committing(h, "accept") =>
          LET i == tx[h].inv IN
          members' # members \/ accepted' # accepted =>
             /\ i \notin accepted \cup revoked
             /\ accepted' = accepted \cup {i}
             /\ \A u \in User \ {to[i]} : role'[u] = role[u]
             /\ active' \ active \subseteq {to[i]}]_vars

(***************************************************************************)
(* Only an owner makes an owner: whoever becomes an active owner does so   *)
(* by the request of somebody who was an active owner while it ran, never  *)
(* through an administrator or an invitation.                              *)
(***************************************************************************)
OwnersComeFromOwners ==
    [][Owners' \ Owners # {} =>
          \/ team = "absent"
          \/ \E h \in Handler :
               /\ tx[h].seen = "OWNER"
               /\ Committing(h, "change") \/ Committing(h, "transfer")]_vars

(***************************************************************************)
(* A removed member comes back only by accepting an invitation, or through *)
(* a role change that began before the removal was committed.              *)
(***************************************************************************)
RemovedStaysRemoved ==
    [][\A u \in active' \ active :
          \/ team = "absent"
          \/ \E h \in Handler :
               \/ Committing(h, "accept") /\ tx[h].actor = u
               \/ Committing(h, "change") /\ tx[h].overlapped]_vars

(***************************************************************************)
(* A deleted team is frozen: its members and invitations change only by    *)
(* requests that were already running when it was deleted, and only a      *)
(* restoration, which an active owner asks for, brings it back.            *)
(***************************************************************************)
DeletedTeamFrozen ==
    [][team = "deleted" =>
          \/ UNCHANGED <<members, invitations>>
          \/ \E h \in Handler :
               \/ tx[h].overlapped /\ tx'[h] = Idle /\ team' = team
               \/ Committing(h, "restore") /\ tx[h].seen = "OWNER"]_vars

(***************************************************************************)
(* "Last owner cannot be removed": nobody removes somebody else who is the *)
(* only active owner of the team.                                          *)
(***************************************************************************)
LastOwnerNotRemoved ==
    [][Owners # {} /\ Owners' = {} =>
          \A h \in Handler : Committing(h, "remove") => tx[h].target = tx[h].actor]_vars

(***************************************************************************)
(* Requests that wait for each other's rows, so that the database has to   *)
(* roll one of them back, are there only because of transfers: among them  *)
(* are two transfers that different owners ask for, one of which promotes  *)
(* whom the other one is about to demote.  Role changes, removals and      *)
(* acceptances never wait in a circle on their own.                        *)
(***************************************************************************)
DeadlocksAreTransfers ==
    \A cycle \in (SUBSET Handler) \ {{}} :
       (\A g \in cycle : BlockedBy(g, cycle)) =>
          \E g, h \in cycle :
             /\ tx[g].op = "transfer" /\ tx[h].op = "transfer"
             /\ tx[g].seen = "OWNER" /\ tx[h].seen = "OWNER"
             /\ tx[g].actor = tx[h].target /\ tx[g].actor # tx[h].actor

\* An owner counts as an administrator, and nobody as a member of a deleted team.
TeamRoleOf(u) ==
    IF ~Member(u) THEN None ELSE IF role[u] = "OWNER" THEN "ADMIN" ELSE role[u]

Seen == INSTANCE TeamRoles WITH roles <- [u \in User |-> TeamRoleOf(u)]

(***************************************************************************)
(* To the projects of the team, all this looks as if one user at a time    *)
(* joined, left or got another role, except for transfers of the ownership *)
(* and for the team being deleted and restored: nothing that a request     *)
(* does shows in parts.                                                    *)
(***************************************************************************)
ImplementsTeamRoles == Seen!Spec
=============================================================================
