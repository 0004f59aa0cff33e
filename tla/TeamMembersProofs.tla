-------------------------- MODULE TeamMembersProofs --------------------------
(***************************************************************************)
(* Proofs about TeamMembers for any number of users, invitations and       *)
(* requests.                                                               *)
(*                                                                         *)
(* What a request has read stays true as long as no other one commits,     *)
(* which `overlapped` records (Fresh).  Three facts do not depend on that: *)
(* the role that permitted the request (Permitted), whose invitation it    *)
(* accepts (Position), and that a claimed invitation stays open            *)
(* (Claimed), since its row is locked until the commit (Exclusive).        *)
(***************************************************************************)
EXTENDS TeamMembers, FiniteSetTheorems, TLAPS

USE NoneAssumption, OfferedAssumption DEF Role, Op

OnMember == {"change", "remove", "transfer"}
OnInvitation == {"invite", "revoke", "accept"}

\* The row of the target has been read.
Found(t) == t.at \in {"count", "write", "demote", "commit"}

\* What the position of a request says of its operation and its parameters.
Position(t) ==
    /\ t.at = "idle" => t = Idle
    /\ t.at # "idle" => t.op \in Op /\ t.actor \in User /\ team # "absent"
    /\ t.op \in OnMember \cup {"invite"} => t.target \in User
    /\ t.op = "change" => t.new \in Role
    /\ t.op = "invite" => t.new \in {"ADMIN", "MEMBER"} /\ to[t.inv] = None
    /\ t.op \in OnInvitation => t.inv \in Invitation
    /\ t.op = "revoke" => to[t.inv] # None
    /\ t.op = "accept" => t.actor = to[t.inv]
    /\ t.at \in {"target", "count"} => t.op \in OnMember
    /\ t.at \in {"claim", "waitClaim", "upsert"} => t.op = "accept"
    /\ t.at = "demote" => t.op = "transfer"
    /\ t.at = "write" => t.op # "accept"

\* The role that was read for the actor permits the request.
Permitted(t) ==
    /\ t.op = "change" => canAssignTeamRole(t.seen, t.new)
    /\ t.op \in {"transfer", "delete", "restore"} => t.seen = "OWNER"

\* The write of h would take the role of an owner away.
Demotes(t) ==
    /\ \/ t.op = "change" /\ t.new # "OWNER"
       \/ t.op = "remove"
    /\ role[t.target] = "OWNER"

\* What it has read of the members, as long as nobody else commits.
Fresh(t) ==
    t.at # "idle" /\ ~t.overlapped =>
       /\ team = "active" \/ (t.op = "restore" /\ t.seen = "OWNER")
       /\ t.op \in OnMember /\ Found(t) => t.target \in active
       /\ Demotes(t) /\ t.at \in {"write", "commit"} => Cardinality(Owners) > 1

\* It has the row of its invitation locked.
Holds(t) ==
    \/ t.at = "commit" /\ t.op \in OnInvitation
    \/ t.at = "upsert"

\* A claimed invitation stays open.
Claimed(t) == t.op = "accept" /\ Holds(t) => Open(t.inv)

Sound(t) == Position(t) /\ Permitted(t) /\ Fresh(t) /\ Claimed(t)

Sounds == \A h \in Handler : Sound(tx[h])

\* Two requests that cannot be under way together.
Excludes(s, t) ==
    \/ s.op = "invite" /\ t.op = "invite" /\ s.inv = t.inv
    \/ Holds(s) /\ Holds(t) /\ s.inv = t.inv

Exclusive == \A g, h \in Handler : g # h => ~Excludes(tx[g], tx[h])

\* An invitation that was sent grants a role.
Granted == \A i \in Invitation : to[i] # None => grants[i] # None

IInv == TypeOK /\ Granted /\ Sounds /\ Exclusive
-----------------------------------------------------------------------------
LEMMA IdleIsTx ==
    /\ Idle \in Tx /\ Idle.at = "idle" /\ Sound(Idle)
    /\ \A t \in Tx : ~Excludes(Idle, t) /\ ~Excludes(t, Idle)
<1>1. Idle \in Tx /\ Idle.at = "idle"
  BY DEF Idle, Request, Tx, At
<1>2. Sound(Idle)
  BY DEF Idle, Request, Sound, Position, Permitted, Fresh, Claimed, Holds, OnMember,
         OnInvitation
<1>3. \A t \in Tx : ~Excludes(Idle, t) /\ ~Excludes(t, Idle)
  BY DEF Idle, Request, Excludes, Holds
<1> QED BY <1>1, <1>2, <1>3

LEMMA IdleStays ==
    ASSUME NEW h, tx'[h] = Idle
    PROVE  Sound(tx[h])'
BY DEF Idle, Request, Sound, Position, Permitted, Fresh, Claimed, Holds, OnMember,
       OnInvitation

LEMMA InvInit == Init => IInv
<1> SUFFICES ASSUME Init PROVE IInv
  OBVIOUS
<1>1. TypeOK
  BY IdleIsTx DEF Init, TypeOK
<1>2. Sounds
  BY IdleIsTx DEF Init, Sounds
<1>3. Exclusive
  BY IdleIsTx DEF Init, Exclusive
<1>4. Granted
  BY DEF Init, Granted
<1> QED BY <1>1, <1>2, <1>3, <1>4 DEF IInv

\* A step of h that changes nothing but its own state.
LEMMA OwnStep ==
    ASSUME IInv, NEW h \in Handler, NEW t \in Tx, Sound(t),
           \A g \in Handler \ {h} : ~Excludes(tx[g], t) /\ ~Excludes(t, tx[g]),
           tx' = [tx EXCEPT ![h] = t], UNCHANGED <<members, invitations, expired>>
    PROVE  IInv'
<1>1. TypeOK'
  BY DEF IInv, TypeOK, members, invitations
<1>2. Sounds'
  <2> SUFFICES ASSUME NEW g \in Handler PROVE Sound(tx[g])'
    BY DEF Sounds
  <2>1. PICK u \in Tx : u = tx'[g] /\ Sound(u)
    BY DEF IInv, TypeOK, Sounds
  <2>2. Owners' = Owners
    BY DEF Owners, members
  <2> QED BY <2>1, <2>2 DEF Sound, Position, Permitted, canAssignTeamRole, Fresh, Found,
             Demotes, Claimed, Holds, Open, members, invitations
<1>3. Exclusive'
  <2> SUFFICES ASSUME NEW g \in Handler, NEW k \in Handler, g # k
               PROVE  ~Excludes(tx[g], tx[k])'
    BY DEF Exclusive
  <2>1. PICK u, v : u = tx'[g] /\ v = tx'[k]
    OBVIOUS
  <2>2. ~Excludes(u, v)
    BY <2>1 DEF IInv, TypeOK, Exclusive
  <2> QED BY <2>1, <2>2 DEF Excludes, Holds
<1>4. Granted'
  BY DEF IInv, Granted, invitations
<1> QED BY <1>1, <1>2, <1>3, <1>4 DEF IInv

LEMMA RollsBackStep ==
    ASSUME IInv, NEW h \in Handler, RollsBack(h)
    PROVE  IInv'
BY IdleIsTx, OwnStep DEF RollsBack, IInv, TypeOK

\* The role that is read is that of an active member, of an active team unless it
\* is to be restored.
LEMMA RoleReadMeans ==
    ASSUME TypeOK, NEW op \in Op, NEW u \in User, RoleRead(op, u) # None
    PROVE  /\ RoleRead(op, u) \in Role /\ team # "absent"
           /\ op # "restore" => team = "active"
BY DEF RoleRead, TypeOK

LEMMA BeginsStep ==
    ASSUME IInv, NEW h \in Handler, NEW op \in Op \ {"accept"}, NEW at \in {"target", "write"},
           NEW a \in User, NEW permitted \in SUBSET Role, NEW target \in User \cup {None},
           NEW new \in Role \cup {None}, NEW inv \in Invitation \cup {None},
           Begins(h, op, at, a, permitted, target, new, inv),
           (at = "target") <=> op \in OnMember,
           op \in OnMember \cup {"invite"} => target \in User,
           op = "change" => new \in Role /\ \A r \in permitted : canAssignTeamRole(r, new),
           op \in {"transfer", "delete", "restore"} => \A r \in permitted : r = "OWNER",
           op \in OnInvitation => inv \in Invitation,
           op = "revoke" => to[inv] # None,
           op = "invite" => /\ new # "OWNER" /\ new \in Role /\ to[inv] = None
                            /\ \A g \in Handler : tx[g].op = "invite" => tx[g].inv # inv
    PROVE  IInv'
<1>1. PICK seen : seen = RoleRead(op, a)
  OBVIOUS
<1>2. PICK t : t = Request(op, at, a, target, new, inv, seen)
  OBVIOUS
<1>3. /\ seen \in permitted /\ seen \in Role
      /\ tx' = [tx EXCEPT ![h] = t] /\ UNCHANGED <<members, invitations, expired>>
  BY <1>1, <1>2 DEF Begins
<1>4. team # "absent" /\ (op # "restore" => team = "active")
  BY <1>1, <1>3, RoleReadMeans DEF IInv
<1>5. t \in Tx
  BY <1>2, <1>3 DEF Request, Tx, At
<1>6. Position(t)
  BY <1>2, <1>4 DEF Request, Position, OnMember, OnInvitation
<1>7. Permitted(t)
  BY <1>2, <1>3 DEF Request, Permitted
<1>8. Fresh(t)
  <2>1. op = "restore" => seen = "OWNER"
    BY <1>3
  <2> QED BY <1>2, <1>4, <2>1 DEF Request, Fresh, Found, Demotes, OnMember
<1>9. Claimed(t)
  BY <1>2 DEF Request, Claimed
<1>10. \A g \in Handler \ {h} : ~Excludes(tx[g], t) /\ ~Excludes(t, tx[g])
  BY <1>2 DEF Request, Excludes, Holds
<1> QED BY <1>3, <1>5, <1>6, <1>7, <1>8, <1>9, <1>10, OwnStep DEF Sound

LEMMA BeginAcceptStep ==
    ASSUME IInv, NEW h \in Handler, NEW i \in Invitation, BeginAccept(h, i)
    PROVE  IInv'
<1>1. PICK t : t = Request("accept", "claim", to[i], None, None, i, None)
  OBVIOUS
<1>2. tx' = [tx EXCEPT ![h] = t] /\ UNCHANGED <<members, invitations, expired>>
  BY <1>1 DEF BeginAccept
<1>3. to[i] \in User
  BY DEF BeginAccept, IInv, TypeOK
<1>4. t \in Tx
  BY <1>1, <1>3 DEF Request, Tx, At
<1>5. Sound(t)
  BY <1>1, <1>3 DEF BeginAccept, Request, Sound, Position, Permitted, Fresh, Found, Demotes,
     Claimed, Holds, OnMember, OnInvitation
<1>6. \A g \in Handler \ {h} : ~Excludes(tx[g], t) /\ ~Excludes(t, tx[g])
  BY <1>1 DEF Request, Excludes, Holds
<1> QED BY <1>2, <1>4, <1>5, <1>6, OwnStep

LEMMA BeginStep ==
    ASSUME IInv, NEW h \in Handler, Begin(h)
    PROVE  IInv'
<1>1. Administrators \subseteq Role
  BY DEF Administrators
<1>2. ASSUME NEW a \in User, NEW u \in User, NEW r \in Role, BeginChange(h, a, u, r) PROVE IInv'
  BY <1>2, BeginsStep DEF BeginChange, OnMember, OnInvitation
<1>3. ASSUME NEW a \in User, NEW u \in User, BeginRemove(h, a, u) PROVE IInv'
  BY <1>1, <1>3, BeginsStep DEF BeginRemove, OnMember, OnInvitation
<1>4. ASSUME NEW a \in User, NEW u \in User, BeginTransfer(h, a, u) PROVE IInv'
  BY <1>4, BeginsStep DEF BeginTransfer, OnMember, OnInvitation
<1>5. ASSUME NEW a \in User, BeginUpdate(h, a) PROVE IInv'
  BY <1>1, <1>5, BeginsStep DEF BeginUpdate, OnMember, OnInvitation
<1>6. ASSUME NEW a \in User, BeginDelete(h, a) PROVE IInv'
  BY <1>6, BeginsStep DEF BeginDelete, canDeleteTeam, OnMember, OnInvitation
<1>7. ASSUME NEW a \in User, BeginRestore(h, a) PROVE IInv'
  BY <1>7, BeginsStep DEF BeginRestore, OnMember, OnInvitation
<1>8. ASSUME NEW a \in User, NEW u \in User, NEW r \in Role, NEW i \in Invitation,
             BeginInvite(h, a, u, r, i)
      PROVE  IInv'
  BY <1>1, <1>8, BeginsStep DEF BeginInvite, OnMember, OnInvitation
<1>9. ASSUME NEW a \in User, NEW i \in Invitation, BeginRevoke(h, a, i) PROVE IInv'
  BY <1>1, <1>9, BeginsStep DEF BeginRevoke, OnMember, OnInvitation
<1> QED BY <1>2, <1>3, <1>4, <1>5, <1>6, <1>7, <1>8, <1>9, BeginAcceptStep DEF Begin
-----------------------------------------------------------------------------
\* A request that may go on does so.
LEMMA GoesStep ==
    ASSUME IInv, NEW h \in Handler, NEW at \in At \ {"idle"}, Goes(h, at),
           tx[h].at # "idle",
           at \in {"target", "count"} => tx[h].op \in OnMember,
           at \in {"claim", "waitClaim", "upsert"} => tx[h].op = "accept",
           at = "demote" => tx[h].op = "transfer",
           at = "write" => tx[h].op # "accept",
           tx[h].op \in OnMember => Found(tx[h]) \/ tx[h].target \in active,
           at \in {"write", "commit"} /\ Demotes(tx[h]) =>
              tx[h].at = "write" \/ Cardinality(Owners) > 1,
           tx[h].op = "accept" /\ at \in {"upsert", "commit"} =>
              tx[h].at = "upsert" \/ Open(tx[h].inv),
           at = "upsert" \/ (at = "commit" /\ tx[h].op \in OnInvitation) =>
              tx[h].op = "invite" \/ tx[h].at = "upsert" \/ InvitationFree(h, tx[h].inv)
    PROVE  IInv'
<1>1. PICK t : t = [tx[h] EXCEPT !.at = at]
  OBVIOUS
<1>2. /\ t \in Tx /\ t.at = at /\ t.op = tx[h].op /\ t.actor = tx[h].actor
      /\ t.target = tx[h].target /\ t.new = tx[h].new /\ t.inv = tx[h].inv
      /\ t.seen = tx[h].seen /\ t.overlapped = tx[h].overlapped
  <2>1. tx[h] \in Tx
    BY DEF IInv, TypeOK
  <2> QED BY <1>1, <2>1 DEF Tx
<1>3. tx' = [tx EXCEPT ![h] = t] /\ UNCHANGED <<members, invitations, expired>>
  BY <1>1 DEF Goes
<1>4. Sound(tx[h])
  BY DEF IInv, Sounds
<1>5. Position(t)
  BY <1>2, <1>4 DEF Sound, Position
<1>6. Permitted(t)
  BY <1>2, <1>4 DEF Sound, Permitted
<1>7. Fresh(t)
  <2>1. Demotes(t) <=> Demotes(tx[h])
    BY <1>2 DEF Demotes
  <2> QED BY <1>2, <1>4, <2>1 DEF Sound, Fresh
<1>8. Claimed(t)
  BY <1>2, <1>4 DEF Sound, Claimed, Holds
<1>9. \A g \in Handler \ {h} : ~Excludes(tx[g], t) /\ ~Excludes(t, tx[g])
  <2> TAKE g \in Handler \ {h}
  <2>1. ~Excludes(tx[g], tx[h]) /\ ~Excludes(tx[h], tx[g]) /\ Position(tx[g])
    BY DEF IInv, Exclusive, Sounds, Sound
  <2>2. InvitationFree(h, tx[h].inv) /\ Holds(tx[g]) => tx[g].inv # tx[h].inv
    BY DEF InvitationFree, InvitationsLockedBy, Holds, OnInvitation
  <2>3. Holds(tx[g]) => tx[g].op \in OnInvitation
    BY <2>1 DEF Holds, Position, OnInvitation
  <2>4. Holds(t) /\ Holds(tx[g]) => tx[g].inv # t.inv
    <3> SUFFICES ASSUME Holds(t), Holds(tx[g]), tx[g].inv = tx[h].inv PROVE FALSE
      BY <1>2
    <3>1. tx[h].op = "invite"
      BY <1>2, <2>1, <2>2 DEF Holds, Excludes
    <3> QED BY <1>4, <2>1, <2>3, <3>1 DEF Sound, Position, OnInvitation, Excludes, Holds
  <2> QED BY <1>2, <2>1, <2>4 DEF Excludes
<1> QED BY <1>2, <1>3, <1>5, <1>6, <1>7, <1>8, <1>9, OwnStep DEF Sound

LEMMA StepsOn ==
    ASSUME IInv, NEW h \in Handler,
           \/ ReadTarget(h) \/ CountOwners(h)
           \/ WriteMember(h) \/ Promote(h) \/ Demote(h) \/ WriteTeam(h)
           \/ InsertInvitation(h) \/ WriteRevocation(h)
           \/ ClaimStarts(h) \/ ClaimLocks(h) \/ Upsert(h)
    PROVE  IInv'
<1>1. Position(tx[h])
  BY DEF IInv, Sounds, Sound
<1> USE DEF OnMember, OnInvitation, At, Found
<1>2. CASE ReadTarget(h)
  <2>1. CASE RollsBack(h)
    BY <2>1, RollsBackStep
  <2>2. CASE ~RollsBack(h)
    <3>1. /\ tx[h].at = "target" /\ tx[h].target \in active
          /\ Goes(h, "count") \/ (Goes(h, "write") /\ ~Demotes(tx[h]))
      BY <1>2, <2>2 DEF ReadTarget, Demotes
    <3> QED BY <1>1, <3>1, GoesStep DEF Position
  <2> QED BY <2>1, <2>2
<1>3. CASE CountOwners(h)
  <2>1. CASE RollsBack(h)
    BY <2>1, RollsBackStep
  <2>2. CASE tx[h].at = "count" /\ Cardinality(Owners) > 1 /\ Goes(h, "write")
    BY <1>1, <2>2, GoesStep DEF Position
  <2> QED BY <1>3, <2>1, <2>2 DEF CountOwners
<1>4. CASE WriteMember(h)
  BY <1>1, <1>4, GoesStep DEF WriteMember
<1>5. CASE Promote(h)
  BY <1>1, <1>5, GoesStep DEF Promote
<1>6. CASE Demote(h)
  BY <1>1, <1>6, GoesStep DEF Demote, Position, Demotes
<1>7. CASE WriteTeam(h)
  BY <1>1, <1>7, GoesStep DEF WriteTeam
<1>8. CASE InsertInvitation(h)
  <2>1. CASE RollsBack(h)
    BY <2>1, RollsBackStep
  <2>2. CASE tx[h].at = "write" /\ tx[h].op = "invite" /\ Goes(h, "commit")
    BY <1>1, <2>2, GoesStep
  <2> QED BY <1>8, <2>1, <2>2 DEF InsertInvitation
<1>9. CASE WriteRevocation(h)
  BY <1>1, <1>9, GoesStep DEF WriteRevocation
<1>10. CASE ClaimStarts(h)
  <2>1. CASE RollsBack(h)
    BY <2>1, RollsBackStep
  <2>2. CASE tx[h].at = "claim" /\ Goes(h, "waitClaim")
    BY <1>1, <2>2, GoesStep DEF Position
  <2> QED BY <1>10, <2>1, <2>2 DEF ClaimStarts
<1>11. CASE ClaimLocks(h)
  <2>1. CASE RollsBack(h)
    BY <2>1, RollsBackStep
  <2>2. CASE /\ tx[h].at = "waitClaim" /\ InvitationFree(h, tx[h].inv)
             /\ Open(tx[h].inv) /\ Goes(h, "upsert")
    BY <1>1, <2>2, GoesStep DEF Position
  <2> QED BY <1>11, <2>1, <2>2 DEF ClaimLocks
<1>12. CASE Upsert(h)
  BY <1>1, <1>12, GoesStep DEF Upsert, Position, Demotes
<1> QED BY <1>2, <1>3, <1>4, <1>5, <1>6, <1>7, <1>8, <1>9, <1>10, <1>11, <1>12
-----------------------------------------------------------------------------
\* The commit of h: whatever else is under way has overlapped.
LEMMA EndsStep ==
    ASSUME IInv, NEW h \in Handler, NEW op \in Op, Commits(h, op),
           team' \in {"active", "deleted"},
           role' \in [User -> Role \cup {None}],
           active' \subseteq {u \in User : role'[u] # None},
           \/ /\ op = "invite"
              /\ to' = [to EXCEPT ![tx[h].inv] = tx[h].target]
              /\ grants' = [grants EXCEPT ![tx[h].inv] = tx[h].new]
              /\ UNCHANGED <<accepted, revoked>>
           \/ /\ op \in OnInvitation \ {"invite"}
              /\ accepted' \cup revoked' = accepted \cup revoked \cup {tx[h].inv}
              /\ UNCHANGED <<to, grants>>
           \/ UNCHANGED invitations
    PROVE  IInv'
<1>1. /\ tx[h].at = "commit" /\ tx[h].op = op /\ UNCHANGED expired
      /\ \A g \in Handler : tx[g] \in Tx
      /\ Position(tx[h])
  BY DEF Commits, Ends, IInv, TypeOK, Sounds, Sound
<1>2. /\ op = "invite" => tx[h].inv \in Invitation /\ to[tx[h].inv] = None
                         /\ tx[h].target \in User /\ tx[h].new \in {"ADMIN", "MEMBER"}
      /\ op \in OnInvitation => tx[h].inv \in Invitation /\ Holds(tx[h])
      /\ op \in OnInvitation \ {"invite"} => to[tx[h].inv] \in User
  BY <1>1 DEF Position, OnInvitation, Holds, IInv, TypeOK
<1>3. ASSUME NEW g \in Handler \ {h}
      PROVE  /\ tx'[g] \in Tx /\ tx'[g].at = tx[g].at /\ tx'[g].op = tx[g].op
             /\ tx'[g].actor = tx[g].actor /\ tx'[g].target = tx[g].target
             /\ tx'[g].new = tx[g].new /\ tx'[g].inv = tx[g].inv /\ tx'[g].seen = tx[g].seen
             /\ tx[g].at = "idle" => tx'[g] = tx[g]
             /\ tx[g].at # "idle" => tx'[g].overlapped
  <2>1. tx[g] \in Tx /\ g \in Handler /\ g # h
    BY <1>1
  <2>2. CASE tx[g].at = "idle"
    BY <2>1, <2>2 DEF Commits, Ends
  <2>3. CASE tx[g].at # "idle"
    <3>1. tx'[g] = [tx[g] EXCEPT !.overlapped = TRUE]
      BY <2>1, <2>3 DEF Commits, Ends
    <3> QED BY <2>1, <2>3, <3>1 DEF Tx
  <2> QED BY <2>2, <2>3
<1>4. tx' \in [Handler -> Tx] /\ tx'[h] = Idle
  <2>1. tx'[h] = Idle /\ tx' = [g \in Handler |-> tx'[g]]
    BY DEF Commits, Ends
  <2> QED BY <1>3, <2>1, IdleIsTx
<1>5. /\ to' \in [Invitation -> User \cup {None}]
      /\ grants' \in [Invitation -> {"ADMIN", "MEMBER", None}]
      /\ accepted' \cup revoked' \cup expired' \subseteq {i \in Invitation : to'[i] # None}
      /\ \A i \in Invitation : to[i] # None => to'[i] = to[i]
  <2>1. CASE op = "invite"
    BY <1>1, <1>2, <2>1 DEF IInv, TypeOK, invitations
  <2>2. CASE op # "invite"
    BY <1>1, <1>2, <2>2 DEF IInv, TypeOK, invitations
  <2> QED BY <2>1, <2>2
<1>6. TypeOK'
  BY <1>4, <1>5 DEF TypeOK
<1>7. Sounds'
  <2> SUFFICES ASSUME NEW g \in Handler PROVE Sound(tx[g])'
    BY DEF Sounds
  <2>1. CASE g = h \/ tx[g].at = "idle"
    <3>1. tx'[g] = Idle
      BY <1>3, <1>4, <2>1 DEF IInv, Sounds, Sound, Position
    <3> QED BY <3>1, IdleStays
  <2>2. CASE g # h /\ tx[g].at # "idle"
    <3>1. PICK u, t : /\ u = tx'[g] /\ t = tx[g] /\ t \in Tx /\ Sound(t) /\ ~Excludes(t, tx[h])
      BY <1>1, <2>2 DEF IInv, Sounds, Exclusive
    <3>2. /\ u.at = t.at /\ u.op = t.op /\ u.actor = t.actor /\ u.target = t.target
          /\ u.new = t.new /\ u.inv = t.inv /\ u.seen = t.seen
          /\ u.at # "idle" /\ u.overlapped
      BY <1>3, <2>2, <3>1
    <3>3. t.op = "invite" => to'[t.inv] = None
      <4> SUFFICES ASSUME t.op = "invite" PROVE to'[t.inv] = None
        OBVIOUS
      <4>1. t.inv \in Invitation /\ to[t.inv] = None
        BY <3>1 DEF Sound, Position, OnInvitation
      <4>2. op = "invite" => t.inv # tx[h].inv
        BY <1>1, <3>1 DEF Excludes
      <4> QED BY <1>2, <4>1, <4>2 DEF IInv, TypeOK, invitations
    <3>4. /\ t.op = "revoke" => to'[t.inv] # None
          /\ t.op = "accept" => t.actor = to'[t.inv]
      <4>1. t.op \in {"revoke", "accept"} => t.inv \in Invitation /\ to[t.inv] # None
        BY <2>2, <3>1 DEF Sound, Position, OnInvitation
      <4> QED BY <1>5, <3>1, <4>1 DEF Sound, Position
    <3>5. Position(u)'
      BY <3>1, <3>2, <3>3, <3>4 DEF Sound, Position
    <3>6. Permitted(u)
      BY <3>1, <3>2 DEF Sound, Permitted
    <3>7. Fresh(u)'
      BY <3>2 DEF Fresh
    <3>8. Claimed(u)'
      <4> SUFFICES ASSUME t.op = "accept", Holds(t) PROVE Open(t.inv)'
        BY <3>2 DEF Claimed, Holds
      <4>1. Open(t.inv) /\ t.inv \in Invitation
        BY <3>1 DEF Sound, Claimed, Position, OnInvitation
      <4>2. to'[t.inv] # None
        BY <1>5, <4>1 DEF Open
      <4>3. op \in OnInvitation => t.inv # tx[h].inv
        BY <1>2, <3>1 DEF Excludes
      <4>4. t.inv \notin accepted' \cup revoked'
        BY <4>1, <4>3 DEF Open, invitations
      <4> QED BY <4>2, <4>4 DEF Open
    <3> QED BY <3>1, <3>5, <3>6, <3>7, <3>8
            DEF Sound, Position, Permitted, Fresh, Found, Demotes, Owners, Claimed, Holds, Open
  <2> QED BY <2>1, <2>2
<1>8. Exclusive'
  <2> SUFFICES ASSUME NEW g \in Handler, NEW k \in Handler, g # k
               PROVE  ~Excludes(tx[g], tx[k])'
    BY DEF Exclusive
  <2>1. PICK u, v : u = tx'[g] /\ v = tx'[k] /\ u \in Tx /\ v \in Tx
    BY <1>4
  <2>2. CASE g = h \/ k = h
    <3>1. ~Excludes(u, v)
      BY <1>4, <2>1, <2>2, IdleIsTx
    <3> QED BY <2>1, <3>1 DEF Excludes, Holds
  <2>3. CASE g # h /\ k # h
    <3>1. ~Excludes(tx[g], tx[k])
      BY DEF IInv, Exclusive
    <3>2. g \in Handler \ {h} /\ k \in Handler \ {h}
      BY <2>3
    <3> QED BY <1>3, <3>1, <3>2 DEF Excludes, Holds
  <2> QED BY <2>2, <2>3
<1>9. Granted'
  <2>1. CASE op = "invite"
    BY <1>1, <1>2, <2>1 DEF IInv, TypeOK, Granted, invitations
  <2>2. CASE op # "invite"
    BY <1>1, <2>2 DEF IInv, Granted, invitations
  <2> QED BY <2>1, <2>2
<1> QED BY <1>6, <1>7, <1>8, <1>9 DEF IInv

CommitsOf(h) ==
    \/ CommitChange(h) \/ CommitRemoval(h) \/ CommitTransfer(h)
    \/ CommitUpdate(h) \/ CommitDeletion(h) \/ CommitRestoration(h)
    \/ CommitInvitation(h) \/ CommitRevocation(h) \/ CommitAcceptance(h)

LEMMA CommitsStep ==
    ASSUME IInv, NEW h \in Handler, CommitsOf(h)
    PROVE  IInv'
<1> DEFINE Ok ==
      /\ team' \in {"active", "deleted"}
      /\ role' \in [User -> Role \cup {None}]
      /\ active' \subseteq {u \in User : role'[u] # None}
<1>1. /\ tx[h].at = "commit" /\ Position(tx[h]) /\ tx[h] \in Tx
      /\ tx[h].op \in Op /\ team \in {"active", "deleted"}
  <2>1. tx[h].at = "commit"
    BY DEF CommitsOf, CommitChange, CommitRemoval, CommitTransfer, CommitUpdate, CommitDeletion,
       CommitRestoration, CommitInvitation, CommitRevocation, CommitAcceptance, Commits
  <2> QED BY <2>1 DEF IInv, TypeOK, Sounds, Sound, Position
<1>2. /\ role \in [User -> Role \cup {None}]
      /\ active \subseteq {u \in User : role[u] # None}
  BY DEF IInv, TypeOK
<1>3. CASE CommitChange(h)
  <2>1. tx[h].op = "change" /\ tx[h].target \in User /\ tx[h].new \in Role
    BY <1>1, <1>3 DEF CommitChange, Commits, Position, OnMember
  <2>2. Ok
    BY <1>1, <1>2, <1>3, <2>1 DEF CommitChange
  <2> QED BY <1>3, <2>2, EndsStep DEF CommitChange
<1>4. CASE CommitRemoval(h)
  <2>1. Ok
    BY <1>1, <1>2, <1>4 DEF CommitRemoval
  <2> QED BY <1>4, <2>1, EndsStep DEF CommitRemoval
<1>5. CASE CommitTransfer(h)
  <2>1. Ok
    BY <1>1, <1>2, <1>5 DEF CommitTransfer
  <2> QED BY <1>5, <2>1, EndsStep DEF CommitTransfer
<1>6. CASE CommitUpdate(h)
  <2>1. Ok
    BY <1>1, <1>2, <1>6 DEF CommitUpdate, members
  <2> QED BY <1>6, <2>1, EndsStep DEF CommitUpdate
<1>7. CASE CommitDeletion(h) \/ CommitRestoration(h)
  <2>1. Ok
    BY <1>2, <1>7 DEF CommitDeletion, CommitRestoration
  <2> QED BY <1>7, <2>1, EndsStep DEF CommitDeletion, CommitRestoration
<1>8. CASE CommitInvitation(h)
  <2>1. Ok
    BY <1>1, <1>2, <1>8 DEF CommitInvitation, members
  <2> QED BY <1>8, <2>1, EndsStep DEF CommitInvitation
<1>9. CASE CommitRevocation(h)
  <2>1. Ok
    BY <1>1, <1>2, <1>9 DEF CommitRevocation, members
  <2>2. accepted' \cup revoked' = accepted \cup revoked \cup {tx[h].inv}
    BY <1>9 DEF CommitRevocation
  <2> QED BY <1>9, <2>1, <2>2, EndsStep DEF CommitRevocation, OnInvitation
<1>10. CASE CommitAcceptance(h)
  <2>1. tx[h].op = "accept" /\ tx[h].inv \in Invitation /\ tx[h].actor \in User
        /\ to[tx[h].inv] # None
    BY <1>1, <1>10 DEF CommitAcceptance, Commits, Position, OnInvitation
  <2>2. grants[tx[h].inv] \in Role
    BY <2>1 DEF IInv, TypeOK, Granted
  <2>3. Ok
    BY <1>1, <1>2, <1>10, <2>1, <2>2 DEF CommitAcceptance
  <2>4. accepted' \cup revoked' = accepted \cup revoked \cup {tx[h].inv}
    BY <1>10 DEF CommitAcceptance
  <2> QED BY <1>10, <2>3, <2>4, EndsStep DEF CommitAcceptance, OnInvitation
<1> QED BY <1>3, <1>4, <1>5, <1>6, <1>7, <1>8, <1>9, <1>10 DEF CommitsOf
-----------------------------------------------------------------------------
\* Without a team there are no requests, and the first member is its owner.
LEMMA CreateStep ==
    ASSUME IInv, NEW u \in User, Create(u)
    PROVE  IInv'
<1>1. \A h \in Handler : tx[h] = Idle
  BY DEF Create, IInv, Sounds, Sound, Position
<1>2. TypeOK'
  BY DEF Create, IInv, TypeOK, invitations
<1>3. Sounds'
  <2> SUFFICES ASSUME NEW h \in Handler PROVE Sound(tx[h])'
    BY DEF Sounds
  <2> QED BY <1>1, IdleStays DEF Create
<1>4. Exclusive'
  <2>1. tx' = tx
    BY DEF Create
  <2> QED BY <2>1 DEF IInv, Exclusive, Excludes, Holds
<1>5. Granted'
  BY DEF Create, IInv, Granted, invitations
<1> QED BY <1>2, <1>3, <1>4, <1>5 DEF IInv

\* Nothing but `expired` changes.
LEMMA ExpireStep ==
    ASSUME IInv, UNCHANGED <<members, invitations, tx>>,
           expired' \subseteq {i \in Invitation : to[i] # None}
    PROVE  IInv'
<1>1. TypeOK' /\ Granted'
  BY DEF IInv, TypeOK, Granted, members, invitations
<1>2. Sounds' /\ Exclusive'
  BY DEF IInv, Sounds, Sound, Position, Permitted, Fresh, Found, Demotes, Owners, Claimed,
     Holds, Open, Exclusive, Excludes, members, invitations
<1> QED BY <1>1, <1>2 DEF IInv

LEMMA InvNext == IInv /\ [Next]_vars => IInv'
<1> SUFFICES ASSUME IInv, [Next]_vars PROVE IInv'
  OBVIOUS
<1>1. CASE UNCHANGED vars
  BY <1>1, ExpireStep DEF vars, IInv, TypeOK
<1>2. ASSUME NEW u \in User, Create(u) PROVE IInv'
  BY <1>2, CreateStep
<1>3. ASSUME NEW i \in Invitation, Expire(i) PROVE IInv'
  BY <1>3, ExpireStep DEF Expire, IInv, TypeOK
<1>4. ASSUME NEW h \in Handler, Refuse(h) \/ Abort(h) \/ DeadlockVictim(h) PROVE IInv'
  BY <1>1, <1>4, RollsBackStep DEF Refuse, Abort, DeadlockVictim
<1>5. ASSUME NEW h \in Handler, Begin(h) PROVE IInv'
  BY <1>5, BeginStep
<1>6. ASSUME NEW h \in Handler, Step(h) PROVE IInv'
  BY <1>6, StepsOn, CommitsStep DEF Step, CommitsOf
<1> QED BY <1>1, <1>2, <1>3, <1>4, <1>5, <1>6 DEF Next

THEOREM Invariant == Spec => []IInv
BY InvInit, InvNext, PTL DEF Spec

(***************************************************************************)
(* Whatever requests run at the same time, the columns hold what they may: *)
(* a member has a role, and only an invitation that was sent is accepted,  *)
(* revoked or expired.                                                     *)
(***************************************************************************)
THEOREM TypeCorrect == Spec => []TypeOK
BY Invariant, PTL DEF IInv
-----------------------------------------------------------------------------
\* Whoever writes the members or the invitations commits a request, or creates the team.
LEMMA WhoWrites ==
    ASSUME IInv, Next, UNCHANGED <<members, invitations>> => FALSE
    PROVE  \/ \E u \in User : Create(u)
           \/ \E h \in Handler : /\ CommitsOf(h) /\ Sound(tx[h])
                                /\ tx[h].at = "commit" /\ tx'[h] = Idle
                                /\ \A g \in Handler \ {h} : tx[g].at # "idle" => tx'[g] # Idle
<1>1. ASSUME NEW h \in Handler, Refuse(h) \/ Begin(h) \/ Abort(h) \/ DeadlockVictim(h)
      PROVE  UNCHANGED <<members, invitations>>
  BY <1>1 DEF Refuse, Begin, Abort, DeadlockVictim, BeginChange, BeginRemove, BeginTransfer,
     BeginUpdate, BeginDelete, BeginRestore, BeginInvite, BeginRevoke, BeginAccept, Begins,
     RollsBack, vars
<1>2. ASSUME NEW h \in Handler, Step(h)
      PROVE  CommitsOf(h) \/ UNCHANGED <<members, invitations>>
  BY <1>2 DEF Step, CommitsOf, ReadTarget, CountOwners, WriteMember, Promote, Demote, WriteTeam,
     InsertInvitation, WriteRevocation, ClaimStarts, ClaimLocks, Upsert, Goes, RollsBack
<1>3. ASSUME NEW h \in Handler, CommitsOf(h)
      PROVE  /\ Sound(tx[h]) /\ tx[h].at = "commit" /\ tx'[h] = Idle
             /\ \A g \in Handler \ {h} : tx[g].at # "idle" => tx'[g] # Idle
  <2>1. tx[h].at = "commit" /\ Ends(h)
    BY <1>3 DEF CommitsOf, CommitChange, CommitRemoval, CommitTransfer, CommitUpdate,
       CommitDeletion, CommitRestoration, CommitInvitation, CommitRevocation,
       CommitAcceptance, Commits
  <2>2. ASSUME NEW g \in Handler \ {h}, tx[g].at # "idle" PROVE tx'[g] # Idle
    <3>1. tx'[g] = [tx[g] EXCEPT !.overlapped = TRUE]
      BY <2>1, <2>2 DEF Ends
    <3>2. tx[g] \in Tx
      BY DEF IInv, TypeOK
    <3>3. tx'[g].at = tx[g].at
      BY <3>1, <3>2 DEF Tx
    <3> QED BY <2>2, <3>3, IdleIsTx
  <2> QED BY <2>1, <2>2 DEF Ends, IInv, Sounds
<1> QED BY <1>1, <1>2, <1>3 DEF Next, Expire

(***************************************************************************)
(* A removed member comes back by accepting an invitation, or by a role    *)
(* change that overlapped with another request.                            *)
(***************************************************************************)
THEOREM ComeBackInvited == Spec => RemovedStaysRemoved
<1> DEFINE Comes ==
      \A u \in active' \ active :
          \/ team = "absent"
          \/ \E h \in Handler :
               \/ Committing(h, "accept") /\ tx[h].actor = u
               \/ Committing(h, "change") /\ tx[h].overlapped
<1>1. IInv /\ [Next]_vars => [Comes]_vars
  <2> SUFFICES ASSUME IInv, Next, NEW u \in active' \ active, team # "absent"
               PROVE  \E h \in Handler :
                         \/ Committing(h, "accept") /\ tx[h].actor = u
                         \/ Committing(h, "change") /\ tx[h].overlapped
    OBVIOUS
  <2>1. PICK h \in Handler : CommitsOf(h) /\ Sound(tx[h]) /\ tx[h].at = "commit" /\ tx'[h] = Idle
    BY WhoWrites DEF members, Create
  <2>2. CASE CommitChange(h)
    <3>1. tx[h].op = "change" /\ u = tx[h].target
      BY <2>2 DEF CommitChange, Commits
    <3> QED BY <2>1, <3>1 DEF Committing, Sound, Fresh, OnMember, Found
  <2>3. CASE CommitAcceptance(h)
    <3>1. tx[h].op = "accept" /\ u = tx[h].actor
      BY <2>3 DEF CommitAcceptance, Commits
    <3> QED BY <2>1, <3>1 DEF Committing
  <2>4. CASE ~CommitChange(h) /\ ~CommitAcceptance(h)
    BY <2>1, <2>4 DEF CommitsOf, CommitRemoval, CommitTransfer, CommitUpdate, CommitDeletion,
       CommitRestoration, CommitInvitation, CommitRevocation, members
  <2> QED BY <2>2, <2>3, <2>4
<1>2. [][Comes]_vars <=> RemovedStaysRemoved
  BY DEF RemovedStaysRemoved
<1> QED BY <1>1, <1>2, Invariant, PTL DEF Spec

(***************************************************************************)
(* A deleted team changes only by requests that overlapped with its        *)
(* deletion, and by a restoration that an owner asked for.                 *)
(***************************************************************************)
THEOREM DeletedFrozen == Spec => DeletedTeamFrozen
<1> DEFINE Frozen ==
      team = "deleted" =>
          \/ UNCHANGED <<members, invitations>>
          \/ \E h \in Handler :
               \/ tx[h].overlapped /\ tx'[h] = Idle /\ team' = team
               \/ Committing(h, "restore") /\ tx[h].seen = "OWNER"
<1>1. IInv /\ [Next]_vars => [Frozen]_vars
  <2> SUFFICES ASSUME IInv, Next, team = "deleted", UNCHANGED <<members, invitations>> => FALSE
               PROVE  \E h \in Handler :
                         \/ tx[h].overlapped /\ tx'[h] = Idle /\ team' = team
                         \/ Committing(h, "restore") /\ tx[h].seen = "OWNER"
    OBVIOUS
  <2>1. PICK h \in Handler : CommitsOf(h) /\ Sound(tx[h]) /\ tx[h].at = "commit" /\ tx'[h] = Idle
    BY WhoWrites DEF Create
  <2>2. CASE CommitRestoration(h)
    BY <2>1, <2>2 DEF CommitRestoration, Commits, Committing, Sound, Permitted
  <2>3. CASE ~CommitRestoration(h)
    <3>1. tx[h].op # "restore" /\ team' = team
      BY <2>1, <2>3 DEF CommitsOf, CommitChange, CommitRemoval, CommitTransfer, CommitUpdate,
         CommitDeletion, CommitInvitation, CommitRevocation, CommitAcceptance, Commits, members
    <3> QED BY <2>1, <3>1 DEF Sound, Fresh
  <2> QED BY <2>2, <2>3
<1>2. [][Frozen]_vars <=> DeletedTeamFrozen
  BY DEF DeletedTeamFrozen
<1> QED BY <1>1, <1>2, Invariant, PTL DEF Spec

(***************************************************************************)
(* Only an owner makes an owner, by a role change or a transfer.           *)
(***************************************************************************)
THEOREM OwnersMadeByOwners == Spec => OwnersComeFromOwners
<1> DEFINE Made ==
      Owners' \ Owners # {} =>
          \/ team = "absent"
          \/ \E h \in Handler :
               /\ tx[h].seen = "OWNER"
               /\ Committing(h, "change") \/ Committing(h, "transfer")
<1>1. IInv /\ [Next]_vars => [Made]_vars
  <2> SUFFICES ASSUME IInv, Next, team # "absent", NEW u, u \in active', role'[u] = "OWNER",
                      ~(u \in active /\ role[u] = "OWNER")
               PROVE  \E h \in Handler :
                         /\ tx[h].seen = "OWNER"
                         /\ Committing(h, "change") \/ Committing(h, "transfer")
    BY DEF Owners
  <2>1. PICK h \in Handler : CommitsOf(h) /\ Sound(tx[h]) /\ tx[h].at = "commit" /\ tx'[h] = Idle
    BY WhoWrites DEF members, Create
  <2>2. active \subseteq User /\ role \in [User -> Role \cup {None}]
    BY DEF IInv, TypeOK
  <2>3. CASE CommitChange(h)
    <3>1. tx[h].op = "change" /\ tx[h].target \in User /\ tx[h].new \in Role
      BY <2>1, <2>3 DEF CommitChange, Commits, Sound, Position, OnMember
    <3>2. tx[h].new = "OWNER"
      BY <2>2, <2>3, <3>1 DEF CommitChange
    <3> QED BY <2>1, <3>1, <3>2 DEF Committing, Sound, Permitted, canAssignTeamRole
  <2>4. CASE CommitTransfer(h)
    BY <2>1, <2>4 DEF CommitTransfer, Commits, Committing, Sound, Permitted
  <2>5. CASE CommitAcceptance(h)
    <3>1. tx[h].op = "accept" /\ tx[h].actor \in User /\ tx[h].inv \in Invitation
      BY <2>1, <2>5 DEF CommitAcceptance, Commits, Sound, Position, OnInvitation
    <3>2. grants[tx[h].inv] # "OWNER"
      BY <3>1 DEF IInv, TypeOK
    <3> QED BY <2>2, <2>5, <3>1, <3>2 DEF CommitAcceptance
  <2>6. CASE ~CommitChange(h) /\ ~CommitTransfer(h) /\ ~CommitAcceptance(h)
    BY <2>1, <2>6 DEF CommitsOf, CommitRemoval, CommitUpdate, CommitDeletion,
       CommitRestoration, CommitInvitation, CommitRevocation, members
  <2> QED BY <2>3, <2>4, <2>5, <2>6
<1>2. [][Made]_vars <=> OwnersComeFromOwners
  BY DEF OwnersComeFromOwners
<1> QED BY <1>1, <1>2, Invariant, PTL DEF Spec

(***************************************************************************)
(* An invitation is accepted at most once, never after it was revoked, by  *)
(* its addressee only.                                                     *)
(***************************************************************************)
THEOREM AcceptedOnce == Spec => InvitationUsedOnce
<1> DEFINE Once ==
      \A h \in Handler : Committing(h, "accept") =>
          LET i == tx[h].inv IN
          members' # members \/ accepted' # accepted =>
             /\ i \notin accepted \cup revoked
             /\ accepted' = accepted \cup {i}
             /\ \A u \in User \ {to[i]} : role'[u] = role[u]
             /\ active' \ active \subseteq {to[i]}
<1>1. IInv /\ [Next]_vars => [Once]_vars
  <2> SUFFICES ASSUME IInv, Next, NEW h \in Handler, Committing(h, "accept"),
                      members' # members \/ accepted' # accepted
               PROVE  /\ tx[h].inv \notin accepted \cup revoked
                      /\ accepted' = accepted \cup {tx[h].inv}
                      /\ \A u \in User \ {to[tx[h].inv]} : role'[u] = role[u]
                      /\ active' \ active \subseteq {to[tx[h].inv]}
    OBVIOUS
  <2>1. tx[h].at = "commit" /\ tx[h].op = "accept" /\ tx'[h] = Idle /\ Sound(tx[h])
    BY DEF Committing, IInv, Sounds
  <2>2. team # "absent"
    BY <2>1 DEF Sound, Position
  <2>3. CommitsOf(h)
    <3>1. ~UNCHANGED <<members, invitations>>
      BY DEF invitations
    <3>2. PICK g \in Handler :
             CommitsOf(g) /\ \A k \in Handler \ {g} : tx[k].at # "idle" => tx'[k] # Idle
      BY <2>2, <3>1, WhoWrites DEF Create
    <3>3. g = h
      BY <2>1, <3>2
    <3> QED BY <3>2, <3>3
  <2>4. CommitAcceptance(h)
    BY <2>1, <2>3 DEF CommitsOf, CommitChange, CommitRemoval, CommitTransfer, CommitUpdate,
       CommitDeletion, CommitRestoration, CommitInvitation, CommitRevocation, Commits
  <2>5. Open(tx[h].inv) /\ tx[h].actor = to[tx[h].inv]
    BY <2>1 DEF Sound, Claimed, Holds, OnInvitation, Position
  <2>6. role \in [User -> Role \cup {None}]
    BY DEF IInv, TypeOK
  <2> QED BY <2>4, <2>5, <2>6 DEF CommitAcceptance, Open
<1>2. [][Once]_vars <=> InvitationUsedOnce
  BY DEF InvitationUsedOnce
<1> QED BY <1>1, <1>2, Invariant, PTL DEF Spec

\* A set with more than one element is not contained in a singleton.
LEMMA MoreThanOne ==
    ASSUME NEW S, NEW x, Cardinality(S) > 1
    PROVE  ~(S \subseteq {x})
<1> SUFFICES ASSUME S \subseteq {x} PROVE FALSE
  OBVIOUS
<1>1. CASE S = {}
  BY <1>1, FS_EmptySet
<1>2. CASE S = {x}
  <2>1. Cardinality({x}) = 1
    BY FS_Singleton, Zenon
  <2> QED BY <1>2, <2>1
<1> QED BY <1>1, <1>2

(***************************************************************************)
(* A request that no other one overlapped takes the last owner away only   *)
(* by a transfer to oneself or by the acceptance of an invitation.         *)
(***************************************************************************)
THEOREM LastOwner == Spec => LastOwnerStays
<1> DEFINE Stays ==
      Owners # {} /\ Owners' = {} =>
          \E h \in Handler :
             \/ /\ tx[h].overlapped
                /\ Committing(h, "change") \/ Committing(h, "remove")
                      \/ Committing(h, "transfer")
             \/ Committing(h, "transfer") /\ tx[h].target = tx[h].actor
             \/ Committing(h, "accept")
<1>1. IInv /\ [Next]_vars => [Stays]_vars
  <2> SUFFICES ASSUME IInv, Next, NEW o \in Owners, Owners' = {}
               PROVE  \E h \in Handler :
                         \/ /\ tx[h].overlapped
                            /\ Committing(h, "change") \/ Committing(h, "remove")
                                  \/ Committing(h, "transfer")
                         \/ Committing(h, "transfer") /\ tx[h].target = tx[h].actor
                         \/ Committing(h, "accept")
    OBVIOUS
  <2>1. /\ role \in [User -> Role \cup {None}] /\ active \subseteq User
        /\ team = "absent" => active = {}
        /\ \A u : ~(u \in active' /\ role'[u] = "OWNER")
    BY DEF IInv, TypeOK, Owners
  <2>2. ~UNCHANGED <<members, invitations>> /\ team # "absent"
    BY <2>1 DEF Owners, members
  <2>3. PICK h \in Handler : CommitsOf(h) /\ Sound(tx[h]) /\ tx[h].at = "commit" /\ tx'[h] = Idle
    BY <2>2, WhoWrites DEF Create
  <2>4. CASE CommitChange(h) \/ CommitRemoval(h)
    <3>1. /\ tx[h].op \in {"change", "remove"} /\ tx[h].target \in User
          /\ Committing(h, "change") \/ Committing(h, "remove")
      BY <2>3, <2>4 DEF CommitChange, CommitRemoval, Commits, Sound, Position, OnMember,
         Committing
    <3>2. /\ tx[h].op = "change" => tx[h].new # "OWNER"
          /\ Owners \subseteq {tx[h].target}
      BY <2>1, <2>3, <2>4, <3>1 DEF CommitChange, CommitRemoval, Commits, Owners
    <3>3. Demotes(tx[h])
      BY <3>1, <3>2 DEF Demotes, Owners
    <3>4. tx[h].overlapped
      BY <2>3, <3>2, <3>3, MoreThanOne DEF Sound, Fresh
    <3> QED BY <3>1, <3>4
  <2>5. CASE CommitTransfer(h)
    <3>1. /\ tx[h].op = "transfer" /\ Committing(h, "transfer")
          /\ tx[h].target \in User /\ tx[h].actor \in User
      BY <2>3, <2>5 DEF CommitTransfer, Commits, Committing, Sound, Position, OnMember
    <3>2. tx[h].target # tx[h].actor /\ tx[h].target \in active => FALSE
      BY <2>1, <2>5, <3>1 DEF CommitTransfer
    <3> QED BY <2>3, <3>1, <3>2 DEF Sound, Fresh, OnMember, Found
  <2>6. CASE CommitAcceptance(h)
    BY <2>3, <2>6 DEF CommitAcceptance, Commits, Committing
  <2>7. CASE ~CommitChange(h) /\ ~CommitRemoval(h) /\ ~CommitTransfer(h) /\ ~CommitAcceptance(h)
    BY <2>1, <2>3, <2>7 DEF CommitsOf, CommitUpdate, CommitDeletion, CommitRestoration,
       CommitInvitation, CommitRevocation, members, Owners
  <2> QED BY <2>4, <2>5, <2>6, <2>7
<1>2. [][Stays]_vars <=> LastOwnerStays
  BY DEF LastOwnerStays
<1> QED BY <1>1, <1>2, Invariant, PTL DEF Spec
-----------------------------------------------------------------------------
\* What the projects of the team see of its members.
TeamView == [u \in User |-> TeamRoleOf(u)]

\* While the team is not active, nobody is seen.
LEMMA Unseen == team # "active" => TeamView = Seen!Closed
BY DEF TeamView, TeamRoleOf, Member, Seen!Closed

LEMMA ViewTypes ==
    ASSUME TypeOK
    PROVE  TeamView \in [User -> Seen!Role \cup {None}]
<1>1. \A u \in active : role[u] \in Role
  BY DEF TypeOK
<1> QED BY <1>1 DEF TeamView, TeamRoleOf, Member, Seen!Role

\* A step that touches the row of one user shows as one grant.
LEMMA OneRow ==
    ASSUME TypeOK, TypeOK', NEW u \in User, UNCHANGED team,
           \A v \in User \ {u} : (v \in active' <=> v \in active) /\ role'[v] = role[v]
    PROVE  Seen!Next \/ UNCHANGED TeamView
<1>1. CASE team # "active"
  <2>1. TeamView = Seen!Closed /\ TeamView' = Seen!Closed'
    BY <1>1, Unseen DEF TeamView, TeamRoleOf, Member, Seen!Closed
  <2> QED BY <2>1 DEF Seen!Closed
<1>2. CASE team = "active"
  <2>1. TeamView'[u] \in Seen!Role \cup {None}
    <3>1. TeamView' \in [User -> Seen!Role \cup {None}]
      <4>1. \A v \in active' : role'[v] \in Role
        BY DEF TypeOK
      <4> QED BY <4>1 DEF TeamView, TeamRoleOf, Member, Seen!Role
    <3> QED BY <3>1
  <2>2. TeamView' = [TeamView EXCEPT ![u] = TeamView'[u]]
    BY <1>2 DEF TeamView, TeamRoleOf, Member
  <2> QED BY <2>1, <2>2 DEF Seen!Next, Seen!Grant, TeamView
<1> QED BY <1>1, <1>2

\* A transfer shows in two places at once, unless the team was deleted meanwhile.
LEMMA TwoRows ==
    ASSUME TypeOK, NEW h \in Handler, tx[h].actor \in User, tx[h].target \in User,
           CommitTransfer(h)
    PROVE  Seen!Next \/ UNCHANGED TeamView
<1>1. PICK g \in User, t \in User : g = tx[h].actor /\ t = tx[h].target
  OBVIOUS
<1>2. /\ role' = [role EXCEPT ![t] = "OWNER", ![g] = "ADMIN"]
      /\ UNCHANGED <<team, active>>
  BY <1>1 DEF CommitTransfer
<1>3. role \in [User -> Role \cup {None}] /\ \A u \in active : role[u] # None
  BY DEF TypeOK
<1>4. ASSUME NEW u \in User
      PROVE  TeamView'[u] = IF u \in {g, t} /\ TeamView[u] # None
                            THEN "ADMIN" ELSE TeamView[u]
  <2>1. CASE ~Member(u)
    BY <1>2, <2>1 DEF TeamView, TeamRoleOf, Member
  <2>2. CASE Member(u) /\ u \in {g, t}
    <3>1. role'[u] \in {"OWNER", "ADMIN"}
      BY <1>2, <1>3, <2>2
    <3>2. TeamView'[u] = "ADMIN"
      BY <1>2, <2>2, <3>1 DEF TeamView, TeamRoleOf, Member
    <3>3. TeamView[u] # None
      BY <1>3, <2>2 DEF TeamView, TeamRoleOf, Member
    <3> QED BY <2>2, <3>2, <3>3
  <2>3. CASE Member(u) /\ u \notin {g, t}
    BY <1>2, <1>3, <2>3 DEF TeamView, TeamRoleOf, Member
  <2> QED BY <2>1, <2>2, <2>3
<1>5. TeamView' = [u \in User |-> IF u \in {g, t} /\ TeamView[u] # None
                                  THEN "ADMIN" ELSE TeamView[u]]
  BY <1>4 DEF TeamView
<1> QED BY <1>5 DEF Seen!Next, Seen!HandOver, TeamView

(***************************************************************************)
(* To the projects of the team, every step is one that TeamRoles allows:   *)
(* what ProjectMembers relies on is what TeamMembers does.                 *)
(***************************************************************************)
THEOREM TeamRolesImplemented == Spec => ImplementsTeamRoles
<1>1. Init => Seen!Init
  BY Unseen DEF Init, Seen!Init, TeamView
<1>2. IInv /\ [Next]_vars => [Seen!Next]_TeamView
  <2> SUFFICES ASSUME IInv, [Next]_vars PROVE Seen!Next \/ UNCHANGED TeamView
    OBVIOUS
  <2>1. CASE UNCHANGED members
    BY <2>1 DEF members, TeamView, TeamRoleOf, Member
  <2>2. CASE members' # members
    <3>1. TypeOK /\ TypeOK'
      BY InvNext DEF IInv
    <3>2. ASSUME NEW u \in User, Create(u) PROVE Seen!Next
      <4>1. TeamView = Seen!Closed
        BY <3>2, Unseen DEF Create
      <4>2. TeamView' \in [User -> Seen!Role \cup {None}]
        BY <3>1, <3>2 DEF TypeOK, Create, TeamView, TeamRoleOf, Member, Seen!Role
      <4> QED BY <4>1, <4>2 DEF Seen!Next, Seen!Reopen, TeamView
    <3>3. ASSUME NEW h \in Handler, CommitsOf(h), Sound(tx[h]), tx[h].at = "commit"
          PROVE  Seen!Next \/ UNCHANGED TeamView
      <4>1. tx[h].actor \in User /\ (tx[h].op \in OnMember => tx[h].target \in User)
        BY <3>3 DEF Sound, Position
      <4>2. CASE CommitChange(h) \/ CommitRemoval(h)
        <5>1. tx[h].target \in User /\ UNCHANGED team
          BY <4>1, <4>2 DEF CommitChange, CommitRemoval, Commits, OnMember
        <5> QED BY <3>1, <4>2, <5>1, OneRow DEF CommitChange, CommitRemoval, TypeOK
      <4>3. CASE CommitAcceptance(h)
        <5>1. /\ UNCHANGED team
              /\ \A v \in User \ {tx[h].actor} :
                    (v \in active' <=> v \in active) /\ role'[v] = role[v]
          BY <3>1, <4>3 DEF CommitAcceptance, TypeOK
        <5> QED BY <3>1, <4>1, <5>1, OneRow
      <4>4. CASE CommitTransfer(h)
        BY <3>1, <4>1, <4>4, TwoRows DEF CommitTransfer, Commits, OnMember
      <4>5. CASE CommitDeletion(h)
        <5>1. TeamView' = Seen!Closed
          BY <4>5 DEF CommitDeletion, TeamView, TeamRoleOf, Member, Seen!Closed
        <5> QED BY <5>1 DEF Seen!Next, Seen!Close, TeamView
      <4>6. CASE CommitRestoration(h)
        <5>1. CASE team = "active"
          BY <4>6, <5>1 DEF CommitRestoration, TeamView, TeamRoleOf, Member
        <5>2. CASE team # "active"
          <6>1. TeamView = Seen!Closed
            BY <5>2, Unseen
          <6>2. TeamView' \in [User -> Seen!Role \cup {None}]
            <7>1. \A v \in active' : role'[v] \in Role
              BY <3>1 DEF TypeOK
            <7> QED BY <7>1 DEF TeamView, TeamRoleOf, Member, Seen!Role
          <6> QED BY <6>1, <6>2 DEF Seen!Next, Seen!Reopen, TeamView
        <5> QED BY <5>1, <5>2
      <4>7. CASE CommitUpdate(h) \/ CommitInvitation(h) \/ CommitRevocation(h)
        BY <2>2, <4>7 DEF CommitUpdate, CommitInvitation, CommitRevocation
      <4> QED BY <3>3, <4>2, <4>3, <4>4, <4>5, <4>6, <4>7 DEF CommitsOf
    <3>4. \/ \E u \in User : Create(u)
          \/ \E h \in Handler : CommitsOf(h) /\ Sound(tx[h]) /\ tx[h].at = "commit"
      BY <2>2, WhoWrites DEF vars
    <3> QED BY <3>2, <3>3, <3>4
  <2> QED BY <2>1, <2>2
<1> QED BY <1>1, <1>2, Invariant, PTL DEF Spec, ImplementsTeamRoles, Seen!Spec, TeamView
-----------------------------------------------------------------------------
\* The rows of members that a request in the state t has locked.
RowsOf(t) ==
    CASE t.at = "demote"                                      -> {t.target}
      [] t.at = "commit" /\ t.op \in {"change", "remove"}     -> {t.target}
      [] t.at = "commit" /\ t.op = "transfer"                 -> {t.target, t.actor}
      [] t.at = "commit" /\ t.op = "accept"                   -> {t.actor}
      [] OTHER                                                -> {}

LEMMA RowsLocked == \A h : MembersLockedBy(h) = RowsOf(tx[h])
BY DEF MembersLockedBy, RowsOf

\* A row has one writer at a time.
OneWriter ==
    \A g, h \in Handler : g # h => RowsOf(tx[g]) \cap RowsOf(tx[h]) = {}

\* A request that takes only rows that are free leaves every row with one writer.
LEMMA TakesFree ==
    ASSUME OneWriter, NEW h \in Handler,
           \A g \in Handler \ {h} : RowsOf(tx'[g]) = RowsOf(tx[g]),
           \A u \in RowsOf(tx'[h]) \ RowsOf(tx[h]) : MemberFree(h, u)
    PROVE  OneWriter'
<1>1. \A g \in Handler \ {h} : RowsOf(tx'[g]) \cap RowsOf(tx'[h]) = {}
  BY RowsLocked DEF OneWriter, MemberFree
<1>2. \A g \in Handler, k \in Handler : g # k => RowsOf(tx'[g]) \cap RowsOf(tx'[k]) = {}
  BY <1>1 DEF OneWriter
<1> QED BY <1>2 DEF OneWriter, RowsOf

LEMMA IdleHasNoRows == RowsOf(Idle) = {}
BY IdleIsTx DEF RowsOf

\* A request that goes on to `at` takes the rows that it needs there.
LEMMA GoesTakes ==
    ASSUME IInv, OneWriter, NEW h \in Handler, NEW at \in At, Goes(h, at),
           \A u \in RowsOf([tx[h] EXCEPT !.at = at]) \ RowsOf(tx[h]) : MemberFree(h, u)
    PROVE  OneWriter'
<1>1. tx' = [tx EXCEPT ![h] = [tx[h] EXCEPT !.at = at]]
  BY DEF Goes, IInv, TypeOK
<1>2. \A g \in Handler \ {h} : tx'[g] = tx[g]
  BY <1>1 DEF IInv, TypeOK
<1>3. tx'[h] = [tx[h] EXCEPT !.at = at]
  BY <1>1 DEF IInv, TypeOK
<1> QED BY <1>2, <1>3, TakesFree

LEMMA RollsBackTakes ==
    ASSUME IInv, OneWriter, NEW h \in Handler, RollsBack(h)
    PROVE  OneWriter'
<1>1. tx'[h] = Idle /\ \A g \in Handler \ {h} : tx'[g] = tx[g]
  BY DEF RollsBack, IInv, TypeOK
<1> QED BY <1>1, TakesFree, IdleHasNoRows

LEMMA EndsTakes ==
    ASSUME IInv, OneWriter, NEW h \in Handler, Ends(h)
    PROVE  OneWriter'
<1>1. tx'[h] = Idle
  BY DEF Ends
<1>2. ASSUME NEW g \in Handler \ {h} PROVE RowsOf(tx'[g]) = RowsOf(tx[g])
  <2>1. tx'[g] = tx[g] \/ tx'[g] = [tx[g] EXCEPT !.overlapped = TRUE]
    BY DEF Ends
  <2>2. PICK s, t : s = tx[g] /\ t = tx'[g] /\ s \in Tx
                    /\ (t = s \/ t = [s EXCEPT !.overlapped = TRUE])
    BY <2>1 DEF IInv, TypeOK
  <2>3. t.at = s.at /\ t.op = s.op /\ t.target = s.target /\ t.actor = s.actor
    BY <2>2 DEF Tx
  <2>4. RowsOf(t) = RowsOf(s)
    BY <2>3 DEF RowsOf
  <2> QED BY <2>2, <2>4
<1> QED BY <1>1, <1>2, TakesFree, IdleHasNoRows

\* A request that begins has no row locked.
LEMMA BeginTakes ==
    ASSUME IInv, OneWriter, NEW h \in Handler, Begin(h)
    PROVE  OneWriter'
<1>1. ASSUME NEW op, NEW at \in {"target", "write", "claim"}, NEW actor, NEW target, NEW new,
             NEW inv, NEW seen,
             tx' = [tx EXCEPT ![h] = Request(op, at, actor, target, new, inv, seen)]
      PROVE  OneWriter'
  <2>1. tx'[h].at = at /\ \A g \in Handler \ {h} : tx'[g] = tx[g]
    BY <1>1 DEF Request, IInv, TypeOK
  <2>2. RowsOf(tx'[h]) = {}
    BY <2>1 DEF RowsOf
  <2> QED BY <2>1, <2>2, TakesFree
<1>2. ASSUME NEW op, NEW at \in {"target", "write", "claim"}, NEW actor, NEW permitted,
             NEW target, NEW new, NEW inv,
             Begins(h, op, at, actor, permitted, target, new, inv)
      PROVE  OneWriter'
  BY <1>1, <1>2 DEF Begins
<1>3. ASSUME NEW i \in Invitation, BeginAccept(h, i) PROVE OneWriter'
  BY <1>1, <1>3 DEF BeginAccept
<1>4. ASSUME NEW a \in User, NEW u \in User, NEW r \in Role, NEW i \in Invitation,
             BeginInvite(h, a, u, r, i)
      PROVE  OneWriter'
  BY <1>2, <1>4 DEF BeginInvite
<1>5. ASSUME NEW a \in User, NEW u \in User, NEW r \in Role, BeginChange(h, a, u, r)
      PROVE  OneWriter'
  BY <1>2, <1>5 DEF BeginChange
<1>6. ASSUME NEW a \in User, NEW u \in User, BeginRemove(h, a, u) \/ BeginTransfer(h, a, u)
      PROVE  OneWriter'
  BY <1>2, <1>6 DEF BeginRemove, BeginTransfer
<1>7. ASSUME NEW a \in User, BeginUpdate(h, a) \/ BeginDelete(h, a) \/ BeginRestore(h, a)
      PROVE  OneWriter'
  BY <1>2, <1>7 DEF BeginUpdate, BeginDelete, BeginRestore
<1>8. ASSUME NEW a \in User, NEW i \in Invitation, BeginRevoke(h, a, i) PROVE OneWriter'
  BY <1>2, <1>8 DEF BeginRevoke
<1> QED BY <1>3, <1>4, <1>5, <1>6, <1>7, <1>8 DEF Begin

\* The writes, and what the server does before them.
LEMMA StepTakes ==
    ASSUME IInv, OneWriter, NEW h \in Handler, Step(h)
    PROVE  OneWriter'
<1>1. PICK t : t = tx[h] /\ t \in Tx /\ Position(t)
  BY DEF IInv, TypeOK, Sounds, Sound
<1>2. \A at \in At : LET s == [t EXCEPT !.at = at] IN
         /\ s.at = at /\ s.op = t.op /\ s.target = t.target /\ s.actor = t.actor
  BY <1>1 DEF Tx
<1>3. ASSUME NEW at \in {"count", "write", "waitClaim", "upsert"}, Goes(h, at) PROVE OneWriter'
  <2>1. RowsOf([t EXCEPT !.at = at]) = {}
    BY <1>2 DEF RowsOf, At
  <2> QED BY <1>1, <1>3, <2>1, GoesTakes DEF At
<1>4. CASE Promote(h)
  <2>1. RowsOf([t EXCEPT !.at = "demote"]) = {t.target}
    BY <1>2 DEF RowsOf, At
  <2> QED BY <1>1, <1>4, <2>1, GoesTakes DEF Promote, At
<1>5. CASE Demote(h)
  <2>1. t.at = "demote" /\ t.op = "transfer"
    BY <1>1, <1>5 DEF Demote, Position
  <2>2. RowsOf([t EXCEPT !.at = "commit"]) = {t.target, t.actor} /\ RowsOf(t) = {t.target}
    BY <1>2, <2>1 DEF RowsOf, At
  <2> QED BY <1>1, <1>5, <2>2, GoesTakes DEF Demote, At
<1>6. CASE WriteMember(h)
  <2>1. RowsOf([t EXCEPT !.at = "commit"]) = {t.target}
    BY <1>1, <1>2, <1>6 DEF RowsOf, At, WriteMember
  <2> QED BY <1>1, <1>6, <2>1, GoesTakes DEF WriteMember, At
<1>7. CASE Upsert(h)
  <2>1. t.op = "accept"
    BY <1>1, <1>7 DEF Upsert, Position
  <2>2. RowsOf([t EXCEPT !.at = "commit"]) = {t.actor}
    BY <1>2, <2>1 DEF RowsOf, At
  <2> QED BY <1>1, <1>7, <2>2, GoesTakes DEF Upsert, At
<1>8. ASSUME tx[h].op \in {"update", "delete", "restore", "invite", "revoke"}, Goes(h, "commit")
      PROVE  OneWriter'
  <2>1. RowsOf([t EXCEPT !.at = "commit"]) = {}
    BY <1>1, <1>2, <1>8 DEF RowsOf, At
  <2> QED BY <1>1, <1>8, <2>1, GoesTakes DEF At
<1>9. CASE ReadTarget(h) \/ CountOwners(h) \/ ClaimStarts(h) \/ ClaimLocks(h)
  BY <1>3, <1>9, RollsBackTakes DEF ReadTarget, CountOwners, ClaimStarts, ClaimLocks
<1>10. CASE WriteTeam(h) \/ InsertInvitation(h) \/ WriteRevocation(h)
  BY <1>8, <1>10, RollsBackTakes DEF WriteTeam, InsertInvitation, WriteRevocation
<1>11. CASE CommitsOf(h)
  <2>1. Ends(h)
    BY <1>11 DEF CommitsOf, CommitChange, CommitRemoval, CommitTransfer, CommitUpdate,
       CommitDeletion, CommitRestoration, CommitInvitation, CommitRevocation,
       CommitAcceptance, Commits
  <2> QED BY <2>1, EndsTakes
<1> QED BY <1>4, <1>5, <1>6, <1>7, <1>9, <1>10, <1>11 DEF Step, CommitsOf

\* However requests interleave, no two of them have written the same member's row.
THEOREM RowsHaveOneWriter == Spec => []OneWriter
<1>1. Init => OneWriter
  BY IdleHasNoRows DEF Init, OneWriter
<1>2. IInv /\ OneWriter /\ [Next]_vars => OneWriter'
  <2> SUFFICES ASSUME IInv, OneWriter, [Next]_vars PROVE OneWriter'
    OBVIOUS
  <2>1. CASE UNCHANGED tx
    BY <2>1 DEF OneWriter, RowsOf
  <2>2. ASSUME NEW h \in Handler, Refuse(h) \/ Begin(h) \/ Step(h) \/ Abort(h) \/ DeadlockVictim(h)
        PROVE  OneWriter'
    BY <2>1, <2>2, BeginTakes, StepTakes, RollsBackTakes DEF Refuse, Abort, DeadlockVictim, vars
  <2> QED BY <2>1, <2>2 DEF Next, Create, Expire, vars
<1> QED BY <1>1, <1>2, Invariant, PTL DEF Spec

(***************************************************************************)
(* Requests wait in a circle only if two owners transfer the ownership at  *)
(* the same time: only a transfer holds a row while it waits for another.  *)
(***************************************************************************)
THEOREM OnlyTransfersDeadlock == Spec => []DeadlocksAreTransfers
<1>1. IInv /\ OneWriter => DeadlocksAreTransfers
  <2> SUFFICES ASSUME IInv, OneWriter, NEW cycle \in (SUBSET Handler) \ {{}},
                      \A g \in cycle : BlockedBy(g, cycle)
               PROVE  \E g, h \in cycle :
                         /\ tx[g].op = "transfer" /\ tx[h].op = "transfer"
                         /\ tx[g].seen = "OWNER" /\ tx[h].seen = "OWNER"
                         /\ tx[g].actor = tx[h].target /\ tx[g].actor # tx[h].actor
    BY DEF DeadlocksAreTransfers
  <2>1. ASSUME NEW g \in cycle
        PROVE  \E h \in cycle \ {g} : tx[h].at = "demote" /\ tx[h].target \in WaitsFor(g)
    <3>1. PICK u \in WaitsFor(g), h \in cycle \ {g} : u \in RowsOf(tx[h])
      BY RowsLocked DEF BlockedBy
    <3>2. WaitsFor(h) # {}
      BY DEF BlockedBy
    <3>3. tx[h].at = "demote" /\ RowsOf(tx[h]) = {tx[h].target}
      BY <3>1, <3>2 DEF RowsOf, WaitsFor
    <3> QED BY <3>1, <3>3
  <2>2. ASSUME NEW g \in cycle, tx[g].at = "demote"
        PROVE  WaitsFor(g) = {tx[g].actor} /\ tx[g].op = "transfer" /\ tx[g].seen = "OWNER"
    BY <2>2 DEF WaitsFor, IInv, Sounds, Sound, Position, Permitted
  <2>3. PICK g \in cycle : tx[g].at = "demote"
    <3>1. cycle # {}
      OBVIOUS
    <3> QED BY <2>1, <3>1
  <2>4. PICK h \in cycle \ {g} : tx[h].at = "demote" /\ tx[h].target = tx[g].actor
    BY <2>1, <2>2, <2>3
  <2>5. PICK k \in cycle \ {h} : tx[k].at = "demote" /\ tx[k].target = tx[h].actor
    BY <2>1, <2>2, <2>4
  <2>6. tx[k].target # tx[h].target
    BY <2>4, <2>5 DEF OneWriter, RowsOf
  <2> QED BY <2>2, <2>3, <2>4, <2>5, <2>6
<1> QED BY <1>1, Invariant, RowsHaveOneWriter, PTL
=============================================================================
