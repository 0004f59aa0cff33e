------------------------- MODULE ProjectMembersProofs -------------------------
(***************************************************************************)
(* Proofs about ProjectMembers for any number of users and requests.       *)
(*                                                                         *)
(* A request's reading stays true until it commits, or a table that it has *)
(* read has changed and `meanwhile` says so (OnProject, Allowed, Offered). *)
(* At most one request creates the project (Exclusive), and all others     *)
(* find it created.                                                        *)
(***************************************************************************)
EXTENDS ProjectMembers, TLAPS

USE NoneAssumption, GrantableAssumption DEF Role, Team!Role, Op

\* What the position of a request says of its operation and its parameters.
Position(t) ==
    /\ t.at = "idle" => t = Idle
    /\ t.at # "idle" => t.op \in Op /\ t.actor \in User
    /\ t.op = "create" => t.target = t.actor /\ t.at \in {"write", "commit"}
    /\ t.op \in {"add", "change", "remove"} => t.target \in User
    /\ t.op \in {"add", "change"} => t.new \in Role
    /\ t.at \in {"authorize", "teamRole"} => t.op = "add"

\* What it has seen of the project.
OnProject(t) ==
    /\ t.op = "create" => project = "absent"
    /\ t.op \in Op \ {"create"} => project # "absent"
    /\ t.op \in Op \ {"create", "restore"} => project = "active" \/ "project" \in t.meanwhile

\* What it has seen of the actor's roles.
Allowed(t) ==
    /\ t.op = "create" => teamRole[t.actor] = "ADMIN" \/ "team" \in t.meanwhile
    /\ t.op = "restore" => \/ role[t.actor] = "ADMIN" /\ t.actor \in active
                           \/ "members" \in t.meanwhile
    /\ t.op = "change" => Membership(t.actor) = "ADMIN" \/ t.meanwhile # {}
    /\ t.op = "add" /\ t.at \in {"target", "write", "commit"} =>
          \/ Membership(t.actor) = "ADMIN" \/ teamRole[t.actor] = "ADMIN"
          \/ t.meanwhile # {}

\* What it has seen of the user who is to be added.
Offered(t) ==
    t.op = "add" /\ t.at \in {"write", "commit"} =>
       teamRole[t.target] # None \/ "team" \in t.meanwhile

Sound(t) == Position(t) /\ OnProject(t) /\ Allowed(t) /\ Offered(t)

Sounds == \A h \in Handler : Sound(tx[h])

Exclusive == \A g, h \in Handler : tx[g].op = "create" /\ tx[h].op = "create" => g = h

IInv == TypeOK /\ Sounds /\ Exclusive
-----------------------------------------------------------------------------
LEMMA IdleIsTx == Idle \in Tx /\ Idle.op # "create" /\ Idle.at = "idle"
BY DEF Idle, Tx, At

LEMMA IdleStays ==
    ASSUME NEW h, tx'[h] = Idle
    PROVE  Sound(tx[h])'
BY DEF Idle, Sound, Position, OnProject, Allowed, Offered

LEMMA InvInit == Init => IInv
<1> SUFFICES ASSUME Init PROVE IInv
  OBVIOUS
<1>1. TypeOK
  BY IdleIsTx DEF Init, TypeOK, Team!Init, Team!Closed
<1>2. Sounds
  BY DEF Init, Sounds, Idle, Sound, Position, OnProject, Allowed, Offered
<1>3. Exclusive
  BY IdleIsTx DEF Init, Exclusive
<1> QED BY <1>1, <1>2, <1>3 DEF IInv

\* A step of h that changes nothing but its own state.
LEMMA OwnStep ==
    ASSUME IInv, NEW h \in Handler, NEW t \in Tx, Sound(t),
           t.op = "create" => tx[h].op = "create" \/ \A g \in Handler : tx[g].op # "create",
           tx' = [tx EXCEPT ![h] = t], UNCHANGED <<teamRole, rows>>
    PROVE  IInv'
<1>1. TypeOK'
  BY DEF IInv, TypeOK, rows
<1>2. Sounds'
  <2> SUFFICES ASSUME NEW g \in Handler PROVE Sound(tx[g])'
    BY DEF Sounds
  <2>1. PICK u \in Tx : u = tx'[g] /\ Sound(u)
    BY DEF IInv, TypeOK, Sounds
  <2> QED BY <2>1 DEF Sound, Position, OnProject, Allowed, Offered, Membership, rows
<1>3. Exclusive'
  BY DEF IInv, TypeOK, Exclusive
<1> QED BY <1>1, <1>2, <1>3 DEF IInv

LEMMA RollsBackStep ==
    ASSUME IInv, NEW h \in Handler, RollsBack(h)
    PROVE  IInv'
<1>1. Sound(Idle)
  BY DEF Idle, Sound, Position, OnProject, Allowed, Offered
<1> QED BY <1>1, IdleIsTx, OwnStep DEF RollsBack

LEMMA BeginsStep ==
    ASSUME IInv, NEW h \in Handler, Begin(h)
    PROVE  IInv'
<1> PICK a \in User :
       \/ BeginCreate(h, a) \/ BeginRestore(h, a)
       \/ \E op \in {"update", "delete"} : BeginOnProject(h, op, a)
       \/ \E u \in User :
            \/ BeginRemove(h, a, u)
            \/ \E r \in Grantable : BeginAdd(h, a, u, r) \/ BeginChange(h, a, u, r)
  BY DEF Begin
<1> DEFINE R(op, at, target, new) == [op |-> op, at |-> at, actor |-> a, target |-> target,
                                      new |-> new, meanwhile |-> {}]
<1>1. ASSUME NEW op \in Op, NEW at \in At, NEW target \in User \cup {None},
             NEW new \in Role \cup {None}
      PROVE  R(op, at, target, new) \in Tx
  BY DEF Tx
<1>2. Membership(a) = "ADMIN" => project = "active"
  BY DEF Membership
<1>3. CASE BeginCreate(h, a)
  <2>1. PICK t : t = R("create", "write", a, "ADMIN")
    OBVIOUS
  <2>2. t \in Tx
    BY <1>1, <2>1 DEF At
  <2>3. teamRole[a] = "ADMIN"
    BY <1>3 DEF BeginCreate, IInv, TypeOK
  <2>4. Sound(t)
    BY <1>3, <2>1, <2>3 DEF BeginCreate, Sound, Position, OnProject, Allowed, Offered
  <2> QED BY <1>3, <2>1, <2>2, <2>4, OwnStep DEF BeginCreate, Begins
<1>4. CASE BeginRestore(h, a)
  <2>1. PICK t : t = R("restore", "write", None, None)
    OBVIOUS
  <2>2. t \in Tx
    BY <1>1, <2>1 DEF At
  <2>3. Sound(t)
    BY <1>4, <2>1 DEF BeginRestore, Sound, Position, OnProject, Allowed, Offered, IInv, TypeOK
  <2> QED BY <1>4, <2>1, <2>2, <2>3, OwnStep DEF BeginRestore, Begins
<1>5. ASSUME NEW op \in {"update", "delete"}, BeginOnProject(h, op, a) PROVE IInv'
  <2>1. PICK t : t = R(op, "write", None, None)
    OBVIOUS
  <2>2. t \in Tx
    BY <1>1, <2>1 DEF At
  <2>3. Sound(t)
    BY <1>2, <1>5, <2>1 DEF BeginOnProject, canAdministerProject, Sound, Position, OnProject,
       Allowed, Offered
  <2> QED BY <1>5, <2>1, <2>2, <2>3, OwnStep DEF BeginOnProject, Begins
<1>6. ASSUME NEW u \in User, BeginRemove(h, a, u) PROVE IInv'
  <2>1. PICK t : t = R("remove", "target", u, None)
    OBVIOUS
  <2>2. t \in Tx
    BY <1>1, <2>1 DEF At
  <2>3. Sound(t)
    BY <1>2, <1>6, <2>1 DEF BeginRemove, canAdministerProject, Sound, Position, OnProject,
       Allowed, Offered
  <2> QED BY <1>6, <2>1, <2>2, <2>3, OwnStep DEF BeginRemove, Begins
<1>7. ASSUME NEW u \in User, NEW r \in Grantable, BeginAdd(h, a, u, r) PROVE IInv'
  <2>1. PICK t : t = R("add", "authorize", u, r)
    OBVIOUS
  <2>2. t \in Tx
    BY <1>1, <2>1 DEF At
  <2>3. Sound(t)
    BY <1>7, <2>1 DEF BeginAdd, Sound, Position, OnProject, Allowed, Offered
  <2> QED BY <1>7, <2>1, <2>2, <2>3, OwnStep DEF BeginAdd, Begins
<1>8. ASSUME NEW u \in User, NEW r \in Grantable, BeginChange(h, a, u, r) PROVE IInv'
  <2>1. PICK t : t = R("change", "target", u, r)
    OBVIOUS
  <2>2. t \in Tx
    BY <1>1, <2>1 DEF At
  <2>3. Sound(t)
    BY <1>2, <1>8, <2>1 DEF BeginChange, canAdministerProject, Sound, Position, OnProject,
       Allowed, Offered
  <2> QED BY <1>8, <2>1, <2>2, <2>3, OwnStep DEF BeginChange, Begins
<1> QED BY <1>3, <1>4, <1>5, <1>6, <1>7, <1>8

\* A request that may go on does so.
LEMMA GoesStep ==
    ASSUME IInv, NEW h \in Handler, NEW at \in At \ {"idle"}, Goes(h, at),
           tx[h].at # "idle",
           at \in {"authorize", "teamRole"} => tx[h].op = "add",
           tx[h].op = "create" => at \in {"write", "commit"},
           tx[h].op = "add" /\ at = "target" => \/ Membership(tx[h].actor) = "ADMIN"
                                               \/ teamRole[tx[h].actor] = "ADMIN",
           at = "write" => tx[h].at = "target",
           tx[h].op = "add" /\ at = "write" => teamRole[tx[h].target] # None,
           at = "commit" => tx[h].at = "write"
    PROVE  IInv'
<1>1. PICK t : t = [tx[h] EXCEPT !.at = at]
  OBVIOUS
<1>2. /\ t \in Tx /\ t.at = at /\ t.op = tx[h].op /\ t.actor = tx[h].actor
      /\ t.target = tx[h].target /\ t.new = tx[h].new /\ t.meanwhile = tx[h].meanwhile
  <2>1. tx[h] \in Tx
    BY DEF IInv, TypeOK
  <2> QED BY <1>1, <2>1 DEF Tx
<1>3. tx' = [tx EXCEPT ![h] = t] /\ UNCHANGED <<teamRole, rows>>
  BY <1>1 DEF Goes
<1>4. Sound(tx[h])
  BY DEF IInv, Sounds
<1>5. Position(t)
  BY <1>2, <1>4 DEF Sound, Position
<1>6. OnProject(t)
  BY <1>2, <1>4 DEF Sound, OnProject
<1>7. Allowed(t)
  BY <1>2, <1>4 DEF Sound, Allowed, At
<1>8. Offered(t)
  BY <1>2, <1>4 DEF Sound, Offered
<1> QED BY <1>2, <1>3, <1>5, <1>6, <1>7, <1>8, OwnStep DEF Sound

LEMMA StepsOn ==
    ASSUME IInv, NEW h \in Handler,
           Authorize(h) \/ AuthorizeByTeam(h) \/ ReadTarget(h) \/ Write(h)
    PROVE  IInv'
<1>1. Position(tx[h])
  BY DEF IInv, Sounds, Sound
<1>2. CASE Authorize(h)
  <2>1. PICK at \in {"target", "teamRole"} :
           Goes(h, at) /\ (at = "target" => Membership(tx[h].actor) = "ADMIN")
    BY <1>2 DEF Authorize
  <2> QED BY <1>1, <1>2, <2>1, GoesStep DEF Authorize, At, Position
<1>3. CASE AuthorizeByTeam(h)
  <2>1. CASE RollsBack(h)
    BY <2>1, RollsBackStep
  <2>2. CASE teamRole[tx[h].actor] = "ADMIN" /\ Goes(h, "target")
    BY <1>1, <1>3, <2>2, GoesStep DEF AuthorizeByTeam, At, Position
  <2> QED BY <1>3, <2>1, <2>2 DEF AuthorizeByTeam
<1>4. CASE ReadTarget(h)
  <2>1. CASE RollsBack(h)
    BY <2>1, RollsBackStep
  <2>2. CASE ~RollsBack(h)
    <3>1. Goes(h, "write") /\ (tx[h].op = "add" => teamRole[tx[h].target] # None)
      BY <1>4, <2>2 DEF ReadTarget
    <3> QED BY <1>1, <1>4, <3>1, GoesStep DEF ReadTarget, At, Position
  <2> QED BY <2>1, <2>2
<1>5. CASE Write(h)
  BY <1>1, <1>5, GoesStep DEF Write, At, Position
<1> QED BY <1>2, <1>3, <1>4, <1>5
-----------------------------------------------------------------------------
LEMMA MissesOnly ==
    ASSUME NEW t \in Tx, NEW table \in {"team", "project", "members"}
    PROVE  /\ Misses(t, table) \in Tx
           /\ Misses(t, table).at = t.at /\ Misses(t, table).op = t.op
           /\ Misses(t, table).actor = t.actor /\ Misses(t, table).target = t.target
           /\ Misses(t, table).new = t.new
           /\ t.meanwhile \subseteq Misses(t, table).meanwhile
           /\ t.at = "idle" => Misses(t, table) = t
           /\ t.at # "idle" /\ table \in Reads(t.op) => table \in Misses(t, table).meanwhile
<1>1. CASE t.at = "idle" \/ table \notin Reads(t.op)
  BY <1>1 DEF Misses
<1>2. CASE ~(t.at = "idle" \/ table \notin Reads(t.op))
  <2>1. Misses(t, table) = [t EXCEPT !.meanwhile = t.meanwhile \cup {table}]
    BY <1>2 DEF Misses
  <2> QED BY <1>2, <2>1 DEF Tx
<1> QED BY <1>1, <1>2

LEMMA ReadsWhat ==
    /\ Reads("create") = {"team"} /\ Reads("restore") = {"members"}
    /\ Reads("add") = {"team", "project", "members"}
    /\ \A op \in Op \ {"create", "restore", "add"} : Reads(op) = {"project", "members"}
BY DEF Reads

(***************************************************************************)
(* One of the tables changes: a request that has read it misses something, *)
(* and what a request has read of the others stays true.                   *)
(***************************************************************************)
LEMMA TableStep ==
    ASSUME IInv, NEW S \in SUBSET Handler, NEW table \in {"team", "project", "members"},
           tx' = [g \in Handler |-> IF g \in S THEN Idle ELSE Misses(tx[g], table)],
           teamRole' \in [User -> Team!Role \cup {None}],
           project' \in {"absent", "active", "deleted"},
           role' \in [User -> Role \cup {None}],
           active' \subseteq {u \in User : role'[u] # None},
           project' = "absent" => active' = {} /\ project = "absent",
           project = "absent" /\ project' # "absent" => \E h \in S : tx[h].op = "create",
           table # "team" => UNCHANGED teamRole,
           table # "project" =>  UNCHANGED project,
           table = "team" => UNCHANGED rows,
           table = "project" => UNCHANGED <<role, active>> \/ project = "absent"
    PROVE  IInv'
<1>1. \A g \in Handler : tx[g] \in Tx
  BY DEF IInv, TypeOK
<1>2. TypeOK'
  BY <1>1, MissesOnly, IdleIsTx DEF TypeOK
<1>3. Sounds'
  <2> SUFFICES ASSUME NEW g \in Handler PROVE Sound(tx[g])'
    BY DEF Sounds
  <2>1. CASE g \in S
    BY <2>1, IdleStays
  <2>2. CASE g \notin S
    <3>1. PICK u, t : /\ u = tx'[g] /\ t = tx[g] /\ t \in Tx /\ Sound(t)
                      /\ u = Misses(t, table)
      BY <1>1, <2>2 DEF IInv, Sounds
    <3>2. /\ u.at = t.at /\ u.op = t.op /\ u.actor = t.actor /\ u.target = t.target
          /\ u.new = t.new /\ t.meanwhile \subseteq u.meanwhile
          /\ t.at = "idle" => u = t
          /\ t.at # "idle" /\ table \in Reads(t.op) => table \in u.meanwhile
      BY <3>1, MissesOnly
    <3>3. CASE t.at = "idle"
      <4>1. tx'[g] = Idle
        BY <3>1, <3>2, <3>3 DEF Sound, Position
      <4> QED BY <4>1, IdleStays
    <3>4. CASE t.at # "idle"
      <4>1. t.op \in Op
        BY <3>1, <3>4 DEF Sound, Position
      <4>2. Position(u)
        BY <3>1, <3>2, <3>4 DEF Sound, Position
      <4>3. t.op = "create" => project' = "absent"
        <5>1. project = "absent" /\ project' # "absent" /\ t.op = "create" => FALSE
          BY <2>2, <3>1 DEF IInv, Exclusive
        <5> QED BY <3>1, <5>1 DEF Sound, OnProject
      <4>4. /\ t.op # "create" => project # "absent"
            /\ t.op \in Op \ {"create", "restore"} =>
                  project = "active" \/ "project" \in t.meanwhile
        BY <3>1, <4>1 DEF Sound, OnProject
      <4>5. t.op \in Op \ {"create", "restore"} => project' = project \/ table = "project"
        OBVIOUS
      <4>6. OnProject(u)'
        BY <3>2, <3>4, <4>1, <4>3, <4>4, <4>5, ReadsWhat DEF OnProject
      <4>7. \/ table = "team" /\ UNCHANGED rows
            \/ table = "members" /\ UNCHANGED <<teamRole, project>>
            \/ table = "project" /\ UNCHANGED <<teamRole, role, active>>
            \/ table = "project" /\ UNCHANGED teamRole /\ project = "absent"
        OBVIOUS
      <4>8. Allowed(t) /\ Offered(t)
        BY <3>1 DEF Sound
      <4>14. Allowed(u)' /\ Offered(u)'
        <5>1. CASE t.op = "create"
          BY <3>2, <3>4, <4>7, <4>8, <5>1, ReadsWhat DEF Allowed, Offered
        <5>2. CASE t.op = "restore"
          BY <3>2, <3>4, <4>4, <4>7, <4>8, <5>2, ReadsWhat DEF Allowed, Offered, rows
        <5>3. CASE t.op \in {"update", "delete", "remove"}
          BY <3>2, <5>3 DEF Allowed, Offered
        <5>4. CASE t.op = "change"
          BY <3>2, <3>4, <4>4, <4>7, <4>8, <5>4, ReadsWhat
          DEF Allowed, Offered, Membership, rows
        <5>5. CASE t.op = "add"
          <6>1. table \in u.meanwhile
            BY <3>2, <3>4, <5>5, ReadsWhat
          <6>2. table # "team" => UNCHANGED teamRole
            OBVIOUS
          <6> QED BY <3>2, <4>8, <5>5, <6>1, <6>2 DEF Allowed, Offered
        <5> QED BY <4>1, <5>1, <5>2, <5>3, <5>4, <5>5
      <4> QED BY <3>1, <4>2, <4>6, <4>14
              DEF Sound, Position, OnProject, Allowed, Offered, Membership
    <3> QED BY <3>3, <3>4
  <2> QED BY <2>1, <2>2
<1>4. Exclusive'
  BY <1>1, MissesOnly, IdleIsTx DEF IInv, Exclusive
<1> QED BY <1>2, <1>3, <1>4 DEF IInv

LEMMA CommitsStep ==
    ASSUME IInv, NEW h \in Handler,
           \/ CommitCreation(h) \/ CommitUpdate(h) \/ CommitDeletion(h) \/ CommitRestoration(h)
           \/ CommitAddition(h) \/ CommitChange(h) \/ CommitRemoval(h)
    PROVE  IInv'
<1>2. PICK S \in SUBSET Handler : S = {h}
  OBVIOUS
<1>3. ASSUME NEW op, NEW table, Commits(h, op, table)
      PROVE  /\ tx' = [g \in Handler |-> IF g \in S THEN Idle ELSE Misses(tx[g], table)]
             /\ UNCHANGED teamRole /\ tx[h].op = op
  BY <1>2, <1>3 DEF Commits
<1>4. /\ Position(tx[h]) /\ OnProject(tx[h])
      /\ teamRole \in [User -> Team!Role \cup {None}]
      /\ project \in {"absent", "active", "deleted"}
      /\ role \in [User -> Role \cup {None}]
      /\ active \subseteq {u \in User : role[u] # None}
      /\ project = "absent" => active = {}
  BY DEF IInv, TypeOK, Sounds, Sound
<1>5. CASE CommitCreation(h)
  <2>1. /\ tx' = [g \in Handler |-> IF g \in S THEN Idle ELSE Misses(tx[g], "project")]
        /\ UNCHANGED teamRole /\ tx[h].op = "create"
    BY <1>3, <1>5 DEF CommitCreation
  <2>2. tx[h].actor \in User /\ project = "absent"
    BY <1>4, <2>1 DEF Position, OnProject, Idle
  <2>3. /\ project' = "active" /\ role' \in [User -> Role \cup {None}]
        /\ active' \subseteq {u \in User : role'[u] # None}
    BY <1>4, <1>5, <2>2 DEF CommitCreation
  <2> QED BY <1>2, <1>4, <2>1, <2>2, <2>3, TableStep
<1>6. CASE CommitUpdate(h) \/ CommitDeletion(h) \/ CommitRestoration(h)
  <2>1. /\ tx' = [g \in Handler |-> IF g \in S THEN Idle ELSE Misses(tx[g], "project")]
        /\ UNCHANGED teamRole /\ tx[h].op \in {"update", "delete", "restore"}
    BY <1>3, <1>6 DEF CommitUpdate, CommitDeletion, CommitRestoration
  <2>2. project # "absent"
    BY <1>4, <2>1 DEF OnProject
  <2>3. project' \in {"active", "deleted"} /\ UNCHANGED <<role, active>>
    BY <1>4, <1>6, <2>2 DEF CommitUpdate, CommitDeletion, CommitRestoration, rows
  <2> QED BY <1>4, <2>1, <2>2, <2>3, TableStep
<1>7. CASE CommitAddition(h) \/ CommitChange(h) \/ CommitRemoval(h)
  <2>1. /\ tx' = [g \in Handler |-> IF g \in S THEN Idle ELSE Misses(tx[g], "members")]
        /\ UNCHANGED <<teamRole, project>> /\ tx[h].op \in {"add", "change", "remove"}
    BY <1>3, <1>7 DEF CommitAddition, CommitChange, CommitRemoval
  <2>2. project # "absent" /\ tx[h].target \in User /\ (tx[h].op # "remove" => tx[h].new \in Role)
    BY <1>4, <2>1 DEF OnProject, Position
  <2>3. /\ role' \in [User -> Role \cup {None}]
        /\ active' \subseteq {u \in User : role'[u] # None}
    <3>1. CASE CommitAddition(h)
      BY <1>4, <2>2, <3>1 DEF CommitAddition, Commits
    <3>2. CASE CommitChange(h)
      BY <1>4, <2>2, <3>2 DEF CommitChange, Commits
    <3>3. CASE CommitRemoval(h)
      BY <1>4, <3>3 DEF CommitRemoval
    <3> QED BY <1>7, <3>1, <3>2, <3>3
  <2> QED BY <1>4, <2>1, <2>2, <2>3, TableStep
<1> QED BY <1>5, <1>6, <1>7

\* However the team changes, what everybody is in it stays a role or nothing.
LEMMA TeamTypes ==
    ASSUME teamRole \in [User -> Team!Role \cup {None}], Team!Next
    PROVE  teamRole' \in [User -> Team!Role \cup {None}]
<1>1. CASE \E u \in User, r \in Team!Role \cup {None} : Team!Grant(u, r)
  BY <1>1 DEF Team!Grant
<1>2. CASE \E u, v \in User : Team!HandOver(u, v)
  BY <1>2 DEF Team!HandOver
<1>3. CASE Team!Close \/ Team!Reopen
  BY <1>3 DEF Team!Close, Team!Reopen, Team!Closed
<1> QED BY <1>1, <1>2, <1>3 DEF Team!Next

LEMMA TeamStep ==
    ASSUME IInv, TeamChanges
    PROVE  IInv'
<1>1. PICK S \in SUBSET Handler : S = {}
  OBVIOUS
<1>2. /\ tx' = [g \in Handler |-> IF g \in S THEN Idle ELSE Misses(tx[g], "team")]
      /\ teamRole' \in [User -> Team!Role \cup {None}] /\ UNCHANGED rows
  BY <1>1, TeamTypes DEF TeamChanges, IInv, TypeOK
<1>3. UNCHANGED <<project, role, active>>
  BY <1>2 DEF rows
<1>4. /\ project' \in {"absent", "active", "deleted"}
      /\ role' \in [User -> Role \cup {None}]
      /\ active' \subseteq {v \in User : role'[v] # None}
      /\ project' = "absent" => active' = {} /\ project = "absent"
  BY <1>3 DEF IInv, TypeOK
<1> QED BY <1>2, <1>3, <1>4, TableStep

LEMMA Stutter ==
    ASSUME IInv, UNCHANGED vars
    PROVE  IInv'
BY DEF IInv, TypeOK, Sounds, Sound, Position, OnProject, Allowed, Offered, Membership,
       Exclusive, vars, rows

LEMMA InvNext == IInv /\ [Next]_vars => IInv'
<1> SUFFICES ASSUME IInv, [Next]_vars PROVE IInv'
  OBVIOUS
<1>1. CASE UNCHANGED vars
  BY <1>1, Stutter
<1>2. CASE TeamChanges
  BY <1>2, TeamStep
<1>3. ASSUME NEW h \in Handler, Refuse(h) PROVE IInv'
  BY <1>3, Stutter DEF Refuse
<1>4. ASSUME NEW h \in Handler, Begin(h) PROVE IInv'
  BY <1>4, BeginsStep
<1>5. ASSUME NEW h \in Handler, Step(h) PROVE IInv'
  BY <1>5, StepsOn, CommitsStep DEF Step
<1>6. ASSUME NEW h \in Handler, Abort(h) PROVE IInv'
  BY <1>6, RollsBackStep DEF Abort
<1> QED BY <1>1, <1>2, <1>3, <1>4, <1>5, <1>6 DEF Next

\* What a request has read stays true, or it has missed a change (IInv).
THEOREM Invariant == Spec => []IInv
BY InvInit, InvNext, PTL DEF Spec

\* Type correctness.
THEOREM TypeCorrect == Spec => []TypeOK
<1>1. IInv => TypeOK
  BY DEF IInv
<1> QED BY <1>1, Invariant, PTL
-----------------------------------------------------------------------------
CommitsOf(h) ==
    \/ CommitCreation(h) \/ CommitUpdate(h) \/ CommitDeletion(h) \/ CommitRestoration(h)
    \/ CommitAddition(h) \/ CommitChange(h) \/ CommitRemoval(h)

\* Only commits change the rows, and what they find is sound.
LEMMA WhoWrites ==
    ASSUME IInv, Next
    PROVE  \/ UNCHANGED rows
           \/ \E h \in Handler : /\ CommitsOf(h) /\ Sound(tx[h])
                                /\ tx[h].at = "commit" /\ tx'[h] = Idle
<1>1. ASSUME NEW h \in Handler, Refuse(h) \/ Begin(h) \/ Abort(h) PROVE UNCHANGED rows
  BY <1>1 DEF Refuse, Begin, Abort, BeginCreate, BeginOnProject, BeginRestore, BeginAdd,
              BeginChange, BeginRemove, Begins, RollsBack, vars
<1>2. ASSUME NEW h \in Handler, Step(h) PROVE CommitsOf(h) \/ UNCHANGED rows
  BY <1>2 DEF Step, CommitsOf, Authorize, AuthorizeByTeam, ReadTarget, Write, Goes, RollsBack
<1>3. ASSUME NEW h \in Handler, CommitsOf(h)
      PROVE  Sound(tx[h]) /\ tx[h].at = "commit" /\ tx'[h] = Idle
  BY <1>3 DEF CommitsOf, CommitCreation, CommitUpdate, CommitDeletion, CommitRestoration,
              CommitAddition, CommitChange, CommitRemoval, Commits, IInv, Sounds
<1> QED BY <1>1, <1>2, <1>3 DEF Next, TeamChanges

(***************************************************************************)
(* Whoever joins the project is added to it or creates it, and is in the   *)
(* team then, or the team changed while the request ran.                   *)
(***************************************************************************)
THEOREM JoinersInTeam == Spec => JoinersComeFromTeam
<1> DEFINE Join ==
      \A u \in active' \ active :
          \E h \in Handler :
             /\ Committing(h, "create") \/ Committing(h, "add")
             /\ tx[h].target = u
             /\ teamRole[u] # None \/ "team" \in tx[h].meanwhile
<1>1. IInv /\ [Next]_vars => [Join]_vars
  <2> SUFFICES ASSUME IInv, Next, NEW u \in active' \ active
               PROVE  \E h \in Handler :
                         /\ Committing(h, "create") \/ Committing(h, "add")
                         /\ tx[h].target = u
                         /\ teamRole[u] # None \/ "team" \in tx[h].meanwhile
    OBVIOUS
  <2>1. PICK h \in Handler : CommitsOf(h) /\ Sound(tx[h]) /\ tx[h].at = "commit" /\ tx'[h] = Idle
    BY WhoWrites DEF rows
  <2>2. CASE CommitCreation(h)
    <3>1. tx[h].op = "create" /\ u = tx[h].actor
      BY <2>2 DEF CommitCreation, Commits
    <3> QED BY <2>1, <3>1 DEF Committing, Sound, Position, Allowed
  <2>3. CASE CommitAddition(h)
    <3>1. tx[h].op = "add" /\ u = tx[h].target
      BY <2>3 DEF CommitAddition, Commits
    <3> QED BY <2>1, <3>1 DEF Committing, Sound, Offered
  <2>4. CASE ~CommitCreation(h) /\ ~CommitAddition(h)
    BY <2>1, <2>4 DEF CommitsOf, CommitUpdate, CommitDeletion, CommitRestoration, CommitChange,
       CommitRemoval, rows
  <2> QED BY <2>2, <2>3, <2>4
<1>2. [][Join]_vars <=> JoinersComeFromTeam
  BY DEF JoinersComeFromTeam
<1> QED BY <1>1, <1>2, Invariant, PTL DEF Spec

(***************************************************************************)
(* Whoever becomes an administrator is appointed by somebody who           *)
(* administers the project or the team, or did until something changed.    *)
(***************************************************************************)
THEOREM AdministratorsAppointed == Spec => AdministratorsAreAppointed
<1> DEFINE Appointed ==
      \A u \in Administrators' \ Administrators :
          \E h \in Handler :
             /\ tx[h].at = "commit" /\ tx'[h] = Idle
             /\ tx[h].target = u
             /\ \/ Membership(tx[h].actor) = "ADMIN" \/ tx[h].meanwhile # {}
                \/ tx[h].op \in {"create", "add"} /\ teamRole[tx[h].actor] = "ADMIN"
<1>1. IInv /\ [Next]_vars => [Appointed]_vars
  <2> SUFFICES ASSUME IInv, Next, NEW u, u \in active', role'[u] = "ADMIN",
                      ~(u \in active /\ role[u] = "ADMIN")
               PROVE  \E h \in Handler :
                         /\ tx[h].at = "commit" /\ tx'[h] = Idle
                         /\ tx[h].target = u
                         /\ \/ Membership(tx[h].actor) = "ADMIN" \/ tx[h].meanwhile # {}
                            \/ tx[h].op \in {"create", "add"} /\ teamRole[tx[h].actor] = "ADMIN"
    BY DEF Administrators
  <2>1. PICK h \in Handler : CommitsOf(h) /\ Sound(tx[h]) /\ tx[h].at = "commit" /\ tx'[h] = Idle
    BY WhoWrites DEF rows
  <2>2. active \subseteq User /\ role \in [User -> Role \cup {None}]
    BY DEF IInv, TypeOK
  <2>3. CASE CommitCreation(h)
    <3>1. tx[h].op = "create" /\ u = tx[h].actor
      BY <2>3 DEF CommitCreation, Commits
    <3> QED BY <2>1, <3>1 DEF Sound, Position, Allowed
  <2>4. CASE CommitAddition(h)
    <3>1. tx[h].op = "add" /\ tx[h].target \in User
      BY <2>1, <2>4 DEF CommitAddition, Commits, Sound, Position
    <3>2. u = tx[h].target
      BY <2>2, <2>4, <3>1 DEF CommitAddition
    <3> QED BY <2>1, <3>1, <3>2 DEF Sound, Allowed
  <2>5. CASE CommitChange(h)
    <3>1. tx[h].op = "change" /\ tx[h].target \in User
      BY <2>1, <2>5 DEF CommitChange, Commits, Sound, Position
    <3>2. u = tx[h].target
      BY <2>2, <2>5, <3>1 DEF CommitChange
    <3> QED BY <2>1, <3>1, <3>2 DEF Sound, Allowed
  <2>6. CASE CommitUpdate(h) \/ CommitDeletion(h) \/ CommitRestoration(h) \/ CommitRemoval(h)
    BY <2>6 DEF CommitUpdate, CommitDeletion, CommitRestoration, CommitRemoval, rows
  <2> QED BY <2>1, <2>3, <2>4, <2>5, <2>6 DEF CommitsOf
<1>2. [][Appointed]_vars <=> AdministratorsAreAppointed
  BY DEF AdministratorsAreAppointed
<1> QED BY <1>1, <1>2, Invariant, PTL DEF Spec

(***************************************************************************)
(* A deleted project changes only by requests that were running when it    *)
(* was deleted, and by restorations.                                       *)
(***************************************************************************)
THEOREM DeletedFrozen == Spec => DeletedProjectFrozen
<1> DEFINE Frozen ==
      project = "deleted" /\ rows' # rows =>
          \E h \in Handler :
             \/ Committing(h, "restore")
                   /\ (tx[h].actor \in Administrators \/ "members" \in tx[h].meanwhile)
             \/ "project" \in tx[h].meanwhile /\ tx[h].at = "commit" /\ tx'[h] = Idle
<1>1. IInv /\ [Next]_vars => [Frozen]_vars
  <2> SUFFICES ASSUME IInv, Next, project = "deleted", rows' # rows
               PROVE  \E h \in Handler :
                         \/ Committing(h, "restore")
                            /\ (tx[h].actor \in Administrators \/ "members" \in tx[h].meanwhile)
                         \/ "project" \in tx[h].meanwhile /\ tx[h].at = "commit" /\ tx'[h] = Idle
    OBVIOUS
  <2>1. PICK h \in Handler : CommitsOf(h) /\ Sound(tx[h]) /\ tx[h].at = "commit" /\ tx'[h] = Idle
    BY WhoWrites
  <2>2. tx[h].op \in Op \ {"create"}
    BY <2>1 DEF Sound, Position, OnProject, Idle
  <2> QED BY <2>1, <2>2 DEF Committing, Sound, OnProject, Allowed, Administrators
<1>2. [][Frozen]_vars <=> DeletedProjectFrozen
  BY DEF DeletedProjectFrozen
<1> QED BY <1>1, <1>2, Invariant, PTL DEF Spec
-----------------------------------------------------------------------------
\* What tasks and comments see of the members.
Accesses == [u \in User |-> Membership(u)]

\* While the project is not active, nobody has access.
LEMMA Inactive == project # "active" => Accesses = Implemented!Closed
BY DEF Accesses, Membership, Implemented!Closed

(***************************************************************************)
(* To tasks and comments, every step is one change of access.              *)
(***************************************************************************)
THEOREM AccessImplemented == Spec => ImplementsAccess
<1>1. Init => Implemented!Init
  BY Inactive DEF Init, Implemented!Init, Accesses
<1>2. IInv /\ [Next]_vars => [Implemented!Next]_Accesses
  <2> SUFFICES ASSUME IInv, [Next]_vars PROVE Implemented!Next \/ UNCHANGED Accesses
    OBVIOUS
  <2>1. CASE UNCHANGED rows
    BY <2>1 DEF rows, Accesses, Membership
  <2>2. CASE rows' # rows
    <3>1. PICK h \in Handler : CommitsOf(h) /\ Sound(tx[h]) /\ tx[h].at = "commit" /\ tx'[h] = Idle
      BY <2>2, WhoWrites DEF vars, rows
    <3>2. /\ role \in [User -> Role \cup {None}] /\ active \subseteq User
          /\ project \in {"absent", "active", "deleted"}
          /\ project' \in {"absent", "active", "deleted"}
          /\ Accesses' \in [User -> Role \cup {None}]
      <4>1. IInv'
        BY InvNext
      <4> QED BY <4>1 DEF IInv, TypeOK, Accesses, Membership
    <3>3. CASE project' # "active"
      <4>1. Accesses' = Implemented!Closed
        BY <3>3 DEF Accesses, Membership, Implemented!Closed
      <4> QED BY <4>1 DEF Implemented!Next, Implemented!Close, Accesses
    <3>4. CASE project # "active" /\ project' = "active"
      <4>1. \/ CommitCreation(h) \/ CommitRestoration(h)
        BY <3>1, <3>4 DEF CommitsOf, CommitUpdate, CommitDeletion, CommitAddition,
           CommitChange, CommitRemoval, rows
      <4>2. Accesses = Implemented!Closed
        BY <3>4, Inactive
      <4> QED BY <3>2, <4>2 DEF Implemented!Next, Implemented!Reopen, Accesses,
              Implemented!Role
    <3>5. CASE project = "active" /\ project' = "active"
      <4>1. PICK u \in User : \A v \in User \ {u} :
               (v \in active' <=> v \in active) /\ role'[v] = role[v]
        <5>1. ~CommitCreation(h)
          BY <3>5, <3>1 DEF CommitCreation, Commits, Sound, OnProject
        <5>2. CASE CommitUpdate(h) \/ CommitDeletion(h) \/ CommitRestoration(h)
          BY <2>2, <3>5, <5>2 DEF CommitUpdate, CommitDeletion, CommitRestoration, rows
        <5>3. CASE CommitAddition(h) \/ CommitChange(h) \/ CommitRemoval(h)
          <6>1. tx[h].target \in User
            BY <3>1, <5>3 DEF CommitAddition, CommitChange, CommitRemoval, Commits, Sound,
               Position
          <6> QED BY <3>2, <5>3, <6>1 DEF CommitAddition, CommitChange, CommitRemoval
        <5> QED BY <3>1, <5>1, <5>2, <5>3 DEF CommitsOf
      <4>2. Accesses' = [Accesses EXCEPT ![u] = Accesses'[u]]
        BY <3>5, <4>1 DEF Accesses, Membership
      <4>3. Accesses'[u] \in Role \cup {None}
        BY <3>2
      <4> QED BY <4>2, <4>3
              DEF Implemented!Next, Implemented!Grant, Implemented!Role, Accesses
    <3> QED BY <3>2, <3>3, <3>4, <3>5
  <2> QED BY <2>1, <2>2
<1> QED BY <1>1, <1>2, Invariant, PTL DEF Spec, ImplementsAccess, Implemented!Spec, Accesses
=============================================================================
