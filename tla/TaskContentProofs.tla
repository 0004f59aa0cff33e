-------------------------- MODULE TaskContentProofs --------------------------
(***************************************************************************)
(* Proofs about TaskContent for any number of users, comments, requests    *)
(* and versions.                                                           *)
(*                                                                         *)
(* What a request has read stays true until it commits, or something the   *)
(* request depends on has changed and `meanwhile` says so (Entitled,       *)
(* Answers); or, for the row of an update, the version has moved on, and   *)
(* the update fails (OnTask), unless it names a version that was still to  *)
(* come when the row was read (`ahead`).  At most one request has a write  *)
(* of the task uncommitted (Exclusive), so the row cannot change under an  *)
(* update that has found its version.                                      *)
(***************************************************************************)
EXTENDS TaskContent, TLAPS

USE NoneAssumption, KeepAssumption, AssignableAssumption, ErasedAssumption,
    MaxVersionAssumption

Writes == {"update", "delete", "restore"}

\* The actor's role has been read.
Admitted(t) == t.at \in {"assignee", "write", "commit"}

\* What the position of a request says of its operation.
Position(t) ==
    /\ t.at = "idle" => t = Idle
    /\ t.at # "idle" => t.op # None /\ t.actor \in User
    /\ t.at = "role" => t.op \notin {"create", "comment"}
    /\ t.at = "assignee" => t.op \in {"create", "update"} /\ t.new \in User
    /\ t.op \notin {"create", "update"} => t.new = Keep
    /\ t.op = "create" => t.new # Keep
    /\ t.op # "update" => t.version = 0
    /\ t.op \in CommentOp => t.comment \in Comment

Current(t) == task.version = t.version
Mine(t) == t.actor \in {task.creator, task.assignee}

\* What it has seen of the task.
OnTask(t) ==
    /\ t.op = "create" => task = None
    /\ t.op \in Writes => task # None
    /\ t.op = "update" => t.version \in 1 .. MaxVersion
    /\ t.op = "update" /\ ~t.ahead => t.version <= task.version
    /\ t.op = "update" /\ t.at = "role" /\ t.own /\ Current(t) /\ ~t.ahead => Mine(t)
    /\ t.op = "update" /\ t.at = "commit" => Current(t) /\ task.live
    /\ t.op \in Writes /\ t.at = "commit" => task.version <= MaxVersion

\* What it has seen of the comment.
OnComment(t) ==
    /\ t.op = "comment" => comments[t.comment] = None
    /\ t.op \in {"edit", "erase"} => comments[t.comment] # None
    /\ t.op \in {"edit", "erase"} /\ t.own => comments[t.comment] \in {t.actor, Erased}
    /\ t.op \in CommentOp /\ Admitted(t) => TaskLive \/ "task" \in t.meanwhile

\* The actor's access allows the operation, unless access has changed since.
Entitled(t) ==
    Admitted(t) /\ "access" \notin t.meanwhile =>
       /\ t.op \in {"create", "comment"} => access[t.actor] \in {"ADMIN", "MEMBER"}
       /\ t.op = "update" => \/ access[t.actor] = "ADMIN"
                             \/ access[t.actor] = "MEMBER"
                                /\ (Current(t) /\ ~t.ahead => Mine(t))
       /\ t.op \in {"delete", "restore"} => access[t.actor] = "ADMIN"
       /\ t.op \in {"edit", "erase"} =>
             \/ access[t.actor] # None /\ comments[t.comment] \in {t.actor, Erased}
             \/ t.op = "erase" /\ access[t.actor] = "ADMIN"

\* So does the new assignee's.
Answers(t) ==
    t.at \in {"write", "commit"} /\ t.new \in User /\ "access" \notin t.meanwhile =>
       access[t.new] # None

Sound(t) == Position(t) /\ OnTask(t) /\ OnComment(t) /\ Entitled(t) /\ Answers(t)

Sounds == \A h \in Handler : Sound(tx[h])

\* Two requests that cannot be under way together.
Excludes(s, t) ==
    \/ s.op = "create" /\ t.op = "create"
    \/ s.op = "comment" /\ t.op = "comment" /\ s.comment = t.comment
    \/ s.at = "commit" /\ t.at = "commit" /\ s.op \in Writes /\ t.op \in Writes

Exclusive == \A g, h \in Handler : g # h => ~Excludes(tx[g], tx[h])

IInv == TypeOK /\ Sounds /\ Exclusive
-----------------------------------------------------------------------------
LEMMA IdleSound == Idle \in Tx /\ Sound(Idle) /\ \A t \in Tx : ~Excludes(Idle, t) /\ ~Excludes(t, Idle)
<1>1. Idle \in Tx
  BY DEF Idle, Request, Tx, At
<1>2. Sound(Idle)
  BY DEF Idle, Request, Sound, Position, OnTask, OnComment, Entitled, Answers, Admitted, Writes,
         TaskOp, CommentOp
<1>3. \A t \in Tx : ~Excludes(Idle, t) /\ ~Excludes(t, Idle)
  BY DEF Idle, Request, Excludes, Writes, TaskOp, CommentOp
<1> QED BY <1>1, <1>2, <1>3

LEMMA IdleStays ==
    ASSUME NEW h, tx'[h] = Idle
    PROVE  Sound(tx[h])'
BY DEF Idle, Request, Sound, Position, OnTask, OnComment, Entitled, Answers, Admitted, Writes,
       TaskOp, CommentOp

LEMMA InvInit == Init => IInv
<1> SUFFICES ASSUME Init PROVE IInv
  OBVIOUS
<1>1. TypeOK
  BY IdleSound DEF Init, Project!Init, Project!Closed, TypeOK
<1>2. Sounds
  BY IdleSound DEF Init, Sounds
<1>3. Exclusive
  BY IdleSound DEF Init, Exclusive
<1> QED BY <1>1, <1>2, <1>3 DEF IInv

\* A step of h that changes nothing but its own state.
LEMMA OwnStep ==
    ASSUME IInv, NEW h \in Handler, NEW t \in Tx, Sound(t),
           \A g \in Handler \ {h} : ~Excludes(tx[g], t) /\ ~Excludes(t, tx[g]),
           tx' = [tx EXCEPT ![h] = t], UNCHANGED <<access, content>>
    PROVE  IInv'
<1>1. TypeOK'
  BY DEF IInv, TypeOK, content
<1>2. Sounds'
  <2> SUFFICES ASSUME NEW g \in Handler PROVE Sound(tx[g])'
    BY DEF Sounds
  <2>1. PICK u \in Tx : u = tx'[g] /\ Sound(u)
    BY DEF IInv, TypeOK, Sounds
  <2>2. Sound(tx[g])' <=> Sound(u)
    BY <2>1 DEF Sound, Position, OnTask, OnComment, Entitled, Answers, Current, Mine, content,
                TaskLive, Admitted
  <2> QED BY <2>1, <2>2
<1>3. Exclusive'
  <2> SUFFICES ASSUME NEW g \in Handler, NEW k \in Handler, g # k
               PROVE  ~Excludes(tx[g], tx[k])'
    BY DEF Exclusive
  <2>1. PICK u, v : u = tx'[g] /\ v = tx'[k]
    OBVIOUS
  <2>2. ~Excludes(u, v)
    BY <2>1 DEF IInv, TypeOK, Exclusive
  <2> QED BY <2>1, <2>2 DEF Excludes
<1> QED BY <1>1, <1>2, <1>3 DEF IInv

LEMMA RollsBackStep ==
    ASSUME IInv, NEW h \in Handler, RollsBack(h)
    PROVE  IInv'
BY IdleSound, OwnStep DEF RollsBack, IInv, TypeOK
-----------------------------------------------------------------------------
LEMMA BeginCreateStep ==
    ASSUME IInv, NEW h \in Handler, NEW u \in User, NEW new \in Assignable,
           BeginCreate(h, u, new)
    PROVE  IInv'
<1>1. PICK t : t = Request("create", AfterRole(new), u, None, new, 0, FALSE)
  OBVIOUS
<1>2. tx' = [tx EXCEPT ![h] = t] /\ UNCHANGED <<access, content>>
  BY <1>1 DEF BeginCreate, Begins
<1>3. t \in Tx
  BY <1>1 DEF Request, Tx, At, TaskOp, CommentOp, AfterRole
<1>4. Sound(t)
  BY <1>1 DEF BeginCreate, Request, Sound, Position, OnTask, OnComment, Entitled, Answers, Admitted,
              Writes, TaskOp, CommentOp, AfterRole, canCreateTask, Access, Idle
<1>5. \A g \in Handler \ {h} : ~Excludes(tx[g], t) /\ ~Excludes(t, tx[g])
  BY <1>1 DEF BeginCreate, Request, Excludes, AfterRole
<1> QED BY <1>2, <1>3, <1>4, <1>5, OwnStep

LEMMA BeginUpdateStep ==
    ASSUME IInv, NEW h \in Handler, NEW u \in User, NEW v \in 1 .. MaxVersion,
           NEW new \in Assignable \cup {Keep}, BeginUpdate(h, u, v, new)
    PROVE  IInv'
<1>1. PICK own \in BOOLEAN : own = (u \in {task.creator, task.assignee})
  <2>1. (u \in {task.creator, task.assignee}) \in BOOLEAN
    OBVIOUS
  <2> QED BY <2>1, Zenon
<1>2. PICK ahead \in BOOLEAN : ahead = (v > task.version)
  <2>1. (v > task.version) \in BOOLEAN
    OBVIOUS
  <2> QED BY <2>1, Zenon
<1>3. PICK t : t = [Request("update", "role", u, None, new, v, own) EXCEPT !.ahead = ahead]
  OBVIOUS
<1>4. /\ t \in Tx
      /\ t.op = "update" /\ t.at = "role" /\ t.actor = u /\ t.new = new
      /\ t.version = v /\ t.own = own /\ t.ahead = ahead
  BY <1>3 DEF Request, Tx, At, TaskOp, CommentOp
<1>5. tx' = [tx EXCEPT ![h] = t] /\ UNCHANGED <<access, content>>
  BY <1>1, <1>2, <1>3 DEF BeginUpdate, Begins
<1>6. task # None /\ task.version \in Nat
  BY DEF BeginUpdate, TaskLive, IInv, TypeOK, TaskRow
<1>7. OnTask(t)
  <2>1. (t.own => Mine(t)) /\ (~t.ahead => ~(v > task.version))
    BY <1>1, <1>2, <1>4, Zenon DEF Mine
  <2>2. ~(v > task.version) => v <= task.version
    BY <1>6
  <2> QED BY <1>4, <1>6, <2>1, <2>2 DEF OnTask, Writes
<1>8. Position(t) /\ OnComment(t) /\ Entitled(t) /\ Answers(t)
  BY <1>4 DEF Position, OnComment, Entitled, Answers, Admitted, TaskOp, CommentOp
<1>9. \A g \in Handler \ {h} : ~Excludes(tx[g], t) /\ ~Excludes(t, tx[g])
  BY <1>4 DEF Excludes
<1> QED BY <1>4, <1>5, <1>7, <1>8, <1>9, OwnStep DEF Sound

LEMMA BeginRemovalStep ==
    ASSUME IInv, NEW h \in Handler, NEW u \in User, NEW op \in {"delete", "restore"},
           BeginRemoval(h, u, op)
    PROVE  IInv'
<1>1. PICK t : t = Request(op, "role", u, None, Keep, 0, FALSE)
  OBVIOUS
<1>2. tx' = [tx EXCEPT ![h] = t] /\ UNCHANGED <<access, content>>
  BY <1>1 DEF BeginRemoval, Begins
<1>3. t \in Tx
  BY <1>1 DEF Request, Tx, At, TaskOp, CommentOp
<1>4. Sound(t)
  BY <1>1 DEF BeginRemoval, Request, Sound, Position, OnTask, OnComment, Entitled, Answers,
              Admitted, Writes, TaskOp, CommentOp, Idle
<1>5. \A g \in Handler \ {h} : ~Excludes(tx[g], t) /\ ~Excludes(t, tx[g])
  BY <1>1 DEF Request, Excludes
<1> QED BY <1>2, <1>3, <1>4, <1>5, OwnStep

LEMMA BeginCommentStep ==
    ASSUME IInv, NEW h \in Handler, NEW u \in User, NEW c \in Comment, BeginComment(h, u, c)
    PROVE  IInv'
<1>1. PICK t : t = Request("comment", "write", u, c, Keep, 0, FALSE)
  OBVIOUS
<1>2. tx' = [tx EXCEPT ![h] = t] /\ UNCHANGED <<access, content>>
  BY <1>1 DEF BeginComment, Begins
<1>3. t \in Tx
  BY <1>1 DEF Request, Tx, At, TaskOp, CommentOp
<1>4. Sound(t)
  BY <1>1 DEF BeginComment, Request, Sound, Position, OnTask, OnComment, Entitled, Answers,
              Admitted, Writes, CommentOp, CommentAccess, Access, Role, Project!Role, TaskOp
<1>5. \A g \in Handler \ {h} : ~Excludes(tx[g], t) /\ ~Excludes(t, tx[g])
  BY <1>1 DEF BeginComment, Request, Excludes
<1> QED BY <1>2, <1>3, <1>4, <1>5, OwnStep

LEMMA BeginOnCommentStep ==
    ASSUME IInv, NEW h \in Handler, NEW u \in User, NEW c \in Comment,
           NEW op \in {"edit", "erase"}, BeginOnComment(h, u, c, op)
    PROVE  IInv'
<1>1. PICK own \in BOOLEAN : own = (comments[c] = u)
  OBVIOUS
<1>2. PICK t : t = Request(op, "role", u, c, Keep, 0, own)
  OBVIOUS
<1>3. tx' = [tx EXCEPT ![h] = t] /\ UNCHANGED <<access, content>>
  BY <1>1, <1>2 DEF BeginOnComment, Begins
<1>4. t \in Tx
  BY <1>2 DEF Request, Tx, At, TaskOp, CommentOp
<1>5. Sound(t)
  BY <1>1, <1>2 DEF BeginOnComment, Request, Sound, Position, OnTask, OnComment, Entitled, Answers,
              Admitted, Writes, TaskOp, CommentOp, Idle
<1>6. \A g \in Handler \ {h} : ~Excludes(tx[g], t) /\ ~Excludes(t, tx[g])
  BY <1>2 DEF Request, Excludes
<1> QED BY <1>3, <1>4, <1>5, <1>6, OwnStep

\* What a permission says of the role and of the row.
LEMMA PermittedMeans ==
    ASSUME NEW op \in {"update", "delete", "restore", "edit", "erase"}, NEW r,
           NEW own \in BOOLEAN, Permitted(op, r, own)
    PROVE  /\ r # None
           /\ op = "update" => r = "ADMIN" \/ (r = "MEMBER" /\ own)
           /\ op \in {"delete", "restore"} => r = "ADMIN"
           /\ op = "edit" => own
           /\ op = "erase" => r = "ADMIN" \/ own
<1>1. None \notin {"ADMIN", "MEMBER", "VIEWER"}
  BY DEF Role, Project!Role
<1>2. CASE op = "update"
  BY <1>1, <1>2 DEF Permitted, canUpdateTask
<1>3. CASE op \in {"delete", "restore"}
  BY <1>1, <1>3 DEF Permitted, canDeleteTask
<1>4. CASE op = "edit"
  BY <1>1, <1>4 DEF Permitted
<1>5. CASE op = "erase"
  BY <1>1, <1>5 DEF Permitted
<1> QED BY <1>2, <1>3, <1>4, <1>5

LEMMA ReadRoleStep ==
    ASSUME IInv, NEW h \in Handler, ReadRole(h)
    PROVE  IInv'
<1>1. PICK r : r = IF tx[h].op \in CommentOp THEN CommentAccess(tx[h].actor)
                   ELSE Access(tx[h].actor)
  OBVIOUS
<1>2. /\ tx[h].at = "role"
      /\ \/ Permitted(tx[h].op, r, tx[h].own) /\ Permit(h, AfterRole(tx[h].new))
         \/ RollsBack(h)
  BY <1>1 DEF ReadRole
<1>3. CASE RollsBack(h)
  BY <1>3, RollsBackStep
<1>4. CASE Permitted(tx[h].op, r, tx[h].own) /\ Permit(h, AfterRole(tx[h].new))
  <2>a. PICK at \in At : at = AfterRole(tx[h].new)
    BY DEF AfterRole, At
  <2>e. PICK t : t = [tx[h] EXCEPT !.at = at, !.own = FALSE]
    OBVIOUS
  <2>1. /\ t \in Tx
        /\ t.at = at /\ t.own = FALSE /\ t.op = tx[h].op /\ t.actor = tx[h].actor
        /\ t.comment = tx[h].comment /\ t.new = tx[h].new
        /\ t.version = tx[h].version /\ t.ahead = tx[h].ahead
        /\ t.meanwhile = tx[h].meanwhile
    <3>1. tx[h] \in Tx
      BY DEF IInv, TypeOK
    <3> QED BY <2>e, <3>1 DEF Tx
  <2>2. tx' = [tx EXCEPT ![h] = t] /\ UNCHANGED <<access, content>>
    BY <1>4, <2>a, <2>e DEF Permit
  <2>3. Sound(tx[h]) /\ tx[h].op \in {"update", "delete", "restore", "edit", "erase"}
        /\ tx[h].op \in TaskOp \cup CommentOp
    BY <1>2 DEF IInv, TypeOK, Tx, Sounds, Sound, Position, TaskOp, CommentOp
  <2>4. Position(t)
    BY <1>2, <2>a, <2>1, <2>3 DEF Sound, Position, AfterRole, CommentOp, Idle
  <2>5. OnTask(t)
    BY <1>2, <2>a, <2>1, <2>3 DEF Sound, OnTask, AfterRole, Writes
  <2>b. tx[h].own \in BOOLEAN
    BY DEF IInv, TypeOK, Tx
  <2>c. /\ r # None
        /\ tx[h].op = "update" => r = "ADMIN" \/ (r = "MEMBER" /\ tx[h].own)
        /\ tx[h].op \in {"delete", "restore"} => r = "ADMIN"
        /\ tx[h].op = "edit" => tx[h].own
        /\ tx[h].op = "erase" => r = "ADMIN" \/ tx[h].own
    BY <1>4, <2>3, <2>b, PermittedMeans
  <2>d. r = access[tx[h].actor] /\ (tx[h].op \in CommentOp => TaskLive)
    BY <1>1, <2>c DEF CommentAccess, Access
  <2>6. OnComment(t)
    BY <2>1, <2>3, <2>d DEF Sound, OnComment, CommentOp
  <2>7. Entitled(t)
    BY <1>2, <2>1, <2>3, <2>c, <2>d DEF Sound, OnTask, OnComment, Entitled, CommentOp,
       Current, Mine
  <2>8. Answers(t)
    BY <2>a, <2>1 DEF Answers, AfterRole
  <2>9. \A g \in Handler \ {h} : ~Excludes(tx[g], t) /\ ~Excludes(t, tx[g])
    BY <2>a, <2>1, <2>3 DEF Excludes, AfterRole
  <2> QED BY <2>1, <2>2, <2>4, <2>5, <2>6, <2>7, <2>8, <2>9, OwnStep DEF Sound
<1> QED BY <1>2, <1>3, <1>4

\* A request that may go on does so.
LEMMA GoesStep ==
    ASSUME IInv, NEW h \in Handler, NEW at \in {"write", "commit"}, Goes(h, at),
           \/ at = "write" /\ tx[h].at = "assignee" /\ access[tx[h].new] # None
           \/ at = "commit" /\ tx[h].at = "write",
           at = "commit" /\ tx[h].op = "update" => Current(tx[h]) /\ task.live,
           at = "commit" /\ tx[h].op \in Writes =>
              task.version <= MaxVersion /\ \A g \in Handler : ~TaskLockedBy(g)
    PROVE  IInv'
<1>1. PICK t : t = [tx[h] EXCEPT !.at = at]
  OBVIOUS
<1>2. /\ t \in Tx
      /\ t.at = at /\ t.own = tx[h].own /\ t.op = tx[h].op /\ t.actor = tx[h].actor
      /\ t.comment = tx[h].comment /\ t.new = tx[h].new
      /\ t.version = tx[h].version /\ t.ahead = tx[h].ahead
      /\ t.meanwhile = tx[h].meanwhile
  <2>1. tx[h] \in Tx /\ at \in At
    BY DEF IInv, TypeOK, At
  <2> QED BY <1>1, <2>1 DEF Tx
<1>3. tx' = [tx EXCEPT ![h] = t] /\ UNCHANGED <<access, content>>
  BY <1>1 DEF Goes
<1>4. Sound(tx[h]) /\ tx[h].at \in {"assignee", "write"} /\ at \in {"write", "commit"}
  BY DEF IInv, Sounds
<1>5. Position(t)
  BY <1>2, <1>4 DEF Sound, Position
<1>6. OnTask(t)
  BY <1>2, <1>4 DEF Sound, OnTask, Current, Mine
<1>7. OnComment(t)
  BY <1>2, <1>4 DEF Sound, Position, OnComment, Admitted, CommentOp
<1>8. Entitled(t)
  BY <1>2, <1>4 DEF Sound, Entitled, Admitted, Current, Mine
<1>9. Answers(t)
  BY <1>2, <1>4 DEF Sound, Answers
<1>10. \A g \in Handler \ {h} : ~Excludes(tx[g], t) /\ ~Excludes(t, tx[g])
  <2> TAKE g \in Handler \ {h}
  <2>1. ~Excludes(tx[g], tx[h]) /\ ~Excludes(tx[h], tx[g])
    BY DEF IInv, Exclusive
  <2> QED BY <1>2, <2>1 DEF Excludes, TaskLockedBy, Writes
<1> QED BY <1>2, <1>3, <1>5, <1>6, <1>7, <1>8, <1>9, <1>10, OwnStep DEF Sound

LEMMA ReadAssigneeStep ==
    ASSUME IInv, NEW h \in Handler, ReadAssignee(h)
    PROVE  IInv'
<1>1. CASE Access(tx[h].new) # None /\ Goes(h, "write")
  BY <1>1, GoesStep DEF ReadAssignee, Access
<1>2. CASE RollsBack(h)
  BY <1>2, RollsBackStep
<1> QED BY <1>1, <1>2 DEF ReadAssignee

LEMMA WriteUpdateStep ==
    ASSUME IInv, NEW h \in Handler, WriteUpdate(h)
    PROVE  IInv'
<1>1. CASE RollsBack(h)
  BY <1>1, RollsBackStep
<1>2. CASE /\ TaskLive /\ task.version = tx[h].version
           /\ \A g \in Handler : ~TaskLockedBy(g)
           /\ Goes(h, "commit")
  BY <1>2, GoesStep DEF WriteUpdate, Current, TaskLive
<1> QED BY <1>1, <1>2 DEF WriteUpdate

LEMMA OtherWritesStep ==
    ASSUME IInv, NEW h \in Handler, WriteRemoval(h) \/ InsertRow(h) \/ WriteComment(h)
    PROVE  IInv'
<1>1. CASE WriteRemoval(h)
  BY <1>1, GoesStep DEF WriteRemoval
<1>2. CASE InsertRow(h)
  BY <1>2, GoesStep DEF InsertRow, Writes
<1>3. CASE WriteComment(h)
  BY <1>3, GoesStep DEF WriteComment, Writes
<1> QED BY <1>1, <1>2, <1>3
-----------------------------------------------------------------------------
LEMMA MissesOnly ==
    ASSUME NEW t \in Tx, NEW what \in {"access", "task"}
    PROVE  /\ Misses(t, what) \in Tx
           /\ Misses(t, what).at = t.at /\ Misses(t, what).op = t.op
           /\ Misses(t, what).actor = t.actor /\ Misses(t, what).own = t.own
           /\ Misses(t, what).comment = t.comment /\ Misses(t, what).new = t.new
           /\ Misses(t, what).version = t.version /\ Misses(t, what).ahead = t.ahead
           /\ t.meanwhile \subseteq Misses(t, what).meanwhile
           /\ t.at = "idle" => Misses(t, what) = t
           /\ t.at # "idle" /\ (what = "access" \/ t.op \notin TaskOp) =>
                 what \in Misses(t, what).meanwhile
<1>1. CASE t.at = "idle" \/ (what = "task" /\ t.op \in TaskOp)
  BY <1>1 DEF Misses
<1>2. CASE ~(t.at = "idle" \/ (what = "task" /\ t.op \in TaskOp))
  <2>1. Misses(t, what) = [t EXCEPT !.meanwhile = t.meanwhile \cup {what}]
    BY <1>2 DEF Misses
  <2> QED BY <1>2, <2>1 DEF Tx
<1> QED BY <1>1, <1>2

LEMMA MissesExcludes ==
    ASSUME NEW s \in Tx, NEW t \in Tx, NEW what \in {"access", "task"}, ~Excludes(s, t)
    PROVE  ~Excludes(Misses(s, what), Misses(t, what))
BY MissesOnly DEF Excludes

\* The task is written: other requests that it could mislead find a new version.
LEMMA TaskMoves ==
    ASSUME IInv, NEW h \in Handler, NEW op \in TaskOp, CommitsTask(h, op),
           task' \in TaskRow, op \in Writes => task'.version = task.version + 1
    PROVE  IInv'
<1>1. \A g \in Handler : tx[g] \in Tx
  BY DEF IInv, TypeOK
<1>2. TypeOK'
  BY <1>1, IdleSound, MissesOnly DEF CommitsTask, IInv, TypeOK
<1>3. Sounds'
  <2> SUFFICES ASSUME NEW g \in Handler PROVE Sound(tx[g])'
    BY DEF Sounds
  <2>1. PICK u : u = tx'[g]
    OBVIOUS
  <2>2. CASE g = h
    <3>1. u = Idle
      BY <2>1, <2>2 DEF CommitsTask
    <3> QED BY <2>1, <3>1, IdleStays
  <2>3. CASE g # h
    <3>1. u = Misses(tx[g], "task")
      BY <2>1, <2>3 DEF CommitsTask
    <3>2. PICK t : t = tx[g] /\ t \in Tx /\ Sound(t) /\ ~Excludes(tx[h], t)
      BY <1>1, <2>3 DEF IInv, Sounds, Exclusive
    <3>3. /\ u.at = t.at /\ u.op = t.op /\ u.actor = t.actor /\ u.own = t.own
          /\ u.comment = t.comment /\ u.new = t.new /\ u.version = t.version
          /\ u.ahead = t.ahead
          /\ t.meanwhile \subseteq u.meanwhile /\ (t.at = "idle" => u = t)
          /\ t.at # "idle" /\ t.op \notin TaskOp => "task" \in u.meanwhile
      BY <3>1, <3>2, MissesOnly
    <3>4. /\ tx[h].at = "commit" /\ tx[h].op = op /\ OnTask(tx[h])
          /\ access' = access /\ comments' = comments
      BY DEF CommitsTask, IInv, Sounds, Sound
    <3>5. /\ op = "create" => task = None /\ t.op # "create"
          /\ op \in Writes => task # None /\ ~(t.at = "commit" /\ t.op \in Writes)
      BY <3>2, <3>4 DEF Excludes, OnTask
    <3>6. task # None => task.version \in Nat
      BY DEF IInv, TypeOK, TaskRow
    <3>7. /\ t.op = "create" => FALSE
          /\ t.op \in Writes => op \in Writes /\ task # None /\ t.at # "commit"
      BY <3>2, <3>5 DEF Sound, OnTask, TaskOp, Writes
    <3>8. task' # None
      OBVIOUS
    <3>9. u.op = "update" =>
             /\ u.version \in 1 .. MaxVersion
             /\ u.ahead \/ (u.version <= task'.version /\ task'.version # u.version)
      <4>1. ~u.ahead => ~t.ahead
        BY <3>3, Zenon
      <4> QED BY <3>2, <3>3, <3>6, <3>7, <4>1 DEF Sound, OnTask, Writes
    <3>10. Position(u)
      BY <3>2, <3>3 DEF Sound, Position
    <3>11. OnTask(u)'
      <4>1. u.op # "create" /\ (u.op \in Writes => u.at # "commit")
        BY <3>3, <3>7
      <4> QED BY <3>8, <3>9, <4>1 DEF OnTask, Current, Writes
    <3>12. OnComment(u)'
      BY <3>2, <3>3, <3>4 DEF Sound, OnComment, Admitted, CommentOp, TaskOp
    <3>13. Entitled(u)'
      <4>1. u.op = "update" => u.ahead \/ task'.version # u.version
        BY <3>9
      <4> QED BY <3>2, <3>3, <3>4, <3>7, <4>1 DEF Sound, Entitled, Admitted, Current, Writes
    <3>14. Answers(u)'
      BY <3>2, <3>3, <3>4 DEF Sound, Answers
    <3> QED BY <2>1, <3>10, <3>11, <3>12, <3>13, <3>14
            DEF Sound, Position, OnTask, OnComment, Entitled, Answers, Current, Mine,
                TaskLive, Admitted
  <2> QED BY <2>2, <2>3
<1>4. Exclusive'
  <2> SUFFICES ASSUME NEW g \in Handler, NEW k \in Handler, g # k
               PROVE  ~Excludes(tx[g], tx[k])'
    BY DEF Exclusive
  <2>1. PICK u, v : u = tx'[g] /\ v = tx'[k]
    OBVIOUS
  <2>2. ~Excludes(u, v)
    <3>1. CASE g = h \/ k = h
      <4>1. tx' \in [Handler -> Tx]
        BY <1>2 DEF TypeOK
      <4>2. u \in Tx /\ v \in Tx /\ (u = Idle \/ v = Idle)
        BY <2>1, <3>1, <4>1 DEF CommitsTask
      <4> QED BY <4>2, IdleSound
    <3>2. CASE g # h /\ k # h
      <4>1. u = Misses(tx[g], "task") /\ v = Misses(tx[k], "task")
        BY <2>1, <3>2 DEF CommitsTask
      <4> QED BY <1>1, <4>1, MissesExcludes DEF IInv, Exclusive
    <3> QED BY <3>1, <3>2
  <2> QED BY <2>1, <2>2 DEF Excludes
<1> QED BY <1>2, <1>3, <1>4 DEF IInv

LEMMA CommitsTaskStep ==
    ASSUME IInv, NEW h \in Handler,
           CommitCreation(h) \/ CommitUpdate(h) \/ CommitDeletion(h) \/ CommitRestoration(h)
    PROVE  IInv'
<1>1. /\ tx[h] \in Tx /\ task \in TaskRow \cup {None}
      /\ tx[h].new \in User \cup {None, Keep}
  BY DEF IInv, TypeOK, Tx
<1>2. /\ tx[h].at = "commit" => tx[h].actor \in User
      /\ tx[h].op = "create" => tx[h].new # Keep
      /\ tx[h].at = "commit" /\ tx[h].op \in Writes => task # None /\ task.version <= MaxVersion
  BY DEF IInv, Sounds, Sound, Position, OnTask
<1>3. CASE CommitCreation(h)
  <2>1. task' \in TaskRow
    <3>1. tx[h].at = "commit" /\ tx[h].op = "create"
      BY <1>3 DEF CommitCreation, CommitsTask
    <3>2. tx[h].actor \in User /\ tx[h].new \in User \cup {None}
      BY <1>1, <1>2, <3>1
    <3> QED BY <1>3, <3>2 DEF CommitCreation, TaskRow
  <2> QED BY <1>3, <2>1, TaskMoves DEF CommitCreation, TaskOp, Writes
<1>4. CASE CommitUpdate(h)
  <2>1. task \in TaskRow /\ task.version <= MaxVersion
    <3>1. tx[h].at = "commit" /\ tx[h].op = "update"
      BY <1>4 DEF CommitUpdate, CommitsTask
    <3> QED BY <1>1, <1>2, <3>1 DEF Writes
  <2>2. task' \in TaskRow /\ task'.version = task.version + 1
    BY <1>1, <1>4, <2>1 DEF CommitUpdate, Sets, TaskRow
  <2> QED BY <1>4, <2>2, TaskMoves DEF CommitUpdate, TaskOp
<1>5. CASE CommitDeletion(h) \/ CommitRestoration(h)
  <2>1. task \in TaskRow /\ task.version <= MaxVersion
    <3>1. tx[h].at = "commit" /\ tx[h].op \in {"delete", "restore"}
      BY <1>5 DEF CommitDeletion, CommitRestoration, CommitsTask
    <3> QED BY <1>1, <1>2, <3>1 DEF Writes
  <2>2. task' \in TaskRow /\ task'.version = task.version + 1
    <3>1. PICK live \in BOOLEAN : Sets(task.assignee, live)
      BY <1>5 DEF CommitDeletion, CommitRestoration
    <3> QED BY <2>1, <3>1 DEF Sets, TaskRow
  <2> QED BY <1>5, <2>2, TaskMoves DEF CommitDeletion, CommitRestoration, TaskOp
<1> QED BY <1>3, <1>4, <1>5

\* A comment is written or erased.
LEMMA CommentMoves ==
    ASSUME IInv, NEW h \in Handler, tx[h].at = "commit",
           tx[h].op \in CommentOp, NEW c \in Comment, c = tx[h].comment,
           NEW x \in User \cup {Erased},
           \/ tx[h].op = "comment" /\ x = tx[h].actor
           \/ tx[h].op # "comment" /\ x \in {comments[c], Erased},
           comments' = [comments EXCEPT ![c] = x],
           tx' = [tx EXCEPT ![h] = Idle], UNCHANGED <<access, task>>
    PROVE  IInv'
<1>1. TypeOK'
  BY IdleSound DEF IInv, TypeOK
<1>2. Sounds'
  <2> SUFFICES ASSUME NEW g \in Handler PROVE Sound(tx[g])'
    BY DEF Sounds
  <2>1. PICK u : u = tx'[g]
    OBVIOUS
  <2>2. CASE g = h
    <3>1. u = Idle
      BY <2>1, <2>2 DEF IInv, TypeOK
    <3> QED BY <2>1, <3>1, IdleStays
  <2>3. CASE g # h
    <3>1. u = tx[g] /\ u \in Tx /\ Sound(u) /\ ~Excludes(tx[h], u)
      BY <2>1, <2>3 DEF IInv, TypeOK, Sounds, Exclusive
    <3>2. OnComment(tx[h]) /\ comments \in [Comment -> User \cup {None, Erased}]
      BY DEF IInv, TypeOK, Sounds, Sound
    <3>3. x # None
      BY <3>2 DEF OnComment, CommentOp
    <3>4. u.op \in CommentOp => u.comment \in Comment
      BY <3>1 DEF Sound, Position
    <3>5. u.op = "comment" => comments[u.comment] = None /\ u.comment # c
      BY <3>1, <3>2 DEF Sound, OnComment, Excludes, CommentOp
    <3>6. comments'[c] = x
          /\ \A d \in Comment : d # c => comments'[d] = comments[d]
      BY <3>2
    <3>7. u.op \in {"edit", "erase"} =>
             /\ comments'[u.comment] # None
             /\ comments[u.comment] \in {u.actor, Erased} =>
                   comments'[u.comment] \in {u.actor, Erased}
      BY <3>1, <3>2, <3>3, <3>4, <3>6 DEF Sound, OnComment, CommentOp
    <3>8. OnComment(u)'
      BY <3>1, <3>4, <3>5, <3>6, <3>7 DEF Sound, OnComment, CommentOp, TaskLive
    <3>9. Entitled(u)'
      BY <3>1, <3>7 DEF Sound, Entitled, Current, Mine
    <3> QED BY <2>1, <3>1, <3>8, <3>9
            DEF Sound, Position, OnTask, OnComment, Entitled, Answers, Current, Mine,
                TaskLive, Admitted
  <2> QED BY <2>2, <2>3
<1>3. Exclusive'
  <2> SUFFICES ASSUME NEW g \in Handler, NEW k \in Handler, g # k
               PROVE  ~Excludes(tx[g], tx[k])'
    BY DEF Exclusive
  <2>1. PICK u, v : u = tx'[g] /\ v = tx'[k]
    OBVIOUS
  <2>2. ~Excludes(u, v)
    BY <2>1, IdleSound DEF IInv, TypeOK, Exclusive
  <2> QED BY <2>1, <2>2 DEF Excludes
<1> QED BY <1>1, <1>2, <1>3 DEF IInv

LEMMA CommitsCommentStep ==
    ASSUME IInv, NEW h \in Handler, CommitComment(h) \/ CommitEdit(h) \/ CommitErasure(h)
    PROVE  IInv'
<1>1. /\ tx[h].at = "commit" /\ tx[h].op \in CommentOp
      /\ tx' = [tx EXCEPT ![h] = Idle] /\ UNCHANGED <<access, task>>
  BY DEF CommitComment, CommitEdit, CommitErasure, CommitsComment, CommentOp
<1>2. tx[h].comment \in Comment /\ tx[h].actor \in User
      /\ comments \in [Comment -> User \cup {None, Erased}]
      /\ (tx[h].op \in {"edit", "erase"} => comments[tx[h].comment] # None)
  BY <1>1 DEF IInv, TypeOK, Sounds, Sound, Position, OnComment
<1>3. CASE CommitComment(h)
  BY <1>1, <1>2, <1>3, CommentMoves DEF CommitComment, CommitsComment
<1>4. CASE CommitEdit(h)
  <2>1. tx[h].op = "edit" /\ comments' = [comments EXCEPT ![tx[h].comment] = comments[tx[h].comment]]
    BY <1>2, <1>4 DEF CommitEdit, CommitsComment
  <2> QED BY <1>1, <1>2, <2>1, CommentMoves
<1>5. CASE CommitErasure(h)
  BY <1>1, <1>2, <1>5, CommentMoves DEF CommitErasure, CommitsComment
<1> QED BY <1>3, <1>4, <1>5

LEMMA AccessStep ==
    ASSUME IInv, AccessChanges
    PROVE  IInv'
<1>1. \A g \in Handler : tx[g] \in Tx
  BY DEF IInv, TypeOK
<1>2. access' \in [User -> Role \cup {None}]
  BY DEF IInv, TypeOK, AccessChanges, Project!Next, Project!Grant, Project!Close,
         Project!Closed, Project!Reopen, Role
<1>3. TypeOK'
  BY <1>1, <1>2, MissesOnly DEF AccessChanges, IInv, TypeOK, content
<1>4. Sounds'
  <2> SUFFICES ASSUME NEW g \in Handler PROVE Sound(tx[g])'
    BY DEF Sounds
  <2>1. PICK u, t : /\ u = tx'[g] /\ t = tx[g] /\ t \in Tx /\ Sound(t)
                    /\ u = Misses(t, "access")
    BY <1>1 DEF AccessChanges, IInv, Sounds
  <2>2. /\ u.at = t.at /\ u.op = t.op /\ u.actor = t.actor /\ u.own = t.own
        /\ u.comment = t.comment /\ u.new = t.new /\ u.version = t.version
        /\ u.ahead = t.ahead
        /\ t.meanwhile \subseteq u.meanwhile /\ (t.at = "idle" => u = t)
        /\ t.at # "idle" => "access" \in u.meanwhile
    BY <2>1, MissesOnly
  <2>3. UNCHANGED <<task, comments>>
    BY DEF AccessChanges, content
  <2>4. CASE t.at = "idle"
    <3>1. tx'[g] = Idle
      BY <2>1, <2>2, <2>4 DEF Sound, Position
    <3> QED BY <3>1, IdleStays
  <2>5. CASE t.at # "idle"
    <3>1. Position(u)
      BY <2>1, <2>2 DEF Sound, Position
    <3>2. OnTask(u)
      BY <2>1, <2>2 DEF Sound, OnTask, Current, Mine
    <3>3. OnComment(u)
      BY <2>1, <2>2 DEF Sound, OnComment, Admitted
    <3>4. Entitled(u)' /\ Answers(u)'
      BY <2>2, <2>5 DEF Entitled, Answers
    <3> QED BY <2>1, <2>3, <3>1, <3>2, <3>3, <3>4
            DEF Sound, Position, OnTask, OnComment, Entitled, Answers, Current, Mine,
                TaskLive, Admitted
  <2> QED BY <2>4, <2>5
<1>5. Exclusive'
  <2> SUFFICES ASSUME NEW g \in Handler, NEW k \in Handler, g # k
               PROVE  ~Excludes(tx[g], tx[k])'
    BY DEF Exclusive
  <2>1. PICK u, v : /\ u = tx'[g] /\ v = tx'[k]
                    /\ u = Misses(tx[g], "access") /\ v = Misses(tx[k], "access")
    BY DEF AccessChanges
  <2>2. ~Excludes(u, v)
    BY <1>1, <2>1, MissesExcludes DEF IInv, Exclusive
  <2> QED BY <2>1, <2>2 DEF Excludes
<1> QED BY <1>3, <1>4, <1>5 DEF IInv

LEMMA Stutter ==
    ASSUME IInv, UNCHANGED vars
    PROVE  IInv'
<1>1. TypeOK'
  BY DEF IInv, TypeOK, vars, content
<1>2. Sounds'
  BY DEF IInv, Sounds, Sound, Position, OnTask, OnComment, Entitled, Answers, Current, Mine,
         TaskLive, Admitted, vars, content
<1>3. Exclusive'
  BY DEF IInv, Exclusive, Excludes, vars, content
<1> QED BY <1>1, <1>2, <1>3 DEF IInv

LEMMA InvNext == IInv /\ [Next]_vars => IInv'
<1> SUFFICES ASSUME IInv, [Next]_vars PROVE IInv'
  OBVIOUS
<1>1. CASE UNCHANGED vars
  BY <1>1, Stutter
<1>2. CASE AccessChanges
  BY <1>2, AccessStep
<1>3. ASSUME NEW h \in Handler, Refuse(h) PROVE IInv'
  BY <1>3, Stutter DEF Refuse
<1>4. ASSUME NEW h \in Handler, Begin(h) PROVE IInv'
  <2> PICK u \in User :
         \/ \E new \in Assignable : BeginCreate(h, u, new)
         \/ \E new \in Assignable \cup {Keep}, v \in 1 .. MaxVersion : BeginUpdate(h, u, v, new)
         \/ \E op \in {"delete", "restore"} : BeginRemoval(h, u, op)
         \/ \E c \in Comment :
              \/ BeginComment(h, u, c)
              \/ \E op \in {"edit", "erase"} : BeginOnComment(h, u, c, op)
    BY <1>4 DEF Begin
  <2> QED BY BeginCreateStep, BeginUpdateStep, BeginRemovalStep, BeginCommentStep,
             BeginOnCommentStep
<1>5. ASSUME NEW h \in Handler, Step(h) PROVE IInv'
  BY <1>5, ReadRoleStep, ReadAssigneeStep, WriteUpdateStep, OtherWritesStep, CommitsTaskStep,
     CommitsCommentStep DEF Step
<1>6. ASSUME NEW h \in Handler, Abort(h) PROVE IInv'
  BY <1>6, RollsBackStep DEF Abort
<1> QED BY <1>1, <1>2, <1>3, <1>4, <1>5, <1>6 DEF Next

\* What a request has read stays true, or it knows that it does not (IInv).
THEOREM Invariant == Spec => []IInv
BY InvInit, InvNext, PTL DEF Spec

\* Type correctness.
THEOREM TypeCorrect == Spec => []TypeOK
<1>1. IInv => TypeOK
  BY DEF IInv
<1> QED BY <1>1, Invariant, PTL
-----------------------------------------------------------------------------
(***************************************************************************)
(* Whoever updates a task is its creator or assignee in the version that   *)
(* the update replaces, or an administrator, or their access changed while *)
(* the request ran, unless the request names a version that the task had   *)
(* not reached when the request read it.                                   *)
(***************************************************************************)
THEOREM UpdatersEntitled == Spec => UpdatesAreEntitled
<1>1. IInv => \A h \in Handler : Committing(h, {"update"}) /\ ~tx[h].ahead =>
                  \/ tx[h].actor \in {task.creator, task.assignee}
                  \/ Access(tx[h].actor) = "ADMIN" \/ "access" \in tx[h].meanwhile
  BY DEF IInv, Sounds, Sound, OnTask, Entitled, Admitted, Mine, Committing, Access
<1>2. [][\A h \in Handler : Committing(h, {"update"}) /\ ~tx[h].ahead =>
            \/ tx[h].actor \in {task.creator, task.assignee}
            \/ Access(tx[h].actor) = "ADMIN" \/ "access" \in tx[h].meanwhile]_vars
      <=> UpdatesAreEntitled
  BY DEF UpdatesAreEntitled
<1> QED BY <1>1, <1>2, Invariant, PTL

(***************************************************************************)
(* Requests of administrators and members only change the content, except  *)
(* that viewers edit or delete comments of their own, and requests that    *)
(* were running when the access of their user changed.                     *)
(***************************************************************************)
THEOREM WritersWrite == Spec => WritersOnly
<1> DEFINE Only == \A h \in Handler : Committing(h, TaskOp \cup CommentOp) =>
          LET r == Access(tx[h].actor) IN
          \/ r \in {"ADMIN", "MEMBER"}
          \/ /\ r = "VIEWER" /\ tx[h].op \in {"edit", "erase"}
             /\ comments[tx[h].comment] \in {tx[h].actor, Erased}
          \/ "access" \in tx[h].meanwhile
<1>1. IInv => Only
  <2> SUFFICES ASSUME IInv, NEW h \in Handler, Committing(h, TaskOp \cup CommentOp),
                      "access" \notin tx[h].meanwhile
               PROVE  \/ access[tx[h].actor] \in {"ADMIN", "MEMBER"}
                      \/ /\ access[tx[h].actor] = "VIEWER" /\ tx[h].op \in {"edit", "erase"}
                         /\ comments[tx[h].comment] \in {tx[h].actor, Erased}
    BY DEF Access
  <2>1. /\ tx[h].at = "commit" /\ tx[h].op \in TaskOp \cup CommentOp
        /\ Entitled(tx[h]) /\ Position(tx[h])
    BY DEF IInv, Sounds, Sound, Committing
  <2>2. access[tx[h].actor] \in {"ADMIN", "MEMBER", "VIEWER", None}
    BY <2>1 DEF IInv, TypeOK, Position, Role, Project!Role
  <2> QED BY <2>1, <2>2 DEF Entitled, Admitted, TaskOp, CommentOp
<1>2. [][Only]_vars <=> WritersOnly
  BY DEF WritersOnly
<1> QED BY <1>1, <1>2, Invariant, PTL

\* The requests that change the task, and what they find.
LEMMA WhoWritesTask ==
    ASSUME IInv, Next, task' # task
    PROVE  \E h \in Handler :
             /\ Committing(h, TaskOp) /\ Sound(tx[h])
             /\ \/ CommitCreation(h) /\ task = None
                \/ CommitUpdate(h) /\ task # None
                \/ (CommitDeletion(h) \/ CommitRestoration(h)) /\ task # None
<1>1. ASSUME NEW h \in Handler, Refuse(h) \/ Begin(h) \/ Abort(h) PROVE UNCHANGED task
  BY <1>1 DEF Refuse, Begin, Abort, BeginCreate, BeginUpdate, BeginRemoval, BeginComment,
              BeginOnComment, Begins, RollsBack, vars, content
<1>2. ASSUME NEW h \in Handler, Step(h)
      PROVE  CommitCreation(h) \/ CommitUpdate(h) \/ CommitDeletion(h) \/ CommitRestoration(h)
  BY <1>2 DEF Step, ReadRole, ReadAssignee, WriteUpdate, WriteRemoval, InsertRow, WriteComment,
              CommitComment, CommitEdit, CommitErasure, CommitsComment, Goes, RollsBack, Permit,
              content
<1>3. PICK h \in Handler :
         CommitCreation(h) \/ CommitUpdate(h) \/ CommitDeletion(h) \/ CommitRestoration(h)
  BY <1>1, <1>2 DEF Next, AccessChanges, content
<1>4. Committing(h, TaskOp) /\ Sound(tx[h])
  BY <1>3 DEF CommitCreation, CommitUpdate, CommitDeletion, CommitRestoration, CommitsTask,
              Committing, TaskOp, IInv, Sounds
<1>5. /\ tx[h].op = "create" => task = None
      /\ tx[h].op \in Writes => task # None
  BY <1>4 DEF Sound, OnTask
<1> QED BY <1>3, <1>4, <1>5 DEF CommitCreation, CommitUpdate, CommitDeletion,
           CommitRestoration, CommitsTask, Writes

(***************************************************************************)
(* Whoever becomes the assignee is a member then, or the members changed   *)
(* while the request ran.                                                  *)
(***************************************************************************)
THEOREM MembersAssigned == Spec => AssigneesAreMembers
<1> DEFINE Members ==
      task' # task /\ task'.assignee # None
          /\ (task = None \/ task'.assignee # task.assignee) =>
          \E h \in Handler :
             /\ Committing(h, {"create", "update"})
             /\ Access(task'.assignee) # None \/ "access" \in tx[h].meanwhile
<1>1. IInv /\ [Next]_vars => [Members]_vars
  <2> SUFFICES ASSUME IInv, Next, task' # task, task'.assignee # None,
                      task = None \/ task'.assignee # task.assignee
               PROVE  \E h \in Handler :
                         /\ Committing(h, {"create", "update"})
                         /\ Access(task'.assignee) # None \/ "access" \in tx[h].meanwhile
    OBVIOUS
  <2>1. PICK h \in Handler :
             /\ Committing(h, TaskOp) /\ Sound(tx[h])
             /\ \/ CommitCreation(h) /\ task = None
                \/ CommitUpdate(h) /\ task # None
                \/ (CommitDeletion(h) \/ CommitRestoration(h)) /\ task # None
    BY WhoWritesTask
  <2>2. tx[h].new \in User \cup {None, Keep}
    BY DEF IInv, TypeOK, Tx
  <2>3. task'.assignee = tx[h].new /\ tx[h].op \in {"create", "update"} /\ tx[h].new \in User
    <3>1. CASE CommitCreation(h)
      BY <2>1, <2>2, <3>1 DEF CommitCreation, CommitsTask, Sound, Position
    <3>2. CASE CommitUpdate(h) /\ task # None
      BY <2>2, <3>2 DEF CommitUpdate, CommitsTask, Sets
    <3>3. CASE (CommitDeletion(h) \/ CommitRestoration(h)) /\ task # None
      BY <3>3 DEF CommitDeletion, CommitRestoration, Sets
    <3> QED BY <2>1, <3>1, <3>2, <3>3
  <2> QED BY <2>1, <2>3 DEF Committing, Sound, Answers, Access
<1>2. [][Members]_vars <=> AssigneesAreMembers
  BY DEF AssigneesAreMembers
<1> QED BY <1>1, <1>2, Invariant, PTL DEF Spec

(***************************************************************************)
(* Comments change only while the task is not deleted, or by requests that *)
(* ran when it was, and what is erased stays erased.                       *)
(***************************************************************************)
THEOREM CommentsFollow == Spec => CommentsFollowTask
<1> DEFINE Follow ==
      /\ \A h \in Handler : Committing(h, CommentOp) =>
             TaskLive \/ "task" \in tx[h].meanwhile
      /\ \A c \in Comment : comments[c] = Erased => comments'[c] = Erased
<1>1. IInv /\ [Next]_vars => [Follow]_vars
  <2> SUFFICES ASSUME IInv, Next PROVE Follow
    OBVIOUS
  <2>1. ASSUME NEW h \in Handler, Committing(h, CommentOp)
        PROVE  TaskLive \/ "task" \in tx[h].meanwhile
    BY <2>1 DEF Committing, IInv, Sounds, Sound, OnComment, Admitted
  <2>2. ASSUME NEW c \in Comment, comments[c] = Erased PROVE comments'[c] = Erased
    <3>1. comments \in [Comment -> User \cup {None, Erased}]
      BY DEF IInv, TypeOK
    <3>2. ASSUME NEW h \in Handler, CommitComment(h) PROVE comments'[c] = Erased
      <4>1. comments[tx[h].comment] = None
        BY <3>2 DEF CommitComment, CommitsComment, IInv, Sounds, Sound, OnComment
      <4> QED BY <2>2, <3>1, <3>2, <4>1 DEF CommitComment
    <3>3. ASSUME NEW h \in Handler, CommitErasure(h) PROVE comments'[c] = Erased
      BY <2>2, <3>1, <3>3 DEF CommitErasure
    <3>4. CASE UNCHANGED comments
      BY <2>2, <3>4
    <3>5. ASSUME NEW h \in Handler, Refuse(h) \/ Begin(h) \/ Abort(h) PROVE UNCHANGED comments
      BY <3>5 DEF Refuse, Begin, Abort, BeginCreate, BeginUpdate, BeginRemoval, BeginComment,
                  BeginOnComment, Begins, RollsBack, vars, content
    <3>6. ASSUME NEW h \in Handler, Step(h)
          PROVE  CommitComment(h) \/ CommitErasure(h) \/ UNCHANGED comments
      BY <3>6 DEF Step, ReadRole, ReadAssignee, WriteUpdate, WriteRemoval, InsertRow,
                  WriteComment, CommitCreation, CommitUpdate, CommitDeletion,
                  CommitRestoration, CommitsTask, CommitEdit, Goes, RollsBack, Permit, content
    <3> QED BY <3>2, <3>3, <3>4, <3>5, <3>6 DEF Next, AccessChanges, content
  <2> QED BY <2>1, <2>2
<1>2. [][Follow]_vars <=> CommentsFollowTask
  BY DEF CommentsFollowTask
<1> QED BY <1>1, <1>2, Invariant, PTL DEF Spec
-----------------------------------------------------------------------------
(***************************************************************************)
(* The refinement: what Row sees of a step of a request.                   *)
(***************************************************************************)
ClaimOf(t) == t.version
Claims == [h \in Handler |-> ClaimOf(tx[h])]
Seen == IF task = None THEN NoTask
        ELSE [value |-> task.assignee, live |-> task.live, version |-> task.version]

LEMMA RowSees ==
    /\ Row!Init <=> Seen = NoTask /\ Claims = [h \in Handler |-> 0]
    /\ Row!rowVars = <<Seen, Claims>>
    /\ (UNCHANGED Row!rowVars) <=> (UNCHANGED <<Seen, Claims>>)
BY DEF Row!Init, Row!rowVars, Seen, Claims, ClaimOf

\* Only the state of h changes, and it keeps what it claims.
LEMMA SameClaim ==
    ASSUME IInv, NEW h \in Handler, NEW t, tx' = [tx EXCEPT ![h] = t],
           ClaimOf(t) = ClaimOf(tx[h]), UNCHANGED task
    PROVE  UNCHANGED Row!rowVars
<1>1. Claims' = Claims
  BY DEF IInv, TypeOK, Claims, ClaimOf
<1> QED BY <1>1, RowSees DEF Seen

\* A request that ends without a write of the task gives up its claim, if it has one.
LEMMA EndsClaim ==
    ASSUME IInv, NEW h \in Handler, tx' = [tx EXCEPT ![h] = Idle], UNCHANGED task
    PROVE  Row!Next \/ UNCHANGED Row!rowVars
<1>1. ClaimOf(Idle) = 0
  BY DEF ClaimOf, Idle, Request, TaskOp
<1>2. CASE ClaimOf(tx[h]) = 0
  BY <1>1, <1>2, SameClaim
<1>3. CASE ClaimOf(tx[h]) # 0
  <2>1. Claims' = [Claims EXCEPT ![h] = 0] /\ Claims[h] # 0 /\ Seen' = Seen
    BY <1>1, <1>3 DEF IInv, TypeOK, Claims, ClaimOf, Seen
  <2>2. Row!GiveUp(h)
    BY <2>1 DEF Row!GiveUp, Row!Drops, Claims, ClaimOf, Seen
  <2> QED BY <2>2 DEF Row!Next
<1> QED BY <1>2, <1>3

LEMMA BeginsClaim ==
    ASSUME IInv, NEW h \in Handler, Begin(h)
    PROVE  Row!Next \/ UNCHANGED Row!rowVars
<1> PICK u \in User :
       \/ \E new \in Assignable : BeginCreate(h, u, new)
       \/ \E new \in Assignable \cup {Keep}, v \in 1 .. MaxVersion : BeginUpdate(h, u, v, new)
       \/ \E op \in {"delete", "restore"} : BeginRemoval(h, u, op)
       \/ \E c \in Comment :
            \/ BeginComment(h, u, c)
            \/ \E op \in {"edit", "erase"} : BeginOnComment(h, u, c, op)
  BY DEF Begin
<1>1. tx[h].at = "idle" /\ UNCHANGED task
  BY DEF BeginCreate, BeginUpdate, BeginRemoval, BeginComment, BeginOnComment, Begins, content
<1>2. ClaimOf(tx[h]) = 0
  <2>1. tx[h] = Idle
    BY <1>1 DEF IInv, Sounds, Sound, Position
  <2> QED BY <2>1 DEF ClaimOf, Idle, Request, TaskOp
<1>3. ASSUME NEW op, NEW at, NEW a, NEW c, NEW new, NEW own, op # "update",
             tx' = [tx EXCEPT ![h] = Request(op, at, a, c, new, 0, own)]
      PROVE  UNCHANGED Row!rowVars
  <2>1. PICK t : t = Request(op, at, a, c, new, 0, own)
    OBVIOUS
  <2>2. ClaimOf(t) = 0
    BY <1>3, <2>1 DEF ClaimOf, Request
  <2> QED BY <1>1, <1>2, <1>3, <2>1, <2>2, SameClaim
<1>4. ASSUME NEW new \in Assignable, BeginCreate(h, u, new) PROVE UNCHANGED Row!rowVars
  BY <1>3, <1>4 DEF BeginCreate, Begins
<1>5. ASSUME NEW op \in {"delete", "restore"}, BeginRemoval(h, u, op)
      PROVE  UNCHANGED Row!rowVars
  BY <1>3, <1>5 DEF BeginRemoval, Begins
<1>6. ASSUME NEW c \in Comment, BeginComment(h, u, c) PROVE UNCHANGED Row!rowVars
  BY <1>3, <1>6 DEF BeginComment, Begins
<1>7. ASSUME NEW c \in Comment, NEW op \in {"edit", "erase"}, BeginOnComment(h, u, c, op)
      PROVE  UNCHANGED Row!rowVars
  <2>1. PICK own : own = (comments[c] = u)
    OBVIOUS
  <2>2. tx' = [tx EXCEPT ![h] = Request(op, "role", u, c, Keep, 0, own)]
    BY <1>7, <2>1 DEF BeginOnComment, Begins
  <2> QED BY <1>3, <2>2
<1>8. ASSUME NEW new \in Assignable \cup {Keep}, NEW v \in 1 .. MaxVersion,
             BeginUpdate(h, u, v, new)
      PROVE  Row!Next
  <2>1. PICK t : t = [Request("update", "role", u, None, new, v,
                              u \in {task.creator, task.assignee})
                        EXCEPT !.ahead = v > task.version]
    OBVIOUS
  <2>2. tx' = [tx EXCEPT ![h] = t] /\ task # None
    BY <1>8, <2>1 DEF BeginUpdate, Begins, TaskLive
  <2>3. ClaimOf(t) = v
    BY <2>1 DEF ClaimOf, Request
  <2>4. Claims' = [Claims EXCEPT ![h] = v] /\ Claims[h] = 0 /\ Seen' = Seen
    BY <1>1, <1>2, <2>2, <2>3 DEF IInv, TypeOK, Claims, ClaimOf, Seen
  <2>5. Seen # NoTask
    <3>1. task \in TaskRow
      BY <2>2 DEF IInv, TypeOK
    <3>2. Seen.version = task.version /\ task.version # 0 /\ NoTask.version = 0
      BY <2>2, <3>1 DEF Seen, NoTask, TaskRow
    <3> QED BY <2>2, <3>2
  <2>6. Row!Claim(h)
    BY <2>4, <2>5 DEF Row!Claim, Claims, ClaimOf, Seen
  <2> QED BY <2>6 DEF Row!Next
<1> QED BY <1>4, <1>5, <1>6, <1>7, <1>8

LEMMA StepsClaim ==
    ASSUME IInv, NEW h \in Handler, Step(h)
    PROVE  Row!Next \/ UNCHANGED Row!rowVars
<1>1. tx[h] \in Tx /\ OnTask(tx[h])
  BY DEF IInv, TypeOK, Sounds, Sound
<1>2. CASE RollsBack(h)
  BY <1>2, EndsClaim DEF RollsBack, content
<1>3. ASSUME NEW at \in At, Goes(h, at) PROVE UNCHANGED Row!rowVars
  <2>1. PICK t : t = [tx[h] EXCEPT !.at = at]
    OBVIOUS
  <2>2. ClaimOf(t) = ClaimOf(tx[h])
    BY <1>1, <2>1 DEF ClaimOf, Tx
  <2> QED BY <1>3, <2>1, <2>2, SameClaim DEF Goes, content
<1>4. ASSUME NEW at \in At, Permit(h, at) PROVE UNCHANGED Row!rowVars
  <2>1. PICK t : t = [tx[h] EXCEPT !.at = at, !.own = FALSE]
    OBVIOUS
  <2>2. ClaimOf(t) = ClaimOf(tx[h])
    BY <1>1, <2>1 DEF ClaimOf, Tx
  <2> QED BY <1>4, <2>1, <2>2, SameClaim DEF Permit, content
<1>5. ASSUME NEW op, CommitsTask(h, op)
      PROVE  Claims' = [Claims EXCEPT ![h] = 0]
  <2>1. ClaimOf(Idle) = 0
    BY DEF ClaimOf, Idle, Request, TaskOp
  <2>2. \A g \in Handler : ClaimOf(Misses(tx[g], "task")) = ClaimOf(tx[g])
    BY MissesOnly DEF IInv, TypeOK, ClaimOf
  <2>3. \A g \in Handler : Claims'[g] = IF g = h THEN 0 ELSE Claims[g]
    BY <1>5, <2>1, <2>2 DEF CommitsTask, Claims, ClaimOf
  <2> QED BY <2>3 DEF Claims
<1>6. CASE CommitCreation(h)
  <2>1. Claims' = Claims
    <3>1. Claims[h] = 0
      BY <1>6 DEF CommitCreation, CommitsTask, Claims, ClaimOf, IInv, Sounds, Sound, Position
    <3> QED BY <1>5, <1>6, <3>1 DEF CommitCreation, Claims
  <2>2. Seen = NoTask
    BY <1>6 DEF CommitCreation, CommitsTask, IInv, Sounds, Sound, OnTask, Seen
  <2>3. tx[h].new \in User \cup {None} /\ task' # None
    <3>1. tx[h].new # Keep /\ tx[h].actor \in User
      BY <1>6 DEF CommitCreation, CommitsTask, IInv, Sounds, Sound, Position
    <3>2. task' \in TaskRow
      BY <1>1, <1>6, <3>1 DEF CommitCreation, Tx, TaskRow
    <3> QED BY <1>1, <3>1, <3>2 DEF Tx
  <2>4. Seen' = [value |-> tx[h].new, live |-> TRUE, version |-> 1]
    BY <1>6, <2>3 DEF CommitCreation, Seen
  <2>5. Row!Insert
    BY <2>1, <2>2, <2>3, <2>4 DEF Row!Insert, Claims, ClaimOf, Seen
  <2> QED BY <2>5 DEF Row!Next
<1>7. ASSUME NEW a \in User \cup {None}, NEW live \in BOOLEAN, Sets(a, live), task \in TaskRow,
             task.version <= MaxVersion
      PROVE  /\ Seen = [value |-> task.assignee, live |-> task.live, version |-> task.version]
             /\ Seen' = [value |-> a, live |-> live, version |-> task.version + 1]
             /\ Seen # NoTask
  <2>1. task' \in TaskRow
    BY <1>7 DEF Sets, TaskRow
  <2>2. task # None /\ task' # None
    BY <1>7, <2>1
  <2>3. Seen' = [value |-> a, live |-> live, version |-> task.version + 1]
    BY <1>7, <2>2 DEF Seen, Sets
  <2>4. Seen = [value |-> task.assignee, live |-> task.live, version |-> task.version]
    BY <2>2 DEF Seen
  <2>5. Seen.version # 0 /\ NoTask.version = 0
    BY <1>7, <2>4 DEF NoTask, TaskRow
  <2> QED BY <2>3, <2>4, <2>5
<1>8. tx[h].at = "commit" /\ tx[h].op \in Writes =>
         task \in TaskRow /\ task.version <= MaxVersion
  BY <1>1 DEF IInv, TypeOK, OnTask
<1>9. CASE CommitUpdate(h)
  <2>1. tx[h].at = "commit" /\ tx[h].op = "update"
    BY <1>9 DEF CommitUpdate, CommitsTask
  <2>2. task \in TaskRow /\ task.version <= MaxVersion
    BY <1>8, <2>1 DEF Writes
  <2>3. PICK a \in User \cup {None} : Sets(a, task.live)
    BY <1>1, <1>9, <2>2 DEF CommitUpdate, Tx, TaskRow
  <2>4. task.version = tx[h].version /\ task.live = TRUE /\ task.version # 0
    BY <1>1, <2>1, <2>2 DEF OnTask, Current, TaskRow
  <2>5. /\ Seen = [value |-> task.assignee, live |-> task.live, version |-> task.version]
        /\ Seen' = [value |-> a, live |-> TRUE, version |-> task.version + 1]
        /\ Seen # NoTask
    BY <1>7, <2>2, <2>3, <2>4
  <2>6. Claims' = [Claims EXCEPT ![h] = 0] /\ Claims[h] = task.version
    BY <1>5, <1>9, <2>1, <2>4 DEF CommitUpdate, Claims, ClaimOf
  <2>7. Row!Replace(h)
    BY <2>4, <2>5, <2>6 DEF Row!Replace, Row!Drops, Claims, ClaimOf, Seen
  <2> QED BY <2>7 DEF Row!Next
<1>10. CASE CommitDeletion(h) \/ CommitRestoration(h)
  <2>1. tx[h].at = "commit" /\ tx[h].op \in {"delete", "restore"}
    BY <1>10 DEF CommitDeletion, CommitRestoration, CommitsTask
  <2>2. task \in TaskRow /\ task.version <= MaxVersion
    BY <1>8, <2>1 DEF Writes
  <2>3. PICK live \in BOOLEAN : Sets(task.assignee, live)
    BY <1>10 DEF CommitDeletion, CommitRestoration
  <2>4. task.assignee \in User \cup {None}
    BY <2>2 DEF TaskRow
  <2>5. /\ Seen = [value |-> task.assignee, live |-> task.live, version |-> task.version]
        /\ Seen' = [value |-> task.assignee, live |-> live, version |-> task.version + 1]
        /\ Seen # NoTask
    BY <1>7, <2>2, <2>3, <2>4
  <2>6. Claims' = Claims
    <3>1. Claims[h] = 0
      BY <2>1 DEF Claims, ClaimOf, IInv, Sounds, Sound, Position
    <3> QED BY <1>5, <1>10, <3>1 DEF CommitDeletion, CommitRestoration, Claims
  <2>7. Row!SetLive(live)
    BY <2>5, <2>6 DEF Row!SetLive, Claims, ClaimOf, Seen
  <2> QED BY <2>7 DEF Row!Next
<1>11. CASE CommitComment(h) \/ CommitEdit(h) \/ CommitErasure(h)
  BY <1>11, EndsClaim DEF CommitComment, CommitEdit, CommitErasure, CommitsComment
<1>12. AfterRole(tx[h].new) \in At /\ "write" \in At /\ "commit" \in At
  BY DEF AfterRole, At
<1> QED
  BY <1>2, <1>3, <1>4, <1>6, <1>9, <1>10, <1>11, <1>12
  DEF Step, ReadRole, ReadAssignee, WriteUpdate, WriteRemoval, InsertRow, WriteComment

(***************************************************************************)
(* The task is a VersionedRow: an update replaces exactly the version its  *)
(* client has named, seen or not, or nothing.                              *)
(***************************************************************************)
THEOREM TaskIsVersioned == Spec => ImplementsRow
<1>1. Init => Row!Init
  <2> SUFFICES ASSUME Init PROVE Seen = NoTask /\ Claims = [h \in Handler |-> 0]
    BY RowSees
  <2>1. ClaimOf(Idle) = 0
    BY DEF ClaimOf, Idle, Request, TaskOp
  <2> QED BY <2>1 DEF Init, Seen, Claims, ClaimOf
<1>2. IInv /\ [Next]_vars => [Row!Next]_(Row!rowVars)
  <2> SUFFICES ASSUME IInv, [Next]_vars PROVE Row!Next \/ UNCHANGED Row!rowVars
    OBVIOUS
  <2>1. CASE UNCHANGED vars
    BY <2>1, RowSees DEF vars, content, Seen, Claims, ClaimOf
  <2>2. CASE AccessChanges
    <3>1. \A g \in Handler : ClaimOf(Misses(tx[g], "access")) = ClaimOf(tx[g])
      BY MissesOnly DEF IInv, TypeOK, ClaimOf
    <3>2. Claims' = Claims /\ Seen' = Seen
      BY <2>2, <3>1 DEF AccessChanges, content, Claims, ClaimOf, Seen
    <3> QED BY <3>2, RowSees
  <2>3. ASSUME NEW h \in Handler, Refuse(h) PROVE UNCHANGED vars
    BY <2>3 DEF Refuse
  <2>4. ASSUME NEW h \in Handler, Abort(h) PROVE Row!Next \/ UNCHANGED Row!rowVars
    BY <2>4, EndsClaim DEF Abort, RollsBack, content
  <2> QED BY <2>1, <2>2, <2>3, <2>4, BeginsClaim, StepsClaim DEF Next
<1> QED BY <1>1, <1>2, Invariant, PTL DEF Spec, ImplementsRow, Row!Spec
=============================================================================
