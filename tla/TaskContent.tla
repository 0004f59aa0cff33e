----------------------------- MODULE TaskContent -----------------------------
(***************************************************************************)
(* A task and its comments (modules/tasks, modules/comments), while the    *)
(* members of the project change as ProjectAccess says.                    *)
(*                                                                         *)
(* Every request runs in the READ COMMITTED transaction of executeMutation *)
(* and reads in statements of their own what it decides by: the task or    *)
(* the comment, the actor's role, the new assignee's membership.  Only the *)
(* UPDATE of a task is conditional, on the version the client has named;   *)
(* deletions, restorations and comments are written by their key alone.    *)
(* Titles, texts, dates and the status decide nothing and are left out.    *)
(***************************************************************************)
EXTENDS Naturals

CONSTANTS
    User,
    Comment,
    Handler,     \* requests that the server works on at the same time
    Assignable,  \* the assignees that requests name
    Keep,        \* an update that does not mention the assignee
    None,
    Erased,      \* a comment with deleted_at set
    MaxVersion   \* bound: no write goes beyond this version

ASSUME KeepAssumption == Keep \notin User \cup {None}
ASSUME AssignableAssumption == Assignable \subseteq User \cup {None}
ASSUME ErasedAssumption == Erased \notin User \cup {None}
ASSUME MaxVersionAssumption == MaxVersion \in Nat

VARIABLES
    access,    \* role of the active members of the project, as in ProjectAccess
    task,      \* the row of the task, None before it is created
    comments,  \* author of each comment, None before it is written, or Erased
    tx         \* what each handler is doing

Project == INSTANCE ProjectAccess

content == <<task, comments>>
vars == <<access, content, tx>>

Role == Project!Role

\* membership, roleForTask: archived_at is never set, so they ask for the same.
Access(u) == access[u]

TaskRow == [creator: User, assignee: User \cup {None}, live: BOOLEAN,
            version: 1 .. MaxVersion + 1]

TaskOp == {"create", "update", "delete", "restore"}
CommentOp == {"comment", "edit", "erase"}

At == {"idle", "role", "assignee", "write", "commit"}

(***************************************************************************)
(* `actor` is the authenticated user; `comment`, `new` (the assignee) and  *)
(* `version`, of an update, are the request's parameters.  `own` says whether the row the *)
(* request found is the actor's.  Two fields are history: `ahead` says     *)
(* that the request names a version which the task it found had not        *)
(* reached, `meanwhile` what has changed since the request began.          *)
(***************************************************************************)
Tx == [op: TaskOp \cup CommentOp \cup {None}, at: At, actor: User \cup {None},
       comment: Comment \cup {None}, new: User \cup {None, Keep},
       version: 0 .. MaxVersion + 1, own: BOOLEAN, ahead: BOOLEAN,
       meanwhile: SUBSET {"access", "task"}]

Request(op, at, u, c, new, v, own) ==
    [op |-> op, at |-> at, actor |-> u, comment |-> c, new |-> new, version |-> v,
     own |-> own, ahead |-> FALSE, meanwhile |-> {}]

Idle == Request(None, "idle", None, None, Keep, 0, FALSE)

ASSUME NoneAssumption == /\ None \notin User \cup Comment \cup Role \cup TaskOp \cup CommentOp
                         /\ None \notin TaskRow

Init ==
    /\ Project!Init
    /\ task = None
    /\ comments = [c \in Comment |-> None]
    /\ tx = [h \in Handler |-> Idle]

TaskLive == task # None /\ task.live

canCreateTask(r) == r \in {"ADMIN", "MEMBER"}
canDeleteTask(r) == r = "ADMIN"

\* Mutant: whoever created the task or works on it may change it, in any role.
canUpdateTask_AnyRole(r, own) == r = "ADMIN" \/ (r # None /\ own)

canUpdateTask(r, own) == r = "ADMIN" \/ (r = "MEMBER" /\ own)

\* Mutant: comments do not ask whether the task is deleted.
CommentAccess_DeletedToo(u) == Access(u)

\* The comments' access: the role of a member, as long as the task is not deleted.
CommentAccess(u) == IF TaskLive THEN Access(u) ELSE None
-----------------------------------------------------------------------------
\* Row locks: what a transaction has written and not committed.
TaskLockedBy(h) == tx[h].at = "commit" /\ tx[h].op \in {"update", "delete", "restore"}
CommentLockedBy(h, c) ==
    tx[h].at = "commit" /\ tx[h].op \in {"edit", "erase"} /\ tx[h].comment = c

Goes(h, at) ==
    /\ tx' = [tx EXCEPT ![h].at = at]
    /\ UNCHANGED <<access, content>>

RollsBack(h) ==
    /\ tx' = [tx EXCEPT ![h] = Idle]
    /\ UNCHANGED <<access, content>>

\* The role suffices: whose row it is does not matter any more.
Permit(h, at) ==
    /\ tx' = [tx EXCEPT ![h] = [@ EXCEPT !.at = at, !.own = FALSE]]
    /\ UNCHANGED <<access, content>>

\* What the request t misses when `what` changes; only comments depend on the task.
Misses(t, what) ==
    IF t.at = "idle" \/ (what = "task" /\ t.op \in TaskOp) THEN t
    ELSE [t EXCEPT !.meanwhile = @ \cup {what}]

Begins(h, t) ==
    /\ tx[h].at = "idle"
    /\ tx' = [tx EXCEPT ![h] = t]
    /\ UNCHANGED <<access, content>>
-----------------------------------------------------------------------------
\* A request refused by what it read first, with 403 or 404, changes nothing.
Refuse(h) == tx[h].at = "idle" /\ UNCHANGED vars

\* What remains to be read once the actor's role is known.
AfterRole(new) == IF new \in User THEN "assignee" ELSE "write"

\* create reads the role first.
BeginCreate(h, u, new) ==
    /\ task = None
    /\ \A g \in Handler : tx[g].op # "create"
    /\ canCreateTask(Access(u))
    /\ Begins(h, Request("create", AfterRole(new), u, None, new, 0, FALSE))

\* update finds the task.  The client names any version, which is not compared
\* with that of the task it finds.
BeginUpdate(h, u, v, new) ==
    /\ TaskLive
    /\ Begins(h, [Request("update", "role", u, None, new, v,
                          u \in {task.creator, task.assignee})
                     EXCEPT !.ahead = v > task.version])

\* remove finds a task that is not deleted, restore any task.
BeginRemoval(h, u, op) ==
    /\ task # None
    /\ op = "delete" => task.live
    /\ Begins(h, Request(op, "role", u, None, Keep, 0, FALSE))

\* create reads the actor's access to the task.
BeginComment(h, u, c) ==
    /\ comments[c] = None
    /\ \A g \in Handler : tx[g].op = "comment" => tx[g].comment # c
    /\ CommentAccess(u) \in {"ADMIN", "MEMBER"}
    /\ Begins(h, Request("comment", "write", u, c, Keep, 0, FALSE))

\* update and remove find the comment first.
BeginOnComment(h, u, c, op) ==
    /\ comments[c] \in User
    /\ Begins(h, Request(op, "role", u, c, Keep, 0, comments[c] = u))

Permitted(op, r, own) ==
    CASE op = "update"                -> canUpdateTask(r, own)
      [] op \in {"delete", "restore"} -> canDeleteTask(r)
      [] op = "edit"                  -> r # None /\ own
      [] op = "erase"                 -> r = "ADMIN" \/ (r # None /\ own)

\* Mutant: a new assignee is not looked up when a task is updated.
ReadRole_NoAssignee(h) ==
    LET t == tx[h]
        r == IF t.op \in CommentOp THEN CommentAccess(t.actor) ELSE Access(t.actor)
    IN
    /\ t.at = "role"
    /\ \/ Permitted(t.op, r, t.own) /\ Permit(h, "write")
       \/ ~Permitted(t.op, r, t.own) /\ RollsBack(h)

ReadRole(h) ==
    LET t == tx[h]
        r == IF t.op \in CommentOp THEN CommentAccess(t.actor) ELSE Access(t.actor)
    IN
    /\ t.at = "role"
    /\ \/ Permitted(t.op, r, t.own) /\ Permit(h, AfterRole(t.new))
       \/ ~Permitted(t.op, r, t.own) /\ RollsBack(h)

\* assignee: the new assignee must be a member of the project.
ReadAssignee(h) ==
    /\ tx[h].at = "assignee"
    /\ \/ Access(tx[h].new) # None /\ Goes(h, "write")
       \/ Access(tx[h].new) = None /\ RollsBack(h)
-----------------------------------------------------------------------------
\* Mutant: the UPDATE names the task alone.
WriteUpdate_AnyVersion(h) ==
    /\ tx[h].at = "write" /\ tx[h].op = "update"
    /\ task.version <= MaxVersion
    /\ \/ ~TaskLive /\ RollsBack(h)
       \/ TaskLive /\ (\A g \in Handler : ~TaskLockedBy(g)) /\ Goes(h, "commit")

(***************************************************************************)
(* UPDATE ... WHERE id AND version AND deleted_at IS NULL, of the row as   *)
(* it is now, which may be newer than the one the request found.  A row    *)
(* that matches is looked at again once its lock is free; for one that     *)
(* does not match, locked or not, nothing is updated.                      *)
(***************************************************************************)
WriteUpdate(h) ==
    LET matches == TaskLive /\ task.version = tx[h].version IN
    /\ tx[h].at = "write" /\ tx[h].op = "update"
    /\ task.version <= MaxVersion
    /\ \/ ~matches /\ RollsBack(h)
       \/ matches /\ (\A g \in Handler : ~TaskLockedBy(g)) /\ Goes(h, "commit")

WriteRemoval(h) ==
    /\ tx[h].at = "write" /\ tx[h].op \in {"delete", "restore"}
    /\ task.version <= MaxVersion
    /\ \A g \in Handler : ~TaskLockedBy(g)
    /\ Goes(h, "commit")

InsertRow(h) ==
    /\ tx[h].at = "write" /\ tx[h].op \in {"create", "comment"}
    /\ Goes(h, "commit")

WriteComment(h) ==
    /\ tx[h].at = "write" /\ tx[h].op \in {"edit", "erase"}
    /\ \A g \in Handler : ~CommentLockedBy(g, tx[h].comment)
    /\ Goes(h, "commit")
-----------------------------------------------------------------------------
CommitsTask(h, op) ==
    /\ tx[h].at = "commit" /\ tx[h].op = op
    /\ tx' = [g \in Handler |-> IF g = h THEN Idle ELSE Misses(tx[g], "task")]
    /\ UNCHANGED <<access, comments>>

CommitCreation(h) ==
    /\ CommitsTask(h, "create")
    /\ task' = [creator |-> tx[h].actor, assignee |-> tx[h].new, live |-> TRUE,
                version |-> 1]

\* UPDATE ... SET version = version + 1.
Sets(assignee, live) ==
    task' = [creator |-> task.creator, assignee |-> assignee, live |-> live,
             version |-> task.version + 1]

\* Mutant: an update writes the fields that it does not mention, too.
CommitUpdate_EveryField(h) == CommitsTask(h, "update") /\ Sets(tx[h].new, task.live)

CommitUpdate(h) ==
    /\ CommitsTask(h, "update")
    /\ Sets(IF tx[h].new = Keep THEN task.assignee ELSE tx[h].new, task.live)

CommitDeletion(h) == CommitsTask(h, "delete") /\ Sets(task.assignee, FALSE)

CommitRestoration(h) == CommitsTask(h, "restore") /\ Sets(task.assignee, TRUE)

CommitsComment(h, op) ==
    /\ tx[h].at = "commit" /\ tx[h].op = op
    /\ tx' = [tx EXCEPT ![h] = Idle]
    /\ UNCHANGED <<access, task>>

CommitComment(h) ==
    /\ CommitsComment(h, "comment")
    /\ comments' = [comments EXCEPT ![tx[h].comment] = tx[h].actor]

\* The text changes, also that of a comment that was deleted meanwhile.
CommitEdit(h) == CommitsComment(h, "edit") /\ UNCHANGED comments

CommitErasure(h) ==
    /\ CommitsComment(h, "erase")
    /\ comments' = [comments EXCEPT ![tx[h].comment] = Erased]

\* A statement fails, the time limit of the transaction passes, or the process stops.
Abort(h) == tx[h].at # "idle" /\ RollsBack(h)

\* modules/projects.
AccessChanges ==
    /\ Project!Next
    /\ access' # access
    /\ tx' = [g \in Handler |-> Misses(tx[g], "access")]
    /\ UNCHANGED content

Begin(h) ==
    \E u \in User :
       \/ \E new \in Assignable : BeginCreate(h, u, new)
       \/ \E new \in Assignable \cup {Keep}, v \in 1 .. MaxVersion : BeginUpdate(h, u, v, new)
       \/ \E op \in {"delete", "restore"} : BeginRemoval(h, u, op)
       \/ \E c \in Comment :
            \/ BeginComment(h, u, c)
            \/ \E op \in {"edit", "erase"} : BeginOnComment(h, u, c, op)

Step(h) ==
    \/ ReadRole(h) \/ ReadAssignee(h)
    \/ WriteUpdate(h) \/ WriteRemoval(h) \/ InsertRow(h) \/ WriteComment(h)
    \/ CommitCreation(h) \/ CommitUpdate(h) \/ CommitDeletion(h) \/ CommitRestoration(h)
    \/ CommitComment(h) \/ CommitEdit(h) \/ CommitErasure(h)

Next ==
    \/ \E h \in Handler : Refuse(h) \/ Begin(h) \/ Step(h) \/ Abort(h)
    \/ AccessChanges

Spec == Init /\ [][Next]_vars
-----------------------------------------------------------------------------
TypeOK ==
    /\ access \in [User -> Role \cup {None}]
    /\ task \in TaskRow \cup {None}
    /\ comments \in [Comment -> User \cup {None, Erased}]
    /\ tx \in [Handler -> Tx]

\* The request of h commits in this step.
Committing(h, ops) == tx[h].at = "commit" /\ tx[h].op \in ops /\ tx'[h] = Idle

NoTask == [value |-> None, live |-> FALSE, version |-> 0]

Row == INSTANCE VersionedRow WITH
    Client <- Handler, Value <- User \cup {None}, NoRow <- NoTask, Version <- 1 .. MaxVersion,
    row <- IF task = None THEN NoTask
           ELSE [value |-> task.assignee, live |-> task.live, version |-> task.version],
    claim <- [h \in Handler |-> tx[h].version]

(***************************************************************************)
(* However updates, deletions and restorations race, an update replaces    *)
(* exactly the version its client has named, seen or not, or fails; it     *)
(* never touches a deleted task, and the version counts every change.      *)
(***************************************************************************)
ImplementsRow == Row!Spec

(***************************************************************************)
(* "A task creator or current assignee may update": whoever updates a task *)
(* has created it or is assigned to it in the very version that the update *)
(* replaces, although the row was read in an earlier statement, or is an   *)
(* administrator, unless their access changed while the request ran.  The  *)
(* exception are requests that name a version the task had not reached: if *)
(* others commit that version before the UPDATE, it is overwritten unseen, *)
(* also when it has taken the task from the user.                          *)
(***************************************************************************)
UpdatesAreEntitled ==
    [][\A h \in Handler : Committing(h, {"update"}) /\ ~tx[h].ahead =>
          \/ tx[h].actor \in {task.creator, task.assignee}
          \/ Access(tx[h].actor) = "ADMIN" \/ "access" \in tx[h].meanwhile]_vars

(***************************************************************************)
(* "Assignees must be active members of the task's project": whoever       *)
(* becomes the assignee is a member of the open project then, or the       *)
(* members changed while the request ran.  (Members who are removed later  *)
(* stay assignees.)                                                        *)
(***************************************************************************)
AssigneesAreMembers ==
    [][task' # task /\ task'.assignee # None
          /\ (task = None \/ task'.assignee # task.assignee) =>
          \E h \in Handler :
             /\ Committing(h, {"create", "update"})
             /\ Access(task'.assignee) # None \/ "access" \in tx[h].meanwhile]_vars

(***************************************************************************)
(* "Project viewers have read-only access", and so has everybody else who  *)
(* is no member, or whose project was deleted: content changes by requests *)
(* of administrators and members only, unless their access changed while   *)
(* the request ran.  The one exception are the viewer's own comments.      *)
(***************************************************************************)
WritersOnly ==
    [][\A h \in Handler : Committing(h, TaskOp \cup CommentOp) =>
          LET r == Access(tx[h].actor) IN
          \/ r \in {"ADMIN", "MEMBER"}
          \/ /\ r = "VIEWER" /\ tx[h].op \in {"edit", "erase"}
             /\ comments[tx[h].comment] \in {tx[h].actor, Erased}
          \/ "access" \in tx[h].meanwhile]_vars

(***************************************************************************)
(* The comments of a deleted task are frozen, except for requests that     *)
(* were running when it was deleted, and a deleted comment never returns.  *)
(***************************************************************************)
CommentsFollowTask ==
    [][/\ \A h \in Handler : Committing(h, CommentOp) =>
             TaskLive \/ "task" \in tx[h].meanwhile
       /\ \A c \in Comment : comments[c] = Erased => comments'[c] = Erased]_vars
=============================================================================
