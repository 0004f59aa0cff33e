# TaskMaster in TLA+

Models, checks and proofs of TaskMaster, an Express REST API over PostgreSQL
(Prisma) for teams, projects, tasks, comments and attachments, with a worker that
cleans up abandoned uploads. What is hard in it is not any single request, but
requests that run at the same time in READ COMMITTED transactions, clients that
retry, and state that is read in one statement and relied on in a later one.

## The system

| Part | State | Operations | Hard behaviours | What makes it correct |
|---|---|---|---|---|
| Mutation executor, `shared/mutations` | `idempotency_keys`, `audit_logs`, advisory locks | wraps every state-changing route in one transaction | duplicate and racing deliveries, aborts, commits whose outcome is lost, expiry | an operation runs once per key and lifetime; operation, audit entry and stored response commit together |
| Auth sessions, `modules/auth` | `auth_sessions` | register, login, refresh, logout, logout-all | concurrent rotations of one token, reuse during rotation, sweeps in opposite orders | a token family never forks, revocation is final |
| Teams, `modules/teams` | `teams`, `team_members`, `team_invitations` | create, update, delete, restore, change and remove members, transfer, invite, revoke, accept | checks in one statement and writes in another, deadlocks of transfers | an owner remains, only owners make owners, an invitation is used once |
| Projects, `modules/projects` | `projects`, `project_members` | create, update, delete, restore, add, change and remove members | roles in project and team that end after they were read, members changed while the project is deleted | who joins is in the team, administrators are appointed, a deleted project is frozen |
| Tasks, `modules/tasks` | `tasks`, signed cursors held by clients | create, update with a version, delete, restore, list | racing updates, versions named before they exist, assignees and writers who lose access, pages while tasks change, NULL due dates | an update replaces the version it names, entitled writers, lossless pages |
| Comments, `modules/comments` | `task_comments` | create, update, delete | task or membership that ends meanwhile | only members write |
| Attachments, `modules/attachments` | `attachments`, objects in S3 | initialize, complete, download, remove | two stores without a common transaction, the worker racing users | a ready attachment has its object |
| Worker, `worker.ts` | one running cleanup per process | hourly cleanup of stale pending uploads | several workers, one failing deletion | stale uploads disappear |
| Users, notifications, AI provider, health, middleware, security primitives | profile data, none | | | not modelled, see below |

The routes call `executeMutation`, which opens the transaction and runs the
service of the module in it, on repositories bound to that transaction;
`authenticate` looks up the session of the access token before any of that.
Components meet in the database only: a project member must be a team member, an
assignee must be a project member, an attachment belongs to a task.

Line by line, the hazards are listed in `PROJECT.json`, with the properties that
watch each of them.

## Modules

`MutationExecutor` — one request is one delivery; a *key* is the identity the code
looks a stored response up by (user, method, route, Idempotency-Key). `pc` is the
statement the request executes next; `staged` holds the writes of its transaction,
`Publish` is the commit. `AcquireLock` is `pg_advisory_xact_lock`; `Lookup` has one
operator per outcome of `findFirst`; `UniqueAllows` is the unique index, which does
not see anonymous rows because their `user_id` is NULL. `Operate` is the route's operation in
one step; whatever rows and indexes of its module it has to wait for are left to the
module's own model (such as `InsertInvitation` of `TeamMembers`). `Abort` may hit every
statement, `Commit` may end with an error the client sees although the writes are
in the database, and `LoseResponse` loses an answer. `journal` is history: every
row that was ever committed.

`IdempotentCommand` — what the key promises, without transactions: at most one
unexpired record per identity, and each command executes, is replayed, is refused or
fails. `MutationExecutor` implements it (`ImplementsCommand`): the record of a key is
its row, an execution happens at the commit, `since` is the time at which
`StoreResponse` computed the expiry, because the clock may pass on before the commit.
What a client may conclude from the promise alone is stated there too
(`AnswersAreFinal`, `ReplaysWereExecuted`, `RecordsLastALifetime`).

`RefreshSessions` — a session stands for its row, its refresh token and its access
token. Each handler is one request at a time; `at` is its next statement. An UPDATE
of many rows is a `Scan`, which fixes the rows its snapshot shows, followed by one
`Sweep` per row, which waits for the row's lock and looks at the row again.
`revoking` are the rows a transaction has updated and not committed. `seen`, the
sessions that were there when a sweep scanned, and `reported`, the families a client was
told have been revoked, are history.

`TeamMembers` — one team, its member rows and its invitations. A request begins with
the statement that reads the actor's membership; if that refuses it, nothing changes
(`Refuse`). Then come the target, the count of owners and the writes, one action
each, and a commit action per operation. The row locks a transaction holds follow
from where it is (`MembersLockedBy`, `InvitationsLockedBy`, `TeamLockedBy`), and so do
the values it has written, which nobody else can change before it ends. The PATCH of
name and slug locks the team and changes nothing the model has. `Offered` selects the
operations clients ask for, for runs that look at a few of them. `overlapped` is
history: another request committed since this one began.

`TeamRoles` — what the projects of a team see of it: for each user whether `teamMembership`
finds an active member and of which authority, an owner counting as an administrator,
and nobody while the team is deleted. `TeamMembers` implements it
(`ImplementsTeamRoles`), and `ProjectMembers` is built on it.

`ProjectMembers` — one project and its member rows over a team whose members change
(`TeamChanges`, which is `TeamRoles!Next`). `Authorize` and
`AuthorizeByTeam` are the two ways to become entitled to change members, `ReadTarget`
the check of the target, `Write` the UPDATE or upsert with its row lock, and there is
a commit action per operation. `meanwhile` is history: which of the tables the
operation reads (`Reads`) were changed by others since it began.

`ProjectAccess` — what tasks and comments see of all that: the role of each active
member, nobody's while the project is deleted. `ProjectMembers` implements it
(`ImplementsAccess`) and `TaskContent` is built on it: its `AccessChanges` is
`ProjectAccess!Next`. The chain is therefore `TeamMembers`, `TeamRoles`,
`ProjectMembers`, `ProjectAccess`, `TaskContent`: each of the three large modules runs
against a description of the one before, which that one is shown to implement, and their
states are never multiplied.

`TaskContent` — one task and its comments. A request reads the row (`Begin...`), the
actor's role (`ReadRole`), the new assignee's membership (`ReadAssignee`), then writes
and commits. The UPDATE of a task looks again at the version once it has the row
(`WriteUpdate`); deletion, restoration and comments are written by their key
(`WriteRemoval`, `InsertRow`, `WriteComment`). `own` is what the request read of the row's
author or assignee. A client names any version (`BeginUpdate`), as `versionSchema` asks only
for a positive integer and the service never compares it with the row it has found. Two
fields are history: `ahead`, that the named version was still to come, and `meanwhile`,
whether access or the task changed.

`VersionedRow` — what optimistic concurrency control promises: a client names a version,
and its value replaces exactly that version or nothing. Nothing makes it name one that it
has seen. The task implements this (`ImplementsRow`): a claim begins when an update has
found its task, and ends when it commits or fails.

`TaskPages` — a client reads a listing page by page. The server keeps nothing, so the
state is the client's: its cursor, the pages it has, and the tasks' values in the sort
column. `Follows` is the condition the code builds from a cursor, `Before` its ORDER BY,
and `List` the whole request: conditions, order, one row more than the limit, and the
next cursor. `Bound` refuses a cursor of another order. `Change` is everybody else.
`touched` is history: the tasks that have changed since the listing began.

`AttachmentLifecycle` — the attachments of one task, their objects and the workers. A
request begins with `Find` (or `BeginUpload`), goes on with `Access`, and then asks
the object store (`Head`, `DeleteObject`) in the middle of its transaction; `Write`
waits for the row and `Commit...` shows what was written. A cleanup is `CleanupStarts`,
which reads the rows to do, then `DeleteStored` and `MarkDeleted` for each of them,
without a transaction, and `CleanupEnds` or `CleanupFails`. `object` says whether what is
stored is the declared file; `age` has the two moments the code cares about, ten
minutes and 24 hours; `role` is what `access` would return. `Upload` is the client
with its URL. `wiped` and `overwritten` are history: that an object was deleted, while
the URL was still valid or later, and that a declared one was replaced. An upload is one
step within the ten minutes: one that begins in time and ends after them is not modelled.

`MC...` modules give the constants their values; `...Proofs` modules hold theorems.
Definitions named `X_Something` under the comment "Mutant" are plausible bugs of `X`:
each property is known to be violated when one of them takes X's place.

PostgreSQL, the clock and the network are external: they are modelled from how the
code uses them. READ COMMITTED means that a statement sees what is committed when it
starts, that an UPDATE waits for a row another transaction has written, and then
looks at the new version of it. PostgreSQL aborts one transaction of a circle of
waiting ones (`DeadlockVictim`).

## Runs

| Run | Instance | Shows |
|---|---|---|
| `executor` | 3 requests (symmetric), 1 anonymous and 1 authenticated key, 2 bodies, lifetime 1, time up to 2 | the protocol's safety, that its own statements under an identity find nothing in their way, and that it implements `IdempotentCommand` |
| `executor_live` | 3 requests of one key | whoever waits for a key gets it |
| `sessions` | 2 handlers, 3 sessions, 1 user | families never fork, sweeps miss nothing that was there, every request ends, deadlocks included |
| `sessions_reuse` | 2 handlers, 3 sessions | **violated**: a family reported revoked has a live session |
| `team` | 2 handlers, 3 users (symmetric), 1 invitation, all operations | which rules of the team hold, which requests deadlock, and that it implements `TeamRoles` |
| `team_race` | 2 handlers, 2 users | **violated**: the last owner is removed |
| `projects` | 2 handlers, 2 users (symmetric), all operations, all changes `TeamRoles` allows | which rules of the project hold, and that it implements `ProjectAccess` |
| `tasks` | 2 handlers, 2 users (symmetric), 1 task up to version 3, 1 comment, all changes of access | that an update replaces the version it names, as `VersionedRow` says, and who writes |
| `pages` | 4 tasks, 2 values and NULL, pages of 1 or 2 in any mixture, both orders, three kinds of sort column | nothing is missed, repeated or out of order |
| `attachments` | 1 attachment, 2 handlers and 2 users (symmetric), 1 worker, all access changes | what holds between row and object, and for users, whatever races or fails |
| `attachments_live` | 2 attachments, 1 handler, 1 user, 1 worker, 1 row per cleanup | stale uploads are cleaned up or completed |
| `attachments_race` | 1 attachment, 1 handler, 1 worker | **violated**: a cleanup deletes an attachment that was completed meanwhile |

Bounds. Three requests of one key are the holder, the one that waits and the one that
comes after an expiry; two keys show that identities do not interfere; two time units
are one lifetime and the moment after it. Three sessions are a token, its replacement
and the replacement of a racing rotation, or a second family. Three users are an
actor, a target and a bystander who may be the other owner; two handlers suffice for
every race here because each hazard is between a decision and one commit in between.
In `projects` and `tasks` two users are enough: access and team membership change on
their own, whoever asks for it. `Grantable` leaves out MEMBER, which the code treats
like VIEWER when members are administered; `MaxVersion = 2` allows two writes after the
creation, an update and the one it races with (no write begins beyond it), and lets an
update name the version that the other is about to commit. `pages` has
two tasks on either side of a page border, with equal values and without; `Limit` lets
the page size change during a listing. Attachments meet only in the batch of a
cleanup, so one suffices for safety, and two with one row per cleanup for liveness.
`Granted` is the access users may be given. That none of these bounds hides anything
for the safety properties is what the proofs below show, which have no bounds at all
but `MaxVersion`, an arbitrary number.

Handlers take up requests again and again, so their sequences are not bounded.
Requests of `MutationExecutor` are: retries are further members of `Request`, and its
`Quiet` step marks the end of that, so that TLC's deadlock check stays on. A listing
ends with its last page, so `pages` is the only run without that check. Symmetry is
used in runs without liveness only.

Fairness. `executor_live` assumes weak fairness of the server's own steps: the event
loop and PostgreSQL go on with a transaction that is not blocked. For `Operate` this
assumes that the operation's own waits end, which the time limit of an interactive
transaction ensures. No fairness is
assumed for clients, for `Abort` or for the clock; with finitely many deliveries this
suffices, since the lock is taken finitely often. In `sessions` requests keep coming,
so a row may be locked and free in turns; PostgreSQL queues transactions that wait for
a row, which is strong fairness of `Step`. Deadlock detection runs after a fixed time:
weak fairness of `DeadlockVictim`. In `attachments_live` the hourly timer and the event
loop give weak fairness of a cleanup's steps, the queue for the row strong fairness of
`MarkDeleted`, and cleanups are assumed to fail only finitely often: one failure ends a
whole cleanup, and nothing is promised of a store that fails in every one of them.

## What the checks found

Violated runs:

* A reuse that is detected while the family's live token is being rotated misses the
  replacement (`sessions_reuse`): `revokeFamily` waits for the old row and never sees
  the new one, and the client is told that the family is revoked.
* The check for the last owner is a count in one statement and a write in another
  (`team_race`).
* A cleanup deletes an attachment that was completed after the cleanup had read it as
  pending (`attachments_race`): the object and the row are gone although the uploader
  was told that the attachment is ready.

Exceptions that the properties name, because the code makes them:

* An owner can transfer the ownership to itself and becomes an administrator, and a
  sole owner who accepts an invitation to its own address is demoted likewise.
  `LastOwnerStays` says that these two, and overlapping requests, are the only ways to
  lose the last owner.
* A removal within the ten minutes of the upload URL may leave an object for ever
  (`NoOrphans` says that nothing else does, as far as uploads end before the URL expires).
* An update may name a version that is still to come. Version 1 is assigned to A, who sends
  an update of version 2; the row is found and `canUpdateTask` agrees; an administrator's
  update commits version 2, which assigns the task to B; A's UPDATE now matches
  version 2 and commits. A has overwritten a change it has not seen, of a task that is no
  longer its own. `UpdatesAreEntitled` exempts requests that name such a version (`ahead`)
  and no others; without that exemption TLC finds this trace. For all others no update is
  lost: the version found is not older than the one named, and the one named is the one
  replaced, so that the row has not changed in between.
* What was read may be out of date at the commit. `overlapped` and `meanwhile` in the
  properties of `TeamMembers`, `ProjectMembers`, `TaskContent` and `AttachmentLifecycle`
  mark these cases; the properties say that there are no others, and which table has to
  have changed. They do not say that the marked cases are harmless: a role that is
  withdrawn, a team that is left or a task that is deleted between a check and its commit
  goes unnoticed by the code. `PROJECT.json` has a note at each hazard where the property
  exempts the very race.
* A viewer may edit and erase comments of its own (`WritersOnly`), written when it was
  more than that.

Observed while modelling, and not the subject of a property:

* A replay of a registration has the stored status and body, not the refresh cookie.
* An administrator may not remove an owner of a team, but may demote one as long as
  there is another (`canAssignTeamRole` looks at the new role only).
* Leaving a team does not end memberships in its projects, and a removed member stays
  the assignee of tasks; both rules are checked when somebody joins or is assigned
  (`JoinersComeFromTeam`, `AssigneesAreMembers`), not afterwards.
* Deletion and restoration of a task take no version; they count as a change, so that
  an update that names the version before them fails (`SetLive` in `VersionedRow`).
* The filter hash of a cursor covers the query, not the route or the project.
  A cursor of one project's listing is accepted by another's, which it positions.
* A completion that meets a removal ends with a row that is READY and deleted at once.
  Since every reading statement asks for `deleted_at`, nobody sees it (`StagesGoForward`;
  `DeletedIsNotServed` is proved).
* Requests that wait for each other's member rows in a circle always have two transfers
  of different owners among them (`DeadlocksAreTransfers`); nothing else deadlocks in a
  team. In the executor nobody who holds an identity waits in the executor's own purge and
  store (`OwnStatementsProceed`); the operation in between may.
* A transfer takes effect for its taker only if it is still a member; a giver who was
  removed meanwhile does not come back (`HandOver` of `TeamRoles`).

## Proofs

`MutationExecutorProofs` proves, for any requests, keys, bodies and lifetime, that
`Spec` keeps `TypeOK`, `OncePerLifetime`, `RecordedTogether`, `ReplaysOwnRequest`,
`OneStoredResponse` and `KeptForItsLifetime`. None of these is inductive alone. The
inductive invariant `IInv` adds what connects a request's position to the rest: who is
between lookup and commit of a key holds its lock, so at most one request per key has
anything staged; the row that was found is still there and has expired if it is to be
deleted; every staged row is younger than every row of the journal by a lifetime. Its
parts are named conjuncts, there is one lemma per action, and the temporal theorems
combine them. On top of it stands the refinement of `IdempotentCommand`
(`CommandImplemented`): by `IInv` the row a request has found is the record of its key, a
commit replaces it by one dated from a moment at which it had expired, and every step
but a refusal, a rollback, a conflict, a replay and a commit is a stutter.

`OwnStatementsAreFree` (`OwnStatementsProceed`) is what `WaitingEnds` rests on. `IInv` says
that a lock belongs to one request, and that only a holder has staged anything for its key: so
the row it found cannot be locked by another (`OthersHold`), and the unique index has
nothing against the row it stores. Its second invariant (`HeldByWorker`) says the
converse, that a lock is held by a request that works under it: every way out of a
transaction, rollbacks included, gives it back.

`IdempotentCommandProofs` draws the conclusions from the promise: answers are final
(`AnswersStay`), a replay is the answer of an executed equal command
(`ReplaysAreGenuine`), and two executions of one identity are a lifetime apart
(`RecordsStay`, for every natural `TTL`). Its invariant says that a record is that of an
executed command. `PromiseKept` makes the executor an instance of it, so that
`AnswersNeverChange` and `RecordsOutlive` hold of `executeMutation` without another look
at transactions. Assumptions
used: those the module names (`NoKey` and `BadKey` are no keys, `Nobody` is no request
and no record, the lifetime is a positive number).

`RefreshSessionsProofs` does the same for `RefreshSessions`: its `IInv` says that a row
being written is locked by one transaction only and still unrevoked if the writer saw
it so, that `mine` of a transaction under way is fresh, and that a family is a chain
whose last link alone may be live. From it follow `OneLivePerFamily`, `RotationChain`,
and the action properties `BornFromLive` and `RevocationIsFinal`. `SweepsMissNothing`
(`RevokesWhatItSaw`) needs one more invariant, `Covered`: each session that a sweep saw and
is meant to revoke is revoked already, written by the sweep, or still to do. It survives
the steps of others because rows, owners and families never change and revocations are
never undone (`RowsOnlyGrow`). `FamilyRevokedOnReuse`, which is violated, asks for more:
that nothing was born in the meantime.

`AttachmentLifecycleProofs` proves all invariants of `AttachmentLifecycle`,
`StagesGoForward` and `WritersOnly` for any number of attachments, users, requests and workers. Its `IInv`
says what a request that is about to write knows (`Prepared`: it has seen the declared
object, or deleted the object), that a cleanup's rows are old (`Cleaning`), that nobody
else refers to a row being created (`Creating`), and that a DELETED row has its
`deleted_at` (`Row`). `SoundStays` is the heart of it: what a request knows outlives every
step of the others, because none of them undoes a verification or a deletion (`Onward`).
`WritersOnly` rests on a second invariant, `AllEntitled`: a request that is past its access
check is entitled to what it does, unless its user's role changed meanwhile.

`TeamMembersProofs`, `ProjectMembersProofs` and `TaskContentProofs` share one argument. The
invariant (`Sound`, of each request) says what a request knows where it is: where its
parameters come from (`Position`), what permitted it, and, unless `overlapped` or
`meanwhile` says that others have written since, that what it has read is still so.
A step of its own keeps this because the step checked it (`OwnStep`, `GoesStep`), a commit
of another because it sets the history variable (`EndsStep`). Facts that must survive
the commits of others rest on row locks: a claimed invitation stays open (`Claimed`)
because two requests never hold the same invitation (`Exclusive`), and the version that an
UPDATE has matched stays the task's version until it commits. From there:

* `TeamMembers`: all its properties, `LastOwnerStays` by the cardinality of the owners
  that was counted. `RowsHaveOneWriter` says that no member row is ever held twice: a
  request takes a row only when it is free (`TakesFree`), the second row of a transfer
  included. `OnlyTransfersDeadlock` follows for every number of requests: whoever is
  waited for in a circle holds a row and wants another, which only a transfer does; it
  has promoted the one whom its neighbour wants to demote. `TeamRolesImplemented` is the
  refinement of `TeamRoles`: a step of a request changes no row others can see before its
  commit (`Unseen`), and a commit changes one user (`OneRow`), the two of a transfer
  (`TwoRows`), or the team as a whole.
* `ProjectMembers`: all its properties, over every team that `TeamRoles` allows, and the
  refinement of `ProjectAccess`: a commit changes one row, or the project as a whole.
* `TaskContent`: all its properties, and the refinement of `VersionedRow`: each step
  is a claim, a replacement, a surrender, a change of `live`, or a stutter. For
  `UpdatersEntitled` the invariant says that a named version is no newer than the task's
  unless the request is `ahead`; so once another has written, it never matches again.

They assume only that the constants are distinct (`NoneAssumption` and the like).

`TaskPagesProofs` proves `TypeOK`, `Lossless` and `PagesInOrder` for any finite set of tasks,
any values and page sizes. `Before` is a strict total order of positions, with NULLs last;
`Follows` holds exactly of what comes after the cursor; what `First` takes is a prefix in
that order. The invariant says that the pages so far hold every untouched task up to the
cursor and none beyond.

Only model-checked: everything temporal (`WaitingEnds`, `RequestsEnd`,
`StaleUploadsEnd`): liveness under fairness and ENABLED are beyond the prover. Proved and
not checked by a run, because properties that imply or sharpen them are:
`KeptForItsLifetime` and `OneStoredResponse` (`ImplementsCommand`), `RevocationIsFinal`
(`BornFromLive`, `RevokesWhatItSaw`), `DeletedIsNotServed`, and the consequences of
`IdempotentCommand`. No definition of the models is recursive.

## Not modelled, and the plan

Profile updates are data nothing decides upon, and so are names, slugs, titles, texts and
the status of a task, which the modelled operations leave out. Passwords, tokens, hashes
and cursor signatures are identities that are never guessed, forged or reused. HTTP
parsing, validation, rate limits, configuration, logging and health probes keep no state
the properties speak about. The notification helper and the AI provider are called by
nothing, and no code writes the outbox. Each module has one team, one project, one task:
rows of others are never written by the same request, but for the batch of a cleanup,
which `AttachmentLifecycle` has.

Left to do: what `VersionedRow` gives a client, proved from it alone as was done for
`IdempotentCommand` (a version that was replaced is never replaced again); and a listing in `TaskPages` whose matching depends on the membership of
`ProjectAccess`.
