------------------------ MODULE AttachmentLifecycle ------------------------
(***************************************************************************)
(* The attachments of one task (modules/attachments) and the worker that   *)
(* cleans up abandoned uploads (worker.ts).  An attachment has a row in    *)
(* PostgreSQL and an object in S3, which no transaction spans: the client  *)
(* uploads the object with a presigned URL, complete looks at it and marks *)
(* the row ready, and removal and cleanup delete the object and then mark  *)
(* the row.  All three UPDATEs name the row by its id alone.               *)
(*                                                                         *)
(* A request that its first statement refuses changes nothing and is not a *)
(* step.  A list of the attachments shows what Live says.                  *)
(***************************************************************************)
EXTENDS FiniteSets, Naturals

CONSTANTS
    Attachment,
    User,
    Handler,     \* requests the API works on at the same time
    Worker,      \* worker processes
    BatchSize,   \* the rows one cleanup takes, 100 in the code
    Granted,     \* the access users are given
    None

ASSUME BatchSizeAssumption == BatchSize \in Nat \ {0}

VARIABLES
    uploader,     \* uploaded_by, None before there is a row
    status,       \* PENDING, READY, DELETED, or None
    deleted,      \* rows with deleted_at set
    object,       \* what is stored: "absent", "declared" (size and type match), "other"
    age,          \* how old a row is, see Age
    role,         \* what access says of each user
    tx,           \* what each handler is doing
    worker,       \* what each worker is doing
    wiped,        \* history: "early", while the client may upload again, or "finally"
    overwritten   \* history: declared objects the client replaced by another

rows == <<uploader, status, deleted>>
vars == <<rows, object, age, role, tx, worker, wiped, overwritten>>

Status == {"PENDING", "READY", "DELETED"}
Object == {"absent", "declared", "other"}
Op == {"upload", "complete", "download", "remove"}
At == {"idle", "create", "access", "head", "presign", "delete", "write", "commit"}

\* 0: the upload URL is valid.  1: it has expired.  2: older than 24 hours.
Age == 0 .. 2

(***************************************************************************)
(* The project role of a user with access to the task; None for who is no  *)
(* member, and for everybody once the task or its project is deleted.      *)
(***************************************************************************)
Role == {"ADMIN", "MEMBER", "VIEWER"}
Writers == {"ADMIN", "MEMBER"}

ASSUME NoneAssumption == None \notin User \cup Attachment \cup Status
ASSUME GrantedAssumption == Granted \subseteq Role \cup {None}

(***************************************************************************)
(* `found` is the status that was read.  History: `late` says that the row *)
(* was deleted when the request began, `changed` that the user's access    *)
(* changed after it was checked.                                           *)
(***************************************************************************)
Tx == [op: Op \cup {None}, at: At, user: User \cup {None},
       id: Attachment \cup {None}, found: Status \cup {None},
       late: BOOLEAN, changed: BOOLEAN]

Idle == [op |-> None, at |-> "idle", user |-> None, id |-> None, found |-> None,
         late |-> FALSE, changed |-> FALSE]

\* `running` is cleanupPromise, `batch` the rows to do, `row` the one to mark.
Cleanup == [running: BOOLEAN, batch: SUBSET Attachment, row: Attachment \cup {None}]

Resting == [running |-> FALSE, batch |-> {}, row |-> None]

Init ==
    /\ uploader = [a \in Attachment |-> None]
    /\ status = [a \in Attachment |-> None]
    /\ deleted = {}
    /\ object = [a \in Attachment |-> "absent"]
    /\ age = [a \in Attachment |-> 0]
    /\ role = [u \in User |-> None]
    /\ tx = [h \in Handler |-> Idle]
    /\ worker = [w \in Worker |-> Resting]
    /\ wiped = [a \in Attachment |-> "never"]
    /\ overwritten = {}

\* What list shows and download serves.
Live(a) == status[a] = "READY" /\ a \notin deleted

\* The row an uncommitted request has written stays locked until its commit.
RowFree(a) == \A h \in Handler : ~(tx[h].at = "commit" /\ tx[h].id = a)

Wipe(a, when) ==
    /\ object' = [object EXCEPT ![a] = "absent"]
    /\ wiped' = [wiped EXCEPT ![a] = when]

Goes(h, at) == tx' = [tx EXCEPT ![h].at = at]
Ends(h) == tx' = [tx EXCEPT ![h] = Idle]
-----------------------------------------------------------------------------
(* Requests.                                                               *)

\* initialize: access, then the row with a storage key of its own.
BeginUpload(h, u, a) ==
    /\ tx[h].at = "idle"
    /\ uploader[a] = None
    /\ \A g \in Handler : tx[g].id # a
    /\ role[u] \in Writers
    /\ tx' = [tx EXCEPT ![h] = [Idle EXCEPT !.op = "upload", !.at = "create",
                                            !.user = u, !.id = a]]
    /\ UNCHANGED <<rows, object, age, role, worker, wiped, overwritten>>

\* The URL is valid for ten minutes from here.
CommitUpload(h) ==
    LET a == tx[h].id IN
    /\ tx[h].at = "create"
    /\ uploader' = [uploader EXCEPT ![a] = tx[h].user]
    /\ status' = [status EXCEPT ![a] = "PENDING"]
    /\ Ends(h)
    /\ UNCHANGED <<deleted, object, age, role, worker, wiped, overwritten>>

\* find, the first statement of complete, download and remove.
Find(h, op, u, a) ==
    /\ tx[h].at = "idle"
    /\ uploader[a] # None
    /\ a \notin deleted
    /\ op = "download" => status[a] = "READY"
    /\ tx' = [tx EXCEPT ![h] = [op |-> op, at |-> "access", user |-> u, id |-> a,
                 found |-> status[a], late |-> a \in deleted, changed |-> FALSE]]
    /\ UNCHANGED <<rows, object, age, role, worker, wiped, overwritten>>

\* Mutant: the uploader may remove the attachment whatever has become of its role.
Allows_UploaderAlways(t, r) ==
    /\ r # None
    /\ t.op # "download" => r \in Writers \/ (t.op = "remove" /\ uploader[t.id] = t.user)
    /\ t.op = "remove" => uploader[t.id] = t.user \/ r = "ADMIN"

\* Only an administrator removes what somebody else uploaded.
Allows(t, r) ==
    /\ r # None
    /\ t.op # "download" => r \in Writers
    /\ t.op = "remove" => uploader[t.id] = t.user \/ r = "ADMIN"

(***************************************************************************)
(* complete answers at once for a READY row, and with 409 for one that is  *)
(* neither READY nor PENDING, which find never returns.                    *)
(***************************************************************************)
Access(h) ==
    LET t == tx[h]
        answered == t.op = "complete" /\ t.found # "PENDING"
    IN
    /\ t.at = "access"
    /\ IF Allows(t, role[t.user]) /\ ~answered
       THEN Goes(h, CASE t.op = "complete" -> "head"
                      [] t.op = "download" -> "presign"
                      [] t.op = "remove"   -> "delete")
       ELSE Ends(h)
    /\ UNCHANGED <<rows, object, age, role, worker, wiped, overwritten>>

\* Mutant: any object will do.
Head_AnyObject(h) ==
    /\ tx[h].at = "head"
    /\ IF object[tx[h].id] # "absent" THEN Goes(h, "write") ELSE Ends(h)
    /\ UNCHANGED <<rows, object, age, role, worker, wiped, overwritten>>

\* The object is compared with the declaration before the row is touched.
Head(h) ==
    /\ tx[h].at = "head"
    /\ IF object[tx[h].id] = "declared" THEN Goes(h, "write") ELSE Ends(h)
    /\ UNCHANGED <<rows, object, age, role, worker, wiped, overwritten>>

Presign(h) ==
    /\ tx[h].at = "presign"
    /\ Ends(h)
    /\ UNCHANGED <<rows, object, age, role, worker, wiped, overwritten>>

\* remove deletes the object in the middle of its transaction.
DeleteObject(h) ==
    /\ tx[h].at = "delete"
    /\ Wipe(tx[h].id, IF age[tx[h].id] = 0 THEN "early" ELSE "finally")
    /\ Goes(h, "write")
    /\ UNCHANGED <<rows, age, role, worker, overwritten>>

\* ready and remove: UPDATE ... WHERE id, which waits for the row's lock.
Write(h) ==
    /\ tx[h].at = "write"
    /\ RowFree(tx[h].id)
    /\ Goes(h, "commit")
    /\ UNCHANGED <<rows, object, age, role, worker, wiped, overwritten>>

\* Mutant: ready makes sure that the row is not deleted.
CommitCompletion_Revives(h) ==
    /\ tx[h].at = "commit" /\ tx[h].op = "complete"
    /\ status' = [status EXCEPT ![tx[h].id] = "READY"]
    /\ deleted' = deleted \ {tx[h].id}
    /\ Ends(h)
    /\ UNCHANGED <<uploader, object, age, role, worker, wiped, overwritten>>

\* A row deleted since it was found becomes READY, and keeps its deleted_at.
CommitCompletion(h) ==
    /\ tx[h].at = "commit" /\ tx[h].op = "complete"
    /\ status' = [status EXCEPT ![tx[h].id] = "READY"]
    /\ Ends(h)
    /\ UNCHANGED <<uploader, deleted, object, age, role, worker, wiped, overwritten>>

\* Mutant: only deleted_at is written.
CommitRemoval_KeepsStatus(h) ==
    /\ tx[h].at = "commit" /\ tx[h].op = "remove"
    /\ deleted' = deleted \cup {tx[h].id}
    /\ Ends(h)
    /\ UNCHANGED <<uploader, status, object, age, role, worker, wiped, overwritten>>

CommitRemoval(h) ==
    /\ tx[h].at = "commit" /\ tx[h].op = "remove"
    /\ status' = [status EXCEPT ![tx[h].id] = "DELETED"]
    /\ deleted' = deleted \cup {tx[h].id}
    /\ Ends(h)
    /\ UNCHANGED <<uploader, object, age, role, worker, wiped, overwritten>>

(***************************************************************************)
(* S3 or the database fails, the time limit of the transaction passes, or  *)
(* the process stops.  What happened to the object is not undone.          *)
(***************************************************************************)
Abort(h) ==
    /\ tx[h].at # "idle"
    /\ Ends(h)
    /\ UNCHANGED <<rows, object, age, role, worker, wiped, overwritten>>
-----------------------------------------------------------------------------
(* The worker.                                                             *)

\* Mutant: pending rows are taken whatever their age.
Stale_AnyAge(a) == status[a] = "PENDING"

Stale(a) == status[a] = "PENDING" /\ age[a] = 2

\* stalePending takes the first rows in no particular order.
CleanupStarts(w) ==
    LET stale == {a \in Attachment : Stale(a)} IN
    /\ ~worker[w].running
    /\ \E batch \in SUBSET stale :
          /\ \/ Cardinality(batch) = BatchSize
             \/ Cardinality(batch) < BatchSize /\ batch = stale
          /\ worker' = [worker EXCEPT ![w] =
                          [running |-> TRUE, batch |-> batch, row |-> None]]
    /\ UNCHANGED <<rows, object, age, role, tx, wiped, overwritten>>

DeleteStored(w, a) ==
    /\ worker[w].row = None
    /\ a \in worker[w].batch
    /\ Wipe(a, "finally")
    /\ worker' = [worker EXCEPT ![w].batch = @ \ {a}, ![w].row = a]
    /\ UNCHANGED <<rows, age, role, tx, overwritten>>

\* There is no transaction, and what was read of the row is not looked at again.
MarkDeleted(w) ==
    LET a == worker[w].row IN
    /\ a # None
    /\ RowFree(a)
    /\ status' = [status EXCEPT ![a] = "DELETED"]
    /\ deleted' = deleted \cup {a}
    /\ worker' = [worker EXCEPT ![w].row = None]
    /\ UNCHANGED <<uploader, object, age, role, tx, wiped, overwritten>>

\* Mutant: cleanupPromise is not reset.
CleanupEnds_StaysRunning(w) ==
    /\ worker[w].running
    /\ worker[w].batch = {}
    /\ worker[w].row = None
    /\ UNCHANGED vars

CleanupEnds(w) ==
    /\ worker[w].running
    /\ worker[w].batch = {}
    /\ worker[w].row = None
    /\ worker' = [worker EXCEPT ![w] = Resting]
    /\ UNCHANGED <<rows, object, age, role, tx, wiped, overwritten>>

\* One failure ends the whole cleanup, and so does a restart of the process.
CleanupFails(w) ==
    /\ worker[w].batch # {} \/ worker[w].row # None
    /\ worker' = [worker EXCEPT ![w] = Resting]
    /\ UNCHANGED <<rows, object, age, role, tx, wiped, overwritten>>
-----------------------------------------------------------------------------
(* The client, the clock and the rest of the API.                          *)

\* The URL fixes the key and the content type, not the size.  An upload is one
\* step: one that begins before the URL expires also ends before it does.
Upload(a, content) ==
    /\ status[a] # None
    /\ age[a] = 0
    /\ object' = [object EXCEPT ![a] = content]
    /\ overwritten' = IF object[a] = "declared" /\ content = "other"
                      THEN overwritten \cup {a} ELSE overwritten
    /\ UNCHANGED <<rows, age, role, tx, worker, wiped>>

(***************************************************************************)
(* No request runs for a day.  One that runs at the moment a row becomes   *)
(* 24 hours old is like one that begins right after.                       *)
(***************************************************************************)
Grow(a) ==
    /\ status[a] # None
    /\ age[a] < 2
    /\ age[a] = 1 => \A h \in Handler : tx[h].id # a
    /\ age' = [age EXCEPT ![a] = @ + 1]
    /\ UNCHANGED <<rows, object, role, tx, worker, wiped, overwritten>>

\* Members come, go and change roles, tasks and projects are deleted and restored.
ChangeAccess(u, r) ==
    /\ r # role[u]
    /\ role' = [role EXCEPT ![u] = r]
    /\ tx' = [h \in Handler |-> IF tx[h].user = u /\ tx[h].at # "access"
                                THEN [tx[h] EXCEPT !.changed = TRUE] ELSE tx[h]]
    /\ UNCHANGED <<rows, object, age, worker, wiped, overwritten>>

Commit(h) == CommitUpload(h) \/ CommitCompletion(h) \/ CommitRemoval(h)

Step(h) ==
    \/ Access(h) \/ Head(h) \/ Presign(h) \/ DeleteObject(h) \/ Write(h) \/ Commit(h)
    \/ Abort(h)

Request(h, u, a) ==
    \/ BeginUpload(h, u, a)
    \/ \E op \in {"complete", "download", "remove"} : Find(h, op, u, a)

Clean(w) ==
    \/ CleanupStarts(w) \/ MarkDeleted(w) \/ CleanupEnds(w) \/ CleanupFails(w)
    \/ \E a \in Attachment : DeleteStored(w, a)

Environment ==
    \/ \E a \in Attachment : Grow(a) \/ \E c \in {"declared", "other"} : Upload(a, c)
    \/ \E u \in User, r \in Granted : ChangeAccess(u, r)

Next ==
    \/ \E h \in Handler, u \in User, a \in Attachment : Request(h, u, a)
    \/ \E h \in Handler : Step(h)
    \/ \E w \in Worker : Clean(w)
    \/ Environment

Spec == Init /\ [][Next]_vars

(***************************************************************************)
(* The timer starts a cleanup every hour and the event loop carries it on; *)
(* cleanups fail only so often; transactions end, and PostgreSQL queues    *)
(* who waits for a row.                                                    *)
(***************************************************************************)
FairSpec ==
    /\ Spec
    /\ <>[][\A w \in Worker : ~CleanupFails(w)]_vars
    /\ \A h \in Handler : WF_vars(Commit(h))
    /\ \A w \in Worker :
          /\ WF_vars(CleanupStarts(w)) /\ WF_vars(CleanupEnds(w))
          /\ SF_vars(MarkDeleted(w))
          /\ WF_vars(\E a \in Attachment : DeleteStored(w, a))
-----------------------------------------------------------------------------
TypeOK ==
    /\ uploader \in [Attachment -> User \cup {None}]
    /\ status \in [Attachment -> Status \cup {None}]
    /\ \A a \in Attachment : status[a] = None <=> uploader[a] = None
    /\ deleted \subseteq {a \in Attachment : status[a] \in {"READY", "DELETED"}}
    /\ object \in [Attachment -> Object]
    /\ age \in [Attachment -> Age]
    /\ role \in [User -> Role \cup {None}]
    /\ tx \in [Handler -> Tx]
    /\ worker \in [Worker -> Cleanup]
    /\ wiped \in [Attachment -> {"never", "early", "finally"}]
    /\ overwritten \subseteq Attachment

(***************************************************************************)
(* "The API performs a HEAD check for size/type before READY": a ready     *)
(* attachment has the declared object, unless that was deleted by a        *)
(* removal or cleanup that has not marked the row, or never will because   *)
(* it failed half-way, or was overwritten by its client.                   *)
(***************************************************************************)
ReadyWasChecked ==
    \A a \in Attachment :
       Live(a) => object[a] = "declared" \/ wiped[a] # "never" \/ a \in overwritten

(***************************************************************************)
(* No row is deleted before its object, which nothing would find any more. *)
(* An object that was deleted once its upload URL had expired, by a        *)
(* cleanup in particular, is gone for good: of the uploads that end before *)
(* the URL expires, only one after a removal within these ten minutes      *)
(* comes back and stays for ever.  (The URL is checked when an upload      *)
(* begins; one that ends after its expiry is not modelled.)                *)
(***************************************************************************)
NoOrphans ==
    \A a \in Attachment :
       /\ a \in deleted => wiped[a] # "never"
       /\ wiped[a] = "finally" => object[a] = "absent"

(***************************************************************************)
(* "Deleted attachment cannot receive a download URL", not even one that a *)
(* completion racing its removal made READY after that: no request that    *)
(* begins after the deletion gets one.                                     *)
(***************************************************************************)
DeletedIsNotServed ==
    \A h \in Handler : tx[h].op = "download" /\ tx[h].at = "presign" => ~tx[h].late

\* How far an attachment has come, as users see it.
Stage(a) == CASE a \in deleted                               -> 3
              [] Live(a)                                     -> 2
              [] status[a] = "PENDING" /\ a \notin deleted   -> 1
              [] OTHER                                       -> 0

(***************************************************************************)
(* Whatever interleaves with what, users see an attachment go forward from *)
(* pending to ready to deleted, one attachment at a time, and never back.  *)
(***************************************************************************)
StagesGoForward ==
    [][\A a \in Attachment :
          Stage(a)' # Stage(a) =>
             /\ Stage(a)' > Stage(a)
             /\ \A b \in Attachment \ {a} : Stage(b)' = Stage(b)]_vars

(***************************************************************************)
(* "Attachment access inherits access from the parent task": rows change   *)
(* for nobody but the worker and users who may write to the task when the  *)
(* change is committed, or whose access was changed since it was checked.  *)
(* What others uploaded is removed by administrators alone.                *)
(***************************************************************************)
WritersOnly ==
    [][\A h \in Handler :
          tx[h].at \in {"create", "commit"} /\ tx'[h] = Idle /\ rows' # rows =>
             \/ tx[h].changed
             \/ /\ role[tx[h].user] \in Writers
                /\ tx[h].op = "remove" => \/ uploader[tx[h].id] = tx[h].user
                                          \/ role[tx[h].user] = "ADMIN"]_vars

\* "Stale pending uploads are cleaned up", or completed in time.
StaleUploadsEnd == \A a \in Attachment : Stale(a) ~> status[a] # "PENDING"

(***************************************************************************)
(* "The worker removes stale PENDING records": what it marks deleted is    *)
(* still pending.                                                          *)
(***************************************************************************)
CleanupTakesPendingOnly ==
    [][\A w \in Worker :
          LET a == worker[w].row IN
          a # None /\ worker'[w].row = None /\ a \in deleted' \ deleted =>
             status[a] = "PENDING"]_vars
=============================================================================
