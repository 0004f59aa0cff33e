-------------------------- MODULE MutationExecutor --------------------------
(***************************************************************************)
(* Every state-changing route of TaskMaster runs its operation through     *)
(* executeMutation (shared/mutations/executor.ts): one PostgreSQL          *)
(* transaction holds the operation's writes, its audit entry and, when the *)
(* request carries an Idempotency-Key, the stored response.  Requests run  *)
(* concurrently, in one or several server processes, each in its own       *)
(* READ COMMITTED transaction, so a statement sees what is committed when  *)
(* the statement starts.                                                   *)
(*                                                                         *)
(* A Request is one delivery of an HTTP request: a client that retries, or *)
(* a proxy that delivers twice, is two Requests with the same input.  A    *)
(* Key stands for the whole identity the code looks a stored response up   *)
(* by: user, method, concrete route and Idempotency-Key.                   *)
(***************************************************************************)
EXTENDS Naturals

CONSTANTS
    Request,       \* deliveries of HTTP requests
    Key,           \* identities (user, method, route, idempotency key)
    AnonymousKey,  \* those of an unauthenticated route: user_id is NULL
    Body,          \* normalised request bodies, as their hashes tell them apart
    NoKey,         \* the request carries no key, or the route takes none
    BadKey,        \* an empty or over-long Idempotency-Key header
    Nobody,        \* an advisory lock that is free
    TTL,           \* lifetime of a stored response (24 hours in the code)
    MaxNow         \* bound on the clock, for model checking

ASSUME KeyAssumption ==
    /\ AnonymousKey \subseteq Key
    /\ NoKey \notin Key
    /\ BadKey \notin Key
    /\ NoKey # BadKey
ASSUME NobodyAssumption ==
    Nobody \notin Request \cup [of: Request, body: Body, expiresAt: Nat]
ASSUME TimeAssumption == TTL \in Nat \ {0} /\ MaxNow \in Nat

VARIABLES
    pc,       \* where each request is in executeMutation
    input,    \* the key and body each request carries
    lock,     \* advisory locks: the request whose transaction holds it
    found,    \* the stored response the lookup returned: none or one row
    staged,   \* uncommitted writes of each request's transaction
    idem,     \* committed rows of idempotency_keys
    effects,  \* requests whose operation is committed
    audits,   \* requests whose audit entry is committed
    reply,    \* the response each request ends with
    now,      \* the clock
    journal   \* history: every row that was ever committed to idem

vars == <<pc, input, lock, found, staged, idem, effects, audits, reply, now,
          journal>>

Row == [key: Key, body: Body, of: Request, expiresAt: Nat]

Input == [key: Key \cup {NoKey, BadKey}, body: Body]

Writes == [effect: BOOLEAN, audit: BOOLEAN,
           dropped: SUBSET Row, added: SUBSET Row]

NoWrites == [effect |-> FALSE, audit |-> FALSE, dropped |-> {}, added |-> {}]

\* `of` is the request whose operation produced the response.
Reply == [kind: {"fresh", "replayed"}, of: Request]
         \cup [kind: {"none", "refused", "conflict", "error"}]

InTransaction ==
    {"lock", "lookup", "replay", "purge", "operate", "audit", "store", "commit"}
Ended == {"answered", "lost"}
PC == {"new", "respond"} \cup InTransaction \cup Ended

Init ==
    /\ pc = [r \in Request |-> "new"]
    /\ input \in [Request -> Input]
    /\ lock = [k \in Key |-> Nobody]
    /\ found = [r \in Request |-> {}]
    /\ staged = [r \in Request |-> NoWrites]
    /\ idem = {}
    /\ effects = {}
    /\ audits = {}
    /\ reply = [r \in Request |-> [kind |-> "none"]]
    /\ now = 0
    /\ journal = {}

Keyed(r) == input[r].key \in Key

\* Mutant: a session-level lock, which the end of the transaction does not release.
Released_Never(r) == lock

\* The end of r's transaction gives up the advisory lock it holds, if any.
Released(r) == [k \in Key |-> IF lock[k] = r THEN Nobody ELSE lock[k]]

\* The rows the lookup of r matches: user, method, route and key, not the body.
Existing(r) == {row \in idem : row.key = input[r].key}

Live(row) == row.expiresAt > now

-----------------------------------------------------------------------------
(* validateKey refuses a malformed key before the transaction begins.       *)
Refuse(r) ==
    /\ pc[r] = "new"
    /\ input[r].key = BadKey
    /\ reply' = [reply EXCEPT ![r] = [kind |-> "refused"]]
    /\ pc' = [pc EXCEPT ![r] = "respond"]
    /\ UNCHANGED <<input, lock, found, staged, idem, effects, audits, now, journal>>

\* The transaction begins; a request without a key goes straight to its operation.
Begin(r) ==
    /\ pc[r] = "new"
    /\ input[r].key # BadKey
    /\ pc' = [pc EXCEPT ![r] = IF Keyed(r) THEN "lock" ELSE "operate"]
    /\ UNCHANGED <<input, lock, found, staged, idem, effects, audits, reply, now,
                   journal>>

\* Mutant: the lock is taken without waiting for its holder (pg_try_advisory_lock).
AcquireLock_NoWait(r) ==
    /\ pc[r] = "lock"
    /\ lock' = [lock EXCEPT ![input[r].key] = r]
    /\ pc' = [pc EXCEPT ![r] = "lookup"]
    /\ UNCHANGED <<input, found, staged, idem, effects, audits, reply, now, journal>>

\* pg_advisory_xact_lock blocks while another transaction holds the identity.
AcquireLock(r) ==
    /\ pc[r] = "lock"
    /\ lock[input[r].key] = Nobody
    /\ lock' = [lock EXCEPT ![input[r].key] = r]
    /\ pc' = [pc EXCEPT ![r] = "lookup"]
    /\ UNCHANGED <<input, found, staged, idem, effects, audits, reply, now, journal>>

(***************************************************************************)
(* findFirst ... ORDER BY created_at DESC, and the decisions taken on its  *)
(* result.  A stored row always carries its response, because rows are     *)
(* only written complete, so "still running" is not an outcome.            *)
(***************************************************************************)
FoundNothing(r) ==
    /\ Existing(r) = {}
    /\ pc' = [pc EXCEPT ![r] = "operate"]
    /\ UNCHANGED <<lock, found, reply>>

FoundExpired(r, row) ==
    /\ ~Live(row)
    /\ found' = [found EXCEPT ![r] = {row}]
    /\ pc' = [pc EXCEPT ![r] = "purge"]
    /\ UNCHANGED <<lock, reply>>

\* Mutant: the request hash is not compared.
FoundSameBody_AnyBody(r, row) ==
    /\ Live(row)
    /\ found' = [found EXCEPT ![r] = {row}]
    /\ pc' = [pc EXCEPT ![r] = "replay"]
    /\ UNCHANGED <<lock, reply>>

FoundSameBody(r, row) ==
    /\ Live(row)
    /\ row.body = input[r].body
    /\ found' = [found EXCEPT ![r] = {row}]
    /\ pc' = [pc EXCEPT ![r] = "replay"]
    /\ UNCHANGED <<lock, reply>>

\* Mutant: the hash is compared before the expiry.
FoundOtherBody_Expired(r, row) ==
    /\ row.body # input[r].body
    /\ reply' = [reply EXCEPT ![r] = [kind |-> "conflict"]]
    /\ lock' = Released(r)
    /\ pc' = [pc EXCEPT ![r] = "respond"]
    /\ UNCHANGED found

\* The 409 is thrown inside the transaction, which rolls back.
FoundOtherBody(r, row) ==
    /\ Live(row)
    /\ row.body # input[r].body
    /\ reply' = [reply EXCEPT ![r] = [kind |-> "conflict"]]
    /\ lock' = Released(r)
    /\ pc' = [pc EXCEPT ![r] = "respond"]
    /\ UNCHANGED found

Newest(rows, row) == row \in rows /\ \A o \in rows : o.expiresAt <= row.expiresAt

Lookup(r) ==
    /\ pc[r] = "lookup"
    /\ \/ FoundNothing(r)
       \/ \E row \in Existing(r) :
            /\ Newest(Existing(r), row)
            /\ \/ FoundExpired(r, row)
               \/ FoundSameBody(r, row)
               \/ FoundOtherBody(r, row)
    /\ UNCHANGED <<input, staged, idem, effects, audits, now, journal>>

\* The transaction that only read a stored response ends, and returns it.
Replay(r) ==
    /\ pc[r] = "replay"
    /\ \E row \in found[r] :
          reply' = [reply EXCEPT ![r] = [kind |-> "replayed", of |-> row.of]]
    /\ lock' = Released(r)
    /\ pc' = [pc EXCEPT ![r] = "respond"]
    /\ UNCHANGED <<input, found, staged, idem, effects, audits, now, journal>>

\* Mutant: the expired row is left in the table.
DeleteExpired_Skipped(r) ==
    /\ pc[r] = "purge"
    /\ pc' = [pc EXCEPT ![r] = "operate"]
    /\ UNCHANGED <<input, lock, found, staged, idem, effects, audits, reply, now,
                   journal>>

\* The row that r has found is there, and nobody else is deleting it.
Deletable(r) ==
    /\ found[r] \subseteq idem
    /\ \A q \in Request \ {r} : found[r] \cap staged[q].dropped = {}

\* DELETE by id: it needs the row, and waits for another transaction deleting it.
DeleteExpired(r) ==
    /\ pc[r] = "purge"
    /\ Deletable(r)
    /\ staged' = [staged EXCEPT ![r].dropped = found[r]]
    /\ pc' = [pc EXCEPT ![r] = "operate"]
    /\ UNCHANGED <<input, lock, found, idem, effects, audits, reply, now, journal>>

\* The route's operation, whose writes all belong to the same transaction.  The
\* rows and indexes of its module that it may have to wait for are left out here:
\* the wait ends, or Abort ends the transaction.
Operate(r) ==
    /\ pc[r] = "operate"
    /\ staged' = [staged EXCEPT ![r].effect = TRUE]
    /\ pc' = [pc EXCEPT ![r] = "audit"]
    /\ UNCHANGED <<input, lock, found, idem, effects, audits, reply, now, journal>>

\* Mutant: the audit entry is written on a connection of its own.
WriteAudit_Outside(r) ==
    /\ pc[r] = "audit"
    /\ audits' = audits \cup {r}
    /\ pc' = [pc EXCEPT ![r] = IF Keyed(r) THEN "store" ELSE "commit"]
    /\ UNCHANGED <<input, lock, found, staged, idem, effects, reply, now, journal>>

\* Mutant: a response is stored whether or not the request carries a key.
WriteAudit_StoresAlways(r) ==
    /\ pc[r] = "audit"
    /\ staged' = [staged EXCEPT ![r].audit = TRUE]
    /\ pc' = [pc EXCEPT ![r] = "store"]
    /\ UNCHANGED <<input, lock, found, idem, effects, audits, reply, now, journal>>

WriteAudit(r) ==
    /\ pc[r] = "audit"
    /\ staged' = [staged EXCEPT ![r].audit = TRUE]
    /\ pc' = [pc EXCEPT ![r] = IF Keyed(r) THEN "store" ELSE "commit"]
    /\ UNCHANGED <<input, lock, found, idem, effects, audits, reply, now, journal>>

(***************************************************************************)
(* UNIQUE (user_id, key, method, route) refuses a second row and waits for *)
(* one that is not committed, but a NULL user_id equals nothing: rows of   *)
(* an anonymous route are never in each other's way.                       *)
(***************************************************************************)
UniqueAllows(r) ==
    \/ input[r].key \in AnonymousKey
    \/ /\ Existing(r) \subseteq staged[r].dropped
       /\ \A q \in Request \ {r} :
             \A row \in staged[q].added : row.key # input[r].key

StoreResponse(r) ==
    /\ pc[r] = "store"
    /\ UniqueAllows(r)
    /\ staged' = [staged EXCEPT ![r].added =
                    {[key |-> input[r].key, body |-> input[r].body, of |-> r,
                      expiresAt |-> now + TTL]}]
    /\ pc' = [pc EXCEPT ![r] = "commit"]
    /\ UNCHANGED <<input, lock, found, idem, effects, audits, reply, now, journal>>

\* COMMIT publishes the staged writes, and with them gives up the lock.
Publish(r) ==
    /\ idem' = (idem \ staged[r].dropped) \cup staged[r].added
    /\ journal' = journal \cup staged[r].added
    /\ effects' = IF staged[r].effect THEN effects \cup {r} ELSE effects
    /\ audits' = IF staged[r].audit THEN audits \cup {r} ELSE audits
    /\ staged' = [staged EXCEPT ![r] = NoWrites]
    /\ lock' = Released(r)

(***************************************************************************)
(* The connection may break after the server committed and before the      *)
(* client library hears so: the request then fails although its writes are *)
(* in the database.                                                        *)
(***************************************************************************)
Commit(r) ==
    /\ pc[r] = "commit"
    /\ Publish(r)
    /\ \/ reply' = [reply EXCEPT ![r] = [kind |-> "fresh", of |-> r]]
       \/ reply' = [reply EXCEPT ![r] = [kind |-> "error"]]
    /\ pc' = [pc EXCEPT ![r] = "respond"]
    /\ UNCHANGED <<input, found, now>>

(***************************************************************************)
(* A transaction rolls back at any of its statements: the operation throws *)
(* (a 404, a 403, a version conflict), a statement fails, the interactive  *)
(* transaction's time limit passes, PostgreSQL picks it as a deadlock      *)
(* victim, or the process stops.                                           *)
(***************************************************************************)
Abort(r) ==
    /\ pc[r] \in InTransaction
    /\ staged' = [staged EXCEPT ![r] = NoWrites]
    /\ lock' = Released(r)
    /\ reply' = [reply EXCEPT ![r] = [kind |-> "error"]]
    /\ pc' = [pc EXCEPT ![r] = "respond"]
    /\ UNCHANGED <<input, found, idem, effects, audits, now, journal>>

\* The response reaches the client, or the connection or the process is gone.
Respond(r) ==
    /\ pc[r] = "respond"
    /\ pc' = [pc EXCEPT ![r] = "answered"]
    /\ UNCHANGED <<input, lock, found, staged, idem, effects, audits, reply, now,
                   journal>>

LoseResponse(r) ==
    /\ pc[r] = "respond"
    /\ pc' = [pc EXCEPT ![r] = "lost"]
    /\ UNCHANGED <<input, lock, found, staged, idem, effects, audits, reply, now,
                   journal>>

Tick ==
    /\ now < MaxNow
    /\ now' = now + 1
    /\ UNCHANGED <<pc, input, lock, found, staged, idem, effects, audits, reply,
                   journal>>

\* The steps the server takes on its own once it has received a request.
Serve(r) ==
    \/ AcquireLock(r) \/ Lookup(r) \/ Replay(r) \/ DeleteExpired(r)
    \/ Operate(r) \/ WriteAudit(r) \/ StoreResponse(r) \/ Commit(r)

\* Every delivery has ended and the modelled time is over: nothing is left to do.
Quiet ==
    /\ \A r \in Request : pc[r] \in Ended
    /\ now = MaxNow
    /\ UNCHANGED vars

Next ==
    \/ \E r \in Request :
         Refuse(r) \/ Begin(r) \/ Serve(r) \/ Abort(r) \/ Respond(r) \/ LoseResponse(r)
    \/ Tick
    \/ Quiet

\* The event loop and PostgreSQL keep working on a transaction that is not blocked.
Fairness == \A r \in Request : WF_vars(Serve(r)) /\ WF_vars(Respond(r))

Spec == Init /\ [][Next]_vars

FairSpec == Spec /\ Fairness
-----------------------------------------------------------------------------
TypeOK ==
    /\ pc \in [Request -> PC]
    /\ input \in [Request -> Input]
    /\ lock \in [Key -> Request \cup {Nobody}]
    /\ found \in [Request -> SUBSET Row]
    /\ staged \in [Request -> Writes]
    /\ idem \subseteq Row
    /\ effects \subseteq Request
    /\ audits \subseteq Request
    /\ reply \in [Request -> Reply]
    /\ now \in Nat
    /\ journal \subseteq Row

(***************************************************************************)
(* "Concurrent requests using the same key must not perform the action     *)
(* twice": two operations that ran under one key are a whole lifetime of   *)
(* the stored response apart, whatever races, aborts, lost commits or      *)
(* retries happened, and although no unique index covers anonymous keys.   *)
(***************************************************************************)
OncePerLifetime ==
    \A a, b \in journal :
        a # b /\ a.key = b.key => \/ a.expiresAt + TTL <= b.expiresAt
                                 \/ b.expiresAt + TTL <= a.expiresAt

(***************************************************************************)
(* The operation, its audit entry and its stored response are committed    *)
(* together or not at all: no operation without its audit entry, none that *)
(* a retry would run again, no stored response whose operation rolled back.*)
(***************************************************************************)
RecordedTogether ==
    /\ audits = effects
    /\ {r \in effects : Keyed(r)} = {row.of : row \in journal}

(***************************************************************************)
(* A replayed response was produced by a committed operation for the same  *)
(* user, method, route, key and body, and never belongs to anybody else.   *)
(***************************************************************************)
ReplaysOwnRequest ==
    \A r \in Request :
        reply[r].kind = "replayed" =>
            /\ r \notin effects
            /\ reply[r].of \in effects
            /\ input[reply[r].of] = input[r]

(***************************************************************************)
(* The lookup takes the newest row of a key, which is only sound because   *)
(* there is never a second one, for anonymous keys too.                    *)
(***************************************************************************)
OneStoredResponse ==
    \A a, b \in idem : a.key = b.key => a = b

(***************************************************************************)
(* An identity is held only by a request that works under it, and the      *)
(* statements by which the executor itself then purges and stores find     *)
(* nothing in their way: the row it wants to delete is there and no other  *)
(* transaction is deleting it, and the unique index has nothing against    *)
(* the row it stores.  Whoever has run the operation is therefore not      *)
(* refused at the end.  Of the operation in between nothing is said: it    *)
(* may wait for rows and indexes of its module, or be aborted there.       *)
(***************************************************************************)
OwnStatementsProceed ==
    /\ \A k \in Key : lock[k] # Nobody =>
          pc[lock[k]] \in InTransaction \ {"lock"} /\ input[lock[k]].key = k
    /\ \A r \in Request :
          /\ pc[r] = "purge" => Deletable(r)
          /\ pc[r] = "store" => UniqueAllows(r)

(***************************************************************************)
(* A stored response disappears only after its lifetime: a client that     *)
(* retries within it is never served as a first request.                   *)
(***************************************************************************)
KeptForItsLifetime ==
    [][\A row \in idem : row \notin idem' => ~Live(row)]_vars

\* The record a stored row amounts to, and what became of a request.
StoredRecord(k) ==
    LET rows == {row \in idem : row.key = k} IN
    IF rows = {} THEN Nobody
    ELSE LET row == CHOOSE row \in rows : TRUE
         IN [of |-> row.of, body |-> row.body, expiresAt |-> row.expiresAt]

OutcomeOf(r) ==
    IF r \in effects THEN [kind |-> "executed"]
    ELSE IF reply[r].kind = "replayed" THEN [kind |-> "replayed", of |-> reply[r].of]
    ELSE IF reply[r].kind = "conflict" THEN [kind |-> "conflict"]
    ELSE IF reply[r].kind \in {"refused", "error"} THEN [kind |-> "failed"]
    ELSE [kind |-> "pending"]

Command == INSTANCE IdempotentCommand WITH
    Unkeyed <- {NoKey, BadKey},
    NoRecord <- Nobody,
    record <- [k \in Key |-> StoredRecord(k)],
    outcome <- [r \in Request |-> OutcomeOf(r)]

(***************************************************************************)
(* The transactions, the advisory lock and the rows of executeMutation     *)
(* implement the promise of IdempotentCommand.                             *)
(***************************************************************************)
ImplementsCommand == Command!Spec

(***************************************************************************)
(* Waiting for a key always ends: whoever holds the identity commits or    *)
(* rolls back and lets the next request in.  This is what the wait on the  *)
(* advisory lock relies on, which has no timeout of its own.  It assumes   *)
(* that operations end, which the time limit of their transaction ensures. *)
(***************************************************************************)
WaitingEnds ==
    \A r \in Request : pc[r] = "lock" ~> pc[r] \in Ended
=============================================================================
