----------------------- MODULE MutationExecutorProofs -----------------------
(***************************************************************************)
(* Proofs about MutationExecutor for every set of requests, identities and *)
(* bodies, every lifetime and every clock bound.                           *)
(*                                                                         *)
(* The safety properties are not inductive: that two commits under one key *)
(* are a lifetime apart rests on the advisory lock being held from the     *)
(* lookup to the commit (LockHeld), on what the transaction knows about    *)
(* the stored row in between (StagedWrites), and on the row of the latest  *)
(* commit being the only one left (LatestIsStored).                        *)
(***************************************************************************)
EXTENDS MutationExecutor, TLAPS

Holding == {"lookup", "replay", "purge", "operate", "audit", "store", "commit"}
Working == {"operate", "audit", "store", "commit"}

\* The transaction of a keyed request holds the identity from lookup to commit.
LockHeld ==
    \A r \in Request :
        pc[r] \in Holding /\ Keyed(r) => lock[input[r].key] = r

\* Only a request whose key was well formed is in a transaction.
KeyKnown ==
    \A r \in Request :
        /\ pc[r] \in InTransaction => input[r].key # BadKey
        /\ pc[r] \in {"lock", "lookup", "replay", "purge", "store"} => Keyed(r)

\* What each transaction has written and not committed, by how far it is.
StagedWrites ==
    \A r \in Request :
        /\ pc[r] \in {"audit", "store", "commit"} => staged[r].effect
        /\ pc[r] \notin {"audit", "store", "commit"} => ~staged[r].effect
        /\ pc[r] \in {"store", "commit"} => staged[r].audit
        /\ pc[r] \notin {"store", "commit"} => ~staged[r].audit
        /\ pc[r] \in Working /\ Keyed(r) => staged[r].dropped = Existing(r)
        /\ ~(pc[r] \in Working /\ Keyed(r)) => staged[r].dropped = {}
        /\ ~(pc[r] = "commit" /\ Keyed(r)) => staged[r].added = {}

\* A transaction that will write a row found none, or an expired one only.
OldExpired ==
    \A r \in Request :
        pc[r] \in {"purge"} \cup Working /\ Keyed(r) =>
            \A row \in Existing(r) : row.expiresAt <= now

\* The row about to be committed dates from after the expiry of the old one.
NewRowOf(r, row) ==
    /\ staged[r].added = {row}
    /\ row.key = input[r].key
    /\ row.body = input[r].body
    /\ row.of = r
    /\ row.expiresAt \in TTL .. now + TTL
    /\ \A old \in Existing(r) : old.expiresAt + TTL <= row.expiresAt

NewRow ==
    \A r \in Request :
        pc[r] = "commit" /\ Keyed(r) => \E row \in Row : NewRowOf(r, row)

\* The lookup's result stays what it was: nobody else touches rows of the key.
FoundRow ==
    \A r \in Request :
        /\ pc[r] = "purge" => found[r] = Existing(r)
        /\ pc[r] = "replay" =>
             \A row \in found[r] : row \in idem /\ row.key = input[r].key
                                               /\ row.body = input[r].body

\* The table holds the latest row of each key that was ever committed.
LatestIsStored ==
    /\ idem \subseteq journal
    /\ \A a \in journal : \E row \in idem :
         /\ row.key = a.key
         /\ a = row \/ a.expiresAt + TTL <= row.expiresAt

\* Journal rows repeat the input of the request that wrote them.
JournalRows ==
    \A a \in journal : a.of \in effects /\ input[a.of] = [key |-> a.key, body |-> a.body]

\* Responses and effects belong to requests that are through with the database.
Finished ==
    \A r \in Request :
        pc[r] \in {"new"} \cup InTransaction =>
            r \notin effects /\ reply[r].kind = "none"

\* What the invariant says of the transactions, and of the committed tables.
Transactions ==
    LockHeld /\ KeyKnown /\ StagedWrites /\ OldExpired /\ FoundRow /\ Finished

Tables ==
    LatestIsStored /\ JournalRows /\ OncePerLifetime /\ OneStoredResponse
    /\ RecordedTogether

IInv == TypeOK /\ Transactions /\ NewRow /\ Tables /\ ReplaysOwnRequest

-----------------------------------------------------------------------------
(* The parts of the invariant that a step keeps because of what it leaves   *)
(* unchanged.                                                               *)

LEMMA SameRows ==
    ASSUME UNCHANGED <<input, idem>>, NEW r \in Request
    PROVE  Existing(r)' = Existing(r) /\ (Keyed(r)' <=> Keyed(r))
  BY DEF Existing, Keyed

LEMMA TablesKept ==
    ASSUME IInv, UNCHANGED <<input, idem, effects, audits, journal>>
    PROVE  Tables'
  BY DEF IInv, Tables, LatestIsStored, JournalRows, OncePerLifetime,
         OneStoredResponse, RecordedTogether, Keyed

\* Rows waiting to be committed stay fit to be: their key is locked.
LEMMA NewRowKept ==
    ASSUME IInv, UNCHANGED <<input, idem, now>>,
           \A q \in Request :
               pc'[q] = "commit" /\ Keyed(q) =>
                   pc[q] = "commit" /\ staged'[q].added = staged[q].added
    PROVE  NewRow'
<1> SUFFICES ASSUME NEW q \in Request, pc'[q] = "commit", Keyed(q)'
             PROVE  \E row \in Row : NewRowOf(q, row)'
  BY DEF NewRow
<1>1. Keyed(q) /\ Existing(q)' = Existing(q)
  BY SameRows
<1>2. PICK row \in Row : NewRowOf(q, row)
  BY <1>1 DEF IInv, NewRow
<1>3. NewRowOf(q, row)'
  BY <1>1, <1>2 DEF NewRowOf
<1> QED BY <1>3

LEMMA RepliesKept ==
    ASSUME IInv, UNCHANGED <<input, effects, reply>>
    PROVE  ReplaysOwnRequest'
  BY DEF IInv, ReplaysOwnRequest
-----------------------------------------------------------------------------
(* One lemma for each action.                                               *)

LEMMA RefuseStep == ASSUME IInv, NEW r \in Request, Refuse(r) PROVE IInv'
<1> USE KeyAssumption
<1>1. TypeOK'
  BY DEF Refuse, IInv, TypeOK, Reply, PC
<1>2. Transactions'
  BY SameRows
     DEF Refuse, IInv, TypeOK, Transactions, LockHeld, KeyKnown, StagedWrites,
         OldExpired, FoundRow, Finished, Keyed, InTransaction, Holding, Working
<1>3. NewRow'
  BY NewRowKept DEF Refuse, IInv, TypeOK
<1>4. Tables'
  BY TablesKept DEF Refuse
<1>5. ReplaysOwnRequest'
  BY DEF Refuse, IInv, TypeOK, ReplaysOwnRequest
<1> QED BY <1>1, <1>2, <1>3, <1>4, <1>5 DEF IInv

LEMMA BeginStep == ASSUME IInv, NEW r \in Request, Begin(r) PROVE IInv'
<1>1. TypeOK'
  BY DEF Begin, IInv, TypeOK, PC, InTransaction
<1>2. Transactions'
  BY SameRows
     DEF Begin, IInv, TypeOK, Transactions, LockHeld, KeyKnown, StagedWrites,
         OldExpired, FoundRow, Finished, Keyed, InTransaction, Holding, Working
<1>3. NewRow'
  BY NewRowKept DEF Begin, IInv, TypeOK
<1>4. Tables'
  BY TablesKept DEF Begin
<1>5. ReplaysOwnRequest'
  BY RepliesKept DEF Begin
<1> QED BY <1>1, <1>2, <1>3, <1>4, <1>5 DEF IInv

LEMMA AcquireLockStep == ASSUME IInv, NEW r \in Request, AcquireLock(r) PROVE IInv'
<1> USE NobodyAssumption
<1>1. TypeOK'
  BY DEF AcquireLock, IInv, TypeOK, Input, PC, InTransaction
<1>2. Transactions'
  BY SameRows
     DEF AcquireLock, IInv, TypeOK, Transactions, LockHeld, KeyKnown, StagedWrites,
         OldExpired, FoundRow, Finished, Keyed, InTransaction, Holding, Working
<1>3. NewRow'
  BY NewRowKept DEF AcquireLock, IInv, TypeOK
<1>4. Tables'
  BY TablesKept DEF AcquireLock
<1>5. ReplaysOwnRequest'
  BY RepliesKept DEF AcquireLock
<1> QED BY <1>1, <1>2, <1>3, <1>4, <1>5 DEF IInv

LEMMA LookupStep == ASSUME IInv, NEW r \in Request, Lookup(r) PROVE IInv'
<1> USE KeyAssumption, NobodyAssumption, TimeAssumption
<1>1. UNCHANGED <<input, staged, idem, effects, audits, now, journal>>
  BY DEF Lookup
<1>2. TypeOK' /\ Transactions' /\ ReplaysOwnRequest'
  <2>1. CASE FoundNothing(r)
    BY <2>1, SameRows
       DEF Lookup, FoundNothing, IInv, TypeOK, PC, InTransaction, Ended, Transactions,
           LockHeld, KeyKnown, StagedWrites, OldExpired, FoundRow, Finished,
           ReplaysOwnRequest, Existing, Keyed, Holding, Working
  <2>2. ASSUME NEW row \in Existing(r), Newest(Existing(r), row),
               FoundExpired(r, row) \/ FoundSameBody(r, row) \/ FoundOtherBody(r, row)
        PROVE  TypeOK' /\ Transactions' /\ ReplaysOwnRequest'
    <3>1. row \in idem /\ row \in Row /\ row.key = input[r].key /\ Keyed(r)
      BY DEF Lookup, IInv, Transactions, KeyKnown, TypeOK, Existing, Keyed
    <3>2. Existing(r) = {row}
      BY <3>1 DEF IInv, Tables, OneStoredResponse, Existing
    <3>3. CASE FoundExpired(r, row)
      BY <3>1, <3>2, <3>3, SameRows
         DEF Lookup, FoundExpired, Live, IInv, TypeOK, PC, InTransaction, Ended,
             Transactions, LockHeld, KeyKnown, StagedWrites, OldExpired, FoundRow,
             Finished, ReplaysOwnRequest, Keyed, Holding, Working, Row
    <3>4. CASE FoundSameBody(r, row)
      BY <3>1, <3>2, <3>4, SameRows
         DEF Lookup, FoundSameBody, IInv, TypeOK, PC, InTransaction, Ended,
             Transactions, LockHeld, KeyKnown, StagedWrites, OldExpired, FoundRow,
             Finished, ReplaysOwnRequest, Keyed, Holding, Working
    <3>5. CASE FoundOtherBody(r, row)
      <4>1. TypeOK'
        BY <3>5 DEF Lookup, FoundOtherBody, Released, IInv, TypeOK, PC, InTransaction,
                    Ended, Reply
      <4>2. Transactions'
        BY <3>1, <3>5, SameRows
           DEF Lookup, FoundOtherBody, Released, IInv, TypeOK, InTransaction, Ended,
               Transactions, LockHeld, KeyKnown, StagedWrites, OldExpired, FoundRow,
               Finished, Keyed, Holding, Working
      <4>3. ReplaysOwnRequest'
        BY <3>5 DEF Lookup, FoundOtherBody, IInv, TypeOK, ReplaysOwnRequest
      <4> QED BY <4>1, <4>2, <4>3
    <3> QED BY <2>2, <3>3, <3>4, <3>5
  <2> QED BY <2>1, <2>2 DEF Lookup
<1>3. NewRow'
  BY NewRowKept DEF Lookup, FoundNothing, FoundExpired, FoundSameBody, FoundOtherBody,
                    IInv, TypeOK
<1>4. Tables'
  BY <1>1, TablesKept
<1> QED BY <1>2, <1>3, <1>4 DEF IInv

LEMMA ReplayStep == ASSUME IInv, NEW r \in Request, Replay(r) PROVE IInv'
<1> USE KeyAssumption, NobodyAssumption, TimeAssumption
<1>1. PICK row \in found[r] :
        reply' = [reply EXCEPT ![r] = [kind |-> "replayed", of |-> row.of]]
  BY DEF Replay
<1>2. /\ row \in Row /\ row \in journal /\ row.of \in effects
      /\ input[row.of] = input[r] /\ r \notin effects
  BY DEF Replay, IInv, TypeOK, Input, Transactions, FoundRow, Finished, InTransaction,
         Tables, LatestIsStored, JournalRows
<1>3. TypeOK'
  BY <1>1, <1>2 DEF Replay, Released, IInv, TypeOK, Row, Reply, PC
<1>4. Transactions'
  BY SameRows
     DEF Replay, Released, IInv, TypeOK, Transactions, LockHeld, KeyKnown, StagedWrites,
         OldExpired, FoundRow, Finished, Keyed, InTransaction, Holding, Working
<1>5. NewRow'
  BY NewRowKept DEF Replay, IInv, TypeOK
<1>6. Tables'
  BY TablesKept DEF Replay
<1>7. ReplaysOwnRequest'
  <2> SUFFICES ASSUME NEW q \in Request, reply'[q].kind = "replayed"
               PROVE  /\ q \notin effects
                      /\ reply'[q].of \in effects
                      /\ input[reply'[q].of] = input[q]
    BY DEF ReplaysOwnRequest, Replay
  <2>1. CASE q = r
    BY <2>1, <1>1, <1>2 DEF IInv, TypeOK
  <2>2. CASE q # r
    BY <2>2, <1>1 DEF IInv, TypeOK, ReplaysOwnRequest
  <2> QED BY <2>1, <2>2
<1> QED BY <1>3, <1>4, <1>5, <1>6, <1>7 DEF IInv

LEMMA DeleteExpiredStep == ASSUME IInv, NEW r \in Request, DeleteExpired(r) PROVE IInv'
<1>1. TypeOK'
  <2>1. found[r] \in SUBSET Row
    BY DEF IInv, TypeOK
  <2>2. [staged[r] EXCEPT !.dropped = found[r]] \in Writes
    BY <2>1 DEF IInv, TypeOK, Writes
  <2>3. staged' \in [Request -> Writes]
    BY <2>2 DEF DeleteExpired, IInv, TypeOK
  <2> QED BY <2>3 DEF DeleteExpired, IInv, TypeOK, PC, InTransaction
<1>2. Transactions'
  BY SameRows
     DEF DeleteExpired, IInv, TypeOK, Writes, Transactions, LockHeld, KeyKnown,
         StagedWrites, OldExpired, FoundRow, Finished, Keyed, InTransaction, Holding,
         Working
<1>3. NewRow'
  BY NewRowKept DEF DeleteExpired, IInv, TypeOK, Writes
<1>4. Tables'
  BY TablesKept DEF DeleteExpired
<1>5. ReplaysOwnRequest'
  BY RepliesKept DEF DeleteExpired
<1> QED BY <1>1, <1>2, <1>3, <1>4, <1>5 DEF IInv

LEMMA OperateStep == ASSUME IInv, NEW r \in Request, Operate(r) PROVE IInv'
<1>1. TypeOK'
  BY DEF Operate, IInv, TypeOK, Writes, PC, InTransaction
<1>2. Transactions'
  BY SameRows
     DEF Operate, IInv, TypeOK, Writes, Transactions, LockHeld, KeyKnown,
         StagedWrites, OldExpired, FoundRow, Finished, Keyed, InTransaction, Holding,
         Working
<1>3. NewRow'
  BY NewRowKept DEF Operate, IInv, TypeOK, Writes
<1>4. Tables'
  BY TablesKept DEF Operate
<1>5. ReplaysOwnRequest'
  BY RepliesKept DEF Operate
<1> QED BY <1>1, <1>2, <1>3, <1>4, <1>5 DEF IInv

LEMMA WriteAuditStep == ASSUME IInv, NEW r \in Request, WriteAudit(r) PROVE IInv'
<1>1. TypeOK'
  BY DEF WriteAudit, IInv, TypeOK, Writes, PC, InTransaction
<1>2. Transactions'
  BY SameRows
     DEF WriteAudit, IInv, TypeOK, Writes, Transactions, LockHeld, KeyKnown,
         StagedWrites, OldExpired, FoundRow, Finished, Keyed, InTransaction, Holding,
         Working
<1>3. NewRow'
  BY NewRowKept DEF WriteAudit, IInv, TypeOK, Writes
<1>4. Tables'
  BY TablesKept DEF WriteAudit
<1>5. ReplaysOwnRequest'
  BY RepliesKept DEF WriteAudit
<1> QED BY <1>1, <1>2, <1>3, <1>4, <1>5 DEF IInv

LEMMA StoreResponseStep == ASSUME IInv, NEW r \in Request, StoreResponse(r) PROVE IInv'
<1> USE KeyAssumption, NobodyAssumption, TimeAssumption
<1>0. PICK row : row = [key |-> input[r].key, body |-> input[r].body, of |-> r,
                        expiresAt |-> now + TTL]
  OBVIOUS
<1>1. Keyed(r)
  BY DEF StoreResponse, IInv, Transactions, KeyKnown
<1>2. row \in Row
  BY <1>0, <1>1 DEF IInv, TypeOK, Row, Input, Keyed
<1>3. staged' \in [Request -> Writes] /\ staged'[r].added = {row}
  <2>1. [staged[r] EXCEPT !.added = {row}] \in Writes
    BY <1>2 DEF IInv, TypeOK, Writes
  <2>2. staged' = [staged EXCEPT ![r] = [staged[r] EXCEPT !.added = {row}]]
    BY <1>0 DEF StoreResponse
  <2> QED BY <2>1, <2>2 DEF IInv, TypeOK, Writes
<1>4. TypeOK'
  BY <1>3 DEF StoreResponse, IInv, TypeOK, PC, InTransaction
<1>5. Transactions'
  BY <1>1, SameRows
     DEF StoreResponse, IInv, TypeOK, Writes, Transactions, LockHeld, KeyKnown,
         StagedWrites, OldExpired, FoundRow, Finished, Keyed, InTransaction, Holding,
         Working
<1>6. NewRow'
  <2> SUFFICES ASSUME NEW q \in Request, pc'[q] = "commit", Keyed(q)'
               PROVE  \E new \in Row : NewRowOf(q, new)'
    BY DEF NewRow
  <2>1. Keyed(q) /\ Existing(q)' = Existing(q)
    BY SameRows DEF StoreResponse
  <2>2. CASE q = r
    <3>1. \A old \in Existing(r) : old \in Row /\ old.expiresAt <= now
      BY <1>1 DEF StoreResponse, IInv, TypeOK, Transactions, OldExpired, Working, Existing
    <3>2. \A old \in Existing(r) : old.expiresAt + TTL <= row.expiresAt
      BY <1>0, <3>1 DEF IInv, TypeOK, Row
    <3>3. NewRowOf(r, row)'
      BY <1>0, <1>3, <2>1, <2>2, <3>2 DEF NewRowOf, StoreResponse, IInv, TypeOK
    <3> QED BY <1>2, <2>2, <3>3
  <2>3. CASE q # r
    <3>1. pc[q] = "commit" /\ staged'[q].added = staged[q].added
      BY <2>3 DEF StoreResponse, IInv, TypeOK, Writes
    <3>2. PICK new \in Row : NewRowOf(q, new)
      BY <2>1, <3>1 DEF IInv, NewRow
    <3>3. NewRowOf(q, new)'
      BY <2>1, <3>1, <3>2 DEF NewRowOf, StoreResponse
    <3> QED BY <3>3
  <2> QED BY <2>2, <2>3
<1>7. Tables'
  BY TablesKept DEF StoreResponse
<1>8. ReplaysOwnRequest'
  BY RepliesKept DEF StoreResponse
<1> QED BY <1>4, <1>5, <1>6, <1>7, <1>8 DEF IInv

LEMMA CommitStep == ASSUME IInv, NEW r \in Request, Commit(r) PROVE IInv'
<1> USE KeyAssumption, NobodyAssumption, TimeAssumption
<1>1. /\ pc[r] = "commit" /\ pc' = [pc EXCEPT ![r] = "respond"]
      /\ staged' = [staged EXCEPT ![r] = NoWrites] /\ lock' = Released(r)
      /\ effects' = effects \cup {r} /\ audits' = audits \cup {r}
      /\ idem' = (idem \ staged[r].dropped) \cup staged[r].added
      /\ journal' = journal \cup staged[r].added
      /\ UNCHANGED <<input, found, now>>
  BY DEF Commit, Publish, IInv, Transactions, StagedWrites
<1>2. r \notin effects /\ reply'[r].kind # "replayed"
      /\ \A q \in Request \ {r} : reply'[q] = reply[q]
  BY DEF Commit, IInv, TypeOK, Transactions, Finished, InTransaction
<1>3. TypeOK'
  <2>1. staged[r].added \subseteq Row /\ NoWrites \in Writes
    BY DEF IInv, TypeOK, Writes, NoWrites
  <2>2. reply' \in [Request -> Reply]
    <3>1. /\ [kind |-> "fresh", of |-> r] \in Reply
          /\ [kind |-> "error"] \in Reply
      BY DEF Reply
    <3> QED BY <3>1 DEF Commit, IInv, TypeOK
  <2> QED BY <1>1, <2>1, <2>2 DEF IInv, TypeOK, Released, PC
\* Either r has no key and changes no row, or it replaces the rows of its key.
<1>4. CASE ~Keyed(r)
  <2>1. UNCHANGED <<input, idem, journal>>
    BY <1>1, <1>4 DEF IInv, Transactions, StagedWrites
  <2>2. Transactions'
    BY <1>1, <1>2, <1>4, <2>1, SameRows
       DEF IInv, TypeOK, Writes, NoWrites, Released, Transactions, LockHeld, KeyKnown,
           StagedWrites, OldExpired, FoundRow, Finished, Keyed, InTransaction, Holding,
           Working
  <2>3. NewRow'
    BY <1>1, <2>1, NewRowKept DEF IInv, TypeOK
  <2>4. Tables'
    BY <1>1, <1>4, <2>1
       DEF IInv, TypeOK, Tables, LatestIsStored, JournalRows, OncePerLifetime,
           OneStoredResponse, RecordedTogether, Keyed
  <2>5. ReplaysOwnRequest'
    BY <1>1, <1>2, <2>1 DEF IInv, ReplaysOwnRequest, TypeOK
  <2> QED BY <1>3, <2>2, <2>3, <2>4, <2>5 DEF IInv
<1>5. CASE Keyed(r)
  <2>1. PICK row \in Row : NewRowOf(r, row)
    BY <1>1, <1>5 DEF IInv, NewRow
  <2>2. /\ idem' = (idem \ Existing(r)) \cup {row}
        /\ journal' = journal \cup {row}
        /\ row.key = input[r].key /\ row.body = input[r].body /\ row.of = r
        /\ \A old \in Existing(r) : old.expiresAt + TTL <= row.expiresAt
    BY <1>1, <1>5, <2>1
       DEF NewRowOf, IInv, Transactions, StagedWrites, Working
  \* Nobody else is past the lock for this key, so other keys' rows are untouched.
  <2>3. \A q \in Request : pc'[q] \in Holding /\ Keyed(q) =>
             q # r /\ pc[q] = pc'[q] /\ input[q].key # input[r].key
    BY <1>1, <1>5 DEF IInv, TypeOK, Transactions, LockHeld, Holding
  <2>4. \A q \in Request : Keyed(q) /\ input[q].key # input[r].key =>
             Existing(q)' = Existing(q)
    BY <1>1, <2>2 DEF Existing
  <2>5. Transactions'
    <3>1. LockHeld' /\ KeyKnown' /\ Finished'
      BY <1>1, <1>2, <2>3
         DEF IInv, TypeOK, Released, Transactions, LockHeld, KeyKnown, Finished, Keyed,
             InTransaction, Holding
    <3>2. StagedWrites'
      <4> SUFFICES ASSUME NEW q \in Request PROVE StagedWrites!(q)'
        BY DEF StagedWrites
      <4>1. CASE q = r
        BY <1>1, <4>1 DEF IInv, TypeOK, NoWrites, Working
      <4>2. CASE q # r
        <5>1. staged'[q] = staged[q] /\ pc'[q] = pc[q] /\ (Keyed(q)' <=> Keyed(q))
          BY <1>1, <4>2 DEF IInv, TypeOK, Keyed
        <5>2. pc[q] \in Working /\ Keyed(q) => Existing(q)' = Existing(q)
          BY <2>3, <2>4, <5>1 DEF Working, Holding
        <5> QED BY <5>1, <5>2 DEF IInv, Transactions, StagedWrites
      <4> QED BY <4>1, <4>2
    <3>3. OldExpired'
      BY <1>1, <2>3, <2>4
         DEF IInv, TypeOK, Transactions, OldExpired, Keyed, Holding, Working
    <3>4. FoundRow'
      <4> SUFFICES ASSUME NEW q \in Request, pc'[q] \in {"purge", "replay"}
                   PROVE  FoundRow!(q)'
        BY DEF FoundRow
      <4>1. q # r /\ pc[q] = pc'[q] /\ Keyed(q)
        BY <1>1 DEF IInv, TypeOK, Transactions, KeyKnown
      <4>2. input[q].key # input[r].key /\ Existing(q)' = Existing(q)
        BY <2>3, <2>4, <4>1 DEF Holding
      <4>3. \A old \in idem : old.key = input[q].key => old \in idem'
        BY <2>2, <4>2 DEF Existing
      <4> QED BY <1>1, <4>1, <4>2, <4>3 DEF IInv, Transactions, FoundRow
    <3> QED BY <3>1, <3>2, <3>3, <3>4 DEF Transactions
  <2>6. NewRow'
    <3> SUFFICES ASSUME NEW q \in Request, pc'[q] = "commit", Keyed(q)'
                 PROVE  \E new \in Row : NewRowOf(q, new)'
      BY DEF NewRow
    <3>1. Keyed(q) /\ q # r /\ pc[q] = "commit" /\ input[q].key # input[r].key
      BY <1>1, <2>3 DEF Holding, Keyed
    <3>2. Existing(q)' = Existing(q) /\ staged'[q] = staged[q]
      BY <1>1, <2>4, <3>1 DEF IInv, TypeOK
    <3>3. PICK new \in Row : NewRowOf(q, new)
      BY <3>1 DEF IInv, NewRow
    <3>4. NewRowOf(q, new)'
      BY <1>1, <3>2, <3>3 DEF NewRowOf
    <3> QED BY <3>4
  <2>7. Tables'
    \* All earlier commits under the key are at least a lifetime older.
    <3>1. \A a \in journal : a.key = row.key => a.expiresAt + TTL <= row.expiresAt
      <4> SUFFICES ASSUME NEW a \in journal, a.key = row.key
                   PROVE  a.expiresAt + TTL <= row.expiresAt
        OBVIOUS
      <4>1. PICK old \in idem : old.key = a.key
                                /\ (a = old \/ a.expiresAt + TTL <= old.expiresAt)
        BY DEF IInv, Tables, LatestIsStored
      <4>2. old.expiresAt + TTL <= row.expiresAt
        BY <2>2, <4>1 DEF Existing
      <4>3. a \in Row /\ old \in Row
        BY <4>1 DEF IInv, TypeOK
      <4> QED BY <4>1, <4>2, <4>3 DEF Row
    <3>2. LatestIsStored'
      <4>1. idem' \subseteq journal'
        BY <2>2 DEF IInv, Tables, LatestIsStored
      <4>2. ASSUME NEW a \in journal'
            PROVE  \E new \in idem' : /\ new.key = a.key
                                      /\ a = new \/ a.expiresAt + TTL <= new.expiresAt
        <5>1. CASE a.key = row.key
          BY <2>2, <3>1, <5>1
        <5>2. CASE a.key # row.key
          BY <2>2, <5>2 DEF IInv, Tables, LatestIsStored, Existing
        <5> QED BY <5>1, <5>2
      <4> QED BY <4>1, <4>2 DEF LatestIsStored
    <3>3. JournalRows'
      <4>1. input[r] = [key |-> row.key, body |-> row.body]
        BY <2>2 DEF IInv, TypeOK, Input
      <4> QED BY <1>1, <2>2, <4>1 DEF IInv, Tables, JournalRows
    <3>4. OncePerLifetime'
      BY <2>2, <3>1 DEF IInv, Tables, OncePerLifetime
    <3>5. OneStoredResponse'
      BY <2>2 DEF IInv, Tables, OneStoredResponse, Existing
    <3>6. RecordedTogether'
      <4>1. {q \in effects' : Keyed(q)'} = {q \in effects : Keyed(q)} \cup {r}
        BY <1>1, <1>5 DEF Keyed
      <4>2. {a.of : a \in journal'} = {a.of : a \in journal} \cup {r}
        BY <2>2
      <4> QED BY <1>1, <4>1, <4>2 DEF IInv, Tables, RecordedTogether
    <3> QED BY <3>2, <3>3, <3>4, <3>5, <3>6 DEF Tables
  <2>8. ReplaysOwnRequest'
    BY <1>1, <1>2 DEF IInv, ReplaysOwnRequest, TypeOK
  <2> QED BY <1>3, <2>5, <2>6, <2>7, <2>8 DEF IInv
<1> QED BY <1>4, <1>5

LEMMA AbortStep == ASSUME IInv, NEW r \in Request, Abort(r) PROVE IInv'
<1> USE NobodyAssumption
<1>1. TypeOK'
  BY DEF Abort, IInv, TypeOK, Released, NoWrites, Row, Writes, Reply, PC
<1>2. Transactions'
  BY SameRows
     DEF Abort, Released, NoWrites, IInv, TypeOK, Transactions, LockHeld, KeyKnown,
         StagedWrites, OldExpired, FoundRow, Finished, Keyed, InTransaction, Holding,
         Working
<1>3. NewRow'
  BY NewRowKept DEF Abort, IInv, TypeOK, NoWrites
<1>4. Tables'
  BY TablesKept DEF Abort
<1>5. ReplaysOwnRequest'
  BY DEF Abort, IInv, TypeOK, ReplaysOwnRequest
<1> QED BY <1>1, <1>2, <1>3, <1>4, <1>5 DEF IInv

LEMMA RespondStep == ASSUME IInv, NEW r \in Request, Respond(r) PROVE IInv'
<1>1. TypeOK'
  BY DEF Respond, IInv, TypeOK, PC, Ended
<1>2. Transactions'
  BY SameRows
     DEF Respond, IInv, TypeOK, Transactions, LockHeld, KeyKnown, StagedWrites,
         OldExpired, FoundRow, Finished, Keyed, InTransaction, Ended, Holding, Working
<1>3. NewRow'
  BY NewRowKept DEF Respond, IInv, TypeOK
<1>4. Tables'
  BY TablesKept DEF Respond
<1>5. ReplaysOwnRequest'
  BY RepliesKept DEF Respond
<1> QED BY <1>1, <1>2, <1>3, <1>4, <1>5 DEF IInv

LEMMA LoseResponseStep == ASSUME IInv, NEW r \in Request, LoseResponse(r) PROVE IInv'
<1>1. TypeOK'
  BY DEF LoseResponse, IInv, TypeOK, PC, Ended
<1>2. Transactions'
  BY SameRows
     DEF LoseResponse, IInv, TypeOK, Transactions, LockHeld, KeyKnown, StagedWrites,
         OldExpired, FoundRow, Finished, Keyed, InTransaction, Ended, Holding, Working
<1>3. NewRow'
  BY NewRowKept DEF LoseResponse, IInv, TypeOK
<1>4. Tables'
  BY TablesKept DEF LoseResponse
<1>5. ReplaysOwnRequest'
  BY RepliesKept DEF LoseResponse
<1> QED BY <1>1, <1>2, <1>3, <1>4, <1>5 DEF IInv

LEMMA TickStep == ASSUME IInv, Tick PROVE IInv'
<1>1. TypeOK' /\ Transactions'
  BY SameRows
     DEF Tick, IInv, TypeOK, Row, Transactions, LockHeld, KeyKnown, StagedWrites,
         OldExpired, FoundRow, Finished, Existing, Keyed
<1>2. NewRow'
  <2> SUFFICES ASSUME NEW q \in Request, pc[q] = "commit", Keyed(q)
               PROVE  \E row \in Row : NewRowOf(q, row)'
    BY DEF NewRow, Tick, Keyed
  <2>1. PICK row \in Row : NewRowOf(q, row)
    BY DEF IInv, NewRow
  <2>2. NewRowOf(q, row)'
    BY <2>1, TimeAssumption, SameRows DEF NewRowOf, Tick, IInv, TypeOK, Row
  <2> QED BY <2>2
<1>3. Tables'
  BY TablesKept DEF Tick
<1>4. ReplaysOwnRequest'
  BY RepliesKept DEF Tick
<1> QED BY <1>1, <1>2, <1>3, <1>4 DEF IInv

LEMMA StutterStep == ASSUME IInv, UNCHANGED vars PROVE IInv'
<1>1. TypeOK' /\ Transactions'
  BY SameRows
     DEF vars, IInv, TypeOK, Transactions, LockHeld, KeyKnown, StagedWrites,
         OldExpired, FoundRow, Finished, Existing, Keyed
<1>2. NewRow'
  BY NewRowKept DEF vars
<1>3. Tables' /\ ReplaysOwnRequest'
  BY TablesKept, RepliesKept DEF vars
<1> QED BY <1>1, <1>2, <1>3 DEF IInv
-----------------------------------------------------------------------------
LEMMA Initially == Init => IInv
<1> SUFFICES ASSUME Init PROVE IInv
  OBVIOUS
<1>1. TypeOK
  BY DEF Init, TypeOK, PC, Row, Writes, NoWrites, Reply
<1>2. Transactions
  BY DEF Init, Transactions, LockHeld, KeyKnown, StagedWrites, OldExpired, FoundRow,
         Finished, InTransaction, Holding, Working, NoWrites
<1>3. NewRow
  BY DEF Init, NewRow
<1>4. Tables
  BY DEF Init, Tables, LatestIsStored, JournalRows, OncePerLifetime, OneStoredResponse,
         RecordedTogether
<1>5. ReplaysOwnRequest
  BY DEF Init, ReplaysOwnRequest
<1> QED BY <1>1, <1>2, <1>3, <1>4, <1>5 DEF IInv

LEMMA Inductive == IInv /\ [Next]_vars => IInv'
<1> SUFFICES ASSUME IInv, [Next]_vars PROVE IInv'
  OBVIOUS
<1>1. ASSUME NEW r \in Request,
             Refuse(r) \/ Begin(r) \/ Serve(r) \/ Abort(r) \/ Respond(r) \/ LoseResponse(r)
      PROVE  IInv'
  BY <1>1, RefuseStep, BeginStep, AcquireLockStep, LookupStep, ReplayStep,
     DeleteExpiredStep, OperateStep, WriteAuditStep, StoreResponseStep, CommitStep,
     AbortStep, RespondStep, LoseResponseStep DEF Serve
<1>2. CASE Tick
  BY <1>2, TickStep
<1>3. CASE Quiet \/ UNCHANGED vars
  BY <1>3, StutterStep DEF Quiet
<1> QED BY <1>1, <1>2, <1>3 DEF Next

\* In every reachable state the inductive invariant holds.
THEOREM Invariance == Spec => []IInv
  BY Initially, Inductive, PTL DEF Spec

\* Every variable of the executor keeps its type.
THEOREM TypeCorrect == Spec => []TypeOK
<1>1. IInv => TypeOK
  BY DEF IInv
<1> QED BY <1>1, Invariance, PTL

(***************************************************************************)
(* Concurrent and repeated requests under one key never run the operation  *)
(* twice within the lifetime of its stored response.                       *)
(***************************************************************************)
THEOREM RunsOncePerLifetime == Spec => []OncePerLifetime
<1>1. IInv => OncePerLifetime
  BY DEF IInv, Tables
<1> QED BY <1>1, Invariance, PTL

\* An operation, its audit entry and its stored response commit together.
THEOREM CommitsTogether == Spec => []RecordedTogether
<1>1. IInv => RecordedTogether
  BY DEF IInv, Tables
<1> QED BY <1>1, Invariance, PTL

\* A replayed response answers the same user, route, key and body.
THEOREM ReplaysOnlyOwn == Spec => []ReplaysOwnRequest
<1>1. IInv => ReplaysOwnRequest
  BY DEF IInv
<1> QED BY <1>1, Invariance, PTL

\* A key never has two stored responses, even where no unique index applies.
THEOREM StoresOneResponse == Spec => []OneStoredResponse
<1>1. IInv => OneStoredResponse
  BY DEF IInv, Tables
<1> QED BY <1>1, Invariance, PTL

-----------------------------------------------------------------------------
(* Who waits for whom.                                                      *)

\* A lock that is not free is held by a request that works under it.
HeldByWorker ==
    \A k \in Key : lock[k] # Nobody =>
       \E r \in Request : lock[k] = r /\ pc[r] \in Holding /\ input[r].key = k

LEMMA HeldInitially == Init => HeldByWorker
BY DEF Init, HeldByWorker

\* Requests that stay where they are keep the locks they hold.
LEMMA OthersHold ==
    ASSUME HeldByWorker, NEW r \in Request, UNCHANGED input,
           \A q \in Request \ {r} : pc'[q] = pc[q],
           \A k \in Key : \/ lock'[k] = Nobody
                          \/ lock'[k] = lock[k] /\ lock[k] # r
                          \/ lock'[k] = r /\ pc'[r] \in Holding /\ input[r].key = k
    PROVE  HeldByWorker'
BY DEF HeldByWorker

LEMMA HeldStep == IInv /\ HeldByWorker /\ [Next]_vars => HeldByWorker'
<1> SUFFICES ASSUME IInv, HeldByWorker, [Next]_vars PROVE HeldByWorker'
  OBVIOUS
<1> USE KeyAssumption, NobodyAssumption
<1>1. ASSUME UNCHANGED <<pc, input, lock>> PROVE HeldByWorker'
  BY <1>1 DEF HeldByWorker
\* A request that holds a lock is past the statement that takes it.
<1>2. ASSUME NEW r \in Request, NEW k \in Key, lock[k] = r
      PROVE  pc[r] \in Holding /\ input[r].key = k
  BY <1>2 DEF HeldByWorker
<1>3. ASSUME NEW r \in Request, UNCHANGED <<input, lock>>, pc[r] \notin Holding \/ pc'[r] \in Holding,
             \A q \in Request \ {r} : pc'[q] = pc[q]
      PROVE  HeldByWorker'
  BY <1>2, <1>3, OthersHold
<1>4. ASSUME NEW r \in Request, UNCHANGED input, lock' = Released(r),
             \A q \in Request \ {r} : pc'[q] = pc[q]
      PROVE  HeldByWorker'
  BY <1>4, OthersHold DEF Released
<1>5. ASSUME NEW r \in Request, AcquireLock(r) PROVE HeldByWorker'
  <2>1. /\ pc'[r] \in Holding /\ UNCHANGED input
        /\ \A q \in Request \ {r} : pc'[q] = pc[q]
    BY <1>5 DEF AcquireLock, Holding, IInv, TypeOK
  <2>2. ASSUME NEW k \in Key
        PROVE  \/ lock'[k] = Nobody
               \/ lock'[k] = lock[k] /\ lock[k] # r
               \/ lock'[k] = r /\ input[r].key = k
    BY <1>2, <1>5 DEF AcquireLock, Holding, IInv, TypeOK
  <2> QED BY <2>1, <2>2, OthersHold
<1>6. ASSUME NEW r \in Request, Lookup(r) PROVE HeldByWorker'
  <2>1. UNCHANGED input /\ \A q \in Request \ {r} : pc'[q] = pc[q]
    BY <1>6 DEF Lookup, FoundNothing, FoundExpired, FoundSameBody, FoundOtherBody, IInv, TypeOK
  <2>2. \/ lock' = Released(r)
        \/ UNCHANGED lock /\ pc'[r] \in Holding
    BY <1>6 DEF Lookup, FoundNothing, FoundExpired, FoundSameBody, FoundOtherBody, IInv, TypeOK,
       Holding
  <2> QED BY <1>3, <1>4, <2>1, <2>2
<1>7. ASSUME NEW r \in Request, Replay(r) \/ Commit(r) \/ Abort(r) PROVE HeldByWorker'
  BY <1>4, <1>7 DEF Replay, Commit, Publish, Abort, IInv, TypeOK
<1>8. ASSUME NEW r \in Request,
             DeleteExpired(r) \/ Operate(r) \/ WriteAudit(r) \/ StoreResponse(r)
      PROVE  HeldByWorker'
  BY <1>3, <1>8 DEF DeleteExpired, Operate, WriteAudit, StoreResponse, IInv, TypeOK, Holding
<1>9. ASSUME NEW r \in Request, Refuse(r) \/ Begin(r) \/ Respond(r) \/ LoseResponse(r)
      PROVE  HeldByWorker'
  BY <1>3, <1>9 DEF Refuse, Begin, Respond, LoseResponse, IInv, TypeOK, Holding
<1>10. CASE Tick \/ Quiet \/ UNCHANGED vars
  BY <1>1, <1>10 DEF Tick, Quiet, vars
<1> QED BY <1>5, <1>6, <1>7, <1>8, <1>9, <1>10 DEF Next, Serve

(***************************************************************************)
(* Whoever holds an identity works under it, and the executor's own DELETE *)
(* and INSERT find nothing in their way: the rows that they write belong   *)
(* to that identity, and nobody else works under it.                       *)
(***************************************************************************)
THEOREM OwnStatementsAreFree == Spec => []OwnStatementsProceed
<1>1. IInv /\ HeldByWorker => OwnStatementsProceed
  <2> SUFFICES ASSUME IInv, HeldByWorker PROVE OwnStatementsProceed
    OBVIOUS
  <2>1. \A k \in Key : lock[k] # Nobody =>
           pc[lock[k]] \in InTransaction \ {"lock"} /\ input[lock[k]].key = k
    BY DEF HeldByWorker, Holding, InTransaction
  <2>2. ASSUME NEW r \in Request, NEW q \in Request \ {r}, pc[r] \in Holding, Keyed(r),
               pc[q] \in Holding, Keyed(q)
        PROVE  input[q].key # input[r].key
    BY <2>2 DEF IInv, Transactions, LockHeld
  <2>3. ASSUME NEW r \in Request, pc[r] = "purge" PROVE Deletable(r)
    <3>1. Keyed(r) /\ pc[r] \in Holding /\ found[r] = Existing(r)
      BY <2>3 DEF IInv, Transactions, KeyKnown, FoundRow, Holding
    <3>2. ASSUME NEW q \in Request \ {r} PROVE found[r] \cap staged[q].dropped = {}
      <4>1. CASE pc[q] \in Working /\ Keyed(q)
        <5>1. staged[q].dropped = Existing(q) /\ input[q].key # input[r].key
          BY <2>2, <3>1, <4>1 DEF IInv, Transactions, StagedWrites, Working, Holding
        <5> QED BY <3>1, <5>1 DEF Existing
      <4>2. CASE ~(pc[q] \in Working /\ Keyed(q))
        BY <4>2 DEF IInv, Transactions, StagedWrites
      <4> QED BY <4>1, <4>2
    <3> QED BY <3>1, <3>2 DEF Deletable, Existing
  <2>4. ASSUME NEW r \in Request, pc[r] = "store" PROVE UniqueAllows(r)
    <3>1. Keyed(r) /\ pc[r] \in Holding /\ staged[r].dropped = Existing(r)
      BY <2>4 DEF IInv, Transactions, KeyKnown, StagedWrites, Holding, Working
    <3>2. ASSUME NEW q \in Request \ {r}, NEW row \in staged[q].added
          PROVE  row.key # input[r].key
      <4>1. pc[q] = "commit" /\ Keyed(q)
        BY <3>2 DEF IInv, Transactions, StagedWrites
      <4>2. row.key = input[q].key
        BY <3>2, <4>1 DEF IInv, NewRow, NewRowOf
      <4> QED BY <2>2, <3>1, <4>1, <4>2 DEF Holding
    <3> QED BY <3>1, <3>2 DEF UniqueAllows
  <2> QED BY <2>1, <2>3, <2>4 DEF OwnStatementsProceed
<1> QED BY <1>1, HeldInitially, HeldStep, Invariance, PTL DEF Spec

(***************************************************************************)
(* A stored response leaves the table only after its lifetime: the rows a  *)
(* commit drops are those the transaction found expired.                   *)
(***************************************************************************)
THEOREM KeepsForLifetime == Spec => KeptForItsLifetime
<1>1. IInv /\ [Next]_vars => [\A row \in idem : row \notin idem' => ~Live(row)]_vars
  <2> SUFFICES ASSUME IInv, Next, NEW row \in idem, row \notin idem'
               PROVE  ~Live(row)
    OBVIOUS
  <2>1. PICK r \in Request : Commit(r)
    BY DEF Next, Refuse, Begin, Serve, AcquireLock, Lookup, Replay, DeleteExpired,
           Operate, WriteAudit, StoreResponse, Abort, Respond, LoseResponse, Tick,
           Quiet, vars
  <2>2. row \in Existing(r) /\ Keyed(r) /\ pc[r] = "commit"
    BY <2>1 DEF Commit, Publish, IInv, Transactions, StagedWrites
  <2>3. row.expiresAt <= now /\ row \in Row
    BY <2>2 DEF IInv, TypeOK, Transactions, OldExpired, Working
  <2> QED BY <2>3 DEF Live, Row, IInv, TypeOK
<1> QED BY <1>1, Invariance, PTL DEF Spec, KeptForItsLifetime
-----------------------------------------------------------------------------
(* The refinement: what a client sees of rows and responses.               *)

Records == [k \in Key |-> StoredRecord(k)]
Outcomes == [r \in Request |-> OutcomeOf(r)]

RecordOf(row) == [of |-> row.of, body |-> row.body, expiresAt |-> row.expiresAt]

\* The rows of one key decide its record.
LEMMA RecordIsRow ==
    ASSUME NEW k \in Key, NEW row, {o \in idem : o.key = k} = {row}
    PROVE  StoredRecord(k) = RecordOf(row)
  BY DEF StoredRecord, RecordOf

LEMMA NoRowNoRecord ==
    ASSUME NEW k \in Key, {o \in idem : o.key = k} = {}
    PROVE  StoredRecord(k) = Nobody
  BY DEF StoredRecord

LEMMA SameRecord ==
    ASSUME NEW k \in Key, {o \in idem : o.key = k}' = {o \in idem : o.key = k}
    PROVE  StoredRecord(k)' = StoredRecord(k)
  BY DEF StoredRecord

\* The row a request has found is the only one of its key, and its record.
LEMMA FoundRecord ==
    ASSUME IInv, NEW r \in Request, NEW row \in Existing(r), Keyed(r)
    PROVE  /\ Records[input[r].key] = RecordOf(row)
           /\ Records[input[r].key] # Nobody
<1>1. /\ row \in Row
      /\ {o \in idem : o.key = input[r].key} = {row}
  BY DEF Existing, IInv, TypeOK, Tables, OneStoredResponse
<1>2. Records[input[r].key] = RecordOf(row)
  BY <1>1, RecordIsRow DEF Records, Keyed
<1> QED BY <1>1, <1>2, NobodyAssumption DEF RecordOf, Row

\* Nobody else's outcome changes.
LEMMA OneOutcome ==
    ASSUME NEW r \in Request,
           \A q \in Request \ {r} : (q \in effects' <=> q \in effects) /\ reply'[q] = reply[q]
    PROVE  Outcomes' = [Outcomes EXCEPT ![r] = OutcomeOf(r)']
<1>1. \A q \in Request \ {r} : OutcomeOf(q)' = OutcomeOf(q)
  BY DEF OutcomeOf
<1> QED BY <1>1 DEF Outcomes

\* Until it has answered, a request is pending.
LEMMA Undecided ==
    ASSUME IInv, NEW r \in Request, pc[r] \in {"new"} \cup InTransaction
    PROVE  r \notin effects /\ Outcomes[r] = Command!Pending
  BY DEF IInv, Transactions, Finished, Outcomes, OutcomeOf, Command!Pending

\* A request that ends without an operation decides its own outcome and nothing else.
LEMMA Decides ==
    ASSUME IInv, NEW r \in Request, pc[r] \in {"new"} \cup InTransaction,
           NEW answer, reply' = [reply EXCEPT ![r] = answer],
           UNCHANGED <<input, idem, effects, now>>
    PROVE  /\ UNCHANGED <<input, Records, now>>
           /\ reply'[r] = answer /\ r \notin effects'
           /\ Outcomes[r] = Command!Pending
           /\ Outcomes' = [Outcomes EXCEPT ![r] = OutcomeOf(r)']
<1>1. Outcomes' = [Outcomes EXCEPT ![r] = OutcomeOf(r)']
  BY OneOutcome DEF IInv, TypeOK
<1>2. UNCHANGED Records
  BY DEF Records, StoredRecord
<1> QED BY <1>1, <1>2, Undecided DEF IInv, TypeOK

\* A request that fails, or is refused for its key, fails.
LEMMA FailStep ==
    ASSUME IInv, NEW r \in Request, Refuse(r) \/ Abort(r)
    PROVE  Command!Fail(r)
<1>1. PICK answer \in {[kind |-> "refused"], [kind |-> "error"]} :
        reply' = [reply EXCEPT ![r] = answer]
  BY DEF Refuse, Abort
<1>2. pc[r] \in {"new"} \cup InTransaction /\ UNCHANGED <<input, idem, effects, now>>
  BY DEF Refuse, Abort
<1>3. /\ UNCHANGED <<input, Records, now>>
      /\ reply'[r] = answer /\ r \notin effects'
      /\ Outcomes[r] = Command!Pending
      /\ Outcomes' = [Outcomes EXCEPT ![r] = OutcomeOf(r)']
  BY <1>1, <1>2, Decides
<1>4. OutcomeOf(r)' = Command!Failed
  BY <1>1, <1>3 DEF OutcomeOf, Command!Failed
<1> QED BY <1>3, <1>4 DEF Command!Fail, Command!Ends, Records, Outcomes

\* The only answer the lookup gives itself is the refusal of another body's key.
LEMMA LookupDecides ==
    ASSUME IInv, NEW r \in Request, Lookup(r)
    PROVE  \/ \E k \in Key : Command!RefuseReuse(r, k)
           \/ UNCHANGED <<input, idem, effects, reply, now>>
<1>1. ASSUME NEW row \in Existing(r), FoundOtherBody(r, row)
      PROVE  Command!RefuseReuse(r, input[r].key)
  <2>1. Keyed(r)
    BY DEF Lookup, IInv, Transactions, KeyKnown
  <2>2. /\ Records[input[r].key] = RecordOf(row)
        /\ Records[input[r].key] # Nobody
    BY <1>1, <2>1, FoundRecord
  <2>3. /\ pc[r] \in {"new"} \cup InTransaction
        /\ reply' = [reply EXCEPT ![r] = [kind |-> "conflict"]]
        /\ UNCHANGED <<input, idem, effects, now>>
    BY <1>1 DEF Lookup, FoundOtherBody, InTransaction
  <2>4. /\ UNCHANGED <<input, Records, now>>
        /\ reply'[r] = [kind |-> "conflict"] /\ r \notin effects'
        /\ Outcomes[r] = Command!Pending
        /\ Outcomes' = [Outcomes EXCEPT ![r] = OutcomeOf(r)']
    BY <2>3, Decides
  <2>5. OutcomeOf(r)' = Command!Conflict
    BY <2>4 DEF OutcomeOf, Command!Conflict
  <2>6. RecordOf(row).body # input[r].body /\ RecordOf(row).expiresAt > now
    BY <1>1 DEF FoundOtherBody, Live, RecordOf
  <2> QED BY <2>2, <2>4, <2>5, <2>6
          DEF Command!RefuseReuse, Command!Ends, Records, Outcomes
<1>2. CASE \E row \in Existing(r) : FoundOtherBody(r, row)
  <2>1. Keyed(r)
    BY DEF Lookup, IInv, Transactions, KeyKnown
  <2> QED BY <1>1, <1>2, <2>1 DEF Keyed
<1>3. CASE ~\E row \in Existing(r) : FoundOtherBody(r, row)
  BY <1>3 DEF Lookup, FoundNothing, FoundExpired, FoundSameBody
<1> QED BY <1>2, <1>3

\* A replay answers with the record of an equal command.
LEMMA ReplayDecides ==
    ASSUME IInv, NEW r \in Request, Replay(r)
    PROVE  \E k \in Key : Command!ReplayKeyed(r, k)
<1>1. PICK row \in found[r] :
        reply' = [reply EXCEPT ![r] = [kind |-> "replayed", of |-> row.of]]
  BY DEF Replay
<1>2. Keyed(r) /\ row \in Existing(r) /\ row.body = input[r].body
  BY DEF Replay, IInv, Transactions, FoundRow, KeyKnown, Existing
<1>3. /\ Records[input[r].key] = RecordOf(row)
      /\ Records[input[r].key] # Nobody
  BY <1>2, FoundRecord
<1>4. pc[r] \in {"new"} \cup InTransaction /\ UNCHANGED <<input, idem, effects, now>>
  BY DEF Replay, InTransaction
<1>5. /\ UNCHANGED <<input, Records, now>>
      /\ reply'[r] = [kind |-> "replayed", of |-> row.of] /\ r \notin effects'
      /\ Outcomes[r] = Command!Pending
      /\ Outcomes' = [Outcomes EXCEPT ![r] = OutcomeOf(r)']
  BY <1>1, <1>4, Decides
<1>6. OutcomeOf(r)' = Command!Replayed(RecordOf(row).of)
  BY <1>5 DEF OutcomeOf, Command!Replayed, RecordOf
<1>7. RecordOf(row).body = input[r].body
  BY <1>2 DEF RecordOf
<1>8. Command!ReplayKeyed(r, input[r].key)
  BY <1>3, <1>5, <1>6, <1>7 DEF Command!ReplayKeyed, Command!Ends, Records, Outcomes
<1> QED BY <1>2, <1>8 DEF Keyed

(***************************************************************************)
(* A commit executes the command.  Its record dates from the moment the    *)
(* response was stored, when the old record had expired.                   *)
(***************************************************************************)
LEMMA CommitDecides ==
    ASSUME IInv, NEW r \in Request, Commit(r)
    PROVE  \/ \E k \in Key, since \in 0 .. now : Command!ExecuteKeyed(r, k, since)
           \/ Command!ExecuteUnkeyed(r)
<1>1. /\ pc[r] = "commit" /\ effects' = effects \cup {r}
      /\ idem' = (idem \ staged[r].dropped) \cup staged[r].added
      /\ UNCHANGED <<input, now>>
  BY DEF Commit, Publish, IInv, Transactions, StagedWrites
<1>2. Outcomes[r] = Command!Pending
  BY <1>1, Undecided DEF InTransaction
<1>3. Outcomes' = [Outcomes EXCEPT ![r] = Command!Executed]
  <2>1. \A q \in Request \ {r} : reply'[q] = reply[q]
    BY DEF Commit, IInv, TypeOK
  <2>2. Outcomes' = [Outcomes EXCEPT ![r] = OutcomeOf(r)']
    BY <1>1, <2>1, OneOutcome
  <2>3. OutcomeOf(r)' = Command!Executed
    BY <1>1 DEF OutcomeOf, Command!Executed
  <2> QED BY <2>2, <2>3
<1>4. CASE ~Keyed(r)
  <2>1. input[r].key \in {NoKey, BadKey}
    BY <1>4 DEF IInv, TypeOK, Input, Keyed
  <2>2. UNCHANGED Records
    BY <1>1, <1>4 DEF IInv, Transactions, StagedWrites, Records, StoredRecord
  <2> QED BY <1>1, <1>2, <1>3, <2>1, <2>2
          DEF Command!ExecuteUnkeyed, Command!Ends, Records, Outcomes
<1>5. CASE Keyed(r)
  <2>0. PICK k \in Key : k = input[r].key
    BY <1>5 DEF Keyed
  <2>1. PICK row \in Row : NewRowOf(r, row)
    BY <1>1, <1>5 DEF IInv, NewRow
  <2>2. idem' = (idem \ Existing(r)) \cup {row} /\ row.key = k
    BY <1>1, <1>5, <2>0, <2>1 DEF NewRowOf, IInv, Transactions, StagedWrites, Working
  <2>3. PICK since \in 0 .. now : row.expiresAt = since + TTL
    <3>1. row.expiresAt - TTL \in 0 .. now /\ row.expiresAt = (row.expiresAt - TTL) + TTL
      BY <2>1, TimeAssumption DEF NewRowOf, IInv, TypeOK
    <3> QED BY <3>1
  <2>4. Records' = [Records EXCEPT ![k] = RecordOf(row)]
    <3>1. StoredRecord(k)' = RecordOf(row)
      <4>1. {o \in idem' : o.key = k} = {row}
        BY <2>0, <2>2 DEF Existing
      <4> QED BY <4>1 DEF StoredRecord, RecordOf
    <3>2. ASSUME NEW j \in Key, j # k PROVE StoredRecord(j)' = StoredRecord(j)
      <4>1. {o \in idem : o.key = j}' = {o \in idem : o.key = j}
        BY <2>0, <2>2, <3>2 DEF Existing
      <4> QED BY <4>1, SameRecord
    <3> QED BY <3>1, <3>2 DEF Records
  <2>5. Records[k] = Nobody \/ Records[k].expiresAt <= since
    <3>1. CASE Existing(r) = {}
      BY <2>0, <3>1, NoRowNoRecord DEF Records, Existing
    <3>2. ASSUME NEW old \in Existing(r) PROVE Records[k].expiresAt <= since
      <4>1. Records[k] = RecordOf(old) /\ old \in Row
        BY <1>5, <2>0, FoundRecord DEF Existing, IInv, TypeOK
      <4>2. old.expiresAt + TTL <= since + TTL
        BY <2>1, <2>3 DEF NewRowOf
      <4>3. old.expiresAt <= since
        BY <4>1, <4>2, TimeAssumption DEF Row, IInv, TypeOK
      <4> QED BY <4>1, <4>3 DEF RecordOf
    <3> QED BY <3>1, <3>2
  <2>6. RecordOf(row) = [of |-> r, body |-> input[r].body, expiresAt |-> since + TTL]
    BY <2>0, <2>1, <2>3 DEF NewRowOf, RecordOf
  <2>7. since <= now
    BY <2>3 DEF IInv, TypeOK
  <2>8. Command!ExecuteKeyed(r, k, since)
    BY <1>1, <1>2, <1>3, <2>0, <2>4, <2>5, <2>6, <2>7
       DEF Command!ExecuteKeyed, Command!Ends, Records, Outcomes
  <2> QED BY <2>8
<1> QED BY <1>4, <1>5

\* Every other step of the executor changes nothing a client could tell apart.
LEMMA Unseen ==
    ASSUME UNCHANGED <<input, idem, effects, reply, now>>
    PROVE  UNCHANGED Command!vars
  BY DEF Command!vars, StoredRecord, OutcomeOf

LEMMA CommandInitially == Init => Command!Init
<1> SUFFICES ASSUME Init PROVE Command!Init
  OBVIOUS
<1>1. input \in [Request -> [key: Key \cup {NoKey, BadKey}, body: Body]] /\ now = 0
  BY DEF Init, Input
<1>2. \A k \in Key : StoredRecord(k) = Nobody
  BY NoRowNoRecord DEF Init
<1>3. \A r \in Request : OutcomeOf(r) = Command!Pending
  BY DEF Init, OutcomeOf, Command!Pending
<1> QED BY <1>1, <1>2, <1>3 DEF Command!Init

LEMMA CommandStep == IInv /\ [Next]_vars => [Command!Next]_(Command!vars)
<1> SUFFICES ASSUME IInv, [Next]_vars
             PROVE  Command!Next \/ UNCHANGED Command!vars
  OBVIOUS
<1>1. ASSUME NEW r \in Request, Refuse(r) \/ Abort(r) PROVE Command!Next
  BY <1>1, FailStep DEF Command!Next
<1>2. ASSUME NEW r \in Request, Lookup(r)
      PROVE  Command!Next \/ UNCHANGED Command!vars
  BY <1>2, LookupDecides, Unseen DEF Command!Next
<1>3. ASSUME NEW r \in Request, Replay(r) PROVE Command!Next
  BY <1>3, ReplayDecides DEF Command!Next
<1>4. ASSUME NEW r \in Request, Commit(r) PROVE Command!Next
  BY <1>4, CommitDecides DEF Command!Next
<1>5. ASSUME NEW r \in Request,
             \/ Begin(r) \/ AcquireLock(r) \/ DeleteExpired(r) \/ Operate(r)
             \/ WriteAudit(r) \/ StoreResponse(r) \/ Respond(r) \/ LoseResponse(r)
      PROVE  UNCHANGED Command!vars
  BY <1>5, Unseen
     DEF Begin, AcquireLock, DeleteExpired, Operate, WriteAudit, StoreResponse,
         Respond, LoseResponse
<1>6. CASE Tick
  <2>1. now' = now + 1 /\ UNCHANGED <<input, idem, effects, reply>>
    BY <1>6 DEF Tick
  <2>2. UNCHANGED <<Records, Outcomes>>
    BY <2>1 DEF Records, Outcomes, StoredRecord, OutcomeOf
  <2> QED BY <2>1, <2>2 DEF Command!Next, Command!Tick, Records, Outcomes
<1>7. CASE Quiet \/ UNCHANGED vars
  BY <1>7, Unseen DEF Quiet, vars
<1> QED BY <1>1, <1>2, <1>3, <1>4, <1>5, <1>6, <1>7 DEF Next, Serve

(***************************************************************************)
(* What executeMutation does with transactions, the advisory lock and the  *)
(* stored rows is what IdempotentCommand promises a client.                *)
(***************************************************************************)
THEOREM CommandImplemented == Spec => ImplementsCommand
  BY CommandInitially, CommandStep, Invariance, PTL DEF Spec, ImplementsCommand, Command!Spec

-----------------------------------------------------------------------------
(* What a client of executeMutation may therefore rely on.                  *)

Promise == INSTANCE IdempotentCommandProofs WITH
    Unkeyed <- {NoKey, BadKey},
    NoRecord <- Nobody,
    record <- [k \in Key |-> StoredRecord(k)],
    outcome <- [r \in Request |-> OutcomeOf(r)]

LEMMA SamePromise ==
    /\ Command!Init => Promise!Init
    /\ Command!Next => Promise!Next
    /\ UNCHANGED Command!vars => UNCHANGED Promise!vars
<1>1. Command!Init => Promise!Init
  BY DEF Command!Init, Promise!Init, Command!Pending, Promise!Pending
<1>2. Command!Next => Promise!Next
  BY DEF Command!Next, Promise!Next, Command!ExecuteKeyed, Promise!ExecuteKeyed, Command!ExecuteUnkeyed, Promise!ExecuteUnkeyed, Command!ReplayKeyed, Promise!ReplayKeyed, Command!RefuseReuse, Promise!RefuseReuse, Command!Fail, Promise!Fail, Command!Tick, Promise!Tick, Command!Ends, Promise!Ends, Command!Pending, Promise!Pending, Command!Executed, Promise!Executed, Command!Replayed, Promise!Replayed, Command!Conflict, Promise!Conflict, Command!Failed, Promise!Failed
<1>3. UNCHANGED Command!vars => UNCHANGED Promise!vars
  BY DEF Command!vars, Promise!vars
<1> QED BY <1>1, <1>2, <1>3

LEMMA PromiseKept == Spec => Promise!Spec
<1>1. Init => Promise!Init
  BY CommandInitially, SamePromise
<1>2. IInv /\ [Next]_vars => [Promise!Next]_(Promise!vars)
  BY CommandStep, SamePromise
<1> QED BY <1>1, <1>2, Invariance, PTL DEF Spec, Promise!Spec

\* What became of a request, once decided, no later commit, abort or retry changes.
THEOREM AnswersNeverChange == Spec => Promise!AnswersAreFinal
BY PromiseKept, Promise!AnswersStay, PTL

\* The stored response of an identity gives way only after its lifetime.
THEOREM RecordsOutlive == Spec => Promise!RecordsLastALifetime
<1>1. Promise!Spec => Promise!RecordsLastALifetime
  BY TimeAssumption, Promise!RecordsStay
<1> QED BY <1>1, PromiseKept, PTL
=============================================================================
