--------------------- MODULE AttachmentLifecycleProofs ---------------------
(***************************************************************************)
(* Proofs about AttachmentLifecycle for any number of attachments, users,  *)
(* requests, workers and rows per cleanup.                                 *)
(*                                                                         *)
(* Two things carry them: whoever marks a row has looked at its object, or *)
(* deleted it, before (Prepared, Cleaning), and that remains true whatever *)
(* others do meanwhile (VerifiedStays); and a row being created is nobody  *)
(* else's yet (Creating), so that a new row was never deleted.             *)
(***************************************************************************)
EXTENDS AttachmentLifecycle, TLAPS

\* The object was the declared one, and may have been deleted or overwritten since.
Verified(a) == object[a] = "declared" \/ wiped[a] # "never" \/ a \in overwritten

\* What the position of a request says of its operation and its attachment.
Position(t) ==
    /\ t.at = "idle" <=> t.id = None
    /\ t.at = "create" => t.op = "upload" /\ t.user \in User /\ uploader[t.id] = None
    /\ t.at \notin {"idle", "create"} => uploader[t.id] # None
    /\ t.at = "access" => t.op \in {"complete", "download", "remove"}
    /\ t.at = "head" => t.op = "complete"
    /\ t.at = "delete" => t.op = "remove"
    /\ t.at \in {"write", "commit"} => t.op \in {"complete", "remove"}
    /\ ~t.late

\* A row that is being created is nobody else's business.
Creating(h, t) ==
    t.at = "create" => \A g \in Handler \ {h} : tx[g].id # t.id

\* A request changes a row only after it has looked at or deleted the object.
Prepared(t) ==
    t.at \in {"write", "commit"} =>
       /\ t.op = "complete" => Verified(t.id)
       /\ t.op = "remove" => wiped[t.id] # "never"

Sound(h, t) == Position(t) /\ Creating(h, t) /\ Prepared(t)

Requests == \A h \in Handler : Sound(h, tx[h])

\* Cleanups work on old rows, and delete the object first.
Cleaning ==
    \A w \in Worker :
       /\ \A a \in worker[w].batch : age[a] = 2 /\ status[a] # None
       /\ worker[w].row # None => wiped[worker[w].row] # "never"
                                     /\ status[worker[w].row] # None

Row(a) ==
    /\ status[a] = "DELETED" => a \in deleted
    /\ status[a] = "READY" => Verified(a)
    /\ a \in deleted => wiped[a] # "never"
    /\ wiped[a] = "finally" => object[a] = "absent" /\ age[a] # 0

Rows == \A a \in Attachment : Row(a)

IInv == TypeOK /\ Requests /\ Cleaning /\ Rows
-----------------------------------------------------------------------------
store == <<rows, object, age, role, worker, wiped, overwritten>>

\* A step of h that changes nothing but its own position.
LEMMA OwnStep ==
    ASSUME IInv, NEW h \in Handler, NEW t \in Tx, Sound(h, t),
           \A g \in Handler \ {h} : tx[g].at = "create" => tx[g].id # t.id,
           tx' = [tx EXCEPT ![h] = t], UNCHANGED store
    PROVE  IInv'
<1>1. TypeOK'
  BY DEF IInv, TypeOK, rows, store
<1>2. Requests'
  <2> SUFFICES ASSUME NEW g \in Handler PROVE Sound(g, tx[g])'
    BY DEF Requests
  <2>1. CASE g = h
    BY <2>1 DEF IInv, TypeOK, rows, store, Sound, Position, Creating, Prepared, Verified
  <2>2. CASE g # h
    <3>1. tx'[g] = tx[g] /\ tx'[h] = t /\ Sound(g, tx[g])
      BY <2>2 DEF IInv, TypeOK, Requests
    <3>2. Position(tx[g])' /\ Prepared(tx[g])'
      BY <3>1 DEF rows, store, Sound, Position, Prepared, Verified
    <3>3. Creating(g, tx[g])'
      BY <2>2, <3>1 DEF IInv, TypeOK, Sound, Creating
    <3> QED BY <3>2, <3>3 DEF Sound
  <2> QED BY <2>1, <2>2
<1>3. Cleaning' /\ Rows'
  BY DEF IInv, Cleaning, Rows, Row, Verified, rows, store
<1> QED BY <1>1, <1>2, <1>3 DEF IInv

LEMMA IdleSound ==
    /\ Idle \in Tx
    /\ \A h \in Handler : IInv =>
          /\ Sound(h, Idle)
          /\ \A g \in Handler : tx[g].at = "create" => tx[g].id # Idle.id
  BY DEF Idle, Tx, Op, At, Sound, Position, Creating, Prepared, IInv, Requests

LEMMA EndsStep ==
    ASSUME IInv, NEW h \in Handler, Ends(h), UNCHANGED store PROVE IInv'
  BY IdleSound, OwnStep DEF Ends

LEMMA GoesStep ==
    ASSUME IInv, NEW h \in Handler, NEW at \in At \ {"idle", "create"},
           tx[h].at \notin {"idle", "create"},
           Sound(h, [tx[h] EXCEPT !.at = at]), Goes(h, at), UNCHANGED store
    PROVE  IInv'
<1> DEFINE t == [tx[h] EXCEPT !.at = at]
<1>1. t \in Tx /\ t.id = tx[h].id /\ t.at = at
  BY DEF IInv, TypeOK, Tx
<1>2. \A g \in Handler \ {h} : tx[g].at = "create" => tx[g].id # t.id
  BY <1>1 DEF IInv, Requests, Sound, Creating
<1>3. tx' = [tx EXCEPT ![h] = t]
  BY DEF Goes
<1> HIDE DEF t
<1>4. Sound(h, t)
  BY DEF t
<1> QED BY <1>1, <1>2, <1>3, <1>4, OwnStep

LEMMA BeginStep ==
    ASSUME IInv, NEW h \in Handler, NEW u \in User, NEW a \in Attachment,
           Request(h, u, a)
    PROVE  IInv'
<1> USE NoneAssumption
<1>1. ASSUME BeginUpload(h, u, a) PROVE IInv'
  <2> DEFINE t == [Idle EXCEPT !.op = "upload", !.at = "create", !.user = u, !.id = a]
  <2>1. t \in Tx /\ Sound(h, t)
    BY <1>1 DEF BeginUpload, Idle, Tx, Op, At, Sound, Position, Creating, Prepared
  <2>2. \A g \in Handler \ {h} : tx[g].at = "create" => tx[g].id # t.id
    BY <1>1 DEF BeginUpload, Idle
  <2> QED BY <1>1, <2>1, <2>2, OwnStep DEF BeginUpload, store
<1>2. ASSUME NEW op \in {"complete", "download", "remove"}, Find(h, op, u, a) PROVE IInv'
  <2> DEFINE t == [op |-> op, at |-> "access", user |-> u, id |-> a, found |-> status[a],
                   late |-> a \in deleted, changed |-> FALSE]
  <2>1. t \in Tx /\ Sound(h, t)
    <3>1. status[a] \in Status \cup {None}
      BY DEF IInv, TypeOK
    <3>2. t \in Tx
      BY <3>1 DEF Tx, Op, At
    <3>3. Sound(h, t)
      BY <1>2 DEF Find, Sound, Position, Creating, Prepared
    <3> QED BY <3>2, <3>3
  <2>2. \A g \in Handler \ {h} : tx[g].at = "create" => tx[g].id # t.id
    BY <1>2 DEF Find, IInv, Requests, Sound, Position
  <2> QED BY <1>2, <2>1, <2>2, OwnStep DEF Find, store
<1> QED BY <1>1, <1>2 DEF Request

LEMMA AccessStep == ASSUME IInv, NEW h \in Handler, Access(h) PROVE IInv'
<1> DEFINE t == tx[h]
           at == CASE t.op = "complete" -> "head"
                   [] t.op = "download" -> "presign"
                   [] t.op = "remove"   -> "delete"
<1>1. UNCHANGED store
  BY DEF Access, store
<1>2. CASE Ends(h)
  BY <1>1, <1>2, EndsStep
<1>3. CASE Goes(h, at)
  <2>1. t \in Tx /\ t.at = "access" /\ Sound(h, t)
    BY DEF Access, IInv, TypeOK, Requests
  <2>2. at \in At \ {"idle", "create"}
    BY <2>1 DEF At, Sound, Position
  <2>3. Sound(h, [tx[h] EXCEPT !.at = at])
    BY <2>1 DEF Sound, Position, Creating, Prepared, Tx
  <2> QED BY <1>1, <1>3, <2>1, <2>2, <2>3, GoesStep
<1> QED BY <1>2, <1>3 DEF Access

LEMMA HeadStep == ASSUME IInv, NEW h \in Handler, Head(h) PROVE IInv'
<1>1. UNCHANGED store
  BY DEF Head, store
<1>2. CASE Ends(h)
  BY <1>1, <1>2, EndsStep
<1>3. CASE object[tx[h].id] = "declared" /\ Goes(h, "write")
  <2>1. tx[h] \in Tx /\ tx[h].at = "head" /\ Sound(h, tx[h])
    BY DEF Head, IInv, TypeOK, Requests
  <2>2. Sound(h, [tx[h] EXCEPT !.at = "write"])
    BY <1>3, <2>1 DEF Sound, Position, Creating, Prepared, Verified, Tx
  <2> QED BY <1>1, <1>3, <2>1, <2>2, GoesStep DEF At
<1> QED BY <1>2, <1>3 DEF Head

LEMMA WriteStep == ASSUME IInv, NEW h \in Handler, Write(h) PROVE IInv'
<1>1. tx[h] \in Tx /\ tx[h].at = "write" /\ Sound(h, tx[h])
  BY DEF Write, IInv, TypeOK, Requests
<1>2. Sound(h, [tx[h] EXCEPT !.at = "commit"])
  BY <1>1 DEF Sound, Position, Creating, Prepared, Tx
<1> QED BY <1>1, <1>2, GoesStep DEF Write, store, At
-----------------------------------------------------------------------------
(* Steps that change rows or objects.                                      *)

\* What is never undone.
Onward ==
    \A a \in Attachment :
       /\ uploader[a] # None => uploader'[a] # None
       /\ Verified(a) => Verified(a)'
       /\ wiped[a] # "never" => wiped'[a] # "never"

\* A request keeps its place and its attachment.
SamePlace(t, new) ==
    /\ new.at = t.at /\ new.op = t.op /\ new.id = t.id /\ new.user = t.user
    /\ new.late = t.late

\* A request stays sound while rows go onward, whoever of the others ends.
LEMMA SoundStays ==
    ASSUME IInv, Onward, NEW g \in Handler,
           tx'[g] = Idle \/ SamePlace(tx[g], tx'[g]),
           \A f \in Handler : tx'[f].id \in {None, tx[f].id},
           tx[g].at = "create" /\ tx'[g] # Idle =>
              uploader'[tx[g].id] = uploader[tx[g].id]
    PROVE  Sound(g, tx[g])'
<1> USE NoneAssumption
<1>1. tx[g] \in Tx /\ Sound(g, tx[g])
  BY DEF IInv, TypeOK, Requests
<1>2. CASE tx'[g] = Idle
  BY <1>2 DEF Idle, Sound, Position, Creating, Prepared
<1>3. CASE tx'[g] # Idle
  <2>1. SamePlace(tx[g], tx'[g])
    BY <1>3
  <2>2. tx[g].at # "idle" => tx[g].id \in Attachment
    BY <1>1 DEF Sound, Position, Tx
  <2>3. Position(tx[g])'
    BY <1>1, <1>3, <2>1, <2>2 DEF SamePlace, Sound, Position, Onward
  <2>4. Creating(g, tx[g])'
    BY <1>1, <2>1, <2>2 DEF SamePlace, Sound, Creating
  <2>5. Prepared(tx[g])'
    BY <1>1, <2>1, <2>2 DEF SamePlace, Sound, Prepared, Onward, Verified
  <2> QED BY <2>3, <2>4, <2>5 DEF Sound
<1> QED BY <1>2, <1>3

\* The request of h ends, and the others have not been creating the row it writes.
LEMMA EndingStep ==
    ASSUME IInv, NEW h \in Handler, Ends(h), Onward,
           \A g \in Handler \ {h} :
              tx[g].at = "create" => uploader'[tx[g].id] = uploader[tx[g].id]
    PROVE  Requests'
<1> SUFFICES ASSUME NEW g \in Handler PROVE Sound(g, tx[g])'
  BY DEF Requests
<1>1. tx'[h] = Idle /\ \A f \in Handler \ {h} : tx'[f] = tx[f]
  BY DEF Ends, IInv, TypeOK
<1>2. \A f \in Handler : tx'[f].id \in {None, tx[f].id}
  BY <1>1 DEF Idle
<1>3. tx'[g] = Idle \/ SamePlace(tx[g], tx'[g])
  BY <1>1 DEF SamePlace
<1>4. tx[g].at = "create" /\ tx'[g] # Idle => uploader'[tx[g].id] = uploader[tx[g].id]
  BY <1>1
<1> QED BY <1>2, <1>3, <1>4, SoundStays

\* No request takes part.
LEMMA OutsideStep ==
    ASSUME IInv, Onward, UNCHANGED <<tx, uploader>> PROVE Requests'
<1> SUFFICES ASSUME NEW g \in Handler PROVE Sound(g, tx[g])'
  BY DEF Requests
<1>1. SamePlace(tx[g], tx'[g]) /\ \A f \in Handler : tx'[f].id \in {None, tx[f].id}
  BY DEF SamePlace
<1> QED BY <1>1, SoundStays

LEMMA CommitUploadStep == ASSUME IInv, NEW h \in Handler, CommitUpload(h) PROVE IInv'
<1> DEFINE a == tx[h].id
<1> USE NoneAssumption
<1>1. /\ a \in Attachment /\ uploader[a] = None /\ tx[h].user \in User
      /\ \A g \in Handler \ {h} : tx[g].id # a
  BY DEF CommitUpload, IInv, TypeOK, Requests, Sound, Position, Creating, Tx
<1>2. status[a] = None /\ a \notin deleted
  BY <1>1 DEF IInv, TypeOK, Status
<1>3. TypeOK'
  BY <1>1, <1>2, IdleSound DEF CommitUpload, Ends, IInv, TypeOK, Status
<1>4. Onward
  BY <1>1 DEF CommitUpload, Onward, Verified, IInv, TypeOK
<1>5. Requests'
  <2>1. \A g \in Handler \ {h} :
           tx[g].at = "create" => uploader'[tx[g].id] = uploader[tx[g].id]
    BY <1>1 DEF CommitUpload, IInv, TypeOK
  <2> QED BY <1>4, <2>1, EndingStep DEF CommitUpload
<1>6. Cleaning'
  BY <1>1 DEF CommitUpload, IInv, TypeOK, Cleaning, Status
<1>7. Rows'
  BY <1>1, <1>2 DEF CommitUpload, IInv, TypeOK, Rows, Row, Verified
<1> QED BY <1>3, <1>5, <1>6, <1>7 DEF IInv

LEMMA DeleteObjectStep == ASSUME IInv, NEW h \in Handler, DeleteObject(h) PROVE IInv'
<1> DEFINE a == tx[h].id
<1> USE NoneAssumption
<1>1. tx[h] \in Tx /\ Sound(h, tx[h]) /\ tx[h].at = "delete" /\ tx[h].op = "remove"
  BY DEF DeleteObject, IInv, TypeOK, Requests, Sound, Position
<1>2. a \in Attachment
  BY <1>1 DEF Sound, Position, Tx
<1>3. tx' = [tx EXCEPT ![h].at = "write"] /\ tx'[h] = [tx[h] EXCEPT !.at = "write"]
  BY DEF DeleteObject, Goes, IInv, TypeOK
<1>4. tx'[h] \in Tx /\ tx'[h].at = "write" /\ tx'[h].op = "remove" /\ tx'[h].id = a
      /\ tx'[h].late = tx[h].late
  BY <1>1, <1>3 DEF Tx, At
<1>5. TypeOK'
  BY <1>2, <1>3, <1>4 DEF DeleteObject, Wipe, IInv, TypeOK, rows, Object
<1>6. Onward
  BY DEF DeleteObject, Wipe, rows, Onward, Verified, IInv, TypeOK
<1>7. Requests'
  <2> SUFFICES ASSUME NEW g \in Handler PROVE Sound(g, tx[g])'
    BY DEF Requests
  <2>1. \A f \in Handler : tx'[f].id = tx[f].id
    BY <1>3, <1>4 DEF IInv, TypeOK
  <2>2. CASE g = h
    <3>1. wiped'[a] # "never" /\ uploader'[a] # None
      BY <1>1, <1>2 DEF DeleteObject, Wipe, rows, IInv, TypeOK, Sound, Position
    <3> QED BY <1>1, <1>2, <1>4, <2>2, <3>1 DEF Sound, Position, Creating, Prepared
  <2>3. CASE g # h
    <3>1. SamePlace(tx[g], tx'[g])
      BY <1>3, <2>3 DEF SamePlace, IInv, TypeOK
    <3>2. uploader' = uploader
      BY DEF DeleteObject, rows
    <3> QED BY <1>6, <2>1, <3>1, <3>2, SoundStays
  <2> QED BY <2>2, <2>3
<1>8. Cleaning'
  BY <1>6 DEF DeleteObject, Wipe, rows, IInv, TypeOK, Cleaning, Cleanup, Onward
<1>9. Rows'
  BY <1>2 DEF DeleteObject, Wipe, rows, IInv, TypeOK, Rows, Row, Verified
<1> QED BY <1>5, <1>7, <1>8, <1>9 DEF IInv

LEMMA CommitCompletionStep ==
    ASSUME IInv, NEW h \in Handler, CommitCompletion(h) PROVE IInv'
<1> DEFINE a == tx[h].id
<1> USE NoneAssumption
<1>1. a \in Attachment /\ uploader[a] # None /\ Verified(a)
  BY DEF CommitCompletion, IInv, TypeOK, Requests, Sound, Position, Prepared, Tx
<1>2. TypeOK'
  BY <1>1, IdleSound DEF CommitCompletion, Ends, IInv, TypeOK, Status
<1>3. Onward
  BY DEF CommitCompletion, Onward, Verified
<1>4. Requests'
  BY <1>3, EndingStep DEF CommitCompletion
<1>5. Cleaning'
  BY DEF CommitCompletion, IInv, TypeOK, Cleaning, Status
<1>6. Rows'
  BY <1>1 DEF CommitCompletion, IInv, TypeOK, Rows, Row, Verified
<1> QED BY <1>2, <1>4, <1>5, <1>6 DEF IInv

LEMMA CommitRemovalStep ==
    ASSUME IInv, NEW h \in Handler, CommitRemoval(h) PROVE IInv'
<1> DEFINE a == tx[h].id
<1> USE NoneAssumption
<1>1. a \in Attachment /\ uploader[a] # None /\ wiped[a] # "never"
  BY DEF CommitRemoval, IInv, TypeOK, Requests, Sound, Position, Prepared, Tx
<1>2. TypeOK'
  BY <1>1, IdleSound DEF CommitRemoval, Ends, IInv, TypeOK, Status
<1>3. Onward
  BY DEF CommitRemoval, Onward, Verified
<1>4. Requests'
  BY <1>3, EndingStep DEF CommitRemoval
<1>5. Cleaning'
  BY DEF CommitRemoval, IInv, TypeOK, Cleaning, Status
<1>6. Rows'
  BY <1>1 DEF CommitRemoval, IInv, TypeOK, Rows, Row, Verified
<1> QED BY <1>2, <1>4, <1>5, <1>6 DEF IInv

\* A worker that rests or starts, and nothing else.
LEMMA WorkerStep ==
    ASSUME IInv, NEW w \in Worker, NEW c \in Cleanup,
           \A a \in c.batch : age[a] = 2 /\ status[a] # None,
           c.row = None,
           worker' = [worker EXCEPT ![w] = c],
           UNCHANGED <<rows, object, age, role, tx, wiped, overwritten>>
    PROVE  IInv'
<1>1. TypeOK'
  BY DEF IInv, TypeOK, rows
<1>2. Requests'
  BY OutsideStep DEF Onward, Verified, rows
<1>3. Cleaning'
  BY DEF rows, IInv, TypeOK, Cleaning
<1>4. Rows'
  BY DEF rows, IInv, Rows, Row, Verified
<1> QED BY <1>1, <1>2, <1>3, <1>4 DEF IInv

LEMMA CleanupStartsStep == ASSUME IInv, NEW w \in Worker, CleanupStarts(w) PROVE IInv'
<1> USE NoneAssumption
<1>1. PICK batch \in SUBSET {a \in Attachment : Stale(a)} :
         worker' = [worker EXCEPT ![w] = [running |-> TRUE, batch |-> batch, row |-> None]]
  BY DEF CleanupStarts
<1> DEFINE c == [running |-> TRUE, batch |-> batch, row |-> None]
<1>2. c \in Cleanup /\ \A a \in c.batch : age[a] = 2 /\ status[a] # None
  BY DEF Cleanup, Stale, Status
<1> QED BY <1>1, <1>2, WorkerStep DEF CleanupStarts

LEMMA CleanupStopsStep ==
    ASSUME IInv, NEW w \in Worker, CleanupEnds(w) \/ CleanupFails(w) PROVE IInv'
<1>1. Resting \in Cleanup /\ Resting.batch = {} /\ Resting.row = None
  BY DEF Resting, Cleanup
<1> QED BY <1>1, WorkerStep DEF CleanupEnds, CleanupFails

LEMMA DeleteStoredStep ==
    ASSUME IInv, NEW w \in Worker, NEW a \in Attachment, DeleteStored(w, a) PROVE IInv'
<1> DEFINE c == [worker[w] EXCEPT !.batch = @ \ {a}, !.row = a]
<1> USE NoneAssumption
<1>1. /\ age[a] = 2 /\ status[a] # None /\ worker[w] \in Cleanup
      /\ worker' = [worker EXCEPT ![w] = c]
  BY DEF DeleteStored, IInv, TypeOK, Cleaning
<1>2. c \in Cleanup /\ c.batch \subseteq worker[w].batch /\ c.row = a
  BY <1>1 DEF Cleanup
<1>3. /\ object' = [object EXCEPT ![a] = "absent"]
      /\ wiped' = [wiped EXCEPT ![a] = "finally"]
      /\ UNCHANGED <<rows, age, role, tx, overwritten>>
  BY DEF DeleteStored, Wipe
<1> HIDE DEF c
<1>4. TypeOK'
  BY <1>1, <1>2, <1>3 DEF IInv, TypeOK, rows, Object
<1>5. Onward
  BY <1>3 DEF rows, Onward, Verified, IInv, TypeOK
<1>6. Requests'
  BY <1>3, <1>5, OutsideStep DEF rows
<1>7. Cleaning'
  BY <1>1, <1>2, <1>3, <1>5 DEF rows, IInv, TypeOK, Cleaning, Onward, Cleanup
<1>8. Rows'
  BY <1>1, <1>3 DEF rows, IInv, TypeOK, Rows, Row, Verified
<1> QED BY <1>4, <1>6, <1>7, <1>8 DEF IInv

LEMMA MarkDeletedStep == ASSUME IInv, NEW w \in Worker, MarkDeleted(w) PROVE IInv'
<1> DEFINE a == worker[w].row
           c == [worker[w] EXCEPT !.row = None]
<1> USE NoneAssumption
<1>1. /\ a \in Attachment /\ wiped[a] # "never" /\ status[a] # None
      /\ worker[w] \in Cleanup /\ worker' = [worker EXCEPT ![w] = c]
  BY DEF MarkDeleted, IInv, TypeOK, Cleaning, Cleanup
<1>2. c \in Cleanup /\ c.batch = worker[w].batch /\ c.row = None
  BY <1>1 DEF Cleanup
<1>3. /\ status' = [status EXCEPT ![a] = "DELETED"] /\ deleted' = deleted \cup {a}
      /\ UNCHANGED <<uploader, object, age, role, tx, wiped, overwritten>>
  BY DEF MarkDeleted
<1> HIDE DEF c
<1>4. TypeOK'
  BY <1>1, <1>2, <1>3 DEF IInv, TypeOK, Status
<1>5. Requests'
  BY <1>3, OutsideStep DEF Onward, Verified
<1>6. Cleaning'
  BY <1>1, <1>2, <1>3 DEF IInv, TypeOK, Cleaning, Status
<1>7. Rows'
  BY <1>1, <1>3 DEF IInv, TypeOK, Rows, Row, Verified
<1> QED BY <1>4, <1>5, <1>6, <1>7 DEF IInv
-----------------------------------------------------------------------------
LEMMA UploadStep ==
    ASSUME IInv, NEW a \in Attachment, NEW c \in {"declared", "other"}, Upload(a, c)
    PROVE  IInv'
<1>1. TypeOK'
  BY DEF Upload, rows, IInv, TypeOK, Object
<1>2. Onward
  BY DEF Upload, rows, Onward, Verified, IInv, TypeOK
<1>3. Requests'
  BY <1>2, OutsideStep DEF Upload, rows
<1>4. Cleaning'
  BY DEF Upload, rows, IInv, Cleaning
<1>5. Rows'
  BY <1>2 DEF Upload, rows, IInv, TypeOK, Rows, Row, Onward
<1> QED BY <1>1, <1>3, <1>4, <1>5 DEF IInv

LEMMA GrowStep == ASSUME IInv, NEW a \in Attachment, Grow(a) PROVE IInv'
<1>1. age[a] \in 0 .. 1 /\ age' = [age EXCEPT ![a] = age[a] + 1]
  BY DEF Grow, IInv, TypeOK, Age
<1>2. TypeOK'
  BY <1>1 DEF Grow, rows, IInv, TypeOK, Age
<1>3. Requests'
  BY OutsideStep DEF Grow, rows, Onward, Verified
<1>4. Cleaning'
  <2> SUFFICES ASSUME NEW w \in Worker, NEW b \in worker[w].batch PROVE age'[b] = 2
    BY DEF Grow, rows, IInv, Cleaning
  <2>1. age[b] = 2 /\ b # a
    BY <1>1 DEF IInv, Cleaning
  <2> QED BY <1>1, <2>1 DEF IInv, TypeOK, Cleanup
<1>5. Rows'
  BY <1>1 DEF Grow, rows, IInv, TypeOK, Rows, Row, Verified
<1> QED BY <1>2, <1>3, <1>4, <1>5 DEF IInv

LEMMA ChangeAccessStep ==
    ASSUME IInv, NEW u \in User, NEW r \in Granted, ChangeAccess(u, r) PROVE IInv'
<1> USE GrantedAssumption
<1>1. \A g \in Handler : tx'[g] \in Tx /\ SamePlace(tx[g], tx'[g])
  BY DEF ChangeAccess, IInv, TypeOK, Tx, SamePlace
<1>2. TypeOK'
  BY <1>1 DEF ChangeAccess, rows, IInv, TypeOK
<1>3. Requests'
  <2> SUFFICES ASSUME NEW g \in Handler PROVE Sound(g, tx[g])'
    BY DEF Requests
  <2>1. \A f \in Handler : tx'[f].id \in {None, tx[f].id}
    BY <1>1 DEF SamePlace
  <2>2. Onward /\ uploader' = uploader
    BY DEF ChangeAccess, rows, Onward, Verified
  <2> QED BY <1>1, <2>1, <2>2, SoundStays
<1>4. Cleaning' /\ Rows'
  BY DEF ChangeAccess, rows, IInv, Cleaning, Rows, Row, Verified
<1> QED BY <1>2, <1>3, <1>4 DEF IInv
-----------------------------------------------------------------------------
LEMMA Initially == Init => IInv
<1> SUFFICES ASSUME Init PROVE IInv
  OBVIOUS
<1> USE NoneAssumption
<1>1. TypeOK
  BY IdleSound DEF Init, TypeOK, Resting, Cleanup, Object, Age
<1>2. Requests
  BY DEF Init, Requests, Sound, Position, Creating, Prepared, Idle
<1>3. Cleaning /\ Rows
  BY DEF Init, Cleaning, Resting, Rows, Row, Status
<1> QED BY <1>1, <1>2, <1>3 DEF IInv

LEMMA Inductive == IInv /\ [Next]_vars => IInv'
<1> SUFFICES ASSUME IInv, [Next]_vars PROVE IInv'
  OBVIOUS
<1>1. ASSUME NEW h \in Handler, NEW u \in User, NEW a \in Attachment, Request(h, u, a)
      PROVE  IInv'
  BY <1>1, BeginStep
<1>2. ASSUME NEW h \in Handler, Step(h) PROVE IInv'
  <2>1. CASE Presign(h) \/ Abort(h)
    BY <2>1, EndsStep DEF Presign, Abort, store
  <2>2. CASE Commit(h)
    BY <2>2, CommitUploadStep, CommitCompletionStep, CommitRemovalStep DEF Commit
  <2> QED
    BY <1>2, <2>1, <2>2, AccessStep, HeadStep, DeleteObjectStep, WriteStep DEF Step
<1>3. ASSUME NEW w \in Worker, Clean(w) PROVE IInv'
  BY <1>3, CleanupStartsStep, DeleteStoredStep, MarkDeletedStep, CleanupStopsStep DEF Clean
<1>4. ASSUME Environment PROVE IInv'
  BY <1>4, UploadStep, GrowStep, ChangeAccessStep DEF Environment
<1>5. CASE UNCHANGED vars
  <2>1. Requests'
    BY <1>5, OutsideStep DEF vars, rows, Onward, Verified
  <2> QED BY <1>5, <2>1 DEF vars, rows, IInv, TypeOK, Cleaning, Rows, Row, Verified
<1> QED BY <1>1, <1>2, <1>3, <1>4, <1>5 DEF Next

LEMMA Invariance == Spec => []IInv
  BY Initially, Inductive, PTL DEF Spec

\* Every variable keeps its type, and no pending row is deleted.
THEOREM TypeCorrect == Spec => []TypeOK
<1>1. IInv => TypeOK
  BY DEF IInv
<1> QED BY <1>1, Invariance, PTL

\* A ready attachment was compared with its declaration.
THEOREM ReadyIsChecked == Spec => []ReadyWasChecked
<1>1. IInv => ReadyWasChecked
  BY DEF IInv, Rows, Row, Verified, ReadyWasChecked, Live
<1> QED BY <1>1, Invariance, PTL

\* Rows are deleted after their objects, and what a cleanup deletes stays away.
THEOREM LeavesNoOrphans == Spec => []NoOrphans
<1>1. IInv => NoOrphans
  BY DEF IInv, Rows, Row, NoOrphans
<1> QED BY <1>1, Invariance, PTL

\* Nobody who asks after the deletion gets a download URL.
THEOREM DeletedNeverServed == Spec => []DeletedIsNotServed
<1>1. IInv => DeletedIsNotServed
  BY DEF IInv, Requests, Sound, Position, DeletedIsNotServed
<1> QED BY <1>1, Invariance, PTL

\* A step that writes one row changes the stage of no other.
LEMMA OneStage ==
    ASSUME IInv, NEW a \in Attachment, NEW b \in Attachment \ {a},
           status'[b] = status[b], b \in deleted' <=> b \in deleted
    PROVE  Stage(b)' = Stage(b)
  BY DEF Stage, Live

\* Users see every attachment go forward only.
THEOREM OnlyForward == Spec => StagesGoForward
<1> DEFINE Forward ==
             \A a \in Attachment :
                Stage(a)' # Stage(a) =>
                   /\ Stage(a)' > Stage(a)
                   /\ \A b \in Attachment \ {a} : Stage(b)' = Stage(b)
<1>1. IInv /\ [Next]_vars => [Forward]_vars
  <2> USE NoneAssumption
  <2> SUFFICES ASSUME IInv, Next PROVE Forward
    OBVIOUS
  <2>1. ASSUME NEW a \in Attachment, Stage(a)' >= Stage(a),
               \A b \in Attachment \ {a} :
                  status'[b] = status[b] /\ (b \in deleted' <=> b \in deleted)
        PROVE  Forward
    <3>1. \A b \in Attachment \ {a} : Stage(b)' = Stage(b)
      BY <2>1, OneStage
    <3>2. Stage(a) \in Nat /\ Stage(a)' \in Nat
      BY DEF Stage
    <3> QED BY <2>1, <3>1, <3>2
  <2>2. ASSUME NEW h \in Handler, CommitUpload(h) PROVE Forward
    <3>1. PICK a \in Attachment : a = tx[h].id /\ status[a] = None /\ a \notin deleted
      BY <2>2 DEF CommitUpload, IInv, TypeOK, Requests, Sound, Position, Tx, Status
    <3>2. status'[a] = "PENDING" /\ deleted' = deleted
      BY <2>2, <3>1 DEF CommitUpload, IInv, TypeOK
    <3>3. Stage(a)' >= Stage(a)
      BY <3>1, <3>2 DEF Stage, Live, Status
    <3>4. \A b \in Attachment \ {a} :
             status'[b] = status[b] /\ (b \in deleted' <=> b \in deleted)
      BY <2>2, <3>1 DEF CommitUpload, IInv, TypeOK
    <3> QED BY <2>1, <3>1, <3>3, <3>4
  <2>3. ASSUME NEW h \in Handler, CommitCompletion(h) PROVE Forward
    <3>1. PICK a \in Attachment : a = tx[h].id /\ status[a] \in Status /\ (status[a] = "DELETED" => a \in deleted)
      BY <2>3 DEF CommitCompletion, IInv, TypeOK, Requests, Sound, Position, Tx, Rows, Row
    <3>2. status'[a] = "READY" /\ deleted' = deleted
      BY <2>3, <3>1 DEF CommitCompletion, IInv, TypeOK
    <3>3. Stage(a)' >= Stage(a)
      BY <3>1, <3>2 DEF Stage, Live, Status
    <3>4. \A b \in Attachment \ {a} :
             status'[b] = status[b] /\ (b \in deleted' <=> b \in deleted)
      BY <2>3, <3>1 DEF CommitCompletion, IInv, TypeOK
    <3> QED BY <2>1, <3>1, <3>3, <3>4
  <2>4. ASSUME NEW h \in Handler, CommitRemoval(h) PROVE Forward
    <3>1. PICK a \in Attachment : a = tx[h].id /\ status[a] \in Status
      BY <2>4 DEF CommitRemoval, IInv, TypeOK, Requests, Sound, Position, Tx
    <3>2. status'[a] = "DELETED" /\ a \in deleted'
      BY <2>4, <3>1 DEF CommitRemoval, IInv, TypeOK
    <3>3. Stage(a)' >= Stage(a)
      BY <3>1, <3>2 DEF Stage, Live, Status
    <3>4. \A b \in Attachment \ {a} :
             status'[b] = status[b] /\ (b \in deleted' <=> b \in deleted)
      BY <2>4, <3>1 DEF CommitRemoval, IInv, TypeOK
    <3> QED BY <2>1, <3>1, <3>3, <3>4
  <2>5. ASSUME NEW w \in Worker, MarkDeleted(w) PROVE Forward
    <3>1. PICK a \in Attachment : a = worker[w].row /\ status[a] \in Status
      BY <2>5 DEF MarkDeleted, IInv, TypeOK, Cleaning, Cleanup
    <3>2. status'[a] = "DELETED" /\ a \in deleted'
      BY <2>5, <3>1 DEF MarkDeleted, IInv, TypeOK
    <3>3. Stage(a)' >= Stage(a)
      BY <3>1, <3>2 DEF Stage, Live, Status
    <3>4. \A b \in Attachment \ {a} :
             status'[b] = status[b] /\ (b \in deleted' <=> b \in deleted)
      BY <2>5, <3>1 DEF MarkDeleted, IInv, TypeOK
    <3> QED BY <2>1, <3>1, <3>3, <3>4
  <2>6. ASSUME UNCHANGED <<status, deleted>> PROVE Forward
    BY <2>6 DEF Stage, Live
  <2> QED
    BY <2>2, <2>3, <2>4, <2>5, <2>6
    DEF Next, Request, BeginUpload, Find, Step, Commit, Access, Head, Presign,
        DeleteObject, Write, Abort, Clean, CleanupStarts, DeleteStored, CleanupEnds,
        CleanupFails, Environment, Upload, Grow, ChangeAccess, rows
<1>2. [][Forward]_vars <=> StagesGoForward
  BY DEF StagesGoForward
<1> QED BY <1>1, <1>2, Invariance, PTL DEF Spec
-----------------------------------------------------------------------------
(* Who is entitled to what: IInv says nothing of roles, so this is an      *)
(* invariant of its own on top of it.                                      *)

\* A request that went past `access` may go on, unless the role has changed since.
Entitled(t) ==
    /\ t.at # "idle" => t.user \in User
    /\ t.at \notin {"idle", "access"} /\ ~t.changed =>
          /\ t.op # "download" => role[t.user] \in Writers
          /\ t.op = "remove" => uploader[t.id] = t.user \/ role[t.user] = "ADMIN"

AllEntitled == \A h \in Handler : Entitled(tx[h])

LEMMA IdleEntitled == ASSUME NEW h, tx'[h] = Idle PROVE Entitled(tx[h])'
  BY DEF Idle, Entitled

\* A step of h that writes no row.
LEMMA OwnEntitled ==
    ASSUME TypeOK, AllEntitled, NEW h \in Handler, NEW t, Entitled(t),
           tx' = [tx EXCEPT ![h] = t], UNCHANGED <<uploader, role>>
    PROVE  AllEntitled'
<1> SUFFICES ASSUME NEW g \in Handler PROVE Entitled(tx[g])'
  BY DEF AllEntitled
<1>1. PICK u : u = tx'[g] /\ Entitled(u)
  BY DEF TypeOK, AllEntitled
<1> QED BY <1>1 DEF Entitled

LEMMA EndsEntitled ==
    ASSUME TypeOK, AllEntitled, NEW h \in Handler, Ends(h), UNCHANGED <<uploader, role>>
    PROVE  AllEntitled'
<1>1. Entitled(Idle)
  BY DEF Idle, Entitled
<1> QED BY <1>1, OwnEntitled DEF Ends

\* A request that was let through before goes on.
LEMMA GoesEntitled ==
    ASSUME TypeOK, AllEntitled, NEW h \in Handler, NEW at, Goes(h, at),
           tx[h].at # "idle",
           tx[h].at = "access" => Allows(tx[h], role[tx[h].user]),
           UNCHANGED <<uploader, role>>
    PROVE  AllEntitled'
<1>1. PICK t : t = [tx[h] EXCEPT !.at = at]
  OBVIOUS
<1>2. /\ t.op = tx[h].op /\ t.user = tx[h].user /\ t.id = tx[h].id
      /\ t.changed = tx[h].changed
  <2>1. tx[h] \in Tx
    BY DEF TypeOK
  <2> QED BY <1>1, <2>1 DEF Tx
<1>3. Entitled(tx[h])
  BY DEF AllEntitled
<1>4. Entitled(t)
  BY <1>2, <1>3 DEF Entitled, Allows
<1> QED BY <1>1, <1>4, OwnEntitled DEF Goes

LEMMA RequestEntitled ==
    ASSUME IInv, AllEntitled, NEW h \in Handler, NEW u \in User, NEW a \in Attachment,
           Request(h, u, a)
    PROVE  AllEntitled'
<1>1. TypeOK
  BY DEF IInv
<1>2. CASE BeginUpload(h, u, a)
  <2>1. PICK t : t = [Idle EXCEPT !.op = "upload", !.at = "create", !.user = u, !.id = a]
    OBVIOUS
  <2>2. Entitled(t)
    BY <1>2, <2>1 DEF BeginUpload, Idle, Entitled
  <2> QED BY <1>1, <1>2, <2>1, <2>2, OwnEntitled DEF BeginUpload, rows
<1>3. ASSUME NEW op \in {"complete", "download", "remove"}, Find(h, op, u, a)
      PROVE  AllEntitled'
  <2>1. PICK t : t = [op |-> op, at |-> "access", user |-> u, id |-> a, found |-> status[a],
                      late |-> a \in deleted, changed |-> FALSE]
    OBVIOUS
  <2>2. Entitled(t)
    BY <2>1 DEF Entitled
  <2> QED BY <1>1, <1>3, <2>1, <2>2, OwnEntitled DEF Find, rows
<1> QED BY <1>2, <1>3 DEF Request

LEMMA StepEntitled ==
    ASSUME IInv, AllEntitled, NEW h \in Handler, Step(h) PROVE AllEntitled'
<1>1. TypeOK
  BY DEF IInv
<1>2. CASE Access(h)
  <2>1. UNCHANGED <<uploader, role>> /\ tx[h].at = "access"
    BY <1>2 DEF Access, rows
  <2>2. CASE Ends(h)
    BY <1>1, <2>1, <2>2, EndsEntitled
  <2>3. CASE ~Ends(h)
    <3>1. PICK at : Goes(h, at) /\ Allows(tx[h], role[tx[h].user])
      BY <1>2, <2>3 DEF Access
    <3> QED BY <1>1, <2>1, <3>1, GoesEntitled
  <2> QED BY <2>2, <2>3
<1>3. CASE Head(h)
  <2>1. UNCHANGED <<uploader, role>> /\ tx[h].at = "head" /\ (Ends(h) \/ Goes(h, "write"))
    BY <1>3 DEF Head, rows
  <2> QED BY <1>1, <2>1, EndsEntitled, GoesEntitled
<1>4. CASE DeleteObject(h) \/ Write(h)
  BY <1>1, <1>4, GoesEntitled DEF DeleteObject, Write, rows
<1>5. CASE Presign(h) \/ Abort(h) \/ CommitCompletion(h) \/ CommitRemoval(h)
  BY <1>1, <1>5, EndsEntitled DEF Presign, Abort, CommitCompletion, CommitRemoval, rows
<1>6. CASE CommitUpload(h)
  <2> SUFFICES ASSUME NEW g \in Handler PROVE Entitled(tx[g])'
    BY DEF AllEntitled
  <2>1. CASE g = h
    BY <1>1, <1>6, <2>1, IdleEntitled DEF CommitUpload, Ends, TypeOK
  <2>2. CASE g # h
    <3>1. PICK t \in Tx : t = tx[g] /\ t = tx'[g] /\ Entitled(t) /\ Position(t)
      BY <1>1, <1>6, <2>2 DEF CommitUpload, Ends, TypeOK, IInv, Requests, Sound, AllEntitled
    <3>2. /\ uploader' = [uploader EXCEPT ![tx[h].id] = tx[h].user] /\ role' = role
          /\ uploader[tx[h].id] = None
      BY <1>6 DEF CommitUpload, IInv, Requests, Sound, Position
    <3>3. t.op = "remove" /\ t.at # "idle" => uploader'[t.id] = uploader[t.id]
      <4> SUFFICES ASSUME t.op = "remove", t.at # "idle" PROVE uploader'[t.id] = uploader[t.id]
        OBVIOUS
      <4>1. t.id \in Attachment /\ uploader[t.id] # None
        BY <3>1 DEF Position, Tx
      <4> QED BY <1>1, <3>2, <4>1 DEF TypeOK
    <3> QED BY <3>1, <3>2, <3>3 DEF Entitled
  <2> QED BY <2>1, <2>2
<1> QED BY <1>2, <1>3, <1>4, <1>5, <1>6 DEF Step, Commit

LEMMA AccessChangeEntitled ==
    ASSUME IInv, AllEntitled, NEW u \in User, NEW r, ChangeAccess(u, r) PROVE AllEntitled'
<1> SUFFICES ASSUME NEW g \in Handler PROVE Entitled(tx[g])'
  BY DEF AllEntitled
<1>1. PICK t \in Tx : t = tx[g] /\ Entitled(t)
  BY DEF IInv, TypeOK, AllEntitled
<1>2. PICK new : new = tx'[g]
  OBVIOUS
<1>3. role' = [role EXCEPT ![u] = r] /\ uploader' = uploader /\ role \in [User -> Role \cup {None}]
  BY DEF ChangeAccess, rows, IInv, TypeOK
<1>4. CASE t.user = u /\ t.at # "access"
  <2>1. new = [t EXCEPT !.changed = TRUE]
    BY <1>1, <1>2, <1>4 DEF ChangeAccess
  <2>2. new.at = t.at /\ new.user = t.user /\ new.changed
    BY <1>1, <2>1 DEF Tx
  <2> QED BY <1>1, <1>2, <2>2 DEF Entitled
<1>5. CASE ~(t.user = u /\ t.at # "access")
  <2>1. new = t
    BY <1>1, <1>2, <1>5 DEF ChangeAccess
  <2>2. t.at \notin {"idle", "access"} => role'[t.user] = role[t.user]
    BY <1>1, <1>3, <1>5 DEF Entitled
  <2> QED BY <1>1, <1>2, <1>3, <2>1, <2>2 DEF Entitled
<1> QED BY <1>4, <1>5

LEMMA EntitledInductive == IInv /\ AllEntitled /\ [Next]_vars => AllEntitled'
<1> SUFFICES ASSUME IInv, AllEntitled, [Next]_vars PROVE AllEntitled'
  OBVIOUS
<1>1. CASE UNCHANGED <<tx, uploader, role>>
  BY <1>1 DEF AllEntitled, Entitled
<1>2. ASSUME NEW w \in Worker, Clean(w) PROVE UNCHANGED <<tx, uploader, role>>
  BY <1>2 DEF Clean, CleanupStarts, DeleteStored, MarkDeleted, CleanupEnds, CleanupFails, rows
<1>3. ASSUME NEW a \in Attachment, NEW c, Grow(a) \/ Upload(a, c)
      PROVE  UNCHANGED <<tx, uploader, role>>
  BY <1>3 DEF Grow, Upload, rows
<1> QED BY <1>1, <1>2, <1>3, RequestEntitled, StepEntitled, AccessChangeEntitled
        DEF Next, Environment, vars, rows

(***************************************************************************)
(* Rows are written for users whose role permits it at the commit, or      *)
(* whose role has changed since it was read, and by the worker.            *)
(***************************************************************************)
THEOREM WritersWrite == Spec => WritersOnly
<1> DEFINE Entitles ==
      \A h \in Handler :
          tx[h].at \in {"create", "commit"} /\ tx'[h] = Idle /\ rows' # rows =>
             \/ tx[h].changed
             \/ /\ role[tx[h].user] \in Writers
                /\ tx[h].op = "remove" => \/ uploader[tx[h].id] = tx[h].user
                                          \/ role[tx[h].user] = "ADMIN"
<1>1. Init => AllEntitled
  BY DEF Init, Idle, AllEntitled, Entitled
<1>2. IInv /\ AllEntitled /\ [Next]_vars => [Entitles]_vars
  <2> SUFFICES ASSUME IInv, AllEntitled, NEW h \in Handler,
                      tx[h].at \in {"create", "commit"}, ~tx[h].changed
               PROVE  /\ role[tx[h].user] \in Writers
                      /\ tx[h].op = "remove" => \/ uploader[tx[h].id] = tx[h].user
                                                \/ role[tx[h].user] = "ADMIN"
    OBVIOUS
  <2> QED BY DEF AllEntitled, Entitled, IInv, Requests, Sound, Position
<1>3. [][Entitles]_vars <=> WritersOnly
  BY DEF WritersOnly
<1> QED BY <1>1, <1>2, <1>3, EntitledInductive, Invariance, PTL DEF Spec
=============================================================================
