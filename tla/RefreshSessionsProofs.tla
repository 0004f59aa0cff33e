------------------------ MODULE RefreshSessionsProofs ------------------------
(***************************************************************************)
(* Proofs about RefreshSessions for every number of handlers, sessions and *)
(* users.                                                                  *)
(*                                                                         *)
(* That a family never forks rests on row locks: the rows a transaction    *)
(* has updated are updated by nobody else until it commits (Locks), so the *)
(* token it marked as replaced is still alive when the replacement appears *)
(* (Rotating); and on the id of the replacement being new (FreshId).       *)
(***************************************************************************)
EXTENDS RefreshSessions, TLAPS

\* What a transaction t knows at each point of its request.
Phase(t) ==
    /\ t.at \in {"find", "reread", "mark"} => t.op = "refresh"
    /\ t.at = "insert" => t.op \in {"login", "refresh"}
    /\ t.at = "revoke" => t.op = "logout"
    /\ t.at = "commit" => t.op \in {"login", "refresh", "logout"}
    /\ t.at \in {"scan", "sweep"} => t.op \in {"reuse", "logoutAll"}
    /\ t.op = "login" => t.user \in User /\ t.revoking = {}
    /\ t.op \in {"login", "refresh"} => t.mine \in Session
    /\ t.op \notin {"none", "login"} => t.token \in stored
    /\ t.todo \subseteq stored

\* The id h is about to insert is new, and nobody else's.
FreshId(h, t) ==
    t.mine # None =>
        t.mine \notin stored /\ \A g \in Handler \ {h} : tx[g].mine # t.mine

\* h alone has updated the rows it keeps locked, and found them not revoked.
Locks(h, t) ==
    /\ t.revoking \subseteq stored \ revoked
    /\ \A g \in Handler \ {h} : tx[g].revoking \cap t.revoking = {}

\* A transaction that is about to commit a rotation holds the token it replaces.
Rotating(t) ==
    t.at = "commit" /\ t.op = "refresh" =>
        t.revoking = {t.token} /\ replacedBy[t.token] = None

Sound(h, t) == Phase(t) /\ FreshId(h, t) /\ Locks(h, t) /\ Rotating(t)

Transactions == \A h \in Handler : Sound(h, tx[h])

\* Rows refer to rows: a family to its first session, a token to its replacement.
FamiliesRooted ==
    \A s \in stored : family[s] \in stored /\ family[family[s]] = family[s]

LinksSound ==
    \A p \in Session : replacedBy[p] # None =>
        /\ p \in stored /\ p \in revoked
        /\ replacedBy[p] \in stored /\ replacedBy[p] # p
        /\ family[replacedBy[p]] = family[p] /\ owner[replacedBy[p]] = owner[p]
        /\ family[p] # replacedBy[p]

LinksInjective ==
    \A p, q \in Session : replacedBy[p] # None /\ replacedBy[p] = replacedBy[q] => p = q

EachReplaces ==
    \A s \in stored : family[s] # s => \E p \in stored : replacedBy[p] = s

Rows ==
    FamiliesRooted /\ LinksSound /\ LinksInjective /\ EachReplaces /\ OneLivePerFamily

IInv == TypeOK /\ Transactions /\ Rows
-----------------------------------------------------------------------------
LEMMA RowsKept == ASSUME Rows, UNCHANGED rows PROVE Rows'
  BY DEF Rows, rows, FamiliesRooted, LinksSound, LinksInjective, EachReplaces,
         OneLivePerFamily, Live

\* A step that changes no row has to leave only its own transaction sound.
LEMMA OwnStep ==
    ASSUME IInv, NEW h \in Handler, NEW t \in Tx, Sound(h, t),
           tx' = [tx EXCEPT ![h] = t], UNCHANGED <<rows, expired, reported>>
    PROVE  IInv'
<1>1. TypeOK'
  BY DEF IInv, TypeOK, rows
<1>2. Transactions'
  <2> SUFFICES ASSUME NEW g \in Handler PROVE Sound(g, tx[g])'
    BY DEF Transactions
  <2>1. CASE g = h
    BY <2>1 DEF IInv, TypeOK, rows, Sound, Phase, FreshId, Locks, Rotating
  <2>2. CASE g # h
    <3>1. tx'[g] = tx[g] /\ tx'[h] = t /\ Sound(g, tx[g])
      BY <2>2 DEF IInv, TypeOK, Transactions
    <3>2. Phase(tx[g])' /\ Rotating(tx[g])'
      BY <3>1 DEF rows, Sound, Phase, Rotating
    <3>3. FreshId(g, tx[g])' /\ Locks(g, tx[g])'
      BY <2>2, <3>1 DEF IInv, TypeOK, rows, Sound, FreshId, Locks
    <3> QED BY <3>2, <3>3 DEF Sound
  <2> QED BY <2>1, <2>2
<1>3. Rows'
  BY RowsKept DEF IInv
<1> QED BY <1>1, <1>2, <1>3 DEF IInv

LEMMA IdleSound == Idle \in Tx /\ \A h \in Handler : Sound(h, Idle)
  BY DEF Idle, Tx, Op, At, Sound, Phase, FreshId, Locks, Rotating

LEMMA RollsBackStep == ASSUME IInv, NEW h \in Handler, RollsBack(h) PROVE IInv'
  BY IdleSound, OwnStep DEF RollsBack

LEMMA BeginStep == ASSUME IInv, NEW h \in Handler, Begin(h) PROVE IInv'
<1> USE NoneAssumption
<1>1. ASSUME NEW u \in User, NEW s \in Session, BeginLogin(h, u, s) PROVE IInv'
  <2> DEFINE t == [Idle EXCEPT !.op = "login", !.at = "insert", !.token = None,
                               !.user = u, !.mine = s]
  <2>1. t \in Tx /\ Sound(h, t)
    BY <1>1 DEF BeginLogin, Unused, Idle, Tx, Op, At, Sound, Phase, FreshId, Locks, Rotating
  <2> QED BY <1>1, <2>1, OwnStep DEF BeginLogin, Starts
<1>2. ASSUME NEW s \in Session, NEW new \in Session, BeginRefresh(h, s, new) PROVE IInv'
  <2> DEFINE t == [Idle EXCEPT !.op = "refresh", !.at = "find", !.token = s,
                               !.user = None, !.mine = new]
  <2>1. t \in Tx /\ Sound(h, t)
    BY <1>2 DEF BeginRefresh, Unused, Idle, Tx, Op, At, Sound, Phase, FreshId, Locks, Rotating
  <2> QED BY <1>2, <2>1, OwnStep DEF BeginRefresh, Starts
<1>3. ASSUME NEW s \in Session, BeginLogout(h, s) PROVE IInv'
  <2> DEFINE t == [Idle EXCEPT !.op = "logout", !.at = "revoke", !.token = s,
                               !.user = None, !.mine = None]
  <2>1. t \in Tx /\ Sound(h, t)
    BY <1>3 DEF BeginLogout, Idle, Tx, Op, At, Sound, Phase, FreshId, Locks, Rotating
  <2> QED BY <1>3, <2>1, OwnStep DEF BeginLogout, Starts
<1>4. ASSUME NEW s \in Session, BeginLogoutAll(h, s) PROVE IInv'
  <2> DEFINE t == [Idle EXCEPT !.op = "logoutAll", !.at = "scan", !.token = s,
                               !.user = None, !.mine = None]
  <2>1. t \in Tx /\ Sound(h, t)
    BY <1>4 DEF BeginLogoutAll, Active, Live, Idle, Tx, Op, At, Sound, Phase, FreshId,
                Locks, Rotating
  <2> QED BY <1>4, <2>1, OwnStep DEF BeginLogoutAll, Starts
<1> QED BY <1>1, <1>2, <1>3, <1>4 DEF Begin

LEMMA FindTokenStep == ASSUME IInv, NEW h \in Handler, FindToken(h) PROVE IInv'
<1> DEFINE s == tx[h].token
           t == [tx[h] EXCEPT
                   !.op = IF Reused(s) THEN "reuse" ELSE "refresh",
                   !.at = IF Reused(s) THEN "scan" ELSE "reread",
                   !.mine = IF Reused(s) THEN None ELSE tx[h].mine]
<1>1. CASE RollsBack(h)
  BY <1>1, RollsBackStep
<1>2. CASE ~RollsBack(h)
  <2>1. tx[h] \in Tx /\ Sound(h, tx[h]) /\ tx[h].at = "find"
    BY DEF FindToken, IInv, TypeOK, Transactions
  <2>2. t \in Tx /\ Sound(h, t)
    <3>1. CASE Reused(s)
      BY <2>1, <3>1 DEF Tx, Op, At, Sound, Phase, FreshId, Locks, Rotating
    <3>2. CASE ~Reused(s)
      BY <2>1, <3>2 DEF Tx, Op, At, Sound, Phase, FreshId, Locks, Rotating
    <3> QED BY <3>1, <3>2
  <2>3. tx' = [tx EXCEPT ![h] = t] /\ UNCHANGED <<rows, expired, reported>>
    BY <1>2 DEF FindToken, IInv, TypeOK, Tx
  <2> QED BY <2>2, <2>3, OwnStep
<1> QED BY <1>1, <1>2

LEMMA RereadStep == ASSUME IInv, NEW h \in Handler, Reread(h) PROVE IInv'
<1> DEFINE t == [tx[h] EXCEPT !.at = "insert"]
<1>1. CASE RollsBack(h)
  BY <1>1, RollsBackStep
<1>2. CASE ~RollsBack(h)
  <2>1. t \in Tx /\ Sound(h, t)
    BY <1>2 DEF Reread, IInv, TypeOK, Transactions, Tx, Op, At,
                Sound, Phase, FreshId, Locks, Rotating
  <2>2. tx' = [tx EXCEPT ![h] = t] /\ UNCHANGED <<rows, expired, reported>>
    BY <1>2 DEF Reread, IInv, TypeOK, Tx
  <2> QED BY <2>1, <2>2, OwnStep
<1> QED BY <1>1, <1>2

LEMMA InsertStep == ASSUME IInv, NEW h \in Handler, Insert(h) PROVE IInv'
<1> DEFINE t == [tx[h] EXCEPT !.at = IF tx[h].op = "login" THEN "commit" ELSE "mark"]
<1>1. t \in Tx /\ Sound(h, t)
  BY DEF Insert, IInv, TypeOK, Transactions, Tx, Op, At,
         Sound, Phase, FreshId, Locks, Rotating
<1>2. tx' = [tx EXCEPT ![h] = t] /\ UNCHANGED <<rows, expired, reported>>
  BY DEF Insert, IInv, TypeOK, Tx
<1> QED BY <1>1, <1>2, OwnStep

LEMMA MarkReplacedStep == ASSUME IInv, NEW h \in Handler, MarkReplaced(h) PROVE IInv'
<1> DEFINE t == [tx[h] EXCEPT !.at = "commit", !.revoking = {tx[h].token}]
<1>1. CASE RollsBack(h)
  BY <1>1, RollsBackStep
<1>2. CASE ~RollsBack(h)
  <2>1. t \in Tx /\ Sound(h, t)
    <3>1. /\ tx[h] \in Tx /\ Sound(h, tx[h]) /\ tx[h].at = "mark"
          /\ ~LockedFor(h, tx[h].token) /\ ~Reused(tx[h].token)
      BY <1>2 DEF MarkReplaced, IInv, TypeOK, Transactions
    <3>2. tx[h].token \in Session /\ tx[h].token \in stored /\ tx[h].op = "refresh"
      BY <3>1 DEF Sound, Phase, IInv, TypeOK
    <3>3. t \in Tx /\ Phase(t) /\ FreshId(h, t) /\ Rotating(t)
      BY <3>1, <3>2 DEF Reused, Tx, At, Sound, Phase, FreshId, Rotating
    <3>4. Locks(h, t)
      BY <3>1, <3>2 DEF Reused, LockedFor, Tx, Sound, Locks
    <3> QED BY <3>3, <3>4 DEF Sound
  <2>2. tx' = [tx EXCEPT ![h] = t] /\ UNCHANGED <<rows, expired, reported>>
    BY <1>2 DEF MarkReplaced, IInv, TypeOK, Tx
  <2> QED BY <2>1, <2>2, OwnStep
<1> QED BY <1>1, <1>2

LEMMA RevokeSessionStep == ASSUME IInv, NEW h \in Handler, RevokeSession(h) PROVE IInv'
<1> DEFINE t == [tx[h] EXCEPT !.at = "commit", !.revoking = {tx[h].token} \ revoked]
<1>1. t \in Tx /\ Sound(h, t)
  <2>1. tx[h] \in Tx /\ Sound(h, tx[h]) /\ tx[h].at = "revoke"
    BY DEF RevokeSession, IInv, TypeOK, Transactions
  <2>2. tx[h].token \in Session /\ tx[h].token \in stored /\ ~LockedFor(h, tx[h].token)
    BY <2>1 DEF RevokeSession, Sound, Phase, IInv, TypeOK
  <2>3. t \in Tx /\ Phase(t) /\ FreshId(h, t) /\ Rotating(t)
    BY <2>1, <2>2 DEF Tx, At, Sound, Phase, FreshId, Rotating
  <2>4. Locks(h, t)
    BY <2>1, <2>2 DEF LockedFor, Tx, Sound, Locks
  <2> QED BY <2>3, <2>4 DEF Sound
<1>2. tx' = [tx EXCEPT ![h] = t] /\ UNCHANGED <<rows, expired, reported>>
  BY DEF RevokeSession, IInv, TypeOK, Tx
<1> QED BY <1>1, <1>2, OwnStep

LEMMA ScanStep == ASSUME IInv, NEW h \in Handler, Scan(h) PROVE IInv'
<1> DEFINE t == [tx[h] EXCEPT !.at = "sweep", !.todo = Matched(h), !.seen = stored]
<1>1. t \in Tx /\ Sound(h, t)
  <2>1. tx[h] \in Tx /\ Sound(h, tx[h]) /\ tx[h].at = "scan"
    BY DEF Scan, IInv, TypeOK, Transactions
  <2>2. Matched(h) \subseteq stored /\ stored \subseteq Session
    BY DEF Matched, IInv, TypeOK
  <2>3. t \in Tx /\ Phase(t) /\ FreshId(h, t) /\ Rotating(t)
    BY <2>1, <2>2 DEF Tx, At, Sound, Phase, FreshId, Rotating
  <2>4. Locks(h, t)
    BY <2>1, <2>2 DEF Sound, Locks
  <2> QED BY <2>3, <2>4 DEF Sound
<1>2. tx' = [tx EXCEPT ![h] = t] /\ UNCHANGED <<rows, expired, reported>>
  BY DEF Scan, IInv, TypeOK, Tx
<1> QED BY <1>1, <1>2, OwnStep

LEMMA SweepStep == ASSUME IInv, NEW h \in Handler, NEW s \in Session, Sweep(h, s) PROVE IInv'
<1> DEFINE t == [tx[h] EXCEPT !.todo = tx[h].todo \ {s},
                             !.revoking = tx[h].revoking \cup ({s} \ revoked)]
<1>1. t \in Tx /\ Sound(h, t)
  <2>1. tx[h] \in Tx /\ Sound(h, tx[h]) /\ tx[h].at = "sweep"
    BY DEF Sweep, IInv, TypeOK, Transactions
  <2>2. s \in stored /\ ~LockedFor(h, s)
    BY <2>1 DEF Sweep, Sound, Phase
  <2>3. t \in Tx /\ Phase(t) /\ FreshId(h, t) /\ Rotating(t)
    BY <2>1, <2>2 DEF Tx, At, Sound, Phase, FreshId, Rotating
  <2>4. Locks(h, t)
    BY <2>1, <2>2 DEF LockedFor, Tx, Sound, Locks
  <2> QED BY <2>3, <2>4 DEF Sound
<1>2. tx' = [tx EXCEPT ![h] = t] /\ UNCHANGED <<rows, expired, reported>>
  BY DEF Sweep, IInv, TypeOK, Tx
<1> QED BY <1>1, <1>2, OwnStep

LEMMA ExpireStep == ASSUME IInv, NEW s \in Session, Expire(s) PROVE IInv'
<1>1. TypeOK' /\ Rows'
  BY RowsKept DEF Expire, IInv, TypeOK, rows
<1>2. Transactions'
  BY DEF Expire, IInv, rows, Transactions, Sound, Phase, FreshId, Locks, Rotating
<1> QED BY <1>1, <1>2 DEF IInv
-----------------------------------------------------------------------------
(* The three commits.                                                       *)

\* What a commit leaves true of the transactions of the other handlers.
LEMMA OthersSound ==
    ASSUME IInv, NEW h \in Handler, tx' = [tx EXCEPT ![h] = Idle],
           stored' = stored \/ stored' = stored \cup {tx[h].mine},
           revoked' = revoked \cup tx[h].revoking,
           \A p \in Session : p \notin tx[h].revoking => replacedBy'[p] = replacedBy[p]
    PROVE  Transactions'
<1> SUFFICES ASSUME NEW g \in Handler PROVE Sound(g, tx[g])'
  BY DEF Transactions
<1>1. CASE g = h
  BY <1>1 DEF IInv, TypeOK, Idle, Sound, Phase, FreshId, Locks, Rotating
<1>2. CASE g # h
  <2>1. tx'[g] = tx[g] /\ tx'[h] = Idle /\ Sound(g, tx[g]) /\ tx[g] \in Tx /\ tx[h] \in Tx
    BY <1>2 DEF IInv, TypeOK, Transactions
  <2>2. Phase(tx[g])'
    BY <2>1 DEF Sound, Phase
  <2>3. FreshId(g, tx[g])'
    BY <1>2, <2>1 DEF IInv, TypeOK, Idle, Sound, FreshId
  <2>4. Locks(g, tx[g])'
    BY <1>2, <2>1 DEF IInv, TypeOK, Idle, Sound, Locks
  <2>5. Rotating(tx[g])'
    <3> SUFFICES ASSUME tx[g].at = "commit", tx[g].op = "refresh"
                 PROVE  tx[g].revoking = {tx[g].token} /\ replacedBy'[tx[g].token] = None
      BY <2>1 DEF Rotating
    <3>1. tx[g].revoking = {tx[g].token} /\ replacedBy[tx[g].token] = None
      BY <2>1 DEF Sound, Rotating
    <3>2. tx[g].token \notin tx[h].revoking /\ tx[g].token \in Session
      BY <1>2, <2>1, <3>1 DEF Sound, Locks, Tx
    <3> QED BY <3>1, <3>2
  <2> QED BY <2>1, <2>2, <2>3, <2>4, <2>5 DEF Sound
<1> QED BY <1>1, <1>2

LEMMA CommitLoginStep == ASSUME IInv, NEW h \in Handler, CommitLogin(h) PROVE IInv'
<1> DEFINE new == tx[h].mine
<1>1. /\ new \in Session /\ new \notin stored /\ new # None
      /\ tx[h].user \in User /\ tx[h].revoking = {}
  BY NoneAssumption
     DEF CommitLogin, IInv, Transactions, Sound, Phase, FreshId
<1>2. /\ stored' = stored \cup {new}
      /\ owner' = [owner EXCEPT ![new] = tx[h].user]
      /\ family' = [family EXCEPT ![new] = new]
      /\ UNCHANGED <<revoked, replacedBy, expired, reported>>
  BY DEF CommitLogin
<1>3. TypeOK'
  BY <1>1, <1>2, IdleSound DEF CommitLogin, IInv, TypeOK
<1>4. Transactions'
  BY <1>1, <1>2, OthersSound DEF CommitLogin
<1>5. Rows'
  BY <1>1, <1>2
     DEF IInv, TypeOK, Rows, FamiliesRooted, LinksSound, LinksInjective, EachReplaces,
         OneLivePerFamily, Live
<1> QED BY <1>3, <1>4, <1>5 DEF IInv

LEMMA CommitRotationStep == ASSUME IInv, NEW h \in Handler, CommitRotation(h) PROVE IInv'
<1> DEFINE new == tx[h].mine
           old == tx[h].token
<1>1. /\ new \in Session /\ new \notin stored /\ new # None
      /\ old \in stored /\ old \in Session /\ old \notin revoked /\ old # new
      /\ replacedBy[old] = None
      /\ tx[h].revoking = {old}
  BY NoneAssumption
     DEF CommitRotation, IInv, TypeOK, Transactions, Sound, Phase, FreshId, Locks, Rotating
<1>2. /\ stored' = stored \cup {new}
      /\ owner' = [owner EXCEPT ![new] = owner[old]]
      /\ family' = [family EXCEPT ![new] = family[old]]
      /\ revoked' = revoked \cup {old}
      /\ replacedBy' = [replacedBy EXCEPT ![old] = new]
      /\ UNCHANGED <<expired, reported>>
  BY <1>1 DEF CommitRotation
<1>3. TypeOK'
  BY <1>1, <1>2, IdleSound DEF CommitRotation, IInv, TypeOK
<1>4. Transactions'
  BY <1>1, <1>2, OthersSound DEF CommitRotation, IInv, TypeOK
<1>5. FamiliesRooted' /\ LinksInjective' /\ EachReplaces'
  BY <1>1, <1>2
     DEF IInv, TypeOK, Rows, FamiliesRooted, LinksSound, LinksInjective, EachReplaces
<1>6. LinksSound'
  BY <1>1, <1>2 DEF IInv, TypeOK, Rows, FamiliesRooted, LinksSound
<1>7. OneLivePerFamily'
  BY <1>1, <1>2 DEF IInv, TypeOK, Rows, OneLivePerFamily, Live
<1> QED BY <1>3, <1>4, <1>5, <1>6, <1>7 DEF IInv, Rows

LEMMA CommitRevocationStep ==
    ASSUME IInv, NEW h \in Handler, CommitRevocation(h) PROVE IInv'
<1>1. tx[h].revoking \subseteq stored
  BY DEF IInv, Transactions, Sound, Locks
<1>2. TypeOK'
  <2>1. tx[h].op = "reuse" => family[tx[h].token] \in Session
    BY DEF CommitRevocation, IInv, TypeOK, Transactions, Sound, Phase, Rows, FamiliesRooted
  <2> QED BY <1>1, <2>1, IdleSound DEF CommitRevocation, IInv, TypeOK
<1>3. Transactions'
  BY OthersSound DEF CommitRevocation
<1>4. Rows'
  BY <1>1
     DEF CommitRevocation, IInv, Rows, FamiliesRooted, LinksSound, LinksInjective,
         EachReplaces, OneLivePerFamily, Live
<1> QED BY <1>2, <1>3, <1>4 DEF IInv
-----------------------------------------------------------------------------
LEMMA Initially == Init => IInv
<1> SUFFICES ASSUME Init PROVE IInv
  OBVIOUS
<1>1. TypeOK
  BY IdleSound DEF Init, TypeOK
<1>2. Transactions
  BY DEF Init, Transactions, Idle, Sound, Phase, FreshId, Locks, Rotating
<1>3. Rows
  BY DEF Init, Rows, FamiliesRooted, LinksSound, LinksInjective, EachReplaces,
         OneLivePerFamily
<1> QED BY <1>1, <1>2, <1>3 DEF IInv

LEMMA Inductive == IInv /\ [Next]_vars => IInv'
<1> SUFFICES ASSUME IInv, [Next]_vars PROVE IInv'
  OBVIOUS
<1>1. ASSUME NEW h \in Handler, Begin(h) \/ Abort(h) \/ DeadlockVictim(h) PROVE IInv'
  BY <1>1, BeginStep, RollsBackStep DEF Abort, DeadlockVictim
<1>2. ASSUME NEW h \in Handler, Step(h) PROVE IInv'
  BY <1>2, FindTokenStep, RereadStep, InsertStep, MarkReplacedStep, RevokeSessionStep,
     ScanStep, SweepStep, CommitLoginStep, CommitRotationStep, CommitRevocationStep
     DEF Step
<1>3. ASSUME NEW s \in Session, Expire(s) PROVE IInv'
  BY <1>3, ExpireStep
<1>4. CASE UNCHANGED vars
  <2>1. TypeOK' /\ Rows'
    BY <1>4, RowsKept DEF vars, rows, IInv, TypeOK
  <2>2. Transactions'
    BY <1>4 DEF vars, IInv, Transactions, Sound, Phase, FreshId, Locks, Rotating
  <2> QED BY <2>1, <2>2 DEF IInv
<1> QED BY <1>1, <1>2, <1>3, <1>4 DEF Next

\* In every reachable state the inductive invariant holds.
THEOREM Invariance == Spec => []IInv
  BY Initially, Inductive, PTL DEF Spec

\* Every variable of the session store keeps its type.
THEOREM TypeCorrect == Spec => []TypeOK
<1>1. IInv => TypeOK
  BY DEF IInv
<1> QED BY <1>1, Invariance, PTL

\* Concurrent rotations never leave a family with two usable sessions.
THEOREM NeverForks == Spec => []OneLivePerFamily
<1>1. IInv => OneLivePerFamily
  BY DEF IInv, Rows
<1> QED BY <1>1, Invariance, PTL

\* The sessions of a family form a single chain of replacements.
THEOREM FamilyIsChain == Spec => []RotationChain
<1>1. ASSUME IInv PROVE RotationChain
  <2> SUFFICES ASSUME NEW s \in stored
               PROVE  \/ family[s] = s /\ \A p \in stored : replacedBy[p] # s
                      \/ \E p \in stored \ {s} :
                           /\ replacedBy[p] = s
                           /\ \A q \in stored : replacedBy[q] = s => q = p
                           /\ p \in revoked
                           /\ family[p] = family[s] /\ owner[p] = owner[s]
    BY <1>1 DEF RotationChain, IInv, Rows
  <2>1. s # None /\ stored \subseteq Session
    BY <1>1, NoneAssumption DEF IInv, TypeOK
  <2>2. CASE family[s] = s
    BY <1>1, <2>1, <2>2 DEF IInv, Rows, LinksSound
  <2>3. CASE family[s] # s
    BY <1>1, <2>1, <2>3 DEF IInv, Rows, EachReplaces, LinksSound, LinksInjective
  <2> QED BY <2>2, <2>3
<1> QED BY <1>1, Invariance, PTL

(***************************************************************************)
(* A session other than a family's first one appears only in the step that *)
(* revokes the live session it replaces.                                   *)
(***************************************************************************)
THEOREM BornOnlyFromLive == Spec => BornFromLive
<1> DEFINE Born == \A s \in stored' \ stored :
                     \/ family'[s] = s
                     \/ \E p \in stored : Live(p) /\ p \in revoked' /\ replacedBy'[p] = s
<1>1. IInv /\ [Next]_vars => [Born]_vars
  <2> SUFFICES ASSUME IInv, Next, NEW s \in stored', s \notin stored
               PROVE  \/ family'[s] = s
                      \/ \E p \in stored : Live(p) /\ p \in revoked' /\ replacedBy'[p] = s
    OBVIOUS
  <2>1. PICK h \in Handler : CommitLogin(h) \/ CommitRotation(h)
    BY DEF Next, Begin, BeginLogin, BeginRefresh, BeginLogout, BeginLogoutAll, Starts,
           Step, FindToken, Reread, Insert, MarkReplaced, RevokeSession, Scan, Sweep,
           CommitRevocation, Abort, DeadlockVictim, RollsBack, Expire, rows
  <2>2. CASE CommitLogin(h)
    BY <2>2 DEF CommitLogin, IInv, TypeOK, Transactions, Sound, Phase
  <2>3. CASE CommitRotation(h)
    BY <2>3, NoneAssumption
       DEF CommitRotation, IInv, TypeOK, Transactions, Sound, Phase, Locks, Rotating, Live
  <2> QED BY <2>1, <2>2, <2>3
<1> QED BY <1>1, Invariance, PTL DEF Spec, BornFromLive

\* No commit undoes a revocation, or changes what a session was replaced by.
THEOREM RevokedForever == Spec => RevocationIsFinal
<1> DEFINE Final == /\ stored \subseteq stored' /\ revoked \subseteq revoked'
                    /\ \A s \in Session :
                         replacedBy[s] # None => replacedBy'[s] = replacedBy[s]
<1>1. IInv /\ [Next]_vars => [Final]_vars
  <2> SUFFICES ASSUME IInv, Next PROVE Final
    OBVIOUS
  <2>1. CASE UNCHANGED rows
    BY <2>1 DEF rows
  <2>2. CASE \E h \in Handler : CommitLogin(h) \/ CommitRevocation(h)
    BY <2>2 DEF CommitLogin, CommitRevocation
  <2>3. CASE \E h \in Handler : CommitRotation(h)
    BY <2>3 DEF CommitRotation, IInv, TypeOK, Transactions, Sound, Rotating
  <2> QED
    BY <2>1, <2>2, <2>3
       DEF Next, Begin, BeginLogin, BeginRefresh, BeginLogout, BeginLogoutAll, Starts,
           Step, FindToken, Reread, Insert, MarkReplaced, RevokeSession, Scan, Sweep,
           Abort, DeadlockVictim, RollsBack, Expire
<1> QED BY <1>1, Invariance, PTL DEF Spec, RevocationIsFinal
-----------------------------------------------------------------------------
(* What an UPDATE of many rows leaves behind.                               *)

\* The session s is one of those that the transaction t is to revoke.
Meant(t, s) ==
    IF t.op = "reuse" THEN family[s] = family[t.token] ELSE owner[s] = owner[t.token]

\* Until it commits, every session it has seen is revoked, updated or still to do.
Covered(t) ==
    t.at = "sweep" =>
       /\ t.token \in stored /\ t.seen \subseteq stored
       /\ \A s \in t.seen : Meant(t, s) => s \in revoked \cup t.todo \cup t.revoking

Covering == \A h \in Handler : Covered(tx[h])

\* Sessions keep their user and family, and what is revoked stays revoked.
RowsGrow ==
    /\ stored \subseteq stored' /\ revoked \subseteq revoked'
    /\ \A s \in stored : owner'[s] = owner[s] /\ family'[s] = family[s]

LEMMA StillCovered ==
    ASSUME RowsGrow, NEW t, Covered(t)
    PROVE  Covered(t)'
BY DEF RowsGrow, Covered, Meant

LEMMA RowsOnlyGrow ==
    ASSUME IInv, [Next]_vars
    PROVE  RowsGrow
<1>1. CASE UNCHANGED rows
  BY <1>1 DEF rows, RowsGrow
<1>2. ASSUME NEW h \in Handler, CommitLogin(h) PROVE RowsGrow
  BY <1>2, NoneAssumption
     DEF CommitLogin, RowsGrow, IInv, TypeOK, Transactions, Sound, Phase, FreshId
<1>3. ASSUME NEW h \in Handler, CommitRotation(h) PROVE RowsGrow
  BY <1>3, NoneAssumption
     DEF CommitRotation, RowsGrow, IInv, TypeOK, Transactions, Sound, Phase, FreshId
<1>4. ASSUME NEW h \in Handler, CommitRevocation(h) PROVE RowsGrow
  BY <1>4 DEF CommitRevocation, RowsGrow
<1> QED
  BY <1>1, <1>2, <1>3, <1>4
     DEF Next, Begin, BeginLogin, BeginRefresh, BeginLogout, BeginLogoutAll, Starts,
         Step, FindToken, Reread, Insert, MarkReplaced, RevokeSession, Scan, Sweep,
         Abort, DeadlockVictim, RollsBack, Expire, vars, rows

\* A request that is not in the middle of an UPDATE of many rows has nothing to cover.
LEMMA OnlySweepsCover ==
    ASSUME IInv, Covering, RowsGrow, NEW h \in Handler,
           \A g \in Handler \ {h} : tx'[g] = tx[g],
           tx'[h].at = "sweep" => Covered(tx[h])'
    PROVE  Covering'
<1>1. ASSUME NEW g \in Handler \ {h} PROVE Covered(tx[g])'
  <2>1. PICK t : t = tx[g] /\ Covered(t)
    BY DEF Covering
  <2>2. Covered(t)'
    BY <2>1, StillCovered
  <2> QED BY <2>1, <2>2 DEF Covered, Meant
<1>2. Covered(tx[h])'
  BY DEF Covered, Meant
<1> QED BY <1>1, <1>2 DEF Covering

LEMMA CoveringStep == IInv /\ Covering /\ [Next]_vars => Covering'
<1> SUFFICES ASSUME IInv, Covering, [Next]_vars PROVE Covering'
  OBVIOUS
<1>0. RowsGrow
  BY RowsOnlyGrow
<1>1. CASE UNCHANGED tx
  BY <1>0, <1>1, StillCovered DEF Covering, Covered, Meant
<1>2. ASSUME NEW h \in Handler, \A g \in Handler \ {h} : tx'[g] = tx[g], tx'[h].at # "sweep"
      PROVE  Covering'
  BY <1>0, <1>2, OnlySweepsCover
<1>3. ASSUME NEW h \in Handler, RollsBack(h) PROVE Covering'
  BY <1>2, <1>3 DEF RollsBack, Idle, IInv, TypeOK
<1>4. ASSUME NEW h \in Handler, Begin(h) PROVE Covering'
  BY <1>2, <1>4 DEF Begin, BeginLogin, BeginRefresh, BeginLogout, BeginLogoutAll, Starts,
     Idle, IInv, TypeOK
<1>5. ASSUME NEW h \in Handler,
             FindToken(h) \/ Reread(h) \/ Insert(h) \/ MarkReplaced(h) \/ RevokeSession(h)
      PROVE  Covering'
  BY <1>2, <1>3, <1>5
     DEF FindToken, Reread, Insert, MarkReplaced, RevokeSession, IInv, TypeOK, Tx
<1>6. ASSUME NEW h \in Handler, CommitLogin(h) \/ CommitRotation(h) \/ CommitRevocation(h)
      PROVE  Covering'
  BY <1>2, <1>6 DEF CommitLogin, CommitRotation, CommitRevocation, Idle, IInv, TypeOK
<1>7. ASSUME NEW h \in Handler, Scan(h) PROVE Covering'
  <2>1. PICK t, u : /\ t = tx[h] /\ u = tx'[h] /\ t \in Tx
                    /\ u = [t EXCEPT !.at = "sweep", !.todo = Matched(h), !.seen = stored]
    BY <1>7 DEF Scan, IInv, TypeOK
  <2>2. /\ u.op = t.op /\ u.token = t.token /\ u.todo = Matched(h) /\ u.seen = stored
        /\ t.token \in stored
    BY <1>7, <2>1 DEF Tx, Scan, IInv, Transactions, Sound, Phase
  <2>3. Covered(u)
    BY <2>1, <2>2 DEF Covered, Meant, Matched, Concerns
  <2>4. Covered(u)'
    BY <1>0, <2>3, StillCovered
  <2>5. Covered(tx[h])' /\ \A g \in Handler \ {h} : tx'[g] = tx[g]
    BY <1>7, <2>1, <2>4 DEF Scan, IInv, TypeOK, Covered, Meant
  <2> QED BY <1>0, <2>5, OnlySweepsCover
<1>8. ASSUME NEW h \in Handler, NEW s \in Session, Sweep(h, s) PROVE Covering'
  <2>1. PICK t, u : /\ t = tx[h] /\ u = tx'[h] /\ t \in Tx /\ t.at = "sweep" /\ Covered(t)
                    /\ u = [t EXCEPT !.todo = t.todo \ {s},
                                     !.revoking = t.revoking \cup ({s} \ revoked)]
    BY <1>8 DEF Sweep, IInv, TypeOK, Covering
  <2>2. /\ u.op = t.op /\ u.token = t.token /\ u.seen = t.seen /\ u.at = t.at
        /\ u.todo = t.todo \ {s} /\ u.revoking = t.revoking \cup ({s} \ revoked)
    BY <2>1 DEF Tx
  <2>3. Covered(u)
    BY <2>1, <2>2 DEF Covered, Meant
  <2>4. Covered(u)'
    BY <1>0, <2>3, StillCovered
  <2>5. Covered(tx[h])' /\ \A g \in Handler \ {h} : tx'[g] = tx[g]
    BY <1>8, <2>1, <2>4 DEF Sweep, IInv, TypeOK, Covered, Meant
  <2> QED BY <1>0, <2>5, OnlySweepsCover
<1> QED BY <1>1, <1>3, <1>4, <1>5, <1>6, <1>7, <1>8
        DEF Next, Step, Abort, DeadlockVictim, Expire, vars

(***************************************************************************)
(* A logout of all sessions, or the revocation of a family, has revoked    *)
(* every session that was there when its UPDATE started.                   *)
(***************************************************************************)
THEOREM SweepsMissNothing == Spec => RevokesWhatItSaw
<1> DEFINE Done == \A h \in Handler : tx[h].at = "sweep" /\ CommitRevocation(h) =>
                      \A s \in tx[h].seen : Concerns(h, s) => s \in revoked'
<1>1. Init => Covering
  BY DEF Init, Covering, Covered, Idle
<1>2. IInv /\ Covering => Done
  <2> SUFFICES ASSUME IInv, Covering, NEW h \in Handler, tx[h].at = "sweep",
                      CommitRevocation(h), NEW s \in tx[h].seen, Concerns(h, s)
               PROVE  s \in revoked'
    OBVIOUS
  <2>1. tx[h].todo = {}
    BY DEF CommitRevocation, RevocationDone
  <2>2. s \in revoked \cup tx[h].revoking
    BY <2>1 DEF Covering, Covered, Meant, Concerns
  <2> QED BY <2>2 DEF CommitRevocation
<1>3. Spec => [](IInv /\ Covering)
  BY <1>1, CoveringStep, Invariance, PTL DEF Spec
<1>4. [][Done]_vars <=> RevokesWhatItSaw
  BY DEF RevokesWhatItSaw
<1>5. IInv /\ Covering => [Done]_vars
  BY <1>2
<1> QED BY <1>3, <1>4, <1>5, PTL
=============================================================================
