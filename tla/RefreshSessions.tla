-------------------------- MODULE RefreshSessions --------------------------
(***************************************************************************)
(* The refresh-token sessions of modules/auth: login and registration open *)
(* a token family, refresh rotates a token into its replacement, presenting*)
(* a token that was already rotated or revoked revokes the whole family,   *)
(* logout revokes one session and logout-all every session of the user.    *)
(*                                                                         *)
(* Each handler is one HTTP request at a time in a READ COMMITTED          *)
(* transaction.  A statement sees the rows committed when it starts; an    *)
(* UPDATE then waits for rows another transaction has updated, looks at    *)
(* each of them again, and never notices a row that was inserted since.    *)
(* A session stands for its row, its refresh token and its access token.   *)
(***************************************************************************)
EXTENDS Naturals

CONSTANTS Handler, Session, User, None

ASSUME NoneAssumption == None \notin Session /\ None \notin User

VARIABLES
    stored,      \* sessions with a committed row
    owner,       \* user_id of each session
    family,      \* token_family_id: the first session of the family
    revoked,     \* committed rows with revoked_at set
    replacedBy,  \* replaced_by_id
    expired,     \* sessions past expires_at
    tx,          \* what each handler is doing
    reported     \* history: families a client was told are revoked

rows == <<stored, owner, family, revoked, replacedBy>>
vars == <<stored, owner, family, revoked, replacedBy, expired, tx, reported>>

Op == {"none", "login", "refresh", "reuse", "logout", "logoutAll"}
At == {"idle", "find", "reread", "insert", "mark", "revoke", "scan", "sweep", "commit"}

(***************************************************************************)
(* `token` is the session the request presents, `mine` the one it may      *)
(* insert, `todo` the rows its running UPDATE has still to look at,        *)
(* `revoking` the rows it has updated and so keeps locked.  `seen` is      *)
(* history: the rows that were there when the UPDATE started.              *)
(***************************************************************************)
Tx == [op: Op, at: At, token: Session \cup {None}, user: User \cup {None},
       mine: Session \cup {None}, todo: SUBSET Session, revoking: SUBSET Session,
       seen: SUBSET Session]

Idle == [op |-> "none", at |-> "idle", token |-> None, user |-> None,
         mine |-> None, todo |-> {}, revoking |-> {}, seen |-> {}]

Init ==
    /\ stored = {}
    /\ owner = [s \in Session |-> None]
    /\ family = [s \in Session |-> None]
    /\ revoked = {}
    /\ replacedBy = [s \in Session |-> None]
    /\ expired = {}
    /\ tx = [h \in Handler |-> Idle]
    /\ reported = {}

Live(s) == s \in stored \ revoked

\* findActiveSession: what authentication asks of the session of an access token.
Active(s) == Live(s) /\ s \notin expired

\* A row another transaction has updated and not committed.
LockedFor(h, s) == \E g \in Handler \ {h} : s \in tx[g].revoking

\* randomUUID and randomOpaqueToken never return a value that is in use.
Unused(s) == s \notin stored /\ \A g \in Handler : tx[g].mine # s

Starts(h, op, at, token, user, mine) ==
    /\ tx[h].at = "idle"
    /\ tx' = [tx EXCEPT ![h] =
                [Idle EXCEPT !.op = op, !.at = at, !.token = token,
                             !.user = user, !.mine = mine]]
    /\ UNCHANGED <<rows, expired, reported>>

RollsBack(h) ==
    /\ tx' = [tx EXCEPT ![h] = Idle]
    /\ UNCHANGED <<rows, expired, reported>>

-----------------------------------------------------------------------------
\* Registration and a login with the right password differ only in the user row.
BeginLogin(h, u, s) == Unused(s) /\ Starts(h, "login", "insert", None, u, s)

\* Anybody holding a token may present it, however old it is.
BeginRefresh(h, s, new) ==
    /\ s \in stored
    /\ Unused(new)
    /\ Starts(h, "refresh", "find", s, None, new)

\* By cookie, whatever the state of its session, or by a valid access token.
BeginLogout(h, s) == s \in stored /\ Starts(h, "logout", "revoke", s, None, None)

\* authenticate reads the session before the transaction begins.
BeginLogoutAll(h, s) == Active(s) /\ Starts(h, "logoutAll", "scan", s, None, None)

(***************************************************************************)
(* refresh, findByTokenHash: an expired token is refused, a revoked or     *)
(* rotated one is reuse, any other goes on to be rotated.                  *)
(***************************************************************************)
Reused(s) == s \in revoked \/ replacedBy[s] # None

FindToken(h) ==
    LET s == tx[h].token IN
    /\ tx[h].at = "find"
    /\ \/ s \in expired /\ RollsBack(h)
       \/ /\ s \notin expired
          /\ tx' = [tx EXCEPT
                      ![h].op = IF Reused(s) THEN "reuse" ELSE "refresh",
                      ![h].at = IF Reused(s) THEN "scan" ELSE "reread",
                      ![h].mine = IF Reused(s) THEN None ELSE tx[h].mine]
          /\ UNCHANGED <<rows, expired, reported>>

\* rotate reads the session again and refuses one that ended in the meantime.
Reread(h) ==
    LET s == tx[h].token IN
    /\ tx[h].at = "reread"
    /\ \/ ~Active(s) /\ RollsBack(h)
       \/ /\ Active(s)
          /\ tx' = [tx EXCEPT ![h].at = "insert"]
          /\ UNCHANGED <<rows, expired, reported>>

\* The new row stays invisible to other transactions until this one commits.
Insert(h) ==
    /\ tx[h].at = "insert"
    /\ tx' = [tx EXCEPT ![h].at = IF tx[h].op = "login" THEN "commit" ELSE "mark"]
    /\ UNCHANGED <<rows, expired, reported>>

\* Mutant: the number of updated rows is not looked at.
MarkReplaced_AnyCount(h) ==
    LET s == tx[h].token IN
    /\ tx[h].at = "mark"
    /\ ~LockedFor(h, s)
    /\ tx' = [tx EXCEPT ![h].at = "commit", ![h].revoking = {s} \ revoked]
    /\ UNCHANGED <<rows, expired, reported>>

(***************************************************************************)
(* UPDATE ... WHERE id = token AND revoked_at IS NULL AND replaced_by_id   *)
(* IS NULL waits for whoever is changing the row; another count than one   *)
(* throws.                                                                 *)
(***************************************************************************)
MarkReplaced(h) ==
    LET s == tx[h].token IN
    /\ tx[h].at = "mark"
    /\ ~LockedFor(h, s)
    /\ \/ Reused(s) /\ RollsBack(h)
       \/ /\ ~Reused(s)
          /\ tx' = [tx EXCEPT ![h].at = "commit", ![h].revoking = {s}]
          /\ UNCHANGED <<rows, expired, reported>>

RevokeSession(h) ==
    LET s == tx[h].token IN
    /\ tx[h].at = "revoke"
    /\ ~LockedFor(h, s)
    /\ tx' = [tx EXCEPT ![h].at = "commit", ![h].revoking = {s} \ revoked]
    /\ UNCHANGED <<rows, expired, reported>>

\* revokeFamily and revokeAll: the sessions they are to revoke ...
Concerns(h, s) ==
    IF tx[h].op = "reuse" THEN family[s] = family[tx[h].token]
                          ELSE owner[s] = owner[tx[h].token]

\* ... and the rows their UPDATE finds when it starts.
Matched(h) == {s \in stored \ revoked : Concerns(h, s)}

Scan(h) ==
    /\ tx[h].at = "scan"
    /\ tx' = [tx EXCEPT ![h].at = "sweep", ![h].todo = Matched(h), ![h].seen = stored]
    /\ UNCHANGED <<rows, expired, reported>>

\* Mutant: rows that somebody else has locked are skipped (SKIP LOCKED).
Sweep_SkipLocked(h, s) ==
    /\ tx[h].at = "sweep"
    /\ s \in tx[h].todo
    /\ tx' = [tx EXCEPT ![h].todo = tx[h].todo \ {s},
                        ![h].revoking = IF LockedFor(h, s) THEN tx[h].revoking
                                        ELSE tx[h].revoking \cup ({s} \ revoked)]
    /\ UNCHANGED <<rows, expired, reported>>

\* Mutant: a row that was revoked while the UPDATE waited is waited for for ever.
Sweep_OnlyUnrevoked(h, s) ==
    /\ tx[h].at = "sweep"
    /\ s \in tx[h].todo \ revoked
    /\ ~LockedFor(h, s)
    /\ tx' = [tx EXCEPT ![h].todo = tx[h].todo \ {s},
                        ![h].revoking = tx[h].revoking \cup {s}]
    /\ UNCHANGED <<rows, expired, reported>>

\* ... and updates one by one, in any order, skipping those revoked meanwhile.
Sweep(h, s) ==
    /\ tx[h].at = "sweep"
    /\ s \in tx[h].todo
    /\ ~LockedFor(h, s)
    /\ tx' = [tx EXCEPT ![h].todo = tx[h].todo \ {s},
                        ![h].revoking = tx[h].revoking \cup ({s} \ revoked)]
    /\ UNCHANGED <<rows, expired, reported>>

-----------------------------------------------------------------------------
\* COMMIT makes the transaction's rows visible, all at once, and frees its locks.
CommitLogin(h) ==
    LET t == tx[h] IN
    /\ t.at = "commit" /\ t.op = "login"
    /\ stored' = stored \cup {t.mine}
    /\ owner' = [owner EXCEPT ![t.mine] = t.user]
    /\ family' = [family EXCEPT ![t.mine] = t.mine]
    /\ tx' = [tx EXCEPT ![h] = Idle]
    /\ UNCHANGED <<revoked, replacedBy, expired, reported>>

CommitRotation(h) ==
    LET t == tx[h] IN
    /\ t.at = "commit" /\ t.op = "refresh"
    /\ stored' = stored \cup {t.mine}
    /\ owner' = [owner EXCEPT ![t.mine] = owner[t.token]]
    /\ family' = [family EXCEPT ![t.mine] = family[t.token]]
    /\ revoked' = revoked \cup t.revoking
    /\ replacedBy' = [replacedBy EXCEPT ![t.token] = t.mine]
    /\ tx' = [tx EXCEPT ![h] = Idle]
    /\ UNCHANGED <<expired, reported>>

\* A logout, or an UPDATE of many rows that has no row left to look at.
RevocationDone(h) ==
    \/ tx[h].at = "commit" /\ tx[h].op = "logout"
    \/ tx[h].at = "sweep" /\ tx[h].todo = {}

\* Mutant: what is reported revoked is the user, not the family.
CommitRevocation_OfUser(h) ==
    LET t == tx[h] IN
    /\ RevocationDone(h)
    /\ revoked' = revoked \cup t.revoking
    /\ reported' = IF t.op = "reuse" THEN reported \cup {owner[t.token]} ELSE reported
    /\ tx' = [tx EXCEPT ![h] = Idle]
    /\ UNCHANGED <<stored, owner, family, replacedBy, expired>>

(***************************************************************************)
(* The 401 that reports reuse is thrown after the transaction committed,   *)
(* so that the revocation it speaks of is not rolled back.                 *)
(***************************************************************************)
CommitRevocation(h) ==
    LET t == tx[h] IN
    /\ RevocationDone(h)
    /\ revoked' = revoked \cup t.revoking
    /\ reported' = IF t.op = "reuse" THEN reported \cup {family[t.token]} ELSE reported
    /\ tx' = [tx EXCEPT ![h] = Idle]
    /\ UNCHANGED <<stored, owner, family, replacedBy, expired>>

\* A statement fails, the time limit of the transaction passes, or the process stops.
Abort(h) == tx[h].at # "idle" /\ RollsBack(h)

(***************************************************************************)
(* Transactions that sweep rows in different orders can wait for each      *)
(* other; PostgreSQL then aborts one of them.                              *)
(***************************************************************************)
WaitsFor(h) ==
    CASE tx[h].at \in {"mark", "revoke"} -> {tx[h].token}
      [] tx[h].at = "sweep"              -> tx[h].todo
      [] OTHER                           -> {}

BlockedBy(h, others) ==
    /\ WaitsFor(h) # {}
    /\ \A s \in WaitsFor(h) : \E g \in others \ {h} : s \in tx[g].revoking

DeadlockVictim(h) ==
    /\ \E cycle \in SUBSET Handler : h \in cycle /\ \A g \in cycle : BlockedBy(g, cycle)
    /\ RollsBack(h)

\* Time passes the expiry of a session.
Expire(s) ==
    /\ s \in stored \ expired
    /\ expired' = expired \cup {s}
    /\ UNCHANGED <<rows, tx, reported>>

Begin(h) ==
    \/ \E u \in User, s \in Session : BeginLogin(h, u, s)
    \/ \E s, new \in Session : BeginRefresh(h, s, new)
    \/ \E s \in Session : BeginLogout(h, s) \/ BeginLogoutAll(h, s)

\* What the server does on its own once a request has begun.
Step(h) ==
    \/ FindToken(h) \/ Reread(h) \/ Insert(h) \/ MarkReplaced(h)
    \/ RevokeSession(h) \/ Scan(h) \/ \E s \in Session : Sweep(h, s)
    \/ CommitLogin(h) \/ CommitRotation(h) \/ CommitRevocation(h)

Next ==
    \/ \E h \in Handler : Begin(h) \/ Step(h) \/ Abort(h) \/ DeadlockVictim(h)
    \/ \E s \in Session : Expire(s)

Spec == Init /\ [][Next]_vars

(***************************************************************************)
(* The server and PostgreSQL, its deadlock detection included, keep        *)
(* working.  PostgreSQL queues the transactions that wait for a row, so a  *)
(* stream of later requests does not pass a waiting one for ever: strong   *)
(* fairness, since the row is locked and free in turns.                    *)
(***************************************************************************)
FairSpec ==
    Spec /\ \A h \in Handler : SF_vars(Step(h)) /\ WF_vars(DeadlockVictim(h))
-----------------------------------------------------------------------------
TypeOK ==
    /\ stored \subseteq Session
    /\ owner \in [Session -> User \cup {None}]
    /\ family \in [Session -> Session \cup {None}]
    /\ revoked \subseteq Session
    /\ replacedBy \in [Session -> Session \cup {None}]
    /\ expired \subseteq Session
    /\ tx \in [Handler -> Tx]
    /\ reported \subseteq Session

(***************************************************************************)
(* However many requests present tokens of a family at the same time, the  *)
(* family never has two sessions that can be used: rotation never forks.   *)
(***************************************************************************)
OneLivePerFamily ==
    \A s, t \in stored : Live(s) /\ Live(t) /\ family[s] = family[t] => s = t

(***************************************************************************)
(* The sessions of a family form one chain: each but the first replaced    *)
(* exactly one other of the same user and family, which is revoked; a      *)
(* replacement that lost the race leaves no row.  Only the last link can   *)
(* be alive.                                                               *)
(***************************************************************************)
RotationChain ==
    /\ OneLivePerFamily
    /\ \A s \in stored :
         \/ family[s] = s /\ \A p \in stored : replacedBy[p] # s
         \/ \E p \in stored \ {s} :
              /\ replacedBy[p] = s
              /\ \A q \in stored : replacedBy[q] = s => q = p
              /\ p \in revoked
              /\ family[p] = family[s] /\ owner[p] = owner[s]

(***************************************************************************)
(* A session comes alive only by login, or in the step that ends the       *)
(* session it replaces, which was alive until then: a token revoked while  *)
(* its rotation was under way never yields a new session.                  *)
(***************************************************************************)
BornFromLive ==
    [][\A s \in stored' \ stored :
          \/ family'[s] = s
          \/ \E p \in stored : Live(p) /\ p \in revoked' /\ replacedBy'[p] = s]_vars

(***************************************************************************)
(* "Logout all" and the answer to a reused token miss nothing that was     *)
(* there when they started, however they wait for requests that rotate or  *)
(* revoke the same sessions and commit or fail: once they commit, only a   *)
(* session whose login or rotation committed in the meantime can be alive. *)
(***************************************************************************)
RevokesWhatItSaw ==
    [][\A h \in Handler : tx[h].at = "sweep" /\ CommitRevocation(h) =>
          \A s \in tx[h].seen : Concerns(h, s) => s \in revoked']_vars

(***************************************************************************)
(* What was revoked stays revoked, and what was replaced keeps its         *)
(* replacement, whichever transaction commits last.                        *)
(***************************************************************************)
RevocationIsFinal ==
    [][/\ stored \subseteq stored' /\ revoked \subseteq revoked'
       /\ \A s \in Session :
            replacedBy[s] # None => replacedBy'[s] = replacedBy[s]]_vars

(***************************************************************************)
(* Every request ends, although requests wait for each other's rows and    *)
(* may do so in a circle.                                                  *)
(***************************************************************************)
RequestsEnd == \A h \in Handler : tx[h].at # "idle" ~> tx[h].at = "idle"

(***************************************************************************)
(* "Revoke the full token family when a revoked refresh token is reused":  *)
(* once a client was told that the family has been revoked, no session of  *)
(* it can be used.                                                         *)
(***************************************************************************)
FamilyRevokedOnReuse ==
    \A s \in stored : family[s] \in reported => ~Live(s)
=============================================================================
