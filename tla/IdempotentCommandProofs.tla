----------------------- MODULE IdempotentCommandProofs -----------------------
(***************************************************************************)
(* What the promise of IdempotentCommand gives a client, for every set of  *)
(* commands and identities.  Since MutationExecutor implements the promise *)
(* (MutationExecutorProofs), it gives the clients of executeMutation that. *)
(***************************************************************************)
EXTENDS IdempotentCommand, TLAPS

Outcome == [kind: {"pending", "executed", "conflict", "failed"}]
           \cup [kind: {"replayed"}, of: Request]

\* The record of an identity is that of an executed command.
RecordOfExecuted(k) ==
    record[k] # NoRecord =>
       \E q \in Request : /\ outcome[q] = Executed
                         /\ record[k].of = q /\ record[k].body = input[q].body
                         /\ input[q].key = k

\* It says when its lifetime is over.
Dated(k) == record[k] # NoRecord => record[k].expiresAt \in Nat

IInv ==
    /\ input \in [Request -> [key: Key \cup Unkeyed, body: Body]]
    /\ outcome \in [Request -> Outcome]
    /\ record = [k \in Key |-> record[k]]
    /\ now \in Nat
    /\ \A k \in Key : RecordOfExecuted(k)
    /\ TTL \in Nat => \A k \in Key : Dated(k)
    /\ ReplaysWereExecuted

LEMMA Outcomes ==
    /\ Pending \in Outcome /\ Executed \in Outcome /\ Conflict \in Outcome
    /\ Failed \in Outcome /\ \A q \in Request : Replayed(q) \in Outcome
    /\ \A o \in {Pending, Executed, Conflict, Failed} : o.kind # "replayed"
    /\ Executed # Pending /\ Conflict # Pending /\ Failed # Pending
    /\ \A q \in Request : Replayed(q) # Pending /\ Replayed(q).kind = "replayed"
BY DEF Pending, Executed, Conflict, Failed, Replayed, Outcome

LEMMA Initially == Init => IInv
<1> SUFFICES ASSUME Init PROVE IInv
  OBVIOUS
<1>1. outcome \in [Request -> Outcome]
  BY Outcomes DEF Init
<1>2. ReplaysWereExecuted
  BY Outcomes DEF Init, ReplaysWereExecuted
<1> QED BY <1>1, <1>2 DEF Init, IInv, RecordOfExecuted, Dated

\* A command that is answered leaves the answers of the others, and what they rest on.
LEMMA AnswerStep ==
    ASSUME IInv, NEW r \in Request, NEW result \in Outcome, Ends(r, result),
           UNCHANGED <<input, now>>,
           result.kind = "replayed" =>
              \E q \in Request : result = Replayed(q) /\ outcome[q] = Executed /\ input[q] = input[r],
           \/ UNCHANGED record
           \/ \E k \in Key : \E new :
                /\ record' = [record EXCEPT ![k] = new] /\ result = Executed
                /\ new.of = r /\ new.body = input[r].body /\ input[r].key = k
                /\ TTL \in Nat => new.expiresAt \in Nat
    PROVE  IInv'
<1>1. /\ outcome[r] = Pending /\ outcome'[r] = result /\ outcome' \in [Request -> Outcome]
      /\ \A q \in Request \ {r} : outcome'[q] = outcome[q]
  BY DEF Ends, IInv
<1>2. \A q \in Request : outcome[q] = Executed => outcome'[q] = Executed
  BY <1>1, Outcomes
<1>3. ReplaysWereExecuted'
  <2> SUFFICES ASSUME NEW p \in Request, outcome'[p].kind = "replayed"
               PROVE  \E q \in Request : /\ outcome'[p] = Replayed(q)
                                         /\ outcome'[q] = Executed /\ input[q] = input[p]
    BY DEF ReplaysWereExecuted, Replayed, Executed
  <2>1. CASE p = r
    BY <1>1, <1>2, <2>1
  <2>2. CASE p # r
    <3>1. PICK q \in Request : /\ outcome[p] = Replayed(q)
                               /\ outcome[q] = Executed /\ input[q] = input[p]
      BY <1>1, <2>2 DEF IInv, ReplaysWereExecuted
    <3> QED BY <1>1, <1>2, <2>2, <3>1
  <2> QED BY <2>1, <2>2
<1>4. record' = [k \in Key |-> record'[k]]
  BY DEF IInv
<1>5. ASSUME NEW k \in Key PROVE RecordOfExecuted(k)'
  <2>1. CASE record'[k] = record[k]
    BY <1>2, <2>1 DEF IInv, RecordOfExecuted, Executed
  <2>2. CASE record'[k] # record[k]
    <3>1. /\ result = Executed /\ input[r].key = k
          /\ record'[k].of = r /\ record'[k].body = input[r].body
      BY <2>2 DEF IInv
    <3> QED BY <1>1, <3>1 DEF RecordOfExecuted, Executed
  <2> QED BY <2>1, <2>2
<1>6. ASSUME TTL \in Nat, NEW k \in Key PROVE Dated(k)'
  BY <1>6 DEF IInv, Dated
<1> QED BY <1>1, <1>3, <1>4, <1>5, <1>6 DEF IInv

\* Whoever is answered, and what the answer rests on.
LEMMA ActionAnswers ==
    ASSUME IInv, NEW r \in Request,
           \/ \E k \in Key :
                \/ \E since \in 0..now : ExecuteKeyed(r, k, since)
                \/ ReplayKeyed(r, k) \/ RefuseReuse(r, k)
           \/ ExecuteUnkeyed(r) \/ Fail(r)
    PROVE  IInv' /\ \E result \in Outcome : result # Pending /\ Ends(r, result)
<1>1. ASSUME NEW k \in Key, NEW since \in 0..now, ExecuteKeyed(r, k, since)
      PROVE  IInv' /\ Ends(r, Executed)
  <2>1. PICK new : new = [of |-> r, body |-> input[r].body, expiresAt |-> since + TTL]
    OBVIOUS
  <2>2. /\ Ends(r, Executed) /\ UNCHANGED <<input, now>> /\ input[r].key = k
        /\ record' = [record EXCEPT ![k] = new]
    BY <1>1, <2>1 DEF ExecuteKeyed
  <2>3. /\ new.of = r /\ new.body = input[r].body
        /\ TTL \in Nat => new.expiresAt \in Nat
    BY <2>1 DEF IInv
  <2>4. Executed \in Outcome /\ Executed.kind # "replayed"
    BY Outcomes
  <2> QED BY <2>2, <2>3, <2>4, AnswerStep
<1>2. ASSUME NEW k \in Key, ReplayKeyed(r, k)
      PROVE  IInv' /\ \E q \in Request : Ends(r, Replayed(q))
  <2>1. PICK q \in Request : /\ outcome[q] = Executed /\ record[k].of = q
                             /\ record[k].body = input[q].body /\ input[q].key = k
    BY <1>2 DEF ReplayKeyed, IInv, RecordOfExecuted
  <2>2. /\ Ends(r, Replayed(q)) /\ UNCHANGED <<input, record, now>>
        /\ input[r].key = k /\ input[r].body = input[q].body
    BY <1>2, <2>1 DEF ReplayKeyed
  <2>3. input[q] = input[r]
    BY <2>1, <2>2 DEF IInv
  <2> QED BY <2>1, <2>2, <2>3, Outcomes, AnswerStep
<1>3. ASSUME NEW result \in {Executed, Conflict, Failed}, Ends(r, result),
             UNCHANGED <<input, record, now>>
      PROVE  IInv'
  BY <1>3, Outcomes, AnswerStep
<1>4. ASSUME NEW k \in Key, RefuseReuse(r, k) PROVE IInv' /\ Ends(r, Conflict)
  BY <1>3, <1>4 DEF RefuseReuse
<1>5. CASE ExecuteUnkeyed(r) \/ Fail(r)
  BY <1>3, <1>5, Outcomes DEF ExecuteUnkeyed, Fail
<1> QED BY <1>1, <1>2, <1>4, <1>5, Outcomes

LEMMA Inductive == IInv /\ [Next]_vars => IInv'
<1> SUFFICES ASSUME IInv, [Next]_vars PROVE IInv'
  OBVIOUS
<1>1. CASE Tick \/ UNCHANGED vars
  <2>1. UNCHANGED <<input, record, outcome>> /\ now' \in Nat
    BY <1>1 DEF Tick, vars, IInv
  <2> QED BY <2>1 DEF IInv, RecordOfExecuted, Dated, ReplaysWereExecuted, Executed, Replayed
<1> QED BY <1>1, ActionAnswers DEF Next

THEOREM Invariance == Spec => []IInv
BY Initially, Inductive, PTL DEF Spec

\* What is replayed to a client is what an equal command of the same identity got.
THEOREM ReplaysAreGenuine == Spec => []ReplaysWereExecuted
BY Invariance, PTL DEF IInv

\* Nothing that happens later changes an answer.
THEOREM AnswersStay == Spec => AnswersAreFinal
<1> DEFINE Final == \A r \in Request : outcome[r] # Pending => outcome'[r] = outcome[r]
<1>1. IInv /\ [Next]_vars => [Final]_vars
  <2> SUFFICES ASSUME IInv, Next PROVE Final
    OBVIOUS
  <2>1. CASE Tick
    BY <2>1 DEF Tick
  <2>2. CASE ~Tick
    <3>1. PICK r \in Request, result \in Outcome : Ends(r, result)
      BY <2>2, ActionAnswers DEF Next
    <3> QED BY <3>1 DEF Ends, IInv
  <2> QED BY <2>1, <2>2
<1>2. [][Final]_vars <=> AnswersAreFinal
  BY DEF AnswersAreFinal
<1> QED BY <1>1, <1>2, Invariance, PTL DEF Spec

\* Two commands of one identity are executed a lifetime apart.
THEOREM RecordsStay == ASSUME TTL \in Nat PROVE Spec => RecordsLastALifetime
<1> DEFINE Last ==
      \A k \in Key : record'[k] # record[k] =>
          /\ record[k] = NoRecord \/ record[k].expiresAt <= now
          /\ \E r \in Request : /\ input[r].key = k
                               /\ outcome[r] = Pending /\ outcome'[r] = Executed
<1>1. IInv /\ [Next]_vars => [Last]_vars
  <2> SUFFICES ASSUME IInv, Next, NEW k \in Key, record'[k] # record[k]
               PROVE  /\ record[k] = NoRecord \/ record[k].expiresAt <= now
                      /\ \E r \in Request : /\ input[r].key = k
                                           /\ outcome[r] = Pending /\ outcome'[r] = Executed
    OBVIOUS
  <2>1. PICK r \in Request, j \in Key, since \in 0..now : ExecuteKeyed(r, j, since)
    BY DEF Next, Tick, Fail, ExecuteUnkeyed, RefuseReuse, ReplayKeyed
  <2>2. j = k
    BY <2>1 DEF ExecuteKeyed, IInv
  <2>3. outcome[r] = Pending /\ outcome'[r] = Executed /\ input[r].key = k
    BY <2>1, <2>2 DEF ExecuteKeyed, Ends, IInv
  <2>4. record[k] = NoRecord \/ record[k].expiresAt <= now
    <3>1. now \in Nat /\ since \in Nat /\ since <= now
      BY DEF IInv
    <3>2. record[k] = NoRecord \/ record[k].expiresAt <= since
      BY <2>1, <2>2 DEF ExecuteKeyed
    <3>3. record[k] # NoRecord => record[k].expiresAt \in Nat
      BY DEF IInv, Dated
    <3> QED BY <3>1, <3>2, <3>3
  <2> QED BY <2>3, <2>4
<1>2. [][Last]_vars <=> RecordsLastALifetime
  BY DEF RecordsLastALifetime
<1> QED BY <1>1, <1>2, Invariance, PTL DEF Spec
=============================================================================
