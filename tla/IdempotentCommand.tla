------------------------- MODULE IdempotentCommand -------------------------
(***************************************************************************)
(* What an Idempotency-Key promises a client of TaskMaster, without the    *)
(* transactions, locks and rows that keep the promise: for every identity  *)
(* there is at most one unexpired record of an executed command; a command *)
(* that finds none may execute, one that finds the record of an equal      *)
(* command gets that command's response, one that finds another body's is  *)
(* refused.  A command may always fail instead, without executing.         *)
(***************************************************************************)
EXTENDS Naturals

CONSTANTS Request, Key, Unkeyed, Body, NoRecord, TTL

VARIABLES
    input,    \* key (or a member of Unkeyed) and body of each command
    record,   \* the last executed command of each identity
    outcome,  \* what became of each command
    now

vars == <<input, record, outcome, now>>

Pending == [kind |-> "pending"]
Executed == [kind |-> "executed"]
Replayed(q) == [kind |-> "replayed", of |-> q]
Conflict == [kind |-> "conflict"]
Failed == [kind |-> "failed"]

Init ==
    /\ input \in [Request -> [key: Key \cup Unkeyed, body: Body]]
    /\ record = [k \in Key |-> NoRecord]
    /\ outcome = [r \in Request |-> Pending]
    /\ now = 0

Ends(r, result) ==
    /\ outcome[r] = Pending
    /\ outcome' = [outcome EXCEPT ![r] = result]

\* The record dates from a moment at which the previous one had expired.
ExecuteKeyed(r, k, since) ==
    /\ input[r].key = k
    /\ since <= now
    /\ record[k] = NoRecord \/ record[k].expiresAt <= since
    /\ record' = [record EXCEPT ![k] =
                    [of |-> r, body |-> input[r].body, expiresAt |-> since + TTL]]
    /\ Ends(r, Executed)
    /\ UNCHANGED <<input, now>>

ExecuteUnkeyed(r) ==
    /\ input[r].key \in Unkeyed
    /\ Ends(r, Executed)
    /\ UNCHANGED <<input, record, now>>

\* The record may expire between the decision to replay it and the response.
ReplayKeyed(r, k) ==
    /\ input[r].key = k
    /\ record[k] # NoRecord
    /\ record[k].body = input[r].body
    /\ Ends(r, Replayed(record[k].of))
    /\ UNCHANGED <<input, record, now>>

RefuseReuse(r, k) ==
    /\ input[r].key = k
    /\ record[k] # NoRecord
    /\ record[k].body # input[r].body
    /\ record[k].expiresAt > now
    /\ Ends(r, Conflict)
    /\ UNCHANGED <<input, record, now>>

Fail(r) ==
    /\ Ends(r, Failed)
    /\ UNCHANGED <<input, record, now>>

Tick ==
    /\ now' = now + 1
    /\ UNCHANGED <<input, record, outcome>>

Next ==
    \/ \E r \in Request :
         \/ \E k \in Key :
              \/ \E since \in 0..now : ExecuteKeyed(r, k, since)
              \/ ReplayKeyed(r, k)
              \/ RefuseReuse(r, k)
         \/ ExecuteUnkeyed(r)
         \/ Fail(r)
    \/ Tick

Spec == Init /\ [][Next]_vars
-----------------------------------------------------------------------------
(***************************************************************************)
(* What a client may conclude from an answer.  It is given once and stays: *)
(* no retry, failure or lost response changes what became of a command.    *)
(***************************************************************************)
AnswersAreFinal ==
    [][\A r \in Request : outcome[r] # Pending => outcome'[r] = outcome[r]]_vars

\* A replay is the answer of an equal command that was executed, and of no other.
ReplaysWereExecuted ==
    \A r \in Request : outcome[r].kind = "replayed" =>
       \E q \in Request : outcome[r] = Replayed(q) /\ outcome[q] = Executed /\ input[q] = input[r]

(***************************************************************************)
(* A record gives way only to the record of a command that is executed in  *)
(* that step, and only when its lifetime is over.                          *)
(***************************************************************************)
RecordsLastALifetime ==
    [][\A k \in Key : record'[k] # record[k] =>
          /\ record[k] = NoRecord \/ record[k].expiresAt <= now
          /\ \E r \in Request : /\ input[r].key = k
                               /\ outcome[r] = Pending /\ outcome'[r] = Executed]_vars
=============================================================================
