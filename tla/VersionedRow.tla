---------------------------- MODULE VersionedRow ----------------------------
(***************************************************************************)
(* What optimistic concurrency control promises the clients that change    *)
(* one row: the row counts its changes, a client names a version, and its  *)
(* new value replaces exactly that version or nothing.  Nothing makes the  *)
(* client name a version it has seen: one that is still to come will do.   *)
(* A row can be withdrawn and brought back, which is a change, too.        *)
(***************************************************************************)
EXTENDS Naturals

CONSTANTS
    Client, Value, NoRow,
    Version  \* the versions that clients may name

VARIABLES
    row,    \* NoRow, or its value, whether it is live, and its version
    claim   \* the version each client wants to replace, 0 for none

rowVars == <<row, claim>>

Init ==
    /\ row = NoRow
    /\ claim = [c \in Client |-> 0]

Insert ==
    /\ row = NoRow
    /\ \E value \in Value : row' = [value |-> value, live |-> TRUE, version |-> 1]
    /\ UNCHANGED claim

\* A client claims any version, also one that the row has not reached yet.
Claim(c) ==
    /\ claim[c] = 0
    /\ row # NoRow
    /\ \E v \in Version : claim' = [claim EXCEPT ![c] = v]
    /\ UNCHANGED row

Drops(c) == claim[c] # 0 /\ claim' = [claim EXCEPT ![c] = 0]

Replace(c) ==
    /\ Drops(c)
    /\ row # NoRow /\ row.live /\ row.version = claim[c]
    /\ \E value \in Value :
          row' = [value |-> value, live |-> TRUE, version |-> row.version + 1]

GiveUp(c) == Drops(c) /\ UNCHANGED row

SetLive(live) ==
    /\ row # NoRow
    /\ row' = [value |-> row.value, live |-> live, version |-> row.version + 1]
    /\ UNCHANGED claim

Next ==
    \/ Insert
    \/ \E c \in Client : Claim(c) \/ Replace(c) \/ GiveUp(c)
    \/ \E live \in BOOLEAN : SetLive(live)

Spec == Init /\ [][Next]_rowVars
=============================================================================
