------------------------------ MODULE TaskPages ------------------------------
(***************************************************************************)
(* A client lists the tasks that match its query, page by page             *)
(* (TaskService.list), while tasks are created, changed and deleted        *)
(* between two pages.  The server keeps nothing of a listing: the signed   *)
(* cursor names the position of the last task shown and the query it       *)
(* belongs to.                                                             *)
(***************************************************************************)
EXTENDS Naturals, FiniteSets

CONSTANTS
    Task,    \* tasks, by the order of their ids
    Key,     \* values of the column the listing is sorted by
    Null,    \* no due date
    Absent,  \* not in the result: not created yet, deleted, or no match
    Limit,   \* page sizes that clients ask for
    None

ASSUME TaskAssumption == Task \subseteq Nat /\ IsFiniteSet(Task)
ASSUME KeyAssumption == Key \subseteq Nat /\ Null \notin Nat /\ Absent \notin Nat \cup {Null}
ASSUME LimitAssumption == Limit \subseteq Nat \ {0}

Order == {"asc", "desc"}

\* Only the due date may be missing; "rank" stands for a listing with a search term.
Sort == {"dueAt", "column", "rank"}

Value(s) == IF s = "dueAt" THEN Key \cup {Null} ELSE Key

VARIABLES
    sort,     \* what the client lists by
    key,      \* value of each task in that column, or Absent
    cursor,   \* the cursor the client has, None at the beginning
    page,     \* the last page it has received
    earlier,  \* tasks on the pages before
    ended,    \* hasMore was FALSE
    touched   \* history: tasks that changed since the beginning

listing == <<cursor, page, earlier, ended>>
vars == <<sort, key, listing, touched>>

Position == [value: Key \cup {Null}, id: Task]
Cursor == [order: Order, value: Key \cup {Null}, id: Task]

ASSUME NoneAssumption == None \notin Cursor

Init ==
    /\ sort \in Sort
    /\ key \in [Task -> Value(sort) \cup {Absent}]
    /\ cursor = None
    /\ page = {}
    /\ earlier = {}
    /\ ended = FALSE
    /\ touched = {}

\* A search is always sorted by descending rank.
effectiveOrder(order) == IF sort = "rank" THEN "desc" ELSE order

\* asc and desc: which of two values, or of two ids, comes further back.
Further(order, a, b) == IF order = "asc" THEN a > b ELSE a < b

\* ORDER BY the column, missing due dates last in both orders, then the id.
Before(order, p, q) ==
    \/ p.value # Null /\ q.value = Null
    \/ p.value # Null /\ q.value # Null /\ Further(order, q.value, p.value)
    \/ p.value = q.value /\ Further(order, q.id, p.id)

At(t) == [value |-> key[t], id |-> t]

\* Mutant: the condition of the other columns for the due date, too.
Follows_NoNulls(order, c, p) ==
    \/ p.value # Null /\ c.value # Null /\ Further(order, p.value, c.value)
    \/ p.value = c.value /\ Further(order, p.id, c.id)

\* Mutant: ids are not compared.
Follows_TiesToo(order, c, p) ==
    IF c.value = Null THEN p.value = Null
    ELSE \/ p.value # Null /\ (Further(order, p.value, c.value) \/ p.value = c.value)
         \/ sort = "dueAt" /\ p.value = Null

(***************************************************************************)
(* The condition a cursor adds to the query.  A comparison with NULL does  *)
(* not hold in SQL.                                                        *)
(***************************************************************************)
Follows(order, c, p) ==
    IF c.value = Null THEN p.value = Null /\ Further(order, p.id, c.id)
    ELSE \/ p.value # Null /\ Further(order, p.value, c.value)
         \/ p.value = c.value /\ Further(order, p.id, c.id)
         \/ sort = "dueAt" /\ p.value = Null

\* WHERE
Matching(order) ==
    {t \in Task : key[t] # Absent /\ (cursor # None => Follows(order, cursor, At(t)))}

\* ORDER BY ... LIMIT n: the tasks of S with fewer than n others of S before them.
First(order, S, n) ==
    {t \in S : Cardinality({s \in S : Before(order, At(s), At(t))}) < n}

Last(order, S) == CHOOSE t \in S : \A s \in S : ~Before(order, At(t), At(s))

\* One row more than a page, to know whether there is another page.
Rows(order, limit) == First(order, Matching(order), limit + 1)

\* The hash in the cursor binds it to the query: here, to its order.
Bound(order) == cursor # None => cursor.order = order

\* A page: `order` is what the client asks for; each page may have another size.
List(asked, limit) ==
    LET order == effectiveOrder(asked)
        rows == Rows(order, limit)
        selected == First(order, rows, limit)
        hasMore == rows # selected
        last == Last(order, selected)
    IN
    /\ ~ended
    /\ Bound(order)
    /\ page' = selected
    /\ earlier' = earlier \cup page
    /\ ended' = ~hasMore
    /\ cursor' = IF hasMore THEN [order |-> order, value |-> key[last], id |-> last]
                 ELSE None
    /\ UNCHANGED <<sort, key, touched>>

\* A cursor of another query is answered 422; the listing can go on.
Refuse(asked) == ~Bound(effectiveOrder(asked)) /\ UNCHANGED vars

\* Mutant: every column can be cleared.
Change_Clears(t, v) ==
    /\ ~ended
    /\ key[t] # Null
    /\ key' = [key EXCEPT ![t] = Null]
    /\ touched' = touched \cup {t}
    /\ UNCHANGED <<sort, listing>>

\* A task is created, changed, deleted or restored, so that it matches or no longer does.
Change(t, v) ==
    /\ ~ended
    /\ v # key[t]
    /\ key' = [key EXCEPT ![t] = v]
    /\ touched' = touched \cup {t}
    /\ UNCHANGED <<sort, listing>>

Next ==
    \/ \E asked \in Order : Refuse(asked) \/ \E limit \in Limit : List(asked, limit)
    \/ \E t \in Task, v \in Value(sort) \cup {Absent} : Change(t, v)

Spec == Init /\ [][Next]_vars
-----------------------------------------------------------------------------
TypeOK ==
    /\ sort \in Sort
    /\ key \in [Task -> Value(sort) \cup {Absent}]
    /\ cursor \in Cursor \cup {None}
    /\ cursor # None => cursor.value \in Value(sort)
    /\ page \subseteq Task
    /\ earlier \subseteq Task
    /\ ended \in BOOLEAN
    /\ touched \subseteq Task

Untouched == {t \in Task \ touched : key[t] # Absent}

(***************************************************************************)
(* A listing misses nothing: when the last page has come, every task that  *)
(* matched the query all along has been shown, whatever happened to other  *)
(* tasks, however many share a value or have none, and whatever page sizes *)
(* were asked for.                                                         *)
(***************************************************************************)
Lossless == ended => Untouched \subseteq earlier \cup page

(***************************************************************************)
(* The pages are in order and repeat nothing: a task that has not changed  *)
(* comes on a later page only if it is sorted behind every such task of    *)
(* the pages before.                                                       *)
(***************************************************************************)
PagesInOrder ==
    \E order \in Order :
       \A s \in earlier \ touched, t \in page \ touched : Before(order, At(s), At(t))
=============================================================================
