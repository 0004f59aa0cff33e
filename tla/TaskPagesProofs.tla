--------------------------- MODULE TaskPagesProofs ---------------------------
(***************************************************************************)
(* Proofs about TaskPages, for any number of tasks, values and page sizes. *)
(*                                                                         *)
(* The positions of tasks are strictly and totally ordered, so what First  *)
(* selects is a prefix of what matches, and the cursor cuts the tasks that *)
(* follow off from those already shown.  The inductive invariant IInv says *)
(* so: among the tasks that have not changed, exactly those that do not    *)
(* follow the cursor have been shown.                                      *)
(***************************************************************************)
EXTENDS TaskPages, TLAPS, FiniteSetTheorems, WellFoundedInduction

USE TaskAssumption, KeyAssumption, LimitAssumption, NoneAssumption

Present == {t \in Task : key[t] # Absent}

\* Those of S that come before t.
Pred(order, S, t) == {s \in S : Before(order, At(s), At(t))}
Succ(order, S, t) == {s \in S : Before(order, At(t), At(s))}

-----------------------------------------------------------------------------
(* The order of positions.                                                 *)

\* The positions of tasks that match some query: strictly and totally ordered.
LEMMA Ordered ==
    ASSUME TypeOK, NEW order \in Order
    PROVE  \A s, t, u \in Present :
             /\ ~Before(order, At(s), At(s))
             /\ Before(order, At(s), At(t)) /\ Before(order, At(t), At(u))
                   => Before(order, At(s), At(u))
             /\ s # t => Before(order, At(s), At(t)) \/ Before(order, At(t), At(s))
<1> SUFFICES ASSUME NEW s \in Present, NEW t \in Present, NEW u \in Present
             PROVE  /\ ~Before(order, At(s), At(s))
                    /\ Before(order, At(s), At(t)) /\ Before(order, At(t), At(u))
                          => Before(order, At(s), At(u))
                    /\ s # t => Before(order, At(s), At(t)) \/ Before(order, At(t), At(s))
  OBVIOUS
<1>1. \A x \in Present : x \in Nat /\ key[x] \in Nat \cup {Null}
  BY DEF Present, TypeOK, Value
<1>2. PICK ks, kt, ku : ks = key[s] /\ kt = key[t] /\ ku = key[u]
  OBVIOUS
<1>3. /\ At(s) = [value |-> ks, id |-> s]
      /\ At(t) = [value |-> kt, id |-> t]
      /\ At(u) = [value |-> ku, id |-> u]
  BY <1>2 DEF At
<1> QED BY <1>1, <1>2, <1>3 DEF Before, Further

\* A cursor that names the position of a task selects what comes behind the task.
LEMMA FollowsIsBefore ==
    ASSUME TypeOK, NEW order \in Order, NEW s \in Present, NEW t \in Present,
           NEW c, c.value = key[s], c.id = s
    PROVE  Follows(order, c, At(t)) <=> Before(order, At(s), At(t))
<1>1. /\ At(s).value = key[s] /\ At(s).id = s
      /\ At(t).value = key[t] /\ At(t).id = t
  BY DEF At
<1>2. /\ key[s] \in Nat \cup {Null} /\ key[t] \in Nat \cup {Null}
      /\ s \in Nat /\ t \in Nat
      /\ key[t] = Null => sort = "dueAt"
  BY DEF Present, TypeOK, Value
<1> QED BY <1>1, <1>2 DEF Follows, Before, Further

\* What does not follow a cursor comes before what does.
LEMMA CursorCuts ==
    ASSUME TypeOK, cursor # None, NEW order \in Order,
           NEW s \in Present, NEW t \in Present,
           ~Follows(order, cursor, At(s)), Follows(order, cursor, At(t))
    PROVE  Before(order, At(s), At(t))
<1>1. /\ At(s).value = key[s] /\ At(s).id = s
      /\ At(t).value = key[t] /\ At(t).id = t
  BY DEF At
<1>2. /\ key[s] \in Nat \cup {Null} /\ key[t] \in Nat \cup {Null}
      /\ s \in Nat /\ t \in Nat
      /\ key[s] = Null => sort = "dueAt"
  BY DEF Present, TypeOK, Value
<1>3. cursor.value \in Nat \cup {Null} /\ cursor.id \in Nat
  BY DEF TypeOK, Cursor, Value
<1> QED BY <1>1, <1>2, <1>3 DEF Follows, Before, Further
-----------------------------------------------------------------------------
(* What First selects.                                                     *)

LEMMA SmallestNumber ==
    ASSUME NEW N \in SUBSET Nat, N # {}
    PROVE  \E m \in N : \A n \in N : m <= n
<1>1. IsWellFoundedOn(OpToRel(<, Nat), Nat)
  BY NatLessThanWellFounded
<1>2. PICK m \in N : \A n \in N : ~(<<n, m>> \in OpToRel(<, Nat))
  BY <1>1, WFMin
<1>3. \A n \in N : ~(n < m)
  BY <1>2 DEF OpToRel
<1> QED BY <1>3

\* Only finitely many tasks, so these cardinalities are numbers.
LEMMA Counts ==
    ASSUME NEW S \in SUBSET Task
    PROVE  IsFiniteSet(S) /\ Cardinality(S) \in Nat
BY FS_Subset, FS_CardinalityType

LEMMA Smaller ==
    ASSUME NEW S \in SUBSET Task, NEW T \in SUBSET S, NEW x \in S, x \notin T
    PROVE  Cardinality(T) < Cardinality(S)
<1>1. IsFiniteSet(S) /\ Cardinality(S) \in Nat /\ Cardinality(T) \in Nat
  BY Counts
<1>2. Cardinality(T) <= Cardinality(S) /\ (Cardinality(S) = Cardinality(T) => S = T)
  BY <1>1, FS_Subset
<1> QED BY <1>1, <1>2

LEMMA HasFirst ==
    ASSUME TypeOK, NEW order \in Order, NEW S \in SUBSET Present, S # {}
    PROVE  \E m \in S : \A s \in S : ~Before(order, At(s), At(m))
<1> DEFINE N == {Cardinality(Pred(order, S, s)) : s \in S}
<1>1. S \subseteq Task /\ \A s \in S : Pred(order, S, s) \in SUBSET Task
  BY DEF Pred, Present
<1>2. N \in SUBSET Nat /\ N # {}
  BY <1>1, Counts
<1>3. PICK m \in S : \A s \in S : Cardinality(Pred(order, S, m)) <= Cardinality(Pred(order, S, s))
  <2>1. PICK n \in N : \A k \in N : n <= k
    BY <1>2, SmallestNumber
  <2> QED BY <2>1
<1>4. ASSUME NEW s \in S, Before(order, At(s), At(m)) PROVE FALSE
  <2>1. Pred(order, S, s) \in SUBSET Pred(order, S, m)
    BY <1>4, Ordered DEF Pred
  <2>2. s \in Pred(order, S, m) /\ s \notin Pred(order, S, s)
    BY <1>4, Ordered DEF Pred
  <2>3. Cardinality(Pred(order, S, s)) < Cardinality(Pred(order, S, m))
    BY <1>1, <2>1, <2>2, Smaller
  <2>4. Cardinality(Pred(order, S, s)) \in Nat /\ Cardinality(Pred(order, S, m)) \in Nat
    BY <1>1, Counts
  <2> QED BY <1>3, <2>3, <2>4
<1> QED BY <1>4

LEMMA HasLast ==
    ASSUME TypeOK, NEW order \in Order, NEW S \in SUBSET Present, S # {}
    PROVE  \E m \in S : \A s \in S : ~Before(order, At(m), At(s))
<1> DEFINE N == {Cardinality(Succ(order, S, s)) : s \in S}
<1>1. S \subseteq Task /\ \A s \in S : Succ(order, S, s) \in SUBSET Task
  BY DEF Succ, Present
<1>2. N \in SUBSET Nat /\ N # {}
  BY <1>1, Counts
<1>3. PICK m \in S : \A s \in S : Cardinality(Succ(order, S, m)) <= Cardinality(Succ(order, S, s))
  <2>1. PICK n \in N : \A k \in N : n <= k
    BY <1>2, SmallestNumber
  <2> QED BY <2>1
<1>4. ASSUME NEW s \in S, Before(order, At(m), At(s)) PROVE FALSE
  <2>1. Succ(order, S, s) \in SUBSET Succ(order, S, m)
    BY <1>4, Ordered DEF Succ
  <2>2. s \in Succ(order, S, m) /\ s \notin Succ(order, S, s)
    BY <1>4, Ordered DEF Succ
  <2>3. Cardinality(Succ(order, S, s)) < Cardinality(Succ(order, S, m))
    BY <1>1, <2>1, <2>2, Smaller
  <2>4. Cardinality(Succ(order, S, s)) \in Nat /\ Cardinality(Succ(order, S, m)) \in Nat
    BY <1>1, Counts
  <2> QED BY <1>3, <2>3, <2>4
<1> QED BY <1>4

\* First(order, S, n) contains, with a task, all those of S before it.
LEMMA FirstIsPrefix ==
    ASSUME TypeOK, NEW order \in Order, NEW S \in SUBSET Present, NEW n \in Nat
    PROVE  /\ First(order, S, n) \in SUBSET S
           /\ \A t \in First(order, S, n), s \in S :
                 Before(order, At(s), At(t)) => s \in First(order, S, n)
<1>1. First(order, S, n) = {t \in S : Cardinality(Pred(order, S, t)) < n}
  BY DEF First, Pred
<1>2. ASSUME NEW t \in First(order, S, n), NEW s \in S, Before(order, At(s), At(t))
      PROVE  s \in First(order, S, n)
  <2>1. t \in S
    BY <1>1
  <2>2. Pred(order, S, s) \in SUBSET Pred(order, S, t)
    BY <1>2, <2>1, Ordered DEF Pred
  <2>3. s \in Pred(order, S, t) /\ s \notin Pred(order, S, s)
    BY <1>2, Ordered DEF Pred
  <2>4. Pred(order, S, s) \in SUBSET Task /\ Pred(order, S, t) \in SUBSET Task
    BY DEF Pred, Present
  <2>5. Cardinality(Pred(order, S, s)) < Cardinality(Pred(order, S, t))
    BY <2>2, <2>3, <2>4, Smaller
  <2>6. Cardinality(Pred(order, S, s)) \in Nat /\ Cardinality(Pred(order, S, t)) \in Nat
    BY <2>4, Counts
  <2> QED BY <1>1, <2>5, <2>6
<1> QED BY <1>1, <1>2

\* A page is not empty unless there is nothing to show.
LEMMA FirstNotEmpty ==
    ASSUME TypeOK, NEW order \in Order, NEW S \in SUBSET Present, S # {},
           NEW n \in Nat \ {0}
    PROVE  First(order, S, n) # {}
<1>1. PICK m \in S : \A s \in S : ~Before(order, At(s), At(m))
  BY HasFirst
<1>2. {s \in S : Before(order, At(s), At(m))} = {}
  BY <1>1
<1>3. Cardinality({s \in S : Before(order, At(s), At(m))}) = 0
  BY <1>2, FS_EmptySet
<1>4. m \in First(order, S, n)
  BY <1>3 DEF First
<1> QED BY <1>4

\* If one row more than a page was asked for and none came, the page is complete.
LEMMA PageIsComplete ==
    ASSUME TypeOK, NEW order \in Order, NEW S \in SUBSET Present, NEW n \in Nat \ {0},
           NEW R, R = First(order, S, n + 1), First(order, R, n) = R
    PROVE  R = S
<1>1. R \in SUBSET S
  BY FirstIsPrefix
<1>2. SUFFICES ASSUME S \ R # {} PROVE FALSE
  BY <1>1
<1>3. PICK m \in S \ R : \A s \in S \ R : ~Before(order, At(s), At(m))
  BY <1>2, HasFirst
<1> DEFINE P == Pred(order, S, m)
<1>4. P \in SUBSET R /\ P \in SUBSET Task
  BY <1>3 DEF Pred, Present
<1>5. Cardinality(P) \in Nat /\ ~(Cardinality(P) < n + 1)
  BY <1>3, <1>4, Counts DEF First, Pred
<1>6. P # {}
  BY <1>5, FS_EmptySet
<1>7. PICK l \in P : \A s \in P : ~Before(order, At(l), At(s))
  <2>1. P \in SUBSET Present
    BY <1>1, <1>4
  <2> QED BY <1>6, <2>1, HasLast
<1> DEFINE L == Pred(order, R, l)
<1>8. P \ {l} \in SUBSET L
  BY <1>1, <1>4, <1>7, Ordered DEF Pred
<1>9. L \in SUBSET Task
  BY <1>1 DEF Pred, Present
<1>10. Cardinality(P \ {l}) = Cardinality(P) - 1
  BY <1>4, <1>7, Counts, FS_RemoveElement
<1>11. Cardinality(P \ {l}) <= Cardinality(L) /\ Cardinality(L) \in Nat
  BY <1>8, <1>9, Counts, FS_Subset
<1>12. l \in First(order, R, n)
  BY <1>4, <1>7
<1>13. Cardinality(L) < n
  BY <1>12 DEF First, Pred
<1> QED BY <1>5, <1>10, <1>11, <1>13
-----------------------------------------------------------------------------
(* The inductive invariant.                                                *)

\* Nothing has been shown before the first request.
Fresh == cursor = None /\ ~ended => earlier = {} /\ page = {}

\* Behind the last page shown: what the next pages will be taken from.
Ahead(t) == ~ended /\ (cursor # None => Follows(cursor.order, cursor, At(t)))

\* Of the tasks that have not changed, those that are not ahead have been shown.
Shown ==
    /\ (earlier \cup page) \ touched \subseteq Present
    /\ \A t \in Untouched : t \in earlier \cup page <=> ~Ahead(t)

Sorted ==
    \E order \in Order :
       /\ cursor # None => cursor.order = order
       /\ \A s \in earlier \ touched, t \in page \ touched : Before(order, At(s), At(t))

IInv == TypeOK /\ Fresh /\ Shown /\ Sorted

LEMMA InvInit == Init => IInv
BY DEF Init, IInv, TypeOK, Fresh, Shown, Ahead, Sorted, Untouched, Order

LEMMA ChangeStep ==
    ASSUME IInv, NEW t \in Task, NEW v \in Value(sort) \cup {Absent}, Change(t, v)
    PROVE  IInv'
<1> USE DEF IInv
<1>1. /\ key' = [key EXCEPT ![t] = v] /\ touched' = touched \cup {t}
      /\ UNCHANGED <<sort, cursor, page, earlier, ended>>
  BY DEF Change, listing
<1>2. \A s \in Task \ touched' : key'[s] = key[s] /\ At(s)' = At(s)
  BY <1>1 DEF At, TypeOK
<1>3. TypeOK'
  BY <1>1 DEF TypeOK, Value
<1>4. Fresh'
  BY <1>1 DEF Fresh
<1>5. Untouched' \subseteq Untouched
  BY <1>1, <1>2 DEF Untouched
<1>6. Shown'
  <2>1. \A s \in Untouched' : Ahead(s)' <=> Ahead(s)
    BY <1>1, <1>2 DEF Ahead, Follows, Untouched
  <2>2. ((earlier \cup page) \ touched)' \subseteq Present'
    BY <1>1, <1>2 DEF Shown, Present
  <2> QED BY <1>1, <1>5, <2>1, <2>2 DEF Shown
<1>7. Sorted'
  <2>1. PICK order \in Order :
           /\ cursor # None => cursor.order = order
           /\ \A s \in earlier \ touched, u \in page \ touched : Before(order, At(s), At(u))
    BY DEF Sorted
  <2>2. \A s \in earlier' \ touched', u \in page' \ touched' : Before(order, At(s)', At(u)')
    BY <1>1, <1>2, <2>1 DEF TypeOK
  <2> QED BY <1>1, <2>1, <2>2 DEF Sorted
<1> QED BY <1>3, <1>4, <1>6, <1>7

LEMMA ListStep ==
    ASSUME IInv, NEW asked \in Order, NEW limit \in Limit, List(asked, limit)
    PROVE  IInv'
<1> USE DEF IInv
<1>1. PICK o \in Order : o = effectiveOrder(asked)
  BY DEF effectiveOrder, Order
<1>2. PICK rows : rows = Rows(o, limit)
  OBVIOUS
<1>3. PICK selected : selected = First(o, rows, limit)
  OBVIOUS
<1>4. PICK last : last = Last(o, selected)
  OBVIOUS
<1>5. /\ ~ended /\ (cursor # None => cursor.order = o)
      /\ page' = selected /\ earlier' = earlier \cup page
      /\ ended' = (rows = selected)
      /\ cursor' = IF rows # selected THEN [order |-> o, value |-> key[last], id |-> last]
                   ELSE None
      /\ UNCHANGED <<sort, key, touched>>
  BY <1>1, <1>2, <1>3, <1>4 DEF List, Bound
<1> DEFINE M == Matching(o)
<1>6. /\ M \in SUBSET Present /\ limit \in Nat \ {0} /\ limit + 1 \in Nat
      /\ \A t \in Present : t \in M <=> Ahead(t)
  BY <1>5 DEF Matching, Present, Ahead
<1>7. /\ rows \in SUBSET M
      /\ \A t \in rows, s \in M : Before(o, At(s), At(t)) => s \in rows
  BY <1>2, <1>6, FirstIsPrefix DEF Rows
<1>8. /\ selected \in SUBSET rows
      /\ \A t \in selected, s \in rows : Before(o, At(s), At(t)) => s \in selected
  <2>1. rows \in SUBSET Present
    BY <1>6, <1>7
  <2> QED BY <1>3, <1>6, <2>1, FirstIsPrefix
<1>9. selected \in SUBSET M
      /\ \A t \in selected, s \in M : Before(o, At(s), At(t)) => s \in selected
  BY <1>7, <1>8
<1>10. rows = selected => selected = M
  BY <1>2, <1>3, <1>6, PageIsComplete DEF Rows
<1>11. rows # selected =>
         last \in selected /\ \A s \in selected : ~Before(o, At(last), At(s))
  <2> SUFFICES ASSUME rows # selected
               PROVE  last \in selected /\ \A s \in selected : ~Before(o, At(last), At(s))
    OBVIOUS
  <2>1. rows \in SUBSET Present /\ rows # {} /\ selected \in SUBSET Present
    BY <1>6, <1>7, <1>8
  <2>2. selected # {}
    BY <1>3, <1>6, <2>1, FirstNotEmpty
  <2>3. \E m \in selected : \A s \in selected : ~Before(o, At(m), At(s))
    BY <2>1, <2>2, HasLast
  <2> QED BY <1>4, <2>3 DEF Last
\* What was shown does not follow the old cursor, what is shown now does.
<1>12. \A s \in (earlier \cup page) \ touched, t \in M : cursor # None /\ Before(o, At(s), At(t))
  <2> SUFFICES ASSUME NEW s \in (earlier \cup page) \ touched, NEW t \in M
               PROVE  cursor # None /\ Before(o, At(s), At(t))
    OBVIOUS
  <2>1. s \in Present /\ s \in Untouched /\ ~Ahead(s)
    BY DEF Shown, Untouched, Present, TypeOK
  <2>2. cursor # None /\ ~Follows(o, cursor, At(s))
    BY <1>5, <2>1 DEF Ahead
  <2>3. Follows(o, cursor, At(t))
    BY <2>2 DEF Matching
  <2>4. t \in Present
    BY <1>6
  <2> QED BY <2>1, <2>2, <2>3, <2>4, CursorCuts
<1>13. \A t \in Present : Ahead(t)' <=> rows # selected /\ Before(o, At(last), At(t))
  <2> SUFFICES ASSUME NEW t \in Present
               PROVE  Ahead(t)' <=> rows # selected /\ Before(o, At(last), At(t))
    OBVIOUS
  <2>1. CASE rows = selected
    BY <1>5, <2>1 DEF Ahead
  <2>2. CASE rows # selected
    <3>1. last \in Present
      BY <1>6, <1>9, <1>11, <2>2
    <3>2. PICK c : c = [order |-> o, value |-> key[last], id |-> last]
      OBVIOUS
    <3>3. c.value = key[last] /\ c.id = last /\ c.order = o
      BY <3>2
    <3>4. Follows(o, c, At(t)) <=> Before(o, At(last), At(t))
      BY <3>1, <3>3, FollowsIsBefore
    <3>5. cursor' = c /\ ~ended' /\ cursor' # None
      <4>1. c \in Cursor
        BY <3>1, <3>2 DEF Cursor, Present, TypeOK, Value
      <4> QED BY <1>5, <2>2, <3>2, <4>1
    <3>6. Ahead(t)' <=> Follows(o, c, At(t))
      BY <1>5, <3>3, <3>5 DEF Ahead, Follows, At
    <3> QED BY <2>2, <3>4, <3>6
  <2> QED BY <2>1, <2>2
<1>14. Untouched' = Untouched /\ Present' = Present
  BY <1>5 DEF Untouched, Present
<1>15. rows # selected => /\ cursor' \in Cursor /\ cursor'.value \in Value(sort)
                          /\ cursor' # None
  <2> SUFFICES ASSUME rows # selected
               PROVE  cursor' \in Cursor /\ cursor'.value \in Value(sort) /\ cursor' # None
    OBVIOUS
  <2>1. last \in Present
    BY <1>6, <1>9, <1>11
  <2>2. last \in Task /\ key[last] \in Value(sort) /\ Value(sort) \subseteq Key \cup {Null}
    BY <2>1 DEF Present, TypeOK, Value
  <2>3. cursor' \in Cursor /\ cursor'.value \in Value(sort)
    BY <1>5, <2>2 DEF Cursor
  <2> QED BY <2>3
<1>16. TypeOK' /\ Fresh'
  <2>1. selected \subseteq Task
    BY <1>6, <1>9 DEF Present
  <2>2. TypeOK'
    BY <1>5, <1>15, <2>1 DEF TypeOK, Value
  <2>3. Fresh'
    BY <1>5, <1>15 DEF Fresh
  <2> QED BY <2>2, <2>3
<1>17. Shown'
  <2>1. ((earlier \cup page) \ touched)' \subseteq Present'
    BY <1>5, <1>6, <1>9, <1>14 DEF Shown
  <2>2. ASSUME NEW t \in Untouched
        PROVE  t \in earlier' \cup page' <=> ~Ahead(t)'
    <3>1. t \in Present /\ t \in Task \ touched
      BY DEF Untouched, Present
    <3>2. t \in earlier' \/ t \in M
      BY <1>5, <1>6, <3>1 DEF Shown
    <3>3. CASE rows = selected
      BY <1>5, <1>10, <1>13, <3>1, <3>2, <3>3
    <3>4. CASE rows # selected
      <4>1. last \in selected /\ last \in M /\ last \in Present
        BY <1>6, <1>9, <1>11, <3>4
      <4>2. ASSUME t \in earlier' PROVE ~Before(o, At(last), At(t))
        <5>1. Before(o, At(t), At(last))
          BY <1>5, <1>12, <3>1, <4>1, <4>2
        <5> QED BY <3>1, <4>1, <5>1, Ordered
      <4>3. ASSUME t \in page' PROVE ~Before(o, At(last), At(t))
        BY <1>5, <1>11, <3>4, <4>3
      <4>4. ASSUME ~Before(o, At(last), At(t)), t \in M PROVE t \in page'
        <5>1. t = last \/ Before(o, At(t), At(last))
          BY <3>1, <4>1, <4>4, Ordered
        <5> QED BY <1>5, <1>9, <4>1, <4>4, <5>1
      <4> QED BY <1>13, <3>1, <3>2, <3>4, <4>2, <4>3, <4>4
    <3> QED BY <3>3, <3>4
  <2> QED BY <1>14, <2>1, <2>2 DEF Shown
<1>18. Sorted'
  <2>1. cursor' # None => cursor'.order = o
    BY <1>5
  <2>2. \A s \in earlier' \ touched', t \in page' \ touched' : Before(o, At(s)', At(t)')
    BY <1>5, <1>9, <1>12 DEF At
  <2> QED BY <2>1, <2>2 DEF Sorted
<1> QED BY <1>16, <1>17, <1>18

LEMMA InvNext == ASSUME IInv, [Next]_vars PROVE IInv'
<1>1. CASE UNCHANGED vars
  BY <1>1 DEF vars, listing, IInv, TypeOK, Fresh, Shown, Ahead, Sorted, Untouched, Present,
              At, Follows, Value
<1>2. ASSUME NEW asked \in Order, NEW limit \in Limit, List(asked, limit) PROVE IInv'
  BY <1>2, ListStep
<1>3. ASSUME NEW t \in Task, NEW v \in Value(sort) \cup {Absent}, Change(t, v) PROVE IInv'
  BY <1>3, ChangeStep
<1> QED BY <1>1, <1>2, <1>3 DEF Next, Refuse
-----------------------------------------------------------------------------
THEOREM Invariant == Spec => []IInv
BY InvInit, InvNext, PTL DEF Spec

(***************************************************************************)
(* Every variable of a listing keeps its type: in particular, a cursor has *)
(* no value only in a listing by due date, so that the error "Non-null     *)
(* task sort cursor value is required" is never thrown.                    *)
(***************************************************************************)
THEOREM TypeCorrect == Spec => []TypeOK
BY Invariant, PTL DEF IInv

(***************************************************************************)
(* A listing that has come to its end has shown every task that matched    *)
(* all along, for any tasks, values, page sizes and changes in between.    *)
(***************************************************************************)
THEOREM MissesNothing == Spec => []Lossless
<1>1. IInv => Lossless
  BY DEF IInv, Shown, Ahead, Lossless
<1> QED BY <1>1, Invariant, PTL

(***************************************************************************)
(* Later pages go on behind the earlier ones and repeat nothing.           *)
(***************************************************************************)
THEOREM KeepsOrder == Spec => []PagesInOrder
<1>1. IInv => PagesInOrder
  BY DEF IInv, Sorted, PagesInOrder
<1> QED BY <1>1, Invariant, PTL
=============================================================================
