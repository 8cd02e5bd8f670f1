--------------------------- MODULE TimelinePages ---------------------------
(***************************************************************************)
(* What a page of the activity timeline is: events in the order of         *)
(* (occurred_at, event_id), at most N of them after a cursor, and whether  *)
(* there are more.  An event is a record with the time "at" and the stable *)
(* "id", a sequence of numbers in the order of the id's characters: the    *)
(* rank of its prefix, the row, the suffix.  Timeline builds such pages    *)
(* from three readers; Console asks for them.                              *)
(***************************************************************************)
EXTENDS Naturals, Sequences, FiniteSets

NoCursor == [at |-> 0, id |-> << >>]

IdLess(a, b) ==
    \E i \in DOMAIN a : a[i] < b[i] /\ \A j \in 1..(i - 1) : a[j] = b[j]

\* x comes before y in the order of the request.
Before(x, y, sort) ==
    LET lo == IF sort = "asc" THEN x ELSE y
        hi == IF sort = "asc" THEN y ELSE x
    IN  lo.at < hi.at \/ (lo.at = hi.at /\ IdLess(lo.id, hi.id))

AfterTime(S, cursor, sort) ==
    IF cursor = NoCursor THEN S
    ELSE {e \in S : IF sort = "asc" THEN e.at > cursor.at ELSE e.at < cursor.at}
AfterCursor(S, cursor, sort) ==
    IF cursor = NoCursor THEN S ELSE {e \in S : Before(cursor, e, sort)}

Position(e) == [at |-> e.at, id |-> e.id]

\* How many events of S come before e.
Rank(S, e, sort) == Cardinality({f \in S : Before(f, e, sort)})

\* The first n events of S in order.
FirstOf(S, n, sort) ==
    LET size == IF Cardinality(S) < n THEN Cardinality(S) ELSE n
    IN  [i \in 1..size |-> CHOOSE e \in S : Rank(S, e, sort) = i - 1]

\* A public page of n events out of an ordered sequence that holds one more
\* when there is one more.
Page(merged, n) ==
    LET items == SubSeq(merged, 1, IF Len(merged) < n THEN Len(merged) ELSE n)
    IN  [items |-> items,
         next  |-> IF Len(merged) > n THEN Position(items[Len(items)])
                                      ELSE NoCursor]
ItemsOf(page) == {page.items[i] : i \in DOMAIN page.items}
=============================================================================
