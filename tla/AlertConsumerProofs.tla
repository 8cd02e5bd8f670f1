------------------------ MODULE AlertConsumerProofs ------------------------
(***************************************************************************)
(* The checkpoint of the alert consumer and the order of the first         *)
(* evaluations, for every queue, page and catch-up size, any number of     *)
(* events and faults, and any lateness.                                    *)
(***************************************************************************)
EXTENDS AlertConsumer, TLAPS, FiniteSetTheorems, WellFoundedInduction

USE ConsumerAssumption

-----------------------------------------------------------------------------
(* The invariant.                                                          *)

Fields == {"page", "cursor", "remaining", "more", "asked", "unseen"}

Typed ==
    /\ log \in Seq(Events) /\ done \in Seq(Events)
    /\ queue \in Seq(Events) /\ wire \in Seq(Events)
    /\ {"event", "evaluated"} \subseteq DOMAIN current
    /\ Fields \subseteq DOMAIN catchUp
    /\ catchUp.remaining \in Int

\* What is known of the events in hand.  An event marked evaluated is among
\* those whose evaluation committed; that is what the checkpoint is copied from.
Known ==
    /\ \A i, j \in DOMAIN log : log[i] = log[j] => i = j
    /\ Range(done) \subseteq Committed
    /\ checkpoint \in Range(done) \cup {None}
    /\ current.event \in Committed \cup {None}
    /\ current # NoEvent => current.event \in Committed
    /\ current.evaluated => current.event \in Range(done)
    /\ catchUp.page \subseteq Committed
    /\ catchUp.cursor \in Committed \cup {0}
    /\ \A e \in catchUp.page : e <= catchUp.cursor

CommittedBefore(l, a, b) ==
    \E i, j \in DOMAIN l : i < j /\ l[i] = a /\ l[j] = b
InLogOrder(l, s) ==
    \A a, b \in DOMAIN s : a < b => CommittedBefore(l, s[a], s[b])

\* Notifications keep the order of the commits, from the wire to the queue.
Lines ==
    /\ InLogOrder(log, queue) /\ InLogOrder(log, wire)
    /\ \A x \in Range(queue), y \in Range(wire) : CommittedBefore(log, x, y)
    /\ Range(queue) \subseteq Committed /\ Range(wire) \subseteq Committed

\* e was newer than every event before it, and nothing lost it.
OnTime(e) ==
    /\ excuses[e] = {}
    /\ \E i \in DOMAIN log : log[i] = e /\ InOrderAtCommit(i)

Notified(e) == e \in Range(queue) \cup Range(wire)

\* What the catch-up still has to do for e.
InPage(e) == e \in catchUp.page \cup {current.event}
Coming(e) ==
    /\ InPage(e) \/ (e > catchUp.cursor /\ (catchUp.more \/ Notified(e)))
    /\ e \in catchUp.unseen => Notified(e)

\* An event on time without evaluation is overtaken by none, and is in hand,
\* ahead of the cursor or notified.  A catch-up that goes on after a stop has
\* no notifications and owes the event nothing, but must not pass it.
Ahead(e) ==
    /\ \A f \in Range(done) \cup {current.event} : f <= e
    /\ phase = "catching" => Coming(e)
    /\ phase = "finishing" => InPage(e) \/ e > catchUp.cursor
    /\ phase = "live" => e = current.event \/ Notified(e)

InOrder(e) ==
    \A f \in Range(done) :
        f > e => \E k, l \in DOMAIN done : done[k] = e /\ done[l] = f /\ k < l

OrderInv ==
    \A e \in Committed :
        OnTime(e) => InOrder(e) /\ (e \notin Range(done) => Ahead(e))

IInv == Typed /\ Known /\ Lines /\ OrderInv

-----------------------------------------------------------------------------
(* Least and greatest events, and pages.                                   *)

LEMMA LeastOf ==
    ASSUME NEW T \in SUBSET Nat, T # {}
    PROVE  Min(T) \in T /\ \A y \in T : Min(T) <= y
<1>1. PICK x \in T : \A y \in T : ~ (<<y, x>> \in OpToRel(<, Nat))
  BY NatLessThanWellFounded, WFMin
<1>2. \A y \in T : ~ (y < x)
  BY <1>1 DEF OpToRel
<1>3. \E z \in T : \A y \in T : z <= y
  BY <1>2
<1> QED
  BY <1>3, Zenon DEF Min

\* The greatest of a set is the least counted from above.
LEMMA GreatestOf ==
    ASSUME NEW T \in SUBSET Events, T # {}
    PROVE  Max(T) \in T /\ \A y \in T : y <= Max(T)
<1> DEFINE U == {MaxEvents - x : x \in T}
<1>1. U \in SUBSET Nat /\ U # {}
  <2>1. ASSUME NEW x \in T PROVE MaxEvents - x \in Nat
    BY DEF Events
  <2> QED
    BY <2>1
<1>2. PICK u \in U : \A v \in U : u <= v
  BY <1>1, LeastOf
<1>3. PICK x \in T : u = MaxEvents - x
  BY <1>2
<1>4. ASSUME NEW y \in T PROVE x >= y
  <2>1. u <= MaxEvents - y
    BY <1>2
  <2> QED
    BY <1>3, <2>1 DEF Events
<1>5. \E z \in T : \A y \in T : z >= y
  BY <1>4
<1>6. Max(T) \in T /\ \A y \in T : Max(T) >= y
  BY <1>5, Zenon DEF Max
<1> QED
  BY <1>6 DEF Events

LEMMA FiniteEvents ==
    ASSUME NEW T \in SUBSET Events
    PROVE  IsFiniteSet(T) /\ Cardinality(T) \in Nat
<1>1. IsFiniteSet(Events)
  BY FS_Interval DEF Events
<1> QED
  BY <1>1, FS_Subset, FS_CardinalityType

Below(S, e) == {x \in S : x < e}
FirstOf(S, k) == {e \in S : Cardinality(Below(S, e)) < k}

LEMMA BelowFinite ==
    ASSUME NEW S \in SUBSET Events, NEW e
    PROVE  IsFiniteSet(Below(S, e)) /\ Cardinality(Below(S, e)) \in Nat
<1>1. Below(S, e) \in SUBSET Events
  BY DEF Below
<1> QED
  BY <1>1, FiniteEvents

\* The least element is among the first, and the first k are those up to the
\* greatest of them.
LEMMA FirstFacts ==
    ASSUME NEW S \in SUBSET Events, S # {}, NEW k \in Nat \ {0}
    PROVE  /\ FirstOf(S, k) # {} /\ FirstOf(S, k) \subseteq S
           /\ \A e \in S : e \in FirstOf(S, k) \/ e > Max(FirstOf(S, k))
<1> DEFINE P == FirstOf(S, k)
           n == Min(S)
<1>1. S \subseteq Int /\ n \in S /\ \A y \in S : n <= y
  <2>1. S \in SUBSET Nat
    BY DEF Events
  <2> QED
    BY <2>1, LeastOf
<1> HIDE DEF n
<1>2. Below(S, n) = {}
  <2>1. \A x \in S : ~ (x < n)
    BY <1>1
  <2> QED
    BY <2>1 DEF Below
<1>3. Cardinality(Below(S, n)) = 0
  BY <1>2, FS_EmptySet
<1>4. n \in P /\ P \subseteq S
  BY <1>1, <1>3 DEF FirstOf
<1>5. ASSUME NEW e \in S, ~ (e > Max(P)) PROVE e \in P
  <2>1. Max(P) \in P
    BY <1>4, GreatestOf
  <2> DEFINE m == Max(P)
  <2>2. m \in S /\ Cardinality(Below(S, m)) < k
    BY <2>1 DEF FirstOf
  <2> HIDE DEF m
  <2>3. e \in Int /\ m \in Int /\ e <= m
    <3>1. e \in Int /\ m \in Int
      BY <1>1, <2>2
    <3>2. ~ (e > m)
      BY <1>5 DEF m
    <3> QED
      BY <3>1, <3>2
  <2>4. Below(S, e) \subseteq Below(S, m)
    <3>1. \A x \in S : x < e => x < m
      BY <1>1, <2>3
    <3> QED
      BY <3>1 DEF Below
  <2>5. Cardinality(Below(S, e)) <= Cardinality(Below(S, m))
    BY <2>4, BelowFinite, FS_Subset
  <2>6. Cardinality(Below(S, e)) < k
    BY <2>2, <2>5, BelowFinite
  <2> QED
    BY <2>6 DEF FirstOf
<1> QED
  BY <1>4, <1>5

\* When the first k + 1 are no more than the first k, these are all.
LEMMA FirstAreAll ==
    ASSUME NEW S \in SUBSET Events, S # {}, NEW k \in Nat \ {0},
           FirstOf(S, k + 1) = FirstOf(S, k)
    PROVE  FirstOf(S, k) = S
<1> DEFINE P == FirstOf(S, k)
           m == Max(P)
           n == Min(S \ P)
<1>1. P # {} /\ P \subseteq S /\ \A e \in S : e \in P \/ e > m
  BY FirstFacts
<1>2. m \in P /\ \A y \in P : y <= m
  BY <1>1, GreatestOf
<1>3. SUFFICES ASSUME S \ P # {} PROVE FALSE
  BY <1>1
<1>4. S \subseteq Int
  BY DEF Events
<1>5. n \in S \ P /\ \A y \in S \ P : n <= y
  <2>1. S \subseteq Nat
    BY DEF Events
  <2> QED
    BY <1>1, <1>3, <2>1, LeastOf
<1> HIDE DEF m, n
<1>6. n > m
  BY <1>1, <1>5
<1>7. Cardinality(Below(S, m)) < k
  BY <1>2 DEF FirstOf
<1> HIDE DEF P
<1>8. \A x \in S : x < n <=> x < m \/ x = m
  <2> SUFFICES ASSUME NEW x \in S PROVE x < n <=> x < m \/ x = m
    OBVIOUS
  <2>1. m \in Int /\ n \in Int /\ x \in Int
    BY <1>1, <1>2, <1>4, <1>5
  <2>2. CASE x \in P
    BY <1>2, <1>6, <2>1, <2>2
  <2>3. CASE x \notin P
    BY <1>2, <1>5, <1>1, <2>1, <2>3
  <2> QED
    BY <2>2, <2>3
<1>9. Below(S, n) = Below(S, m) \cup {m} /\ m \notin Below(S, m)
  <2>1. m \in S /\ ~ (m < m)
    BY <1>1, <1>2, <1>4
  <2> QED
    BY <1>8, <2>1 DEF Below
<1>10. Cardinality(Below(S, n)) = Cardinality(Below(S, m)) + 1
  BY <1>9, BelowFinite, FS_AddElement
<1>11. Cardinality(Below(S, n)) < k + 1
  BY <1>7, <1>10, BelowFinite
<1>12. n \in FirstOf(S, k + 1)
  BY <1>5, <1>11 DEF FirstOf
<1> QED
  BY <1>5, <1>12 DEF P

\* A page holds the first events after the cursor, its last one is the next
\* cursor, and it holds all of them when one more would not be longer.
LEMMA PageFacts ==
    ASSUME Committed \subseteq Events, NEW cursor, NEW limit \in Nat \ {0},
           After(cursor) # {}
    PROVE  /\ Page(cursor, limit) \subseteq After(cursor)
           /\ NextCursor(cursor, limit) \in Page(cursor, limit)
           /\ \A e \in Page(cursor, limit) : e <= NextCursor(cursor, limit)
           /\ \A e \in After(cursor) :
                 e \in Page(cursor, limit) \/ e > NextCursor(cursor, limit)
           /\ PageAndNext(cursor, limit) = Page(cursor, limit) =>
                 Page(cursor, limit) = After(cursor)
<1> DEFINE S == After(cursor)
<1>1. S \in SUBSET Events
  BY DEF After
<1>2. /\ Page(cursor, limit) = FirstOf(S, limit)
      /\ PageAndNext(cursor, limit) = FirstOf(S, limit + 1)
      /\ NextCursor(cursor, limit) = Max(FirstOf(S, limit))
  BY DEF Page, PageAndNext, NextCursor, FirstOf, Below
<1> HIDE DEF S
<1>3. /\ FirstOf(S, limit) # {} /\ FirstOf(S, limit) \subseteq S
      /\ \A e \in S : e \in FirstOf(S, limit) \/ e > Max(FirstOf(S, limit))
  BY <1>1, FirstFacts DEF S
<1>4. /\ Max(FirstOf(S, limit)) \in FirstOf(S, limit)
      /\ \A e \in FirstOf(S, limit) : e <= Max(FirstOf(S, limit))
  BY <1>1, <1>3, GreatestOf
<1>5. FirstOf(S, limit + 1) = FirstOf(S, limit) => FirstOf(S, limit) = S
  BY <1>1, FirstAreAll DEF S
<1> QED
  BY <1>2, <1>3, <1>4, <1>5 DEF S

-----------------------------------------------------------------------------
(* Sequences of events and the log.                                        *)

LEMMA Appended ==
    ASSUME NEW s \in Seq(Events), NEW e \in Events
    PROVE  /\ Append(s, e) \in Seq(Events) /\ Len(s) \in Nat /\ DOMAIN s = 1..Len(s)
           /\ DOMAIN Append(s, e) = DOMAIN s \cup {Len(s) + 1}
           /\ Append(s, e)[Len(s) + 1] = e
           /\ \A i \in DOMAIN s : Append(s, e)[i] = s[i] /\ i < Len(s) + 1
           /\ Range(Append(s, e)) = Range(s) \cup {e}
<1> DEFINE t == Append(s, e)
<1>1. /\ t \in Seq(Events) /\ DOMAIN t = DOMAIN s \cup {Len(s) + 1}
      /\ t[Len(s) + 1] = e /\ \A i \in DOMAIN s : t[i] = s[i] /\ i < Len(s) + 1
      /\ Len(s) \in Nat /\ DOMAIN s = 1..Len(s)
  OBVIOUS
<1> HIDE DEF t
<1>2. Range(t) = Range(s) \cup {e}
  BY <1>1 DEF Range
<1> QED
  BY <1>1, <1>2 DEF t

LEMMA Shifted ==
    ASSUME NEW s \in Seq(Events), s # <<>>
    PROVE  /\ Tail(s) \in Seq(Events) /\ Head(s) \in Events
           /\ Range(s) = {Head(s)} \cup Range(Tail(s))
           /\ 1 \in DOMAIN s /\ s[1] = Head(s)
           /\ \A i \in DOMAIN Tail(s) :
                 i \in Nat \ {0} /\ i + 1 \in DOMAIN s /\ Tail(s)[i] = s[i + 1]
<1> DEFINE t == Tail(s)
<1>1. /\ t \in Seq(Events) /\ DOMAIN t = 1..(Len(s) - 1) /\ Len(s) \in Nat \ {0}
      /\ \A i \in DOMAIN t : t[i] = s[i + 1]
      /\ DOMAIN s = 1..Len(s) /\ Head(s) = s[1] /\ Head(s) \in Events
  OBVIOUS
<1> HIDE DEF t
<1>2. \A i \in DOMAIN t : i \in Nat \ {0} /\ i + 1 \in DOMAIN s /\ t[i] = s[i + 1]
  BY <1>1
<1>3. 1 \in DOMAIN s /\ \A i \in DOMAIN s : i # 1 => i - 1 \in DOMAIN t /\ t[i - 1] = s[i]
  BY <1>1
<1>4. Range(s) = {s[1]} \cup Range(t)
  <2>1. Range(t) \subseteq Range(s) /\ s[1] \in Range(s)
    BY <1>2, <1>3 DEF Range
  <2>2. Range(s) \subseteq {s[1]} \cup Range(t)
    BY <1>3 DEF Range
  <2> QED
    BY <2>1, <2>2
<1> QED
  BY <1>1, <1>2, <1>3, <1>4 DEF t

LEMMA OrderedAppend ==
    ASSUME NEW l, NEW s \in Seq(Events), NEW e \in Events, InLogOrder(l, s),
           \A x \in Range(s) : CommittedBefore(l, x, e)
    PROVE  InLogOrder(l, Append(s, e))
<1> DEFINE t == Append(s, e)
<1>1. /\ Len(s) \in Nat /\ DOMAIN s = 1..Len(s) /\ DOMAIN t = DOMAIN s \cup {Len(s) + 1}
      /\ t[Len(s) + 1] = e /\ \A i \in DOMAIN s : t[i] = s[i]
  BY Appended
<1> HIDE DEF t
<1>2. ASSUME NEW a \in DOMAIN t, NEW b \in DOMAIN t, a < b
      PROVE  CommittedBefore(l, t[a], t[b])
  <2>1. a \in DOMAIN s
    BY <1>1, <1>2
  <2>2. CASE b \in DOMAIN s
    BY <1>1, <1>2, <2>1, <2>2 DEF InLogOrder
  <2>3. CASE b = Len(s) + 1
    BY <1>1, <2>1, <2>3 DEF Range
  <2> QED
    BY <1>1, <2>2, <2>3
<1> QED
  BY <1>2 DEF InLogOrder, t

LEMMA OrderedTail ==
    ASSUME NEW l, NEW s \in Seq(Events), s # <<>>, InLogOrder(l, s)
    PROVE  /\ InLogOrder(l, Tail(s))
           /\ \A x \in Range(Tail(s)) : CommittedBefore(l, Head(s), x)
<1> DEFINE t == Tail(s)
<1>1. /\ 1 \in DOMAIN s /\ s[1] = Head(s)
      /\ \A i \in DOMAIN t : i \in Nat \ {0} /\ i + 1 \in DOMAIN s /\ t[i] = s[i + 1]
  BY Shifted
<1> HIDE DEF t
<1>2. InLogOrder(l, t)
  <2> SUFFICES ASSUME NEW a \in DOMAIN t, NEW b \in DOMAIN t, a < b
               PROVE  CommittedBefore(l, t[a], t[b])
    BY DEF InLogOrder
  <2>1. a + 1 < b + 1 /\ a + 1 \in DOMAIN s /\ b + 1 \in DOMAIN s
    BY <1>1
  <2> QED
    BY <1>1, <2>1 DEF InLogOrder
<1>3. ASSUME NEW x \in Range(t) PROVE CommittedBefore(l, Head(s), x)
  <2>1. PICK i \in DOMAIN t : x = t[i]
    BY DEF Range
  <2>2. 1 < i + 1 /\ i + 1 \in DOMAIN s /\ x = s[i + 1]
    BY <1>1, <2>1
  <2> QED
    BY <1>1, <2>2 DEF InLogOrder
<1> QED
  BY <1>2, <1>3 DEF t

LEMMA CommittedFacts ==
    ASSUME Typed
    PROVE  /\ Committed \subseteq Events
           /\ \A e \in Committed : e \in Nat /\ e # None /\ 0 < e
<1>1. Committed \subseteq Events
  BY DEF Typed, Committed, Range
<1> QED
  BY <1>1 DEF Events, None

\* What was committed before an event on time is older.
LEMMA OlderBefore ==
    ASSUME Typed, Known, NEW e, OnTime(e), NEW f, CommittedBefore(log, f, e)
    PROVE  f < e
<1>1. PICK k \in DOMAIN log : log[k] = e /\ InOrderAtCommit(k)
  BY DEF OnTime
<1>2. PICK i \in DOMAIN log, j \in DOMAIN log : i < j /\ log[i] = f /\ log[j] = e
  BY DEF CommittedBefore
<1>3. j = k
  BY <1>1, <1>2 DEF Known
<1>4. DOMAIN log = 1..Len(log) /\ Len(log) \in Nat
  BY DEF Typed
<1>5. i \in 1..(k - 1)
  BY <1>2, <1>3, <1>4
<1> QED
  BY <1>1, <1>2, <1>5 DEF InOrderAtCommit

\* An event is excused for good.
LEMMA Excused ==
    ASSUME NEW events, NEW why, excuses' = Excuse(events, why),
           NEW e \in Events, excuses'[e] = {}
    PROVE  excuses[e] = {} /\ e \notin events
BY DEF Excuse

\* A step that neither commits nor evaluates keeps the order when it keeps
\* what is awaited ahead.
LEMMA Frame ==
    ASSUME OrderInv, UNCHANGED <<log, done>>,
           \A e \in Committed : excuses'[e] = {} => excuses[e] = {},
           \A e \in Committed :
              OnTime(e) /\ e \notin Range(done) /\ Ahead(e) /\ excuses'[e] = {} => Ahead(e)'
    PROVE  OrderInv'
<1> SUFFICES ASSUME NEW e \in Committed, OnTime(e)'
             PROVE  InOrder(e)' /\ (e \notin Range(done) => Ahead(e)')
  BY DEF OrderInv, Committed
<1>1. excuses'[e] = {} /\ OnTime(e)
  BY DEF OnTime, InOrderAtCommit
<1>2. InOrder(e) /\ (e \notin Range(done) => Ahead(e))
  BY <1>1 DEF OrderInv
<1>3. InOrder(e)'
  BY <1>2 DEF InOrder
<1> QED
  BY <1>1, <1>2, <1>3

-----------------------------------------------------------------------------
(* Writers and the listener.                                               *)

LEMMA CommitStep ==
    ASSUME IInv, NEW n \in Events, Commit(n)
    PROVE  IInv'
<1>1. /\ n \notin Committed /\ log' = Append(log, n)
      /\ wire' = IF listening THEN Append(wire, n) ELSE wire
      /\ excuses' = IF ~listening /\ phase \in {"catching", "live"}
                    THEN Excuse({n}, "disconnected") ELSE excuses
      /\ UNCHANGED <<listening, queue, phase, current, checkpoint, done, faults>>
      /\ catchUp' = catchUp \/ catchUp' = [catchUp EXCEPT !.unseen = @ \cup {n}]
  BY DEF Commit
<1>2. Typed /\ Known /\ Lines /\ OrderInv /\ log \in Seq(Events) /\ wire \in Seq(Events)
  BY DEF IInv, Typed
<1>3. /\ log' \in Seq(Events) /\ Len(log) \in Nat /\ DOMAIN log = 1..Len(log)
      /\ DOMAIN log' = DOMAIN log \cup {Len(log) + 1} /\ log'[Len(log) + 1] = n
      /\ \A i \in DOMAIN log : log'[i] = log[i] /\ i < Len(log) + 1
      /\ Committed' = Committed \cup {n}
  BY <1>1, <1>2, Appended DEF Committed
<1>4. /\ wire' \in Seq(Events) /\ Range(wire') \subseteq Range(wire) \cup {n}
      /\ Range(wire) \subseteq Range(wire')
      /\ listening => n \in Range(wire')
  BY <1>1, <1>2, Appended
<1>14. /\ Fields \subseteq DOMAIN catchUp'
       /\ catchUp'.page = catchUp.page /\ catchUp'.cursor = catchUp.cursor
       /\ catchUp'.remaining = catchUp.remaining
       /\ catchUp'.unseen \subseteq catchUp.unseen \cup {n}
  BY <1>1, <1>2 DEF Typed, Fields
<1>15. catchUp'.more <=> catchUp.more
  <2>1. catchUp'.more = catchUp.more
    BY <1>1, <1>2, Zenon DEF Typed, Fields
  <2> QED
    BY <2>1, Zenon
<1>5. Typed'
  BY <1>1, <1>2, <1>3, <1>4, <1>14 DEF Typed
<1>6. Known'
  <2>1. \A i, j \in DOMAIN log' : log'[i] = log'[j] => i = j
    <3>1. \A i \in DOMAIN log : log[i] # n
      BY <1>1 DEF Committed, Range
    <3> QED
      BY <1>2, <1>3, <3>1 DEF Known
  <2> QED
    BY <1>1, <1>2, <1>3, <1>14, <2>1 DEF Known
<1>7. Lines'
  <2>1. \A a, b : CommittedBefore(log, a, b) => CommittedBefore(log', a, b)
    BY <1>3 DEF CommittedBefore
  <2>2. \A x \in Committed : CommittedBefore(log', x, n)
    BY <1>3 DEF CommittedBefore, Committed, Range
  <2>3. InLogOrder(log', queue) /\ InLogOrder(log', wire)
    BY <1>2, <2>1 DEF Lines, InLogOrder
  <2>4. InLogOrder(log', wire')
    <3>1. \A x \in Range(wire) : CommittedBefore(log', x, n)
      BY <1>2, <2>2 DEF Lines
    <3>2. InLogOrder(log', Append(wire, n))
      BY <1>2, <2>3, <3>1, OrderedAppend
    <3> QED
      BY <1>1, <2>3, <3>2
  <2>5. \A x \in Range(queue), y \in Range(wire') : CommittedBefore(log', x, y)
    BY <1>2, <1>4, <2>1, <2>2 DEF Lines
  <2>6. Range(queue) \subseteq Committed' /\ Range(wire') \subseteq Committed'
    BY <1>2, <1>3, <1>4 DEF Lines
  <2> QED
    BY <1>1, <2>3, <2>4, <2>5, <2>6 DEF Lines
<1>8. OrderInv'
  <2> SUFFICES ASSUME NEW e \in Committed', OnTime(e)'
               PROVE  InOrder(e)' /\ (e \notin Range(done)' => Ahead(e)')
    BY DEF OrderInv
  <2>1. excuses'[e] = {} /\ \E i \in DOMAIN log' : log'[i] = e /\ InOrderAtCommit(i)'
    BY DEF OnTime
  <2>2. PICK i \in DOMAIN log' : log'[i] = e /\ \A k \in 1..(i - 1) : log'[k] < log'[i]
    BY <2>1 DEF InOrderAtCommit
  <2>3. CASE e = n
    <3>1. i = Len(log) + 1
      BY <1>1, <1>3, <2>2, <2>3 DEF Committed, Range
    <3>2. \A x \in Committed : x < e
      BY <1>3, <2>2, <3>1 DEF Committed, Range
    <3>3. \A f \in Range(done) : f < e /\ ~ (f > e)
      <4>1. \A f \in Range(done) : f \in Committed /\ f \in Nat
        BY <1>2, CommittedFacts DEF Known
      <4>2. e \in Int
        BY <2>3 DEF Events
      <4> QED
        BY <3>2, <4>1, <4>2
    <3>4. InOrder(e)'
      BY <1>1, <3>3 DEF InOrder
    <3>5. 0 < e
      BY <2>3 DEF Events
    <3>6. current.event <= e /\ e > catchUp.cursor
      <4>1. \A x \in Committed \cup {0} : x < e /\ x \in Int
        BY <1>2, <3>2, <3>5, CommittedFacts
      <4>2. e \in Int
        BY <2>3 DEF Events
      <4> QED
        <5>1. /\ current.event \in Committed \cup {0}
              /\ catchUp.cursor \in Committed \cup {0}
          BY <1>2 DEF Known, None
        <5> QED
          BY <4>1, <4>2, <5>1
    <3>7. phase \in {"catching", "live"} => e \in Range(wire')
      <4>1. phase \in {"catching", "live"} /\ ~listening => e \notin {n}
        BY <1>1, <2>1, <2>3, Excused
      <4> QED
        BY <1>4, <2>3, <4>1
    <3>8. \A f \in Range(done') \cup {current'.event} : f <= e
      BY <1>1, <2>3, <3>3, <3>6, <1>2, CommittedFacts DEF Known, Events
    <3>9. Ahead(e)'
      BY <1>1, <1>14, <3>6, <3>7, <3>8 DEF Ahead, Notified, Coming, InPage
    <3> QED
      BY <3>4, <3>9
  <2>4. CASE e # n
    <3>1. e \in Committed /\ e \in Events
      BY <1>2, <1>3, <2>4, CommittedFacts
    <3>2. excuses[e] = {}
      BY <1>1, <2>1, <3>1, Excused
    <3>3. i \in DOMAIN log /\ log[i] = e
      BY <1>3, <2>2, <2>4
    <3>4. \A k \in 1..(i - 1) : log[k] < log[i]
      <4>1. \A k \in 1..(i - 1) : k \in DOMAIN log
        BY <1>3, <3>3
      <4> QED
        BY <1>3, <2>2, <3>3, <4>1
    <3>5. OnTime(e)
      BY <3>2, <3>3, <3>4 DEF OnTime, InOrderAtCommit
    <3>6. InOrder(e) /\ (e \notin Range(done) => Ahead(e))
      BY <1>2, <3>1, <3>5 DEF OrderInv
    <3>7. Ahead(e) => Ahead(e)'
      BY <1>1, <1>4, <1>14, <1>15, <2>4 DEF Ahead, Notified, Coming, InPage
    <3> QED
      BY <1>1, <3>6, <3>7 DEF InOrder
  <2> QED
    BY <2>3, <2>4
<1> QED
  BY <1>5, <1>6, <1>7, <1>8 DEF IInv

LEMMA ListenStep ==
    ASSUME IInv, Listen \/ StartProcess \/ ProcessEnds
    PROVE  IInv'
<1>1. /\ UNCHANGED <<log, wire, queue, catchUp, current, checkpoint, done, excuses>>
      /\ phase' = phase \/ phase' \in {"starting", "down"}
  BY DEF Listen, StartProcess, ProcessEnds
<1>2. Typed' /\ Known' /\ Lines'
  BY <1>1 DEF IInv, Typed, Known, Lines, Committed
<1>3. OrderInv'
  <2>1. ASSUME NEW e \in Committed, Ahead(e) PROVE Ahead(e)'
    BY <1>1, <2>1 DEF Ahead, Notified, Coming, InPage
  <2> QED
    BY <1>1, <2>1, Frame DEF IInv
<1> QED
  BY <1>2, <1>3 DEF IInv

LEMMA DisconnectStep ==
    ASSUME IInv, Disconnect
    PROVE  IInv'
<1>1. /\ UNCHANGED <<log, queue, phase, catchUp, current, checkpoint, done>>
      /\ wire' = <<>> /\ excuses' = Excuse(Range(wire), "disconnected")
  BY DEF Disconnect
<1>2. Range(wire') = {} /\ wire' \in Seq(Events) /\ \A l : InLogOrder(l, wire')
  BY <1>1 DEF Range, InLogOrder
<1>3. Typed' /\ Known'
  BY <1>1, <1>2 DEF IInv, Typed, Known, Committed
<1>4. Lines'
  BY <1>1, <1>2 DEF IInv, Lines, Committed
<1>5. OrderInv'
  <2>1. ASSUME NEW e \in Committed, excuses'[e] = {}
        PROVE  excuses[e] = {} /\ e \notin Range(wire)
    BY <1>1, <2>1, Excused, CommittedFacts DEF IInv
  <2>2. ASSUME NEW e \in Committed, excuses'[e] = {}, Ahead(e) PROVE Ahead(e)'
    BY <1>1, <2>1, <2>2 DEF Ahead, Notified, Coming, InPage
  <2> QED
    BY <1>1, <2>1, <2>2, Frame DEF IInv
<1> QED
  BY <1>3, <1>4, <1>5 DEF IInv

LEMMA HandleStep ==
    ASSUME IInv, HandleNotify \/ ResolveFails
    PROVE  IInv'
<1> DEFINE h == Head(wire)
<1>1. /\ UNCHANGED <<log, phase, catchUp, current, checkpoint, done>>
      /\ wire # <<>> /\ wire' = Tail(wire)
      /\ \/ queue' = Append(queue, h) /\ excuses' = excuses
         \/ queue' = queue /\ \E why : excuses' = Excuse({h}, why)
  BY DEF HandleNotify, ResolveFails, Submitted
<1>2. Typed /\ Known /\ Lines /\ OrderInv /\ queue \in Seq(Events) /\ wire \in Seq(Events)
  BY DEF IInv, Typed
<1>3. /\ h \in Events /\ Tail(wire) \in Seq(Events) /\ Range(wire) = {h} \cup Range(Tail(wire))
      /\ InLogOrder(log, Tail(wire))
      /\ \A x \in Range(Tail(wire)) : CommittedBefore(log, h, x)
  BY <1>1, <1>2, Shifted, OrderedTail DEF Lines
<1>4. /\ Append(queue, h) \in Seq(Events)
      /\ Range(Append(queue, h)) = Range(queue) \cup {h}
  BY <1>2, <1>3, Appended
<1>5. InLogOrder(log, Append(queue, h))
  BY <1>2, <1>3, OrderedAppend DEF Lines
<1> HIDE DEF h
<1>6. Typed' /\ Known'
  BY <1>1, <1>2, <1>3, <1>4 DEF Typed, Known, Committed
<1>7. Lines'
  <2>1. InLogOrder(log', queue') /\ InLogOrder(log', wire')
    BY <1>1, <1>2, <1>3, <1>5 DEF Lines
  <2>2. \A x \in Range(queue'), y \in Range(wire') : CommittedBefore(log', x, y)
    <3>1. \A x \in Range(queue) \cup {h}, y \in Range(Tail(wire)) :
             CommittedBefore(log, x, y)
      BY <1>2, <1>3 DEF Lines
    <3>2. Range(queue') \subseteq Range(queue) \cup {h}
      BY <1>1, <1>4
    <3> QED
      BY <1>1, <3>1, <3>2
  <2>3. Range(queue') \subseteq Committed' /\ Range(wire') \subseteq Committed'
    BY <1>1, <1>2, <1>3, <1>4 DEF Lines, Committed
  <2> QED
    BY <2>1, <2>2, <2>3 DEF Lines
<1>8. OrderInv'
  <2>1. ASSUME NEW e \in Committed, excuses'[e] = {}
        PROVE  excuses[e] = {} /\ (Notified(e) => Notified(e)')
    <3>1. e \in Events
      BY <1>2, CommittedFacts
    <3>2. CASE queue' = Append(queue, h) /\ excuses' = excuses
      BY <1>1, <1>3, <1>4, <2>1, <3>2 DEF Notified
    <3>3. CASE queue' = queue /\ \E why : excuses' = Excuse({h}, why)
      <4>1. excuses[e] = {} /\ e # h
        BY <2>1, <3>1, <3>3, Excused
      <4> QED
        BY <1>1, <1>3, <3>3, <4>1 DEF Notified
    <3> QED
      BY <1>1, <3>2, <3>3
  <2>2. ASSUME NEW e \in Committed, excuses'[e] = {}, Ahead(e) PROVE Ahead(e)'
    BY <1>1, <2>1, <2>2 DEF Ahead, Coming, InPage
  <2> QED
    BY <1>1, <1>2, <2>1, <2>2, Frame
<1> QED
  BY <1>6, <1>7, <1>8 DEF IInv

-----------------------------------------------------------------------------
(* The consumer.                                                           *)

LEMMA StartConsumerStep ==
    ASSUME IInv, StartConsumer
    PROVE  IInv'
<1>1. /\ UNCHANGED <<log, wire, queue, current, checkpoint, done>>
      /\ phase' = "catching" /\ \E S : excuses' = Excuse(S, "late")
      /\ catchUp' = [page |-> {}, cursor |-> checkpoint,
                     remaining |-> CatchUpLimit, more |-> TRUE,
                     asked |-> FALSE, unseen |-> {}]
  BY DEF StartConsumer, CatchUpFrom
<1>2. Typed /\ Known /\ Lines /\ OrderInv
  BY DEF IInv
<1>3. /\ catchUp'.page = {} /\ catchUp'.cursor = checkpoint /\ catchUp'.more
      /\ catchUp'.remaining \in Int /\ catchUp'.unseen = {}
      /\ Fields \subseteq DOMAIN catchUp'
  BY <1>1 DEF Fields
<1>4. Typed' /\ Lines'
  BY <1>1, <1>2, <1>3 DEF Typed, Lines, Committed
<1>5. Known'
  BY <1>1, <1>2, <1>3 DEF Known, Committed, None
<1>6. OrderInv'
  <2>1. ASSUME NEW e \in Committed, excuses'[e] = {} PROVE excuses[e] = {}
    BY <1>1, <1>2, <2>1, Excused, CommittedFacts
  <2>2. ASSUME NEW e \in Committed, e \notin Range(done), Ahead(e) PROVE Ahead(e)'
    <3>1. e \in Nat /\ 0 < e
      BY <1>2, CommittedFacts
    <3>2. checkpoint \in Nat /\ checkpoint # e /\ checkpoint <= e
      <4>1. checkpoint \in Range(done) \cup {0} /\ Range(done) \subseteq Committed
        BY <1>2 DEF Known, None
      <4>2. CASE checkpoint = 0
        BY <3>1, <4>2
      <4>3. CASE checkpoint \in Range(done)
        <5>1. checkpoint <= e
          BY <2>2, <4>3 DEF Ahead
        <5> QED
          BY <1>2, <2>2, <4>1, <4>3, <5>1, CommittedFacts
      <4> QED
        BY <4>1, <4>2, <4>3
    <3>3. e > catchUp'.cursor
      BY <1>3, <3>1, <3>2
    <3> QED
      BY <1>1, <1>3, <2>2, <3>3 DEF Ahead, Coming
  <2> QED
    BY <1>1, <1>2, <2>1, <2>2, Frame
<1> QED
  BY <1>4, <1>5, <1>6 DEF IInv

LEMMA AskFirstProviderStep ==
    ASSUME IInv, AskFirstProvider
    PROVE  IInv'
<1>1. /\ UNCHANGED <<log, wire, queue, phase, current, checkpoint, done, excuses>>
      /\ catchUp' = [catchUp EXCEPT !.asked = TRUE]
  BY DEF AskFirstProvider
<1>2. /\ Typed /\ Known /\ Lines /\ OrderInv
      /\ Fields \subseteq DOMAIN catchUp
  BY DEF IInv, Typed
<1>3. /\ Fields \subseteq DOMAIN catchUp'
      /\ catchUp'.page = catchUp.page /\ catchUp'.cursor = catchUp.cursor
      /\ catchUp'.remaining = catchUp.remaining /\ catchUp'.unseen = catchUp.unseen
  BY <1>1, <1>2 DEF Fields
<1>4. catchUp'.more <=> catchUp.more
  <2>1. catchUp'.more = catchUp.more
    BY <1>1, <1>2, Zenon DEF Fields
  <2> QED
    BY <2>1, Zenon
<1>5. Typed' /\ Known' /\ Lines'
  BY <1>1, <1>2, <1>3 DEF Typed, Known, Lines, Committed
<1>6. OrderInv'
  <2>1. ASSUME NEW e \in Committed, Ahead(e) PROVE Ahead(e)'
    BY <1>1, <1>3, <1>4, <2>1 DEF Ahead, Coming, InPage, Notified
  <2> QED
    BY <1>1, <1>2, <2>1, Frame
<1> QED
  BY <1>5, <1>6 DEF IInv

LEMMA ReadPageStep ==
    ASSUME IInv, ReadPage
    PROVE  IInv'
<1> DEFINE limit == IF PageSize < catchUp.remaining THEN PageSize ELSE catchUp.remaining
           c == catchUp.cursor
           page == Page(c, limit)
           next == NextCursor(c, limit)
           more == PageAndNext(c, limit) # page
<1>1. /\ UNCHANGED <<log, wire, queue, phase, current, checkpoint, done>>
      /\ phase \in {"catching", "finishing"} /\ catchUp.page = {} /\ current = NoEvent
      /\ catchUp.remaining > 0 /\ After(c) # {}
      /\ catchUp' = [CatchUpFrom(next, catchUp.remaining - Cardinality(page), more)
                        EXCEPT !.page = page]
      /\ excuses' = Excuse({e \in catchUp.unseen : e < next}, "between")
  BY Zenon DEF ReadPage, Reading, BetweenPages, CatchingUp
<1>2. /\ Typed /\ Known /\ Lines /\ OrderInv /\ Committed \subseteq Events
      /\ \A e \in Committed : e \in Nat /\ e # None
  BY CommittedFacts DEF IInv
<1>3. limit \in Nat \ {0} /\ catchUp.remaining \in Int
  BY <1>1, <1>2 DEF Typed
<1> HIDE DEF limit
<1>4. /\ page \subseteq After(c) /\ next \in page
      /\ \A e \in page : e <= next
      /\ \A e \in After(c) : e \in page \/ e > next
      /\ PageAndNext(c, limit) = page => page = After(c)
  BY <1>1, <1>2, <1>3, PageFacts
<1>5. page \subseteq Committed /\ Cardinality(page) \in Nat
  BY <1>2, <1>4, FiniteEvents DEF After
<1>9. ~ more => page = After(c)
  BY <1>4
<1> HIDE DEF page, next, more
<1>6. /\ catchUp'.page = page /\ catchUp'.cursor = next
      /\ catchUp'.more <=> more
      /\ catchUp'.remaining \in Int /\ catchUp'.unseen = {}
      /\ Fields \subseteq DOMAIN catchUp'
  <2>1. catchUp'.more = more
    BY <1>1, Zenon DEF CatchUpFrom
  <2>2. catchUp'.more <=> more
    BY <2>1, Zenon
  <2>3. /\ catchUp'.page = page /\ catchUp'.cursor = next
        /\ catchUp'.remaining = catchUp.remaining - Cardinality(page)
        /\ catchUp'.unseen = {}
        /\ Fields \subseteq DOMAIN catchUp'
    BY <1>1 DEF CatchUpFrom, Fields
  <2>4. catchUp'.remaining \in Int
    BY <1>3, <1>5, <2>3
  <2> QED
    BY <2>2, <2>3, <2>4
<1>7. Typed' /\ Lines'
  BY <1>1, <1>2, <1>6 DEF Typed, Lines, Committed
<1>8. Known'
  BY <1>1, <1>2, <1>4, <1>5, <1>6 DEF Known, Committed
<1>10. ASSUME NEW e \in Committed, excuses'[e] = {}
       PROVE  excuses[e] = {} /\ (e \in catchUp.unseen => ~ (e < next))
  BY <1>1, <1>2, <1>10, Excused
<1>11. OrderInv'
  <2>1. ASSUME NEW e \in Committed, excuses'[e] = {}, e \notin Range(done), Ahead(e)
        PROVE  Ahead(e)'
    <3>1. /\ ~ InPage(e) /\ e > c
          /\ phase = "catching" => (e \in catchUp.unseen => Notified(e))
      BY <1>1, <1>2, <2>1 DEF Ahead, Coming, InPage, NoEvent
    <3>2. CASE e \in catchUp.unseen
      <4>1. e > next
        <5>1. ~ (e < next) /\ e # next /\ next \in Nat /\ e \in Nat
          BY <1>2, <1>4, <1>5, <1>10, <2>1, <3>2 DEF After
        <5> QED
          BY <5>1
      <4> QED
        BY <1>1, <1>6, <2>1, <3>1, <3>2, <4>1 DEF Ahead, Coming, InPage, Notified
    <3>3. CASE e \notin catchUp.unseen
      <4>1. e \in After(c)
        BY <3>1, <3>3 DEF After
      <4>2. e \in page \/ (e > next /\ more)
        BY <1>4, <1>9, <4>1 DEF more
      <4> QED
        BY <1>1, <1>6, <2>1, <4>2 DEF Ahead, Coming, InPage, Notified
    <3> QED
      BY <3>2, <3>3
  <2> QED
    BY <1>1, <1>2, <1>10, <2>1, Frame
<1> QED
  BY <1>7, <1>8, <1>11 DEF IInv

\* The catch-up is over: what it leaves behind and does not excuse is notified.
LEMMA LeaveCatchUpStep ==
    ASSUME IInv, NEW lost, NEW why, LeaveCatchUp(lost, why), CatchingUp,
           UNCHANGED <<log, wire, queue, checkpoint, done>>, current' = NoEvent,
           \A e \in Committed :
              /\ e \notin Range(done) /\ e \notin lost
              /\ phase = "catching" /\ Coming(e)
              => Notified(e)
    PROVE  IInv'
<1>1. /\ catchUp' = NoCatchUp
      /\ \/ phase = "catching" /\ phase' = "live" /\ excuses' = Excuse(lost, why)
         \/ phase = "finishing" /\ phase' = "closing" /\ excuses' = excuses
  BY DEF LeaveCatchUp, CatchingUp
<1>2. /\ Typed /\ Known /\ Lines /\ OrderInv /\ Committed \subseteq Events
      /\ \A e \in Committed : e \in Nat /\ e # None
  BY CommittedFacts DEF IInv
<1>3. /\ catchUp'.page = {} /\ catchUp'.cursor = 0 /\ catchUp'.remaining = 0
      /\ Fields \subseteq DOMAIN catchUp'
  BY <1>1 DEF NoCatchUp, CatchUpFrom, Fields
<1>4. /\ current'.event = None /\ ~ current'.evaluated
      /\ {"event", "evaluated"} \subseteq DOMAIN current'
  BY DEF NoEvent
<1>5. Typed' /\ Lines'
  BY <1>1, <1>2, <1>3, <1>4 DEF Typed, Lines, Committed
<1>6. Known'
  BY <1>1, <1>2, <1>3, <1>4 DEF Known, Committed
<1>7. OrderInv'
  <2>1. ASSUME NEW e \in Committed, excuses'[e] = {}
        PROVE  excuses[e] = {} /\ (phase = "catching" => e \notin lost)
    BY <1>1, <1>2, <2>1, Excused
  <2>2. ASSUME NEW e \in Committed, excuses'[e] = {}, e \notin Range(done), Ahead(e)
        PROVE  Ahead(e)'
    <3>1. \A f \in Range(done') \cup {current'.event} : f <= e
      BY <1>1, <1>2, <1>4, <2>2 DEF Ahead, None
    <3>2. phase' = "live" => Notified(e)'
      BY <1>1, <2>1, <2>2 DEF Ahead, Notified
    <3> QED
      BY <1>1, <3>1, <3>2 DEF Ahead
  <2> QED
    BY <1>1, <1>2, <2>1, <2>2, Frame
<1> QED
  BY <1>5, <1>6, <1>7 DEF IInv

LEMMA EndCatchUpStep ==
    ASSUME IInv, EndCatchUp
    PROVE  IInv'
<1> DEFINE lost == IF catchUp.more /\ catchUp.remaining = 0 THEN Missed ELSE {}
<1>1. /\ UNCHANGED <<log, wire, queue, current, checkpoint, done>>
      /\ CatchingUp /\ catchUp.page = {} /\ current = NoEvent
      /\ LeaveCatchUp(lost, "limit")
      /\ \/ ~catchUp.more \/ catchUp.remaining = 0
         \/ After(catchUp.cursor) = {}
  BY DEF EndCatchUp, BetweenPages
<1>2. \A e \in Committed : e # None
  BY CommittedFacts DEF IInv
<1>3. ASSUME NEW e \in Committed, e \notin Range(done), e \notin lost, Coming(e)
      PROVE  Notified(e)
  <2>1. current.event = None /\ e # None
    BY <1>1, <1>2 DEF NoEvent
  <2>2. e > catchUp.cursor /\ (catchUp.more \/ Notified(e))
    BY <1>1, <1>3, <2>1 DEF Coming, InPage
  <2>3. CASE ~ catchUp.more
    BY <2>2, <2>3
  <2>4. CASE catchUp.more /\ catchUp.remaining = 0
    <3>1. e \notin Missed
      BY <1>3, <2>4
    <3> QED
      BY <1>3, <2>1, <3>1 DEF Missed, Notified
  <2>5. CASE After(catchUp.cursor) = {}
    <3>1. e \in catchUp.unseen
      BY <2>2, <2>5 DEF After
    <3> QED
      BY <1>3, <3>1 DEF Coming
  <2> QED
    BY <1>1, <2>3, <2>4, <2>5
<1> HIDE DEF lost
<1>4. current' = NoEvent
  BY <1>1
<1> QED
  BY <1>1, <1>3, <1>4, LeaveCatchUpStep

LEMMA TakeFromPageStep ==
    ASSUME IInv, Take, CatchingUp
    PROVE  IInv'
<1> DEFINE m == Min(catchUp.page)
<1>1. /\ UNCHANGED <<log, wire, queue, phase, checkpoint, done, excuses>>
      /\ current = NoEvent /\ catchUp.page # {}
      /\ current' = [event |-> m, evaluated |-> FALSE]
      /\ catchUp' = [catchUp EXCEPT !.page = @ \ {m}]
      /\ phase \in {"catching", "finishing"}
  BY DEF Take, CatchingUp
<1>2. /\ Typed /\ Known /\ Lines /\ OrderInv /\ Committed \subseteq Events
      /\ \A e \in Committed : e \in Nat /\ e # None
      /\ Fields \subseteq DOMAIN catchUp
      /\ catchUp.remaining \in Int
  BY CommittedFacts DEF IInv, Typed
<1>3. m \in catchUp.page /\ \A y \in catchUp.page : m <= y
  <2>1. catchUp.page \in SUBSET Nat
    BY <1>2 DEF Known
  <2> QED
    BY <1>1, <2>1, LeastOf
<1> HIDE DEF m
<1>4. /\ catchUp'.page = catchUp.page \ {m} /\ catchUp'.cursor = catchUp.cursor
      /\ catchUp'.remaining \in Int /\ catchUp'.unseen = catchUp.unseen
      /\ Fields \subseteq DOMAIN catchUp'
  BY <1>1, <1>2 DEF Fields
<1>5. catchUp'.more <=> catchUp.more
  <2>1. catchUp'.more = catchUp.more
    BY <1>1, <1>2, Zenon DEF Fields
  <2> QED
    BY <2>1, Zenon
<1>6. /\ current'.event = m /\ ~ current'.evaluated
      /\ {"event", "evaluated"} \subseteq DOMAIN current'
  BY <1>1
<1>7. Typed' /\ Lines'
  BY <1>1, <1>2, <1>4, <1>6 DEF Typed, Lines, Committed
<1>8. Known'
  BY <1>1, <1>2, <1>3, <1>4, <1>6 DEF Known, Committed
<1>9. OrderInv'
  <2>1. ASSUME NEW e \in Committed, Ahead(e) PROVE Ahead(e)'
    <3>1. e # current.event
      BY <1>1, <1>2 DEF NoEvent
    <3>2. /\ e \in catchUp.page \/ e > catchUp.cursor
          /\ phase = "catching" =>
                /\ e \in catchUp.page \/ catchUp.more \/ Notified(e)
                /\ e \in catchUp.unseen => Notified(e)
      BY <1>1, <2>1, <3>1 DEF Ahead, Coming, InPage
    <3>3. m \in Nat /\ e \in Nat /\ catchUp.cursor \in Int /\ m <= catchUp.cursor
      BY <1>2, <1>3 DEF Known
    <3>4. m <= e
      BY <1>3, <3>2, <3>3
    <3>5. /\ InPage(e)' \/ e > catchUp'.cursor
          /\ phase = "catching" => Coming(e)'
      BY <1>1, <1>4, <1>5, <1>6, <3>2 DEF Notified, Coming, InPage
    <3> QED
      BY <1>1, <1>6, <2>1, <3>4, <3>5 DEF Ahead
  <2> QED
    BY <1>1, <1>2, <2>1, Frame
<1> QED
  BY <1>7, <1>8, <1>9 DEF IInv

LEMMA TakeFromQueueStep ==
    ASSUME IInv, Take, ~ CatchingUp
    PROVE  IInv'
<1> DEFINE h == Head(queue)
<1>1. /\ UNCHANGED <<log, wire, phase, catchUp, checkpoint, done, excuses>>
      /\ current = NoEvent /\ phase = "live" /\ queue # <<>>
      /\ current' = [event |-> h, evaluated |-> FALSE] /\ queue' = Tail(queue)
  BY DEF Take, CatchingUp
<1>2. /\ Typed /\ Known /\ Lines /\ OrderInv /\ Committed \subseteq Events
      /\ \A e \in Committed : e \in Nat /\ e # None
      /\ queue \in Seq(Events)
  BY CommittedFacts DEF IInv, Typed
<1>3. /\ h \in Events /\ Tail(queue) \in Seq(Events)
      /\ Range(queue) = {h} \cup Range(Tail(queue))
      /\ InLogOrder(log, Tail(queue))
      /\ \A x \in Range(Tail(queue)) : CommittedBefore(log, h, x)
  BY <1>1, <1>2, Shifted, OrderedTail DEF Lines
<1> HIDE DEF h
<1>4. /\ current'.event = h /\ ~ current'.evaluated
      /\ {"event", "evaluated"} \subseteq DOMAIN current'
  BY <1>1
<1>5. Typed' /\ Known'
  BY <1>1, <1>2, <1>3, <1>4 DEF Typed, Known, Lines, Committed
<1>6. Lines'
  <2>1. InLogOrder(log', queue') /\ InLogOrder(log', wire')
    BY <1>1, <1>2, <1>3 DEF Lines
  <2>2. Range(queue') \subseteq Range(queue)
    BY <1>1, <1>3
  <2> QED
    BY <1>1, <1>2, <2>1, <2>2 DEF Lines, Committed
<1>7. OrderInv'
  <2>1. ASSUME NEW e \in Committed, OnTime(e), Ahead(e) PROVE Ahead(e)'
    <3>1. Notified(e)
      BY <1>1, <1>2, <2>1 DEF Ahead, NoEvent
    <3>2. CASE e = h
      BY <1>1, <1>2, <1>4, <2>1, <3>2 DEF Ahead
    <3>3. CASE e # h
      <4>1. CommittedBefore(log, h, e)
        BY <1>2, <1>3, <3>1, <3>3 DEF Notified, Lines
      <4>2. h < e
        BY <1>2, <2>1, <4>1, OlderBefore
      <4>3. h <= e
        BY <1>2, <1>3, <4>2 DEF Events
      <4>4. Notified(e)'
        BY <1>1, <1>3, <3>1, <3>3 DEF Notified
      <4> QED
        BY <1>1, <1>4, <2>1, <4>3, <4>4 DEF Ahead
    <3> QED
      BY <3>2, <3>3
  <2> QED
    BY <1>1, <1>2, <2>1, Frame
<1> QED
  BY <1>5, <1>6, <1>7 DEF IInv

LEMMA EvaluateStep ==
    ASSUME IInv, Evaluate
    PROVE  IInv'
<1> DEFINE c == current.event
<1>1. /\ UNCHANGED <<log, wire, queue, phase, catchUp, checkpoint, excuses>>
      /\ current # NoEvent /\ ~ current.evaluated
      /\ current' = [current EXCEPT !.evaluated = TRUE]
      /\ done' = IF c \in Range(done) THEN done ELSE Append(done, c)
  BY DEF Evaluate
<1>2. /\ Typed /\ Known /\ Lines /\ OrderInv /\ Committed \subseteq Events
      /\ \A e \in Committed : e \in Nat /\ e # None
      /\ done \in Seq(Events) /\ c \in Committed \cup {None}
  BY CommittedFacts DEF IInv, Typed, Known
<1>3. c \in Committed /\ c \in Events
  BY <1>1, <1>2 DEF Known
<1> HIDE DEF c
<1>4. /\ done' \in Seq(Events) /\ Range(done') = Range(done) \cup {c}
      /\ c \notin Range(done) =>
            /\ DOMAIN done' = DOMAIN done \cup {Len(done) + 1} /\ done'[Len(done) + 1] = c
            /\ \A i \in DOMAIN done : done'[i] = done[i] /\ i < Len(done) + 1
  <2>1. CASE c \in Range(done)
    BY <1>1, <1>2, <2>1
  <2>2. CASE c \notin Range(done)
    BY <1>1, <1>2, <1>3, <2>2, Appended
  <2> QED
    BY <2>1, <2>2
<1>5. current'.event = c /\ {"event", "evaluated"} \subseteq DOMAIN current'
  BY <1>1, <1>2 DEF Typed, c
<1>6. Typed' /\ Lines'
  BY <1>1, <1>2, <1>4, <1>5 DEF Typed, Lines, Committed
<1>7. Known'
  BY <1>1, <1>2, <1>3, <1>4, <1>5 DEF Known, Committed
<1>8. OrderInv'
  <2> SUFFICES ASSUME NEW e \in Committed, OnTime(e)
               PROVE  InOrder(e)' /\ (e \notin Range(done') => Ahead(e)')
    BY <1>1 DEF OrderInv, Committed, OnTime, InOrderAtCommit
  <2>1. InOrder(e) /\ (e \notin Range(done) => Ahead(e))
    BY <1>2 DEF OrderInv
  <2>2. e \notin Range(done') => Ahead(e)'
    <3>1. e \notin Range(done') => e \notin Range(done)
      BY <1>4
    <3>2. c = current.event
      BY DEF c
    <3> QED
      BY <1>1, <1>4, <1>5, <2>1, <3>1, <3>2 DEF Ahead, Notified, Coming, InPage
  <2>3. InOrder(e)'
    <3>1. CASE c \in Range(done)
      BY <1>1, <2>1, <3>1 DEF InOrder
    <3>2. CASE c \notin Range(done)
      <4> SUFFICES ASSUME NEW f \in Range(done'), f > e
                   PROVE  \E k, l \in DOMAIN done' : done'[k] = e /\ done'[l] = f /\ k < l
        BY DEF InOrder
      <4>1. CASE f \in Range(done)
        <5>1. PICK k \in DOMAIN done, l \in DOMAIN done :
                     done[k] = e /\ done[l] = f /\ k < l
          BY <2>1, <4>1 DEF InOrder
        <5> QED
          BY <1>4, <3>2, <5>1
      <4>2. CASE f = c
        <5>1. e \in Range(done)
          <6>1. ASSUME e \notin Range(done) PROVE FALSE
            <7>1. c <= e
              BY <2>1, <6>1 DEF Ahead, c
            <7>2. c \in Nat /\ e \in Nat
              BY <1>2, <1>3
            <7> QED
              BY <4>2, <7>1, <7>2
          <6> QED
            BY <6>1
        <5>2. PICK k \in DOMAIN done : done[k] = e
          BY <5>1 DEF Range
        <5>3. /\ k \in DOMAIN done' /\ done'[k] = e /\ k < Len(done) + 1
              /\ Len(done) + 1 \in DOMAIN done' /\ done'[Len(done) + 1] = f
          BY <1>4, <3>2, <4>2, <5>2
        <5> QED
          BY <5>3
      <4> QED
        BY <1>4, <4>1, <4>2
    <3> QED
      BY <3>1, <3>2
  <2> QED
    BY <2>2, <2>3
<1> QED
  BY <1>6, <1>7, <1>8 DEF IInv

LEMMA SaveCheckpointStep ==
    ASSUME IInv, SaveCheckpoint
    PROVE  IInv'
<1>1. /\ UNCHANGED <<log, wire, queue, phase, catchUp, done, excuses>>
      /\ current.evaluated /\ checkpoint' = current.event /\ current' = NoEvent
  BY DEF SaveCheckpoint
<1>2. /\ Typed /\ Known /\ Lines /\ OrderInv
      /\ \A e \in Committed : e \in Nat /\ e # None
  BY CommittedFacts DEF IInv
<1>3. current.event \in Range(done)
  BY <1>1, <1>2 DEF Known
<1>4. /\ current'.event = None /\ ~ current'.evaluated
      /\ {"event", "evaluated"} \subseteq DOMAIN current'
  BY <1>1 DEF NoEvent
<1>5. Typed' /\ Lines'
  BY <1>1, <1>2, <1>4 DEF Typed, Lines, Committed
<1>6. Known'
  BY <1>1, <1>2, <1>3, <1>4 DEF Known, Committed
<1>7. OrderInv'
  <2>1. ASSUME NEW e \in Committed, e \notin Range(done), Ahead(e) PROVE Ahead(e)'
    <3>1. e # current.event /\ None <= e
      BY <1>2, <1>3, <2>1 DEF None
    <3> QED
      BY <1>1, <1>4, <2>1, <3>1 DEF Ahead, Notified, Coming, InPage
  <2> QED
    BY <1>1, <1>2, <2>1, Frame
<1> QED
  BY <1>5, <1>6, <1>7 DEF IInv

LEMMA CatchUpFailsStep ==
    ASSUME IInv, CatchUpFails
    PROVE  IInv'
<1> DEFINE lost == Missed \cup ({current.event} \ Range(done))
<1>1. /\ UNCHANGED <<log, wire, queue, checkpoint, done>>
      /\ CatchingUp /\ current' = NoEvent /\ LeaveCatchUp(lost, "failed")
  BY DEF CatchUpFails
<1>2. ASSUME NEW e \in Committed, e \notin Range(done), e \notin lost
      PROVE  Notified(e)
  BY <1>2 DEF Missed, Notified
<1> HIDE DEF lost
<1> QED
  BY <1>1, <1>2, LeaveCatchUpStep

LEMMA ProcessingFailsStep ==
    ASSUME IInv, ProcessingFails
    PROVE  IInv'
<1> DEFINE lost == {current.event} \ Range(done)
<1>1. /\ UNCHANGED <<log, wire, queue, phase, catchUp, checkpoint, done>>
      /\ phase # "catching" /\ phase # "finishing" /\ current' = NoEvent
      /\ IF phase = "live" THEN excuses' = Excuse(lost, "failed")
         ELSE excuses' = excuses
  BY DEF ProcessingFails, CatchingUp
<1>2. /\ Typed /\ Known /\ Lines /\ OrderInv /\ Committed \subseteq Events
      /\ \A e \in Committed : e \in Nat /\ e # None
  BY CommittedFacts DEF IInv
<1>3. /\ current'.event = None /\ ~ current'.evaluated
      /\ {"event", "evaluated"} \subseteq DOMAIN current'
  BY <1>1 DEF NoEvent
<1>4. Typed' /\ Known' /\ Lines'
  BY <1>1, <1>2, <1>3 DEF Typed, Known, Lines, Committed
<1>5. OrderInv'
  <2>1. ASSUME NEW e \in Committed, excuses'[e] = {}
        PROVE  excuses[e] = {} /\ (phase = "live" => e \notin lost)
    BY <1>1, <1>2, <2>1, Excused
  <2>2. ASSUME NEW e \in Committed, excuses'[e] = {}, e \notin Range(done), Ahead(e)
        PROVE  Ahead(e)'
    <3>1. \A f \in Range(done') \cup {current'.event} : f <= e
      BY <1>1, <1>2, <1>3, <2>2 DEF Ahead, None
    <3>2. phase = "live" => Notified(e)'
      BY <1>1, <2>1, <2>2 DEF Ahead, Notified
    <3> QED
      BY <1>1, <3>1, <3>2 DEF Ahead
  <2> QED
    BY <1>1, <1>2, <2>1, <2>2, Frame
<1> QED
  BY <1>4, <1>5 DEF IInv

LEMMA StopStep ==
    ASSUME IInv, Stop
    PROVE  IInv'
<1>1. /\ UNCHANGED <<log, catchUp, current, checkpoint, done, excuses>>
      /\ wire' = <<>> /\ queue' = <<>>
      /\ IF phase = "catching" THEN phase' = "finishing" ELSE phase' = "closing"
  BY DEF Stop
<1>2. /\ Range(wire') = {} /\ Range(queue') = {}
      /\ \A l : InLogOrder(l, wire') /\ InLogOrder(l, queue')
  BY <1>1 DEF Range, InLogOrder
<1>3. Typed' /\ Known'
  BY <1>1 DEF IInv, Typed, Known, Committed
<1>4. Lines'
  BY <1>2 DEF Lines
<1>5. OrderInv'
  <2>1. ASSUME NEW e \in Committed, Ahead(e) PROVE Ahead(e)'
    BY <1>1, <2>1 DEF Ahead, Coming, InPage
  <2> QED
    BY <1>1, <2>1, Frame DEF IInv
<1> QED
  BY <1>3, <1>4, <1>5 DEF IInv

LEMMA CrashStep ==
    ASSUME IInv, Crash
    PROVE  IInv'
<1>1. /\ UNCHANGED <<log, checkpoint, done, excuses>>
      /\ phase' = "down" /\ wire' = <<>> /\ queue' = <<>>
      /\ catchUp' = NoCatchUp /\ current' = NoEvent
  BY DEF Crash
<1>2. /\ Typed /\ Known /\ Lines /\ OrderInv
      /\ \A e \in Committed : e \in Nat
  BY CommittedFacts DEF IInv
<1>3. /\ Range(wire') = {} /\ Range(queue') = {}
      /\ \A l : InLogOrder(l, wire') /\ InLogOrder(l, queue')
  BY <1>1 DEF Range, InLogOrder
<1>4. Typed'
  BY <1>1, <1>2 DEF Typed, NoCatchUp, CatchUpFrom, NoEvent, Fields
<1>5. Known'
  BY <1>1, <1>2 DEF Known, Committed, NoCatchUp, CatchUpFrom, NoEvent
<1>6. Lines'
  BY <1>3 DEF Lines
<1>7. OrderInv'
  <2>1. ASSUME NEW e \in Committed, Ahead(e) PROVE Ahead(e)'
    BY <1>1, <1>2, <2>1 DEF Ahead, NoEvent, None
  <2> QED
    BY <1>1, <1>2, <2>1, Frame
<1> QED
  BY <1>4, <1>5, <1>6, <1>7 DEF IInv

-----------------------------------------------------------------------------
(* The theorems.                                                           *)

LEMMA Starts == Init => IInv
<1> SUFFICES ASSUME Init PROVE IInv
  OBVIOUS
<1>1. Range(<<>>) = {} /\ \A l : InLogOrder(l, <<>>)
  BY DEF Range, InLogOrder
<1>2. Typed
  BY DEF Init, Typed, NoEvent, NoCatchUp, CatchUpFrom, Fields
<1>3. Known /\ Lines
  BY <1>1 DEF Init, Known, Lines, NoEvent, NoCatchUp, CatchUpFrom, Committed, None
<1>4. OrderInv
  BY <1>1 DEF Init, OrderInv, Committed
<1> QED
  BY <1>2, <1>3, <1>4 DEF IInv

LEMMA Preserved == IInv /\ [Next]_vars => IInv'
<1> SUFFICES ASSUME IInv, [Next]_vars PROVE IInv'
  OBVIOUS
<1>1. CASE \E e \in Events : Commit(e)
  BY <1>1, CommitStep
<1>2. CASE Listen \/ Disconnect \/ HandleNotify \/ ResolveFails
  BY <1>2, ListenStep, DisconnectStep, HandleStep
<1>3. CASE StartStep
  BY <1>3, ListenStep, StartConsumerStep DEF StartStep
<1>4. CASE ConsumerStep
  BY <1>4, AskFirstProviderStep, ReadPageStep, EndCatchUpStep, TakeFromPageStep, TakeFromQueueStep,
     EvaluateStep, SaveCheckpointStep DEF ConsumerStep
<1>5. CASE CatchUpFails \/ ProcessingFails \/ Stop \/ Crash
  BY <1>5, CatchUpFailsStep, ProcessingFailsStep, StopStep, CrashStep
<1>6. CASE UNCHANGED vars
  <2>1. Typed' /\ Known' /\ Lines'
    BY <1>6 DEF vars, IInv, Typed, Known, Lines, Committed
  <2>2. OrderInv'
    BY <1>6 DEF vars, IInv, OrderInv, OnTime, InOrder, Ahead, Notified,
                Coming, InPage, InOrderAtCommit, Committed
  <2> QED
    BY <2>1, <2>2 DEF IInv
<1> QED
  BY <1>1, <1>2, <1>3, <1>4, <1>5, <1>6 DEF Next

LEMMA Invariant == Spec => []IInv
<1> QED
  BY Starts, Preserved, PTL DEF Spec

\* The checkpoint never names an event whose evaluation has not committed,
\* whatever fails or dies, so what a restart skips was evaluated or is one of
\* the losses the runs enumerate.
THEOREM CheckpointCorrect == Spec => []CheckpointEvaluated
<1>1. IInv => CheckpointEvaluated
  BY DEF IInv, Known, CheckpointEvaluated
<1> QED
  BY <1>1, Invariant, PTL

\* Events that commit in timeline order are first evaluated in that order,
\* through catch-up pages of any size, the queue and restarts, unless the
\* earlier one was lost for a known cause.
THEOREM FirstEvaluationsInOrderHolds == Spec => []FirstEvaluationsInOrder
<1>1. ASSUME IInv PROVE FirstEvaluationsInOrder
  <2> SUFFICES ASSUME NEW i \in DOMAIN log, NEW j \in DOMAIN log,
                      i < j, InOrderAtCommit(i), InOrderAtCommit(j),
                      excuses[log[i]] = {}, log[j] \in Range(done)
               PROVE  \E k, l \in DOMAIN done :
                         done[k] = log[i] /\ done[l] = log[j] /\ k < l
    BY DEF FirstEvaluationsInOrder
  <2>1. DOMAIN log = 1..Len(log) /\ Len(log) \in Nat /\ log[i] \in Events /\ log[j] \in Events
    BY <1>1 DEF IInv, Typed
  <2>2. log[i] < log[j]
    BY <2>1 DEF InOrderAtCommit
  <2>3. log[j] > log[i]
    BY <2>1, <2>2 DEF Events
  <2>4. log[i] \in Committed /\ OnTime(log[i])
    BY DEF Committed, Range, OnTime
  <2>5. InOrder(log[i])
    BY <1>1, <2>4 DEF IInv, OrderInv
  <2> QED
    BY <2>3, <2>5 DEF InOrder
<1> QED
  BY <1>1, Invariant, PTL
=============================================================================
