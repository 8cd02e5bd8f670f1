--------------------------- MODULE TimelineProofs ---------------------------
(***************************************************************************)
(* Pages of the timeline, who builds them and who uses them, for any       *)
(* events, rows, requests and page sizes.  A page is the first events of   *)
(* all that three separate readers had, and following the cursors is       *)
(* faithful (Timeline); the lookup of an id agrees with the list; and the  *)
(* console that pages through it misses nothing unexcused (Console).       *)
(*                                                                         *)
(* First what a page is (TimelinePages), then the merge of the readers'    *)
(* streams, the projections and the lookup, the client's scan, and last    *)
(* the console.                                                            *)
(***************************************************************************)
EXTENDS Timeline, Console, TLAPS, FiniteSetTheorems, WellFoundedInduction

-----------------------------------------------------------------------------
(* The order of events.                                                    *)

Least(T) == CHOOSE x \in T : \A y \in T : x <= y

LEMMA LeastOf ==
    ASSUME NEW T \in SUBSET Nat, T # {}
    PROVE  Least(T) \in T /\ \A y \in T : Least(T) <= y
<1>1. PICK x \in T : \A y \in T : ~ (<<y, x>> \in OpToRel(<, Nat))
  BY NatLessThanWellFounded, WFMin
<1>2. \A y \in T : ~ (y < x)
  BY <1>1 DEF OpToRel
<1>3. \E z \in T : \A y \in T : z <= y
  BY <1>2
<1> QED
  BY <1>3, Zenon DEF Least

\* What identifies an event: numbers, as many in all of S, and no position
\* belongs to two events.
Identified(S) ==
    /\ \A e \in S : e.at \in Nat /\ e.id \in Seq(Nat)
    /\ \A e, f \in S : Len(e.id) = Len(f.id)
    /\ \A e, f \in S : e.at = f.at /\ e.id = f.id => e = f

Irreflexive(S, sort) == \A x \in S : ~Before(x, x, sort)
Transitive(S, sort) ==
    \A x, y, z \in S : Before(x, y, sort) /\ Before(y, z, sort) => Before(x, z, sort)
Total(S, sort) == \A x, y \in S : x # y => Before(x, y, sort) \/ Before(y, x, sort)
Ordered(S, sort) == Irreflexive(S, sort) /\ Transitive(S, sort) /\ Total(S, sort)

LEMMA IdIrreflexive ==
    ASSUME NEW a \in Seq(Nat)
    PROVE  ~IdLess(a, a)
BY DEF IdLess

LEMMA IdTransitive ==
    ASSUME NEW a \in Seq(Nat), NEW b \in Seq(Nat), NEW c \in Seq(Nat),
           Len(a) = Len(b), Len(b) = Len(c), IdLess(a, b), IdLess(b, c)
    PROVE  IdLess(a, c)
<1>1. PICK i \in DOMAIN a : a[i] < b[i] /\ \A j \in 1..(i - 1) : a[j] = b[j]
  BY DEF IdLess
<1>2. PICK k \in DOMAIN b : b[k] < c[k] /\ \A j \in 1..(k - 1) : b[j] = c[j]
  BY DEF IdLess
<1>3. DOMAIN a = DOMAIN b /\ DOMAIN c = DOMAIN b /\ DOMAIN a = 1..Len(a)
  OBVIOUS
<1>4. \A j \in DOMAIN a : a[j] \in Nat /\ b[j] \in Nat /\ c[j] \in Nat
  <2>1. ASSUME NEW j \in DOMAIN a PROVE a[j] \in Nat
    OBVIOUS
  <2>2. ASSUME NEW j \in DOMAIN b PROVE b[j] \in Nat
    OBVIOUS
  <2>3. ASSUME NEW j \in DOMAIN c PROVE c[j] \in Nat
    OBVIOUS
  <2> QED
    BY <1>3, <2>1, <2>2, <2>3
<1>5. i \in Nat /\ k \in Nat
  BY <1>3
<1>6. CASE i <= k
  <2>1. a[i] < c[i]
    <3> HIDE <1>1, <1>2
    <3>1. CASE i = k
      <4>1. a[i] < b[i] /\ b[i] < c[i]
        BY <3>1, <1>1, <1>2
      <4>2. a[i] \in Nat /\ b[i] \in Nat /\ c[i] \in Nat
        BY <1>3, <1>4
      <4> QED
        BY <4>1, <4>2
    <3>2. CASE i < k
      <4>1. i \in 1..(k - 1)
        BY <3>2, <1>1, <1>2, <1>3
      <4> QED
        BY <4>1, <1>1, <1>2
    <3> QED
      BY <1>3, <1>6, <3>1, <3>2
  <2>2. \A j \in 1..(i - 1) : a[j] = c[j]
    BY <1>1, <1>2, <1>3, <1>6
  <2> QED
    BY <2>1, <2>2 DEF IdLess
<1>7. CASE k < i
  <2>1. a[k] < c[k]
    <3>1. k \in 1..(i - 1)
      BY <1>1, <1>2, <1>3, <1>7
    <3> QED
      BY <3>1, <1>1, <1>2
  <2>2. \A j \in 1..(k - 1) : a[j] = c[j]
    BY <1>1, <1>2, <1>3, <1>7
  <2> QED
    BY <2>1, <2>2, <1>3 DEF IdLess
<1> QED
  BY <1>3, <1>6, <1>7

LEMMA IdTotal ==
    ASSUME NEW a \in Seq(Nat), NEW b \in Seq(Nat), Len(a) = Len(b), a # b
    PROVE  IdLess(a, b) \/ IdLess(b, a)
<1> DEFINE D == {i \in DOMAIN a : a[i] # b[i]}
<1>1. D \in SUBSET Nat /\ D # {}
  <2>1. DOMAIN a = 1..Len(a) /\ DOMAIN b = DOMAIN a
    OBVIOUS
  <2>2. a = [i \in DOMAIN a |-> a[i]] /\ b = [i \in DOMAIN a |-> b[i]]
    BY <2>1
  <2>3. \E i \in DOMAIN a : a[i] # b[i]
    BY <2>2
  <2> QED
    BY <2>1, <2>3
<1>2. PICK i \in D : \A j \in D : i <= j
  BY <1>1, LeastOf
<1>3. i \in DOMAIN a /\ i \in DOMAIN b /\ a[i] \in Nat /\ b[i] \in Nat
  OBVIOUS
<1>4. \A j \in 1..(i - 1) : a[j] = b[j]
  <2> TAKE j \in 1..(i - 1)
  <2>1. DOMAIN a = 1..Len(a) /\ Len(a) \in Nat /\ i \in DOMAIN a
    OBVIOUS
  <2>2. j \in DOMAIN a /\ ~(i <= j)
    BY <2>1
  <2>3. j \notin D
    BY <1>2, <2>2
  <2> QED
    BY <2>2, <2>3
<1>5. a[i] < b[i] \/ b[i] < a[i]
  BY <1>3
<1> QED
  BY <1>3, <1>4, <1>5 DEF IdLess

\* The order of a page is a strict total order, in both directions.
LEMMA IdentifiedOrdered ==
    ASSUME NEW S, Identified(S), NEW sort
    PROVE  Ordered(S, sort)
<1> DEFINE Lower(x, y) == x.at < y.at \/ (x.at = y.at /\ IdLess(x.id, y.id))
<1>1. ASSUME NEW x \in S PROVE ~Lower(x, x)
  BY IdIrreflexive DEF Identified
<1>2. ASSUME NEW x \in S, NEW y \in S, NEW z \in S, Lower(x, y), Lower(y, z)
      PROVE  Lower(x, z)
  <2>1. x.at \in Nat /\ y.at \in Nat /\ z.at \in Nat
    BY DEF Identified
  <2>2. x.id \in Seq(Nat) /\ y.id \in Seq(Nat) /\ z.id \in Seq(Nat)
        /\ Len(x.id) = Len(y.id) /\ Len(y.id) = Len(z.id)
    BY DEF Identified
  <2>3. IdLess(x.id, y.id) /\ IdLess(y.id, z.id) => IdLess(x.id, z.id)
    BY <2>2, IdTransitive
  <2> QED
    BY <1>2, <2>1, <2>3
<1>3. ASSUME NEW x \in S, NEW y \in S, x # y PROVE Lower(x, y) \/ Lower(y, x)
  <2>1. x.at \in Nat /\ y.at \in Nat
    BY DEF Identified
  <2>2. x.id \in Seq(Nat) /\ y.id \in Seq(Nat) /\ Len(x.id) = Len(y.id)
    BY DEF Identified
  <2>3. x.at = y.at => x.id # y.id
    BY <1>3 DEF Identified
  <2>4. x.at = y.at => IdLess(x.id, y.id) \/ IdLess(y.id, x.id)
    BY <2>2, <2>3, IdTotal
  <2> QED
    BY <2>1, <2>4
<1>4. ASSUME NEW x, NEW y
      PROVE  /\ sort = "asc" => (Before(x, y, sort) <=> Lower(x, y))
             /\ sort # "asc" => (Before(x, y, sort) <=> Lower(y, x))
  BY DEF Before
<1> HIDE DEF Lower
<1>5. Irreflexive(S, sort)
  BY <1>1, <1>4 DEF Irreflexive
<1>6. ASSUME NEW x \in S, NEW y \in S, NEW z \in S, Before(x, y, sort), Before(y, z, sort)
      PROVE  Before(x, z, sort)
  <2>1. CASE sort = "asc"
    <3>1. Lower(x, y) /\ Lower(y, z)
      BY <1>4, <1>6, <2>1
    <3>2. Lower(x, z)
      BY <1>2, <3>1
    <3> QED
      BY <1>4, <2>1, <3>2
  <2>2. CASE sort # "asc"
    <3>1. Lower(y, x) /\ Lower(z, y)
      BY <1>4, <1>6, <2>2
    <3>2. Lower(z, x)
      BY <1>2, <3>1
    <3> QED
      BY <1>4, <2>2, <3>2
  <2> QED
    BY <2>1, <2>2
<1>7. ASSUME NEW x \in S, NEW y \in S, x # y
      PROVE  Before(x, y, sort) \/ Before(y, x, sort)
  <2>1. Lower(x, y) \/ Lower(y, x)
    BY <1>3, <1>7
  <2> QED
    BY <1>4, <2>1
<1> QED
  BY <1>5, <1>6, <1>7 DEF Ordered, Transitive, Total

LEMMA OrderedSubset ==
    ASSUME NEW S, NEW sort, Ordered(S, sort), NEW T \in SUBSET S
    PROVE  Ordered(T, sort)
BY Zenon DEF Ordered, Irreflexive, Transitive, Total

-----------------------------------------------------------------------------
(* Ranks.                                                                  *)

LEMMA RankType ==
    ASSUME NEW S, IsFiniteSet(S), NEW sort, Ordered(S, sort), NEW e \in S
    PROVE  Rank(S, e, sort) \in 0..(Cardinality(S) - 1)
<1> DEFINE P == {f \in S : Before(f, e, sort)}
<1>1. P \in SUBSET S /\ e \notin P
  BY DEF Ordered, Irreflexive
<1> HIDE DEF P
<1>2. IsFiniteSet(P) /\ Cardinality(P) <= Cardinality(S)
      /\ (Cardinality(S) = Cardinality(P) => S = P)
  BY <1>1, FS_Subset
<1>3. Cardinality(P) \in Nat /\ Cardinality(S) \in Nat
  BY <1>2, FS_CardinalityType
<1>4. Cardinality(P) # Cardinality(S)
  BY <1>1, <1>2
<1>5. Rank(S, e, sort) = Cardinality(P)
  BY DEF Rank, P
<1> QED
  BY <1>2, <1>3, <1>4, <1>5

LEMMA RankGrows ==
    ASSUME NEW S, IsFiniteSet(S), NEW sort, Ordered(S, sort),
           NEW e \in S, NEW f \in S, Before(e, f, sort)
    PROVE  Rank(S, e, sort) < Rank(S, f, sort)
<1> DEFINE P == {x \in S : Before(x, e, sort)}
           Q == {x \in S : Before(x, f, sort)}
<1>1. P \in SUBSET Q /\ e \in Q /\ e \notin P /\ Q \in SUBSET S
  BY DEF Ordered, Irreflexive, Transitive
<1>2. Rank(S, e, sort) = Cardinality(P) /\ Rank(S, f, sort) = Cardinality(Q)
  BY DEF Rank
<1> HIDE DEF P, Q
<1>3. IsFiniteSet(Q) /\ Cardinality(Q) \in Nat
  BY <1>1, FS_Subset, FS_CardinalityType
<1>4. IsFiniteSet(P) /\ Cardinality(P) <= Cardinality(Q)
      /\ (Cardinality(Q) = Cardinality(P) => Q = P)
  BY <1>1, <1>3, FS_Subset
<1>5. Cardinality(P) \in Nat /\ Cardinality(P) # Cardinality(Q)
  BY <1>1, <1>4, FS_CardinalityType
<1> QED
  BY <1>2, <1>3, <1>4, <1>5

\* Ranks compare as the events do.
LEMMA RankOrder ==
    ASSUME NEW S, IsFiniteSet(S), NEW sort, Ordered(S, sort),
           NEW e \in S, NEW f \in S
    PROVE  /\ Before(e, f, sort) <=> Rank(S, e, sort) < Rank(S, f, sort)
           /\ e = f <=> Rank(S, e, sort) = Rank(S, f, sort)
<1>1. Rank(S, e, sort) \in Int /\ Rank(S, f, sort) \in Int
  BY RankType
<1>2. Before(e, f, sort) => Rank(S, e, sort) < Rank(S, f, sort)
  BY RankGrows
<1>3. Before(f, e, sort) => Rank(S, f, sort) < Rank(S, e, sort)
  BY RankGrows
<1>4. e = f \/ Before(e, f, sort) \/ Before(f, e, sort)
  BY DEF Ordered, Total
<1>5. e = f => ~Before(e, f, sort)
  BY DEF Ordered, Irreflexive
<1> QED
  BY <1>1, <1>2, <1>3, <1>4, <1>5

LEMMA RankInjective ==
    ASSUME NEW S, IsFiniteSet(S), NEW sort, Ordered(S, sort)
    PROVE  [e \in S |-> Rank(S, e, sort)] \in Injection(S, 0..(Cardinality(S) - 1))
<1>1. \A e \in S : Rank(S, e, sort) \in 0..(Cardinality(S) - 1)
  BY RankType
<1>2. \A e, f \in S : Rank(S, e, sort) = Rank(S, f, sort) => e = f
  BY RankOrder
<1> QED
  BY <1>1, <1>2 DEF Injection, IsInjective

\* Every rank below the size of the set is some event's.
LEMMA RankOnto ==
    ASSUME NEW S, IsFiniteSet(S), NEW sort, Ordered(S, sort),
           NEW i \in 0..(Cardinality(S) - 1)
    PROVE  \E e \in S : Rank(S, e, sort) = i
<1> DEFINE f == [e \in S |-> Rank(S, e, sort)]
           T == 0..(Cardinality(S) - 1)
<1>1. Cardinality(S) \in Nat
  BY FS_CardinalityType
<1>2. IsFiniteSet(T) /\ Cardinality(T) = Cardinality(S)
  BY <1>1, FS_Interval
<1>3. f \in Injection(S, T)
  BY RankInjective
<1>4. f \in Surjection(S, T)
  <2> HIDE DEF f, T
  <2> QED
    BY <1>2, <1>3, FS_Injection
<1> QED
  BY <1>4 DEF Surjection

LEMMA FirstOfIs ==
    ASSUME NEW S, IsFiniteSet(S), NEW sort, Ordered(S, sort), NEW n \in Nat
    PROVE  /\ FirstOf(S, n, sort) \in Seq(S)
           /\ Len(FirstOf(S, n, sort)) = IF Cardinality(S) < n THEN Cardinality(S) ELSE n
           /\ DOMAIN FirstOf(S, n, sort) =
                  1..(IF Cardinality(S) < n THEN Cardinality(S) ELSE n)
           /\ \A i \in DOMAIN FirstOf(S, n, sort) :
                  /\ FirstOf(S, n, sort)[i] \in S
                  /\ Rank(S, FirstOf(S, n, sort)[i], sort) = i - 1
<1> DEFINE size == IF Cardinality(S) < n THEN Cardinality(S) ELSE n
           F == [i \in 1..size |-> CHOOSE e \in S : Rank(S, e, sort) = i - 1]
<1>1. size \in Nat /\ size <= Cardinality(S) /\ Cardinality(S) \in Nat
  BY FS_CardinalityType
<1>2. FirstOf(S, n, sort) = F
  BY DEF FirstOf
<1> HIDE DEF size
<1>3. ASSUME NEW i \in 1..size
      PROVE  F[i] \in S /\ Rank(S, F[i], sort) = i - 1
  <2>1. i - 1 \in 0..(Cardinality(S) - 1)
    BY <1>1
  <2>2. \E e \in S : Rank(S, e, sort) = i - 1
    BY <2>1, RankOnto
  <2>3. F[i] = CHOOSE e \in S : Rank(S, e, sort) = i - 1
    OBVIOUS
  <2> QED
    BY <2>2, <2>3, Zenon
<1>4. F \in [1..size -> S] /\ DOMAIN F = 1..size
  BY <1>3
<1> HIDE DEF F
<1>5. F \in Seq(S) /\ Len(F) = size
  BY <1>1, <1>4
<1> QED
  BY <1>2, <1>3, <1>4, <1>5 DEF size

\* The page holds each event of low rank.
LEMMA FirstOfHas ==
    ASSUME NEW S, IsFiniteSet(S), NEW sort, Ordered(S, sort), NEW n \in Nat,
           NEW e \in S
    PROVE  /\ \A i \in DOMAIN FirstOf(S, n, sort) :
                  FirstOf(S, n, sort)[i] = e <=> Rank(S, e, sort) = i - 1
           /\ (\E i \in DOMAIN FirstOf(S, n, sort) : FirstOf(S, n, sort)[i] = e)
                  <=> Rank(S, e, sort) < n
<1> DEFINE F == FirstOf(S, n, sort)
<1>1. Rank(S, e, sort) \in 0..(Cardinality(S) - 1) /\ Cardinality(S) \in Nat
  BY RankType, FS_CardinalityType
<1>2. /\ DOMAIN F = 1..(IF Cardinality(S) < n THEN Cardinality(S) ELSE n)
      /\ \A i \in DOMAIN F : F[i] \in S /\ Rank(S, F[i], sort) = i - 1
  BY FirstOfIs
<1> HIDE DEF F
<1>3. \A i \in DOMAIN F : F[i] = e <=> Rank(S, e, sort) = i - 1
  <2> TAKE i \in DOMAIN F
  <2>1. F[i] \in S /\ Rank(S, F[i], sort) = i - 1
    BY <1>2
  <2>2. F[i] = e <=> Rank(S, F[i], sort) = Rank(S, e, sort)
    BY <2>1, RankOrder
  <2> QED
    BY <2>1, <2>2
<1>4. (\E i \in DOMAIN F : F[i] = e) => Rank(S, e, sort) < n
  BY <1>1, <1>2, <1>3
<1>5. ASSUME Rank(S, e, sort) < n PROVE \E i \in DOMAIN F : F[i] = e
  <2>1. Rank(S, e, sort) + 1 \in DOMAIN F
    BY <1>1, <1>2, <1>5
  <2> QED
    BY <1>1, <1>3, <2>1
<1> QED
  BY <1>3, <1>4, <1>5 DEF F

\* The page of n events cut from a list of n + 1.
LEMMA PageIs ==
    ASSUME NEW S, IsFiniteSet(S), NEW sort, Ordered(S, sort), NEW n \in Nat \ {0}
    PROVE  LET P == Page(FirstOf(S, n + 1, sort), n)
               F == FirstOf(S, n, sort)
           IN  /\ P.items = F
               /\ Cardinality(S) > n => n \in DOMAIN F /\ P.next = Position(F[n])
               /\ ~(Cardinality(S) > n) => P.next = NoCursor
<1> DEFINE F == FirstOf(S, n, sort)
           G == FirstOf(S, n + 1, sort)
           m == IF Len(G) < n THEN Len(G) ELSE n
<1>1. Cardinality(S) \in Nat
  BY FS_CardinalityType
<1>2. /\ DOMAIN F = 1..(IF Cardinality(S) < n THEN Cardinality(S) ELSE n)
      /\ Len(F) = IF Cardinality(S) < n THEN Cardinality(S) ELSE n
      /\ F \in Seq(S)
      /\ \A i \in DOMAIN F : F[i] \in S /\ Rank(S, F[i], sort) = i - 1
  BY FirstOfIs
<1>3. /\ DOMAIN G = 1..(IF Cardinality(S) < n + 1 THEN Cardinality(S) ELSE n + 1)
      /\ Len(G) = IF Cardinality(S) < n + 1 THEN Cardinality(S) ELSE n + 1
      /\ G \in Seq(S)
  <2>1. n + 1 \in Nat
    OBVIOUS
  <2> QED
    BY <2>1, FirstOfIs
<1>4. ASSUME NEW i \in DOMAIN F PROVE i \in DOMAIN G /\ G[i] = F[i]
  <2>1. n + 1 \in Nat /\ i \in DOMAIN G
    BY <1>1, <1>2, <1>3
  <2>2. F[i] \in S /\ Rank(S, F[i], sort) = i - 1
    BY <1>2
  <2> HIDE DEF F
  <2> QED
    BY <2>1, <2>2, FirstOfHas
<1> HIDE DEF F, G
<1>5. m = Len(F) /\ DOMAIN F = 1..m /\ m \in Nat /\ m <= Len(G)
  BY <1>1, <1>2, <1>3
<1>6. SubSeq(G, 1, m) = F
  <2>1. SubSeq(G, 1, m) = [i \in 1..m |-> G[i]]
    BY <1>3, <1>5
  <2>2. F = [i \in 1..m |-> F[i]]
    BY <1>2, <1>5
  <2> HIDE DEF m
  <2> QED
    BY <1>4, <1>5, <2>1, <2>2, Zenon
<1>7. Len(G) > n <=> Cardinality(S) > n
  BY <1>1, <1>3
<1>8. Cardinality(S) > n => Len(F) = n /\ n \in DOMAIN F
  BY <1>1, <1>2
<1>9. Page(G, n) = [items |-> F, next |-> IF Len(G) > n THEN Position(F[Len(F)])
                                                          ELSE NoCursor]
  BY <1>6 DEF Page
<1> QED
  BY <1>7, <1>8, <1>9 DEF F, G

LEMMA PageIsFirst ==
    ASSUME NEW S, IsFiniteSet(S), NEW sort, Ordered(S, sort), NEW n \in Nat \ {0},
           NEW P, P = Page(FirstOf(S, n + 1, sort), n)
    PROVE  /\ P.items = FirstOf(S, n, sort)
           /\ Cardinality(S) > n => /\ n \in DOMAIN FirstOf(S, n, sort)
                                    /\ P.next = Position(FirstOf(S, n, sort)[n])
           /\ ~(Cardinality(S) > n) => P.next = NoCursor
BY PageIs, Zenon

\* What the pages of a scan rest on: a page holds only events of S; without a
\* next cursor it holds all, with one exactly those that are not after it.
LEMMA PageHolds ==
    ASSUME NEW S, IsFiniteSet(S), NEW sort, Ordered(S, sort), NEW n \in Nat \ {0},
           \A e \in S : e.at # 0,
           NEW P, P = Page(FirstOf(S, n + 1, sort), n)
    PROVE  /\ ItemsOf(P) = {e \in S : Rank(S, e, sort) < n}
           /\ P.next = NoCursor => ItemsOf(P) = S
           /\ P.next # NoCursor =>
                 /\ Cardinality(S) > n
                 /\ \E l \in S : /\ P.next = Position(l)
                                 /\ Rank(S, l, sort) = n - 1
                                 /\ ItemsOf(P) = {e \in S : ~Before(l, e, sort)}
<1> DEFINE F == FirstOf(S, n, sort)
           held == ItemsOf(P)
<1>1. /\ P.items = F
      /\ Cardinality(S) > n => n \in DOMAIN F /\ P.next = Position(F[n])
      /\ ~(Cardinality(S) > n) => P.next = NoCursor
  BY PageIs, Zenon
<1>2. \A i \in DOMAIN F : F[i] \in S /\ Rank(S, F[i], sort) = i - 1
  BY FirstOfIs
<1>3. ASSUME NEW e \in S
      PROVE  (\E i \in DOMAIN F : F[i] = e) <=> Rank(S, e, sort) < n
  BY FirstOfHas
<1> HIDE DEF F
<1>4. held = {e \in S : Rank(S, e, sort) < n}
  BY <1>1, <1>2, <1>3 DEF ItemsOf
<1> HIDE DEF held
<1>5. Cardinality(S) \in Nat /\ \A e \in S : Rank(S, e, sort) \in 0..(Cardinality(S) - 1)
  BY FS_CardinalityType, RankType
<1>6. ASSUME Cardinality(S) > n
      PROVE  /\ P.next # NoCursor
             /\ F[n] \in S /\ P.next = Position(F[n])
             /\ Rank(S, F[n], sort) = n - 1
             /\ held = {e \in S : ~Before(F[n], e, sort)}
  <2>1. n \in DOMAIN F /\ F[n] \in S /\ Rank(S, F[n], sort) = n - 1
        /\ P.next = Position(F[n])
    BY <1>1, <1>2, <1>6
  <2>2. ASSUME NEW e \in S
        PROVE  Rank(S, e, sort) < n <=> ~Before(F[n], e, sort)
    <3>1. Before(F[n], e, sort) <=> Rank(S, F[n], sort) < Rank(S, e, sort)
      BY <2>1, RankOrder
    <3> QED
      BY <3>1, <2>1, <1>5
  <2>3. P.next # NoCursor
    BY <2>1 DEF Position, NoCursor
  <2> QED
    BY <1>4, <2>1, <2>2, <2>3
<1>7. ASSUME ~(Cardinality(S) > n) PROVE P.next = NoCursor /\ held = S
  BY <1>1, <1>4, <1>5, <1>7
<1> QED
  BY <1>4, <1>6, <1>7 DEF held

-----------------------------------------------------------------------------
(* The merge, as a run of its steps.                                       *)

IsRun(f, S, n, sort) ==
    f = [k \in 0..n |-> IF k = 0 THEN NoneTaken(S) ELSE TakeBest(S, f[k - 1], sort)]
Run(S, n, sort) == CHOOSE f : IsRun(f, S, n, sort)

LEMMA MergeIsRun ==
    ASSUME NEW S, NEW n, NEW sort
    PROVE  Merge(S, n, sort) = Run(S, n, sort)[n].out
BY Zenon DEF Merge, Run, IsRun

LEMMA RunExtends ==
    ASSUME NEW S, NEW m \in Nat, NEW sort, NEW g, IsRun(g, S, m, sort)
    PROVE  \E f : IsRun(f, S, m + 1, sort)
<1> DEFINE f == [k \in 0..(m + 1) |-> IF k = m + 1 THEN TakeBest(S, g[m], sort) ELSE g[k]]
<1>1. ASSUME NEW k \in 0..(m + 1)
      PROVE  f[k] = IF k = 0 THEN NoneTaken(S) ELSE TakeBest(S, f[k - 1], sort)
  <2>1. CASE k = m + 1
    <3>1. f[k] = TakeBest(S, g[m], sort) /\ k # 0 /\ k - 1 = m
      BY <2>1
    <3>2. f[m] = g[m]
      OBVIOUS
    <3> QED
      BY <3>1, <3>2
  <2>2. CASE k # m + 1
    <3>1. k \in 0..m /\ f[k] = g[k]
      BY <2>2
    <3>2. g[k] = IF k = 0 THEN NoneTaken(S) ELSE TakeBest(S, g[k - 1], sort)
      BY <3>1, Zenon DEF IsRun
    <3>3. k # 0 => f[k - 1] = g[k - 1]
      BY <3>1
    <3> QED
      BY <3>1, <3>2, <3>3
  <2> QED
    BY <2>1, <2>2
<1>2. f = [k \in 0..(m + 1) |-> f[k]]
  OBVIOUS
<1> HIDE DEF f
<1>3. f = [k \in 0..(m + 1) |->
              IF k = 0 THEN NoneTaken(S) ELSE TakeBest(S, f[k - 1], sort)]
  BY <1>1, <1>2, Zenon
<1> QED
  BY <1>3, Zenon DEF IsRun

LEMMA RunExists ==
    ASSUME NEW S, NEW n \in Nat, NEW sort
    PROVE  IsRun(Run(S, n, sort), S, n, sort)
<1> DEFINE Bad == {m \in Nat : ~\E f : IsRun(f, S, m, sort)}
<1>1. ASSUME Bad # {} PROVE FALSE
  <2>1. PICK m \in Bad : \A x \in Bad : m <= x
    BY <1>1, LeastOf
  <2>2. CASE m = 0
    <3> DEFINE f == [k \in 0..0 |-> NoneTaken(S)]
    <3>1. f = [k \in 0..0 |-> IF k = 0 THEN NoneTaken(S) ELSE TakeBest(S, f[k - 1], sort)]
      OBVIOUS
    <3> HIDE DEF f
    <3>2. IsRun(f, S, m, sort)
      BY <2>2, <3>1 DEF IsRun
    <3> QED
      BY <3>2
  <2>3. CASE m # 0
    <3>1. m - 1 \in Nat /\ m - 1 \notin Bad /\ m = (m - 1) + 1
      BY <2>1, <2>3
    <3>2. PICK g : IsRun(g, S, m - 1, sort)
      BY <3>1
    <3>3. \E f : IsRun(f, S, (m - 1) + 1, sort)
      BY <3>1, <3>2, RunExtends
    <3> QED
      BY <3>1, <3>3
  <2> QED
    BY <2>2, <2>3
<1>2. \E f : IsRun(f, S, n, sort)
  BY <1>1
<1> QED
  BY <1>2, Zenon DEF Run

LEMMA RunSteps ==
    ASSUME NEW S, NEW n \in Nat, NEW sort
    PROVE  /\ Run(S, n, sort)[0] = NoneTaken(S)
           /\ \A k \in 0..(n - 1) :
                 Run(S, n, sort)[k + 1] = TakeBest(S, Run(S, n, sort)[k], sort)
<1> DEFINE f == Run(S, n, sort)
<1>1. IsRun(f, S, n, sort)
  BY RunExists
<1> HIDE DEF f
<1>2. ASSUME NEW k \in 0..n
      PROVE  f[k] = IF k = 0 THEN NoneTaken(S) ELSE TakeBest(S, f[k - 1], sort)
  BY <1>1, Zenon DEF IsRun
<1>3. f[0] = NoneTaken(S)
  BY <1>2
<1>4. ASSUME NEW k \in 0..(n - 1) PROVE f[k + 1] = TakeBest(S, f[k], sort)
  <2>1. k + 1 \in 0..n /\ k + 1 # 0 /\ (k + 1) - 1 = k
    OBVIOUS
  <2> QED
    BY <1>2, <2>1
<1> QED
  BY <1>3, <1>4 DEF f

-----------------------------------------------------------------------------
(* What the merge returns.  The streams S are the first n events of the    *)
(* sets Z, which share none; U is all of them.                             *)

Streams(S, Z, U, n, sort) ==
    /\ DOMAIN Z = DOMAIN S
    /\ \A i \in DOMAIN S : Z[i] \subseteq U /\ S[i] = FirstOf(Z[i], n, sort)
    /\ \A e \in U : \E i \in DOMAIN S : e \in Z[i]
    /\ \A i, j \in DOMAIN S : i # j => Z[i] \cap Z[j] = {}

\* Those of Z[i] among the first k of all.
Lead(Z, U, k, sort, i) == {e \in Z[i] : Rank(U, e, sort) < k}

\* The merge when k events are taken.
TakenIs(S, Z, U, k, sort) ==
    [pos |-> [i \in DOMAIN S |-> Cardinality(Lead(Z, U, k, sort, i))],
     out |-> FirstOf(U, k, sort)]

LEMMA TopBound ==
    ASSUME NEW U, IsFiniteSet(U), NEW sort, Ordered(U, sort), NEW k \in Nat
    PROVE  /\ IsFiniteSet({e \in U : Rank(U, e, sort) < k})
           /\ Cardinality({e \in U : Rank(U, e, sort) < k}) <= k
<1> DEFINE T == {e \in U : Rank(U, e, sort) < k}
           f == [e \in T |-> Rank(U, e, sort)]
           K == 0..(k - 1)
<1>1. IsFiniteSet(K) /\ Cardinality(K) = k
  BY FS_Interval
<1>2. f \in Injection(T, K)
  <2>1. \A e \in T : Rank(U, e, sort) \in K
    BY RankType
  <2>2. \A e, g \in T : Rank(U, e, sort) = Rank(U, g, sort) => e = g
    BY RankOrder
  <2> QED
    BY <2>1, <2>2 DEF Injection, IsInjective
<1> HIDE DEF T, f, K
<1>3. IsFiniteSet(T) /\ Cardinality(T) <= Cardinality(K)
  BY <1>1, <1>2, FS_Injection
<1> QED
  BY <1>1, <1>3 DEF T

\* The facts of one stream.
LEMMA LeadIs ==
    ASSUME NEW U, IsFiniteSet(U), NEW sort, Ordered(U, sort), NEW k \in Nat,
           NEW Z, NEW i, Z[i] \subseteq U
    PROVE  /\ IsFiniteSet(Z[i]) /\ Ordered(Z[i], sort)
           /\ Cardinality(Z[i]) \in Nat /\ Cardinality(Lead(Z, U, k, sort, i)) \in Nat
           /\ Cardinality(Lead(Z, U, k, sort, i)) <= k
           /\ Cardinality(Lead(Z, U, k, sort, i)) <= Cardinality(Z[i])
           /\ Cardinality(Lead(Z, U, k, sort, i)) = Cardinality(Z[i])
                 => Lead(Z, U, k, sort, i) = Z[i]
           /\ IsFiniteSet(Lead(Z, U, k, sort, i))
<1> DEFINE L == Lead(Z, U, k, sort, i)
           T == {e \in U : Rank(U, e, sort) < k}
<1>1. IsFiniteSet(T) /\ Cardinality(T) <= k /\ Cardinality(T) \in Nat
  BY TopBound, FS_CardinalityType
<1>2. L \in SUBSET T /\ L \in SUBSET Z[i] /\ Z[i] \in SUBSET U
  BY DEF Lead
<1> HIDE DEF L, T
<1>3. IsFiniteSet(Z[i]) /\ Ordered(Z[i], sort) /\ Cardinality(Z[i]) \in Nat
  BY <1>2, FS_Subset, FS_CardinalityType, OrderedSubset
<1>4. /\ IsFiniteSet(L) /\ Cardinality(L) <= Cardinality(Z[i])
      /\ Cardinality(Z[i]) = Cardinality(L) => Z[i] = L
  BY <1>2, <1>3, FS_Subset
<1>5. Cardinality(L) \in Nat /\ Cardinality(L) <= Cardinality(T)
  BY <1>1, <1>2, <1>4, FS_Subset, FS_CardinalityType
<1>6. Cardinality(L) <= k
  BY <1>1, <1>5
<1> QED
  BY <1>3, <1>4, <1>5, <1>6 DEF L

\* In its own stream, an event that is not among the first k of all comes after
\* those that are; and directly after them when it is the next of all.
LEMMA LeadRank ==
    ASSUME NEW U, IsFiniteSet(U), NEW sort, Ordered(U, sort), NEW k \in Nat,
           NEW Z, NEW i, Z[i] \subseteq U, NEW h \in Z[i]
    PROVE  LET L == Lead(Z, U, k, sort, i)
           IN  /\ Rank(U, h, sort) = k => Rank(Z[i], h, sort) = Cardinality(L)
               /\ Rank(Z[i], h, sort) = Cardinality(L) => Rank(U, h, sort) >= k
<1> DEFINE L == Lead(Z, U, k, sort, i)
           P == {f \in Z[i] : Before(f, h, sort)}
<1>1. Rank(Z[i], h, sort) = Cardinality(P)
  BY DEF Rank
<1>2. h \in U /\ Rank(U, h, sort) \in Nat /\ \A e \in Z[i] : Rank(U, e, sort) \in Nat
  <2>1. \A e \in U : Rank(U, e, sort) \in 0..(Cardinality(U) - 1)
    BY RankType
  <2> QED
    BY <2>1
<1>3. \A e \in Z[i] : e \in P <=> Rank(U, e, sort) < Rank(U, h, sort)
  BY RankOrder
<1>4. ASSUME Rank(U, h, sort) = k PROVE P = L
  BY <1>3, <1>4 DEF Lead
<1>5. ASSUME Rank(U, h, sort) < k, Cardinality(P) = Cardinality(L) PROVE FALSE
  <2>1. P \in SUBSET L /\ h \in L /\ h \notin P
    BY <1>2, <1>3, <1>5 DEF Lead
  <2> HIDE DEF P, L
  <2>2. IsFiniteSet(L)
    BY LeadIs DEF L
  <2> QED
    BY <1>5, <2>1, <2>2, FS_Subset
<1> HIDE DEF P
<1> QED
  BY <1>1, <1>2, <1>4, <1>5

\* The head of a stream is its first event after the k taken; there is one
\* exactly while the stream has not all been taken.
LEMMA HeadIs ==
    ASSUME NEW S, NEW Z, NEW U, NEW n \in Nat, NEW sort, NEW k \in 0..(n - 1),
           IsFiniteSet(U), Ordered(U, sort), Streams(S, Z, U, n, sort),
           NEW pos, pos = [i \in DOMAIN S |-> Cardinality(Lead(Z, U, k, sort, i))],
           NEW i \in DOMAIN S
    PROVE  /\ i \in Heads(S, pos) <=> \E e \in Z[i] : Rank(U, e, sort) >= k
           /\ i \in Heads(S, pos) =>
                 /\ HeadOf(S, pos, i) \in Z[i]
                 /\ Rank(U, HeadOf(S, pos, i), sort) >= k
           /\ \A h \in Z[i] : Rank(U, h, sort) = k => HeadOf(S, pos, i) = h
<1> DEFINE L == Lead(Z, U, k, sort, i)
           F == FirstOf(Z[i], n, sort)
           c == Cardinality(L)
<1>1. Z[i] \subseteq U /\ S[i] = F /\ k \in Nat /\ k < n
  BY DEF Streams
<1>2. /\ IsFiniteSet(Z[i]) /\ Ordered(Z[i], sort) /\ Cardinality(Z[i]) \in Nat
      /\ c \in Nat /\ c <= k /\ c <= Cardinality(Z[i])
      /\ c = Cardinality(Z[i]) => L = Z[i]
  BY <1>1, LeadIs
<1>3. pos[i] = c
  OBVIOUS
<1>4. /\ DOMAIN F = 1..(IF Cardinality(Z[i]) < n THEN Cardinality(Z[i]) ELSE n)
      /\ Len(F) = IF Cardinality(Z[i]) < n THEN Cardinality(Z[i]) ELSE n
      /\ \A j \in DOMAIN F : F[j] \in Z[i] /\ Rank(Z[i], F[j], sort) = j - 1
  BY <1>2, FirstOfIs
<1>5. ASSUME NEW h \in Z[i]
      PROVE  \A j \in DOMAIN F : F[j] = h <=> Rank(Z[i], h, sort) = j - 1
  BY <1>2, FirstOfHas
<1>6. ASSUME NEW h \in Z[i]
      PROVE  /\ Rank(U, h, sort) = k => Rank(Z[i], h, sort) = c
             /\ Rank(Z[i], h, sort) = c => Rank(U, h, sort) >= k
  BY <1>1, LeadRank
<1>7. \A e \in Z[i] : Rank(U, e, sort) \in Nat /\ (e \in L <=> Rank(U, e, sort) < k)
  <2>1. \A e \in U : Rank(U, e, sort) \in 0..(Cardinality(U) - 1)
    BY RankType
  <2> QED
    BY <1>1, <2>1 DEF Lead
<1>8. i \in Heads(S, pos) <=> c < Len(F)
  BY <1>1, <1>3 DEF Heads
<1>9. HeadOf(S, pos, i) = F[c + 1]
  BY <1>1, <1>3 DEF HeadOf
<1>10. L \subseteq Z[i]
  BY DEF Lead
<1> HIDE DEF F, L, c
<1>11. c < Len(F) <=> c # Cardinality(Z[i])
  BY <1>1, <1>2, <1>4
<1>12. ASSUME c # Cardinality(Z[i])
       PROVE  \E e \in Z[i] : Rank(U, e, sort) >= k
  <2>1. PICK e \in Z[i] : e \notin L
    <3>1. L # Z[i]
      BY <1>12 DEF c
    <3> QED
      BY <1>10, <3>1
  <2> QED
    BY <1>1, <1>7, <2>1
<1>13. ASSUME NEW e \in Z[i], Rank(U, e, sort) >= k
       PROVE  c # Cardinality(Z[i])
  BY <1>1, <1>2, <1>7, <1>13
<1>14. ASSUME i \in Heads(S, pos)
       PROVE  HeadOf(S, pos, i) \in Z[i] /\ Rank(U, HeadOf(S, pos, i), sort) >= k
  <2>1. c + 1 \in DOMAIN F
    BY <1>2, <1>4, <1>8, <1>14
  <2>2. F[c + 1] \in Z[i] /\ Rank(Z[i], F[c + 1], sort) = c
    BY <1>2, <1>4, <2>1
  <2> QED
    BY <1>6, <1>9, <2>2
<1>15. ASSUME NEW h \in Z[i], Rank(U, h, sort) = k PROVE HeadOf(S, pos, i) = h
  <2>1. Rank(Z[i], h, sort) = c /\ c # Cardinality(Z[i])
    BY <1>1, <1>6, <1>13, <1>15
  <2>2. c + 1 \in DOMAIN F
    BY <1>2, <1>4, <1>11, <2>1
  <2> QED
    BY <1>2, <1>5, <1>9, <2>1, <2>2
<1> QED
  BY <1>8, <1>11, <1>12, <1>13, <1>14, <1>15

LEMMA FirstOfNext ==
    ASSUME NEW U, IsFiniteSet(U), NEW sort, Ordered(U, sort), NEW k \in Nat
    PROVE  /\ Cardinality(U) <= k => FirstOf(U, k + 1, sort) = FirstOf(U, k, sort)
           /\ \A u \in U : Rank(U, u, sort) = k =>
                 FirstOf(U, k + 1, sort) = Append(FirstOf(U, k, sort), u)
<1> DEFINE F == FirstOf(U, k, sort)
           G == FirstOf(U, k + 1, sort)
<1>1. Cardinality(U) \in Nat /\ k + 1 \in Nat
  BY FS_CardinalityType
<1>2. /\ DOMAIN F = 1..(IF Cardinality(U) < k THEN Cardinality(U) ELSE k)
      /\ Len(F) = IF Cardinality(U) < k THEN Cardinality(U) ELSE k
      /\ F \in Seq(U)
      /\ \A i \in DOMAIN F : F[i] \in U /\ Rank(U, F[i], sort) = i - 1
  BY FirstOfIs
<1>3. /\ DOMAIN G = 1..(IF Cardinality(U) < k + 1 THEN Cardinality(U) ELSE k + 1)
      /\ Len(G) = IF Cardinality(U) < k + 1 THEN Cardinality(U) ELSE k + 1
      /\ G \in Seq(U)
      /\ \A i \in DOMAIN G : G[i] \in U /\ Rank(U, G[i], sort) = i - 1
  BY <1>1, FirstOfIs
<1> HIDE DEF F, G
<1>4. ASSUME NEW i \in DOMAIN F, i \in DOMAIN G PROVE G[i] = F[i]
  BY <1>2, <1>3, <1>4, RankOrder
<1>5. ASSUME Cardinality(U) <= k PROVE G = F
  <2>1. DOMAIN F = DOMAIN G
    BY <1>1, <1>2, <1>3, <1>5
  <2>2. F = [i \in DOMAIN F |-> F[i]] /\ G = [i \in DOMAIN G |-> G[i]]
    BY <1>2, <1>3
  <2> QED
    BY <1>4, <2>1, <2>2, Zenon
<1>6. ASSUME NEW u \in U, Rank(U, u, sort) = k PROVE G = Append(F, u)
  <2>1. k < Cardinality(U)
    BY <1>1, <1>6, RankType
  <2>2. DOMAIN F = 1..k /\ Len(F) = k /\ DOMAIN G = 1..(k + 1) /\ Len(G) = k + 1
    BY <1>1, <1>2, <1>3, <2>1
  <2>3. G[k + 1] = u
    <3>1. k + 1 \in DOMAIN G /\ (k + 1) - 1 = k
      BY <2>2
    <3> QED
      BY <1>3, <1>6, <3>1, RankOrder
  <2> DEFINE H == Append(F, u)
  <2>4. /\ H \in Seq(U) /\ DOMAIN H = 1..(k + 1) /\ H[k + 1] = u
        /\ \A i \in 1..k : H[i] = F[i]
    BY <1>2, <2>2
  <2> HIDE DEF H
  <2>5. ASSUME NEW i \in 1..(k + 1) PROVE G[i] = H[i]
    <3>1. CASE i = k + 1
      BY <2>3, <2>4, <3>1
    <3>2. CASE i # k + 1
      <4>1. i \in 1..k
        BY <3>2
      <4>2. i \in DOMAIN F /\ i \in DOMAIN G
        BY <2>2, <4>1
      <4> QED
        BY <1>4, <2>4, <4>1, <4>2
    <3> QED
      BY <3>1, <3>2
  <2>6. H = [i \in 1..(k + 1) |-> H[i]] /\ G = [i \in 1..(k + 1) |-> G[i]]
    BY <1>3, <2>2, <2>4
  <2> QED
    BY <2>5, <2>6, Zenon DEF H
<1> QED
  BY <1>5, <1>6 DEF F, G

LEMMA MergeStep ==
    ASSUME NEW S, NEW Z, NEW U, NEW n \in Nat, NEW sort, NEW k \in 0..(n - 1),
           IsFiniteSet(U), Ordered(U, sort), Streams(S, Z, U, n, sort)
    PROVE  TakeBest(S, TakenIs(S, Z, U, k, sort), sort) = TakenIs(S, Z, U, k + 1, sort)
<1> DEFINE pos == [i \in DOMAIN S |-> Cardinality(Lead(Z, U, k, sort, i))]
           new == [i \in DOMAIN S |-> Cardinality(Lead(Z, U, k + 1, sort, i))]
<1>1. TakenIs(S, Z, U, k, sort) = [pos |-> pos, out |-> FirstOf(U, k, sort)]
      /\ TakenIs(S, Z, U, k + 1, sort) = [pos |-> new, out |-> FirstOf(U, k + 1, sort)]
  BY DEF TakenIs
<1>2. pos = [i \in DOMAIN S |-> Cardinality(Lead(Z, U, k, sort, i))]
      /\ DOMAIN pos = DOMAIN S
  OBVIOUS
<1>3. new = [i \in DOMAIN S |-> Cardinality(Lead(Z, U, k + 1, sort, i))]
  OBVIOUS
<1> HIDE DEF pos, new
<1>4. k \in Nat /\ k < n /\ Cardinality(U) \in Nat
      /\ \A e \in U : Rank(U, e, sort) \in 0..(Cardinality(U) - 1)
  BY FS_CardinalityType, RankType
<1>5. ASSUME NEW i \in DOMAIN S
      PROVE  /\ Z[i] \subseteq U
             /\ i \in Heads(S, pos) <=> \E e \in Z[i] : Rank(U, e, sort) >= k
             /\ i \in Heads(S, pos) =>
                    /\ HeadOf(S, pos, i) \in Z[i]
                    /\ Rank(U, HeadOf(S, pos, i), sort) >= k
             /\ \A h \in Z[i] : Rank(U, h, sort) = k => HeadOf(S, pos, i) = h
  BY <1>2, HeadIs DEF Streams
<1>6. Heads(S, pos) \subseteq DOMAIN S
  BY DEF Heads
<1>7. CASE Cardinality(U) <= k
  <2>1. Heads(S, pos) = {}
    BY <1>4, <1>5, <1>6, <1>7
  <2>2. ASSUME NEW i \in DOMAIN S
        PROVE  Lead(Z, U, k + 1, sort, i) = Lead(Z, U, k, sort, i)
    BY <1>4, <1>5, <1>7 DEF Lead
  <2>3. new = pos
    BY <1>2, <1>3, <2>2, Zenon
  <2>4. FirstOf(U, k + 1, sort) = FirstOf(U, k, sort)
    BY <1>4, <1>7, FirstOfNext
  <2> QED
    BY <1>1, <2>1, <2>3, <2>4 DEF TakeBest
<1>8. CASE ~(Cardinality(U) <= k)
  <2>1. PICK u \in U : Rank(U, u, sort) = k
    <3>1. k \in 0..(Cardinality(U) - 1)
      BY <1>4, <1>8
    <3> QED
      BY <3>1, RankOnto
  <2>2. PICK b \in DOMAIN S : u \in Z[b]
    BY DEF Streams
  <2>3. b \in Heads(S, pos) /\ HeadOf(S, pos, b) = u
    BY <1>4, <1>5, <2>1, <2>2
  <2>4. ASSUME NEW j \in Heads(S, pos), j # b
        PROVE  Before(u, HeadOf(S, pos, j), sort) /\ ~Before(HeadOf(S, pos, j), u, sort)
    <3> DEFINE h == HeadOf(S, pos, j)
    <3>1. j \in DOMAIN S /\ h \in Z[j] /\ h \in U /\ Rank(U, h, sort) >= k
      BY <1>5, <1>6
    <3>2. h # u
      BY <2>2, <2>4, <3>1 DEF Streams
    <3> HIDE DEF h
    <3>3. Rank(U, h, sort) # Rank(U, u, sort)
      BY <3>1, <3>2, RankOrder
    <3>4. Rank(U, u, sort) < Rank(U, h, sort) /\ ~(Rank(U, h, sort) < Rank(U, u, sort))
      BY <1>4, <2>1, <3>1, <3>3
    <3> QED
      BY <3>1, <3>4, RankOrder DEF h
  <2>5. Best(S, pos, sort) = b
    BY <2>3, <2>4 DEF Best
  <2>6. ASSUME NEW i \in DOMAIN S, i # b
        PROVE  Lead(Z, U, k + 1, sort, i) = Lead(Z, U, k, sort, i)
    <3>1. u \notin Z[i]
      BY <2>2, <2>6 DEF Streams
    <3>2. ASSUME NEW e \in Z[i] PROVE Rank(U, e, sort) < k + 1 <=> Rank(U, e, sort) < k
      <4>1. e \in U /\ e # u
        BY <1>5, <3>1
      <4>2. Rank(U, e, sort) # k
        BY <2>1, <4>1, RankOrder
      <4> QED
        BY <1>4, <4>1, <4>2
    <3> QED
      BY <3>2 DEF Lead
  <2>7. Lead(Z, U, k + 1, sort, b) = Lead(Z, U, k, sort, b) \cup {u}
        /\ u \notin Lead(Z, U, k, sort, b)
    <3>1. ASSUME NEW e \in Z[b]
          PROVE  Rank(U, e, sort) < k + 1 <=> (Rank(U, e, sort) < k \/ e = u)
      <4>1. e \in U
        BY <1>5
      <4>2. e = u <=> Rank(U, e, sort) = k
        BY <2>1, <4>1, RankOrder
      <4> QED
        BY <1>4, <4>1, <4>2
    <3> QED
      BY <1>4, <2>1, <2>2, <3>1 DEF Lead
  <2>8. Cardinality(Lead(Z, U, k + 1, sort, b)) = Cardinality(Lead(Z, U, k, sort, b)) + 1
    <3>1. IsFiniteSet(Lead(Z, U, k, sort, b))
      BY <1>4, <1>5, LeadIs
    <3> QED
      BY <2>7, <3>1, FS_AddElement
  <2>9. new = [pos EXCEPT ![b] = pos[b] + 1]
    <3>1. ASSUME NEW i \in DOMAIN S
          PROVE  new[i] = IF i = b THEN pos[b] + 1 ELSE pos[i]
      BY <1>2, <1>3, <2>6, <2>8
    <3>2. new = [i \in DOMAIN S |-> new[i]]
      BY <1>3
    <3> QED
      BY <1>2, <3>1, <3>2
  <2>10. FirstOf(U, k + 1, sort) = Append(FirstOf(U, k, sort), u)
    BY <1>4, <2>1, FirstOfNext
  <2>11. ASSUME NEW out
         PROVE  TakeBest(S, [pos |-> pos, out |-> out], sort) =
                    [pos |-> [pos EXCEPT ![b] = pos[b] + 1], out |-> Append(out, u)]
    <3> DEFINE taken == [pos |-> pos, out |-> out]
    <3>1. taken.pos = pos /\ taken.out = out
      OBVIOUS
    <3> HIDE DEF taken
    <3>2. Heads(S, taken.pos) # {} /\ Best(S, taken.pos, sort) = b
      BY <2>3, <2>5, <3>1
    <3>3. TakeBest(S, taken, sort) =
              [pos |-> [taken.pos EXCEPT ![b] = @ + 1],
               out |-> Append(taken.out, HeadOf(S, taken.pos, b))]
      BY <3>2, Zenon DEF TakeBest
    <3> QED
      BY <2>3, <3>1, <3>3 DEF taken
  <2> QED
    BY <1>1, <2>9, <2>10, <2>11
<1> QED
  BY <1>7, <1>8

\* The merge of streams cut off at n returns the first n of all their events.
LEMMA MergeIsFirstOf ==
    ASSUME NEW S, NEW Z, NEW U, NEW n \in Nat, NEW sort,
           IsFiniteSet(U), Ordered(U, sort), Streams(S, Z, U, n, sort)
    PROVE  Merge(S, n, sort) = FirstOf(U, n, sort)
<1> DEFINE Bad == {k \in 0..n : Run(S, n, sort)[k] # TakenIs(S, Z, U, k, sort)}
<1>1. Run(S, n, sort)[0] = TakenIs(S, Z, U, 0, sort)
  <2>1. ASSUME NEW i \in DOMAIN S PROVE Cardinality(Lead(Z, U, 0, sort, i)) = 0
    <3>1. Z[i] \subseteq U
      BY DEF Streams
    <3>2. Lead(Z, U, 0, sort, i) = {}
      BY <3>1, RankType DEF Lead
    <3> QED
      BY <3>2, FS_EmptySet
  <2>2. FirstOf(U, 0, sort) = << >>
    <3>1. DOMAIN FirstOf(U, 0, sort) = 1..0 /\ FirstOf(U, 0, sort) \in Seq(U)
          /\ Len(FirstOf(U, 0, sort)) = 0
      BY FirstOfIs, FS_CardinalityType
    <3> QED
      BY <3>1
  <2> QED
    BY <2>1, <2>2, RunSteps DEF TakenIs, NoneTaken
<1>2. ASSUME Bad # {} PROVE FALSE
  <2>1. PICK k \in Bad : \A x \in Bad : k <= x
    <3>1. Bad \in SUBSET Nat
      OBVIOUS
    <3> HIDE DEF Bad
    <3> QED
      BY <1>2, <3>1, LeastOf
  <2>2. k # 0 /\ k \in 0..n
    BY <1>1, <2>1
  <2> DEFINE m == k - 1
  <2>3. m \in 0..(n - 1) /\ m \in 0..n /\ m + 1 = k /\ m \notin Bad
    BY <2>1, <2>2
  <2> HIDE DEF m
  <2>4. Run(S, n, sort)[m] = TakenIs(S, Z, U, m, sort)
    BY <2>3
  <2>5. Run(S, n, sort)[m + 1] = TakeBest(S, Run(S, n, sort)[m], sort)
    BY <2>3, RunSteps
  <2>6. TakeBest(S, TakenIs(S, Z, U, m, sort), sort) = TakenIs(S, Z, U, m + 1, sort)
    BY <2>3, MergeStep
  <2>7. k \notin Bad
    BY <2>2, <2>3, <2>4, <2>5, <2>6
  <2> QED
    BY <2>7
<1>3. Run(S, n, sort)[n] = TakenIs(S, Z, U, n, sort)
  <2>1. n \in 0..n
    OBVIOUS
  <2> QED
    BY <1>2, <2>1
<1> QED
  BY <1>3, MergeIsRun DEF TakenIs

-----------------------------------------------------------------------------
(* The events there can be: of each row, by type and suffix.               *)

AtClose == {"entity_closed", "zone_exited", "alert_resolved"}
At(t, r, s) == IF t \in AtClose \/ s = 2 THEN CloseAt[r] ELSE OpenAt[r]
Possible == {Event(t, r, At(t, r, s), s) : t \in AllTypes, r \in Rows, s \in 0..2}

LEMMA PrefixIs ==
    /\ AllTypes = {"alert_resolved", "alert_triggered", "entity_closed",
                   "entity_created", "observation_recorded", "zone_entered",
                   "zone_exited", "zone_occupancy_changed"}
    /\ Prefix["alert_resolved"] = 1 /\ Prefix["alert_triggered"] = 2
    /\ Prefix["entity_closed"] = 3 /\ Prefix["entity_created"] = 4
    /\ Prefix["observation_recorded"] = 5 /\ Prefix["zone_entered"] = 6
    /\ Prefix["zone_exited"] = 7 /\ Prefix["zone_occupancy_changed"] = 8
BY DEF AllTypes, Prefix

LEMMA PrefixOf ==
    /\ \A t \in AllTypes : Prefix[t] \in 1..8
    /\ \A t, u \in AllTypes : Prefix[t] = Prefix[u] => t = u
BY PrefixIs

\* Providers own the types, each its own.
LEMMA OwnedIs ==
    /\ Providers[1] = "alert" /\ Providers[2] = "entity_lifecycle"
    /\ Providers[3] = "spatial" /\ Len(Providers) = 3
    /\ DOMAIN Owned = {"alert", "entity_lifecycle", "spatial"}
    /\ Owned["alert"] = {"alert_triggered", "alert_resolved"}
    /\ Owned["entity_lifecycle"] =
           {"entity_created", "entity_closed", "observation_recorded"}
    /\ Owned["spatial"] = {"zone_entered", "zone_exited", "zone_occupancy_changed"}
BY DEF Providers, Owned

LEMMA PossibleIs ==
    ASSUME NEW e \in Possible
    PROVE  \E t \in AllTypes, r \in Rows, s \in 0..2 :
              /\ e = Event(t, r, At(t, r, s), s)
              /\ e.type = t /\ e.at = At(t, r, s) /\ e.id = <<Prefix[t], r, s>>
              /\ e.at \in Nat \ {0} /\ e.id \in Seq(Nat) /\ Len(e.id) = 3
              /\ e.id[1] = Prefix[t] /\ e.id[2] = r /\ e.id[3] = s
<1>1. PICK t \in AllTypes, r \in Rows, s \in 0..2 : e = Event(t, r, At(t, r, s), s)
  BY DEF Possible
<1>2. At(t, r, s) \in Nat \ {0}
  BY TimelineAssumption DEF TimelineAssumption, At
<1>3. e.type = t /\ e.at = At(t, r, s) /\ e.id = <<Prefix[t], r, s>>
  BY <1>1 DEF Event
<1>4. Prefix[t] \in Nat /\ r \in Nat /\ s \in Nat
  BY PrefixOf, TimelineAssumption DEF TimelineAssumption
<1>5. e.id \in Seq(Nat) /\ Len(e.id) = 3
      /\ e.id[1] = Prefix[t] /\ e.id[2] = r /\ e.id[3] = s
  BY <1>3, <1>4
<1> QED
  BY <1>1, <1>2, <1>3, <1>5

LEMMA PossibleSame ==
    ASSUME NEW e \in Possible, NEW f \in Possible,
           e.id[1] = f.id[1], e.id[2] = f.id[2], e.id[3] = f.id[3]
    PROVE  e = f
<1>1. PICK t \in AllTypes, r \in Rows, s \in 0..2 :
          /\ e = Event(t, r, At(t, r, s), s)
          /\ e.id[1] = Prefix[t] /\ e.id[2] = r /\ e.id[3] = s
  BY PossibleIs
<1>2. PICK u \in AllTypes, q \in Rows, v \in 0..2 :
          /\ f = Event(u, q, At(u, q, v), v)
          /\ f.id[1] = Prefix[u] /\ f.id[2] = q /\ f.id[3] = v
  BY PossibleIs
<1>3. t = u /\ r = q /\ s = v
  BY <1>1, <1>2, PrefixOf
<1> QED
  BY <1>1, <1>2, <1>3

LEMMA PossibleOrdered ==
    ASSUME NEW sort
    PROVE  Ordered(Possible, sort)
<1>1. ASSUME NEW e \in Possible
      PROVE  e.at \in Nat /\ e.id \in Seq(Nat) /\ Len(e.id) = 3
  BY PossibleIs
<1>2. ASSUME NEW e \in Possible, NEW f \in Possible, e.id = f.id PROVE e = f
  BY <1>2, PossibleSame
<1>3. Identified(Possible)
  BY <1>1, <1>2 DEF Identified
<1> QED
  BY <1>3, IdentifiedOrdered

LEMMA PossibleFinite == IsFiniteSet(Possible)
<1> DEFINE W == Rows \X (0..2)
           V == (1..8) \X W
           f == [e \in Possible |-> <<e.id[1], <<e.id[2], e.id[3]>>>>]
<1>1. IsFiniteSet(Rows) /\ IsFiniteSet(0..2) /\ IsFiniteSet(1..8)
  <2>1. IsFiniteSet(Rows)
    BY TimelineAssumption, Zenon DEF TimelineAssumption
  <2>2. \A a, b \in Nat : IsFiniteSet(a..b)
    BY FS_Interval
  <2> QED
    BY <2>1, <2>2
<1>2. IsFiniteSet(W)
  BY <1>1, FS_Product
<1>3. IsFiniteSet(V)
  <2> HIDE DEF W
  <2> QED
    BY <1>1, <1>2, FS_Product
<1>4. \A e \in Possible : f[e] \in V
  <2> TAKE e \in Possible
  <2>1. PICK t \in AllTypes, r \in Rows, s \in 0..2 :
            e.id[1] = Prefix[t] /\ e.id[2] = r /\ e.id[3] = s
    BY PossibleIs
  <2> QED
    BY <2>1, PrefixOf
<1>5. \A e, g \in Possible : f[e] = f[g] => e = g
  BY PossibleSame
<1>6. f \in Injection(Possible, V)
  BY <1>4, <1>5 DEF Injection, IsInjective
<1> HIDE DEF f, V, W
<1> QED
  BY <1>3, <1>6, FS_Injection

\* All there can be of S, a set of events.
LEMMA PartIs ==
    ASSUME NEW S \in SUBSET Possible, NEW sort
    PROVE  IsFiniteSet(S) /\ Ordered(S, sort) /\ \A e \in S : e.at # 0
<1>1. IsFiniteSet(S)
  BY PossibleFinite, FS_Subset
<1>2. Ordered(S, sort)
  BY PossibleOrdered, OrderedSubset
<1>3. \A e \in S : e.at # 0
  BY PossibleIs
<1> QED
  BY <1>1, <1>2, <1>3

\* What a provider projects.
LEMMA EventsOfIs ==
    ASSUME NEW p \in DOMAIN Owned
    PROVE  EventsOf(p) \subseteq Possible /\ \A e \in EventsOf(p) : e.type \in Owned[p]
<1>1. \A k : Exist(k) \subseteq Rows /\ Closed(k) \subseteq Rows
  BY DEF Exist, Closed
<1>2. ASSUME NEW t \in AllTypes, NEW r \in Rows, NEW s \in 0..2
      PROVE  Event(t, r, At(t, r, s), s) \in Possible
             /\ Event(t, r, At(t, r, s), s).type = t
  BY DEF Possible, Event
<1>3. AlertEvents \subseteq Possible /\ \A e \in AlertEvents : e.type \in Owned["alert"]
  <2>1. ASSUME NEW e \in AlertEvents
        PROVE  \E t \in {"alert_triggered", "alert_resolved"}, r \in Rows :
                  e = Event(t, r, At(t, r, 0), 0)
    BY <1>1 DEF AlertEvents, AlertTriggered, AlertResolved, At, AtClose
  <2> QED
    BY <2>1, <1>2, PrefixIs, OwnedIs
<1>4. LifecycleEvents \subseteq Possible
      /\ \A e \in LifecycleEvents : e.type \in Owned["entity_lifecycle"]
  <2>1. ASSUME NEW e \in LifecycleEvents
        PROVE  \E t \in {"entity_created", "entity_closed", "observation_recorded"},
                  r \in Rows : e = Event(t, r, At(t, r, 0), 0)
    BY <1>1 DEF LifecycleEvents, EntityCreated, EntityClosed, ObservationRecorded,
                At, AtClose
  <2> QED
    BY <2>1, <1>2, PrefixIs, OwnedIs
<1>5. SpatialEvents \subseteq Possible
      /\ \A e \in SpatialEvents : e.type \in Owned["spatial"]
  <2>1. ASSUME NEW e \in SpatialEvents
        PROVE  \E t \in {"zone_entered", "zone_exited", "zone_occupancy_changed"},
                  r \in Rows, s \in 0..2 : e = Event(t, r, At(t, r, s), s)
    BY <1>1 DEF SpatialEvents, ZoneEntered, ZoneExited, OccupancyEntered,
                OccupancyExited, At, AtClose
  <2> QED
    BY <2>1, <1>2, PrefixIs, OwnedIs
<1> QED
  BY <1>3, <1>4, <1>5, OwnedIs DEF EventsOf

LEMMA SelectedIs ==
    ASSUME NEW q, NEW p \in DOMAIN Owned
    PROVE  Selected(q, p) \subseteq Possible /\ \A e \in Selected(q, p) : e.type \in Owned[p]
BY EventsOfIs DEF Selected, Relevant

LEMMA AnsweringIs ==
    ASSUME NEW q
    PROVE  Answering(q) \subseteq Possible
BY SelectedIs DEF Answering

-----------------------------------------------------------------------------
(* The reader of one id finds what the providers list.                     *)

LEMMA TypesCounted == Cardinality(AllTypes) = 8
<1> DEFINE f == [t \in AllTypes |-> Prefix[t]]
<1>1. IsFiniteSet(1..8) /\ Cardinality(1..8) = 8
  <2>1. \A n \in Nat \ {0} : IsFiniteSet(1..n) /\ Cardinality(1..n) = n
    <3> TAKE n \in Nat \ {0}
    <3>1. 1 \in Int /\ n \in Int /\ ~(1 > n) /\ n - 1 + 1 = n
      OBVIOUS
    <3> QED
      BY <3>1, FS_Interval
  <2>2. 8 \in Nat \ {0}
    OBVIOUS
  <2> QED
    BY <2>1, <2>2, Zenon
<1>2. f \in Injection(AllTypes, 1..8)
  BY PrefixOf DEF Injection, IsInjective
<1>3. f \in Surjection(AllTypes, 1..8)
  <2>1. \A i \in 1..8 : \E t \in AllTypes : Prefix[t] = i
    BY PrefixIs
  <2> QED
    BY <1>2, <2>1 DEF Surjection, Injection
<1> HIDE DEF f
<1> QED
  BY <1>1, <1>2, <1>3, FS_Injection

\* Whether an event of type t is listed for the row, and the event.
Lists(t, r, s) ==
    r \in CASE t = "entity_created" -> Exist("entity")
            [] t = "entity_closed" -> Closed("entity")
            [] t = "observation_recorded" -> Exist("observation")
            [] t = "zone_entered" -> Exist("session")
            [] t = "zone_exited" -> Closed("session")
            [] t = "zone_occupancy_changed" ->
                 (IF s = 1 THEN Exist("session") ELSE Closed("session"))
            [] t = "alert_triggered" -> Exist("alert")
            [] t = "alert_resolved" -> Closed("alert")
Ours(t, r, s) == Event(t, r, At(t, r, s), s)
WellFormed(t, s) == (s # 0) = (t = "zone_occupancy_changed")

LEMMA VisibleIs ==
    ASSUME NEW e
    PROVE  e \in Visible <=>
              \/ e \in AlertTriggered \/ e \in AlertResolved
              \/ e \in EntityCreated \/ e \in EntityClosed \/ e \in ObservationRecorded
              \/ e \in ZoneEntered \/ e \in ZoneExited
              \/ e \in OccupancyEntered \/ e \in OccupancyExited
<1>1. e \in Visible <=> e \in AlertEvents \/ e \in LifecycleEvents \/ e \in SpatialEvents
  BY OwnedIs DEF Visible, EventsOf
<1> QED
  BY <1>1 DEF AlertEvents, LifecycleEvents, SpatialEvents

\* Each projection lists the events of its type.
LEMMA ProjectionIs ==
    ASSUME NEW e
    PROVE  /\ e \in AlertTriggered <=> \E q \in Rows : Lists("alert_triggered", q, 0)
                                          /\ e = Ours("alert_triggered", q, 0)
           /\ e \in AlertResolved <=> \E q \in Rows : Lists("alert_resolved", q, 0)
                                          /\ e = Ours("alert_resolved", q, 0)
           /\ e \in EntityCreated <=> \E q \in Rows : Lists("entity_created", q, 0)
                                          /\ e = Ours("entity_created", q, 0)
           /\ e \in EntityClosed <=> \E q \in Rows : Lists("entity_closed", q, 0)
                                          /\ e = Ours("entity_closed", q, 0)
           /\ e \in ObservationRecorded <=>
                 \E q \in Rows : Lists("observation_recorded", q, 0)
                                          /\ e = Ours("observation_recorded", q, 0)
           /\ e \in ZoneEntered <=> \E q \in Rows : Lists("zone_entered", q, 0)
                                          /\ e = Ours("zone_entered", q, 0)
           /\ e \in ZoneExited <=> \E q \in Rows : Lists("zone_exited", q, 0)
                                          /\ e = Ours("zone_exited", q, 0)
           /\ e \in OccupancyEntered <=>
                 \E q \in Rows : Lists("zone_occupancy_changed", q, 1)
                                          /\ e = Ours("zone_occupancy_changed", q, 1)
           /\ e \in OccupancyExited <=>
                 \E q \in Rows : Lists("zone_occupancy_changed", q, 2)
                                          /\ e = Ours("zone_occupancy_changed", q, 2)
<1>1. \A k : Exist(k) \subseteq Rows /\ Closed(k) \subseteq Rows
  BY DEF Exist, Closed
<1>2. e \in AlertTriggered <=> \E q \in Rows : Lists("alert_triggered", q, 0)
                                      /\ e = Ours("alert_triggered", q, 0)
  BY <1>1 DEF AlertTriggered, Lists, Ours, At, AtClose
<1>3. e \in AlertResolved <=> \E q \in Rows : Lists("alert_resolved", q, 0)
                                      /\ e = Ours("alert_resolved", q, 0)
  BY <1>1 DEF AlertResolved, Lists, Ours, At, AtClose
<1>4. e \in EntityCreated <=> \E q \in Rows : Lists("entity_created", q, 0)
                                      /\ e = Ours("entity_created", q, 0)
  BY <1>1 DEF EntityCreated, Lists, Ours, At, AtClose
<1>5. e \in EntityClosed <=> \E q \in Rows : Lists("entity_closed", q, 0)
                                      /\ e = Ours("entity_closed", q, 0)
  BY <1>1 DEF EntityClosed, Lists, Ours, At, AtClose
<1>6. e \in ObservationRecorded <=> \E q \in Rows : Lists("observation_recorded", q, 0)
                                      /\ e = Ours("observation_recorded", q, 0)
  BY <1>1 DEF ObservationRecorded, Lists, Ours, At, AtClose
<1>7. e \in ZoneEntered <=> \E q \in Rows : Lists("zone_entered", q, 0)
                                      /\ e = Ours("zone_entered", q, 0)
  BY <1>1 DEF ZoneEntered, Lists, Ours, At, AtClose
<1>8. e \in ZoneExited <=> \E q \in Rows : Lists("zone_exited", q, 0)
                                      /\ e = Ours("zone_exited", q, 0)
  BY <1>1 DEF ZoneExited, Lists, Ours, At, AtClose
<1>9. e \in OccupancyEntered <=> \E q \in Rows : Lists("zone_occupancy_changed", q, 1)
                                      /\ e = Ours("zone_occupancy_changed", q, 1)
  BY <1>1 DEF OccupancyEntered, Lists, Ours, At, AtClose
<1>10. e \in OccupancyExited <=> \E q \in Rows : Lists("zone_occupancy_changed", q, 2)
                                      /\ e = Ours("zone_occupancy_changed", q, 2)
  BY <1>1 DEF OccupancyExited, Lists, Ours, At, AtClose
<1> QED
  BY <1>2, <1>3, <1>4, <1>5, <1>6, <1>7, <1>8, <1>9, <1>10, Zenon

LEMMA OursIs ==
    ASSUME NEW t \in AllTypes, NEW u \in AllTypes, NEW r, NEW q, NEW s, NEW v
    PROVE  Ours(u, q, v).id = <<Prefix[t], r, s>> <=> u = t /\ q = r /\ v = s
BY PrefixOf DEF Ours, Event

\* At most one event has a given id: that of its row, listed in the right state.
LEMMA ListedIs ==
    ASSUME NEW t \in AllTypes, NEW r \in Rows, NEW s \in 0..2, WellFormed(t, s),
           NEW e
    PROVE  e \in Visible /\ e.id = <<Prefix[t], r, s>> <=>
              e = Ours(t, r, s) /\ Lists(t, r, s)
<1> DEFINE Holds(u, v) == \E q \in Rows : Lists(u, q, v) /\ e = Ours(u, q, v)
<1>1. e \in Visible <=>
         \/ Holds("alert_triggered", 0) \/ Holds("alert_resolved", 0)
         \/ Holds("entity_created", 0) \/ Holds("entity_closed", 0)
         \/ Holds("observation_recorded", 0)
         \/ Holds("zone_entered", 0) \/ Holds("zone_exited", 0)
         \/ Holds("zone_occupancy_changed", 1) \/ Holds("zone_occupancy_changed", 2)
  BY VisibleIs, ProjectionIs
<1>2. ASSUME NEW u \in AllTypes, NEW v, Holds(u, v), e.id = <<Prefix[t], r, s>>
      PROVE  e = Ours(t, r, s) /\ Lists(t, r, s)
  BY <1>2, OursIs
<1>3. ASSUME e = Ours(t, r, s), Lists(t, r, s)
      PROVE  Holds(t, s) /\ e.id = <<Prefix[t], r, s>>
  <2>1. Holds(t, s)
    BY <1>3, Zenon
  <2>2. e.id = <<Prefix[t], r, s>>
    <3>1. Ours(t, r, s).id = <<Prefix[t], r, s>>
      BY DEF Ours, Event
    <3> QED
      BY <1>3, <3>1
  <2> QED
    BY <2>1, <2>2
<1>4. \/ /\ t \in {"alert_triggered", "alert_resolved", "entity_created",
                    "entity_closed", "observation_recorded", "zone_entered",
                    "zone_exited"}
         /\ s = 0
      \/ t = "zone_occupancy_changed" /\ (s = 1 \/ s = 2)
  <2>1. s # 0 <=> t = "zone_occupancy_changed"
    BY Zenon DEF WellFormed
  <2>2. s = 0 \/ s = 1 \/ s = 2
    OBVIOUS
  <2>3. t \in {"alert_resolved", "alert_triggered", "entity_closed",
              "entity_created", "observation_recorded", "zone_entered",
              "zone_exited", "zone_occupancy_changed"}
    BY PrefixIs, Zenon
  <2> QED
    BY <2>1, <2>2, <2>3
<1> HIDE DEF Holds
<1> QED
  BY <1>1, <1>2, <1>3, <1>4, PrefixIs

\* The reader of an id loads that event.
LEMMA GetEventIs ==
    ASSUME NEW t \in AllTypes, NEW r \in Rows, NEW s \in 0..2, WellFormed(t, s)
    PROVE  GetEvent(<<Prefix[t], r, s>>) = IF Lists(t, r, s) THEN Ours(t, r, s) ELSE NoEvent
<1> DEFINE id == <<Prefix[t], r, s>>
           owner == CHOOSE p \in DOMAIN Owned : \E u \in Owned[p] : HasPrefix(id, u)
<1>1. id[1] = Prefix[t] /\ id[2] = r /\ id[3] = s
  OBVIOUS
<1>2. \A u \in AllTypes : HasPrefix(id, u) <=> u = t
  BY <1>1, PrefixOf DEF HasPrefix
<1> HIDE DEF id
<1>3. owner \in DOMAIN Owned /\ t \in Owned[owner]
  <2>1. \A p \in DOMAIN Owned : (\E u \in Owned[p] : HasPrefix(id, u)) <=> t \in Owned[p]
    BY <1>2, OwnedIs, PrefixIs
  <2>2. \E p \in DOMAIN Owned : t \in Owned[p]
    BY OwnedIs, PrefixIs
  <2> QED
    BY <2>1, <2>2
<1>4. GetEvent(id) = CASE owner = "alert"            -> AlertById(id)
                       [] owner = "entity_lifecycle" -> LifecycleById(id)
                       [] owner = "spatial"          -> SpatialById(id)
  BY Zenon DEF GetEvent
<1> HIDE DEF owner
<1>5. \A k : Loaded(r, k) <=> r \in Exist(k)
  BY DEF Loaded
<1>6. CASE t \in Owned["alert"]
  <2>1. owner = "alert"
    BY <1>3, <1>6, OwnedIs
  <2>2. s = 0
    BY <1>6, OwnedIs DEF WellFormed
  <2>3. AlertById(id) = IF Lists(t, r, s) THEN Ours(t, r, s) ELSE NoEvent
    BY <1>1, <1>2, <1>5, <1>6, <2>2, OwnedIs, PrefixIs DEF AlertById, Lists, Ours, At, AtClose
  <2> QED
    BY <1>4, <2>1, <2>3 DEF id
<1>7. CASE t \in Owned["entity_lifecycle"]
  <2>1. owner = "entity_lifecycle"
    BY <1>3, <1>7, OwnedIs
  <2>2. s = 0
    BY <1>7, OwnedIs DEF WellFormed
  <2>3. LifecycleById(id) = IF Lists(t, r, s) THEN Ours(t, r, s) ELSE NoEvent
    BY <1>1, <1>2, <1>5, <1>7, <2>2, OwnedIs, PrefixIs
       DEF LifecycleById, Lists, Ours, At, AtClose
  <2> QED
    BY <1>4, <2>1, <2>3 DEF id
<1>8. CASE t \in Owned["spatial"]
  <2>1. owner = "spatial"
    BY <1>3, <1>8, OwnedIs
  <2>2. CASE t = "zone_occupancy_changed"
    <3>1. s = 1 \/ s = 2
      BY <2>2 DEF WellFormed
    <3>2. SpatialById(id) = OccupancyById(id)
      BY <1>2, <2>2 DEF SpatialById
    <3>3. OccupancyById(id) = IF Lists(t, r, s) THEN Ours(t, r, s) ELSE NoEvent
      BY <1>1, <1>5, <2>2, <3>1 DEF OccupancyById, Lists, Ours, At, AtClose
    <3> QED
      BY <1>4, <2>1, <3>2, <3>3 DEF id
  <2>3. CASE t # "zone_occupancy_changed"
    <3>1. s = 0
      BY <2>3 DEF WellFormed
    <3>2. SpatialById(id) = SessionEvent(id)
      BY <1>2, <2>3, PrefixIs DEF SpatialById
    <3>3. SessionEvent(id) = IF Lists(t, r, s) THEN Ours(t, r, s) ELSE NoEvent
      BY <1>1, <1>2, <1>5, <1>8, <2>3, <3>1, OwnedIs, PrefixIs
         DEF SessionEvent, Lists, Ours, At, AtClose
    <3> QED
      BY <1>4, <2>1, <3>2, <3>3 DEF id
  <2> QED
    BY <2>2, <2>3
<1> QED
  BY <1>6, <1>7, <1>8, OwnedIs, PrefixIs

LEMMA FoundAlways == FoundById
<1> SUFFICES ASSUME NEW r \in Rows, NEW p \in 1..Cardinality(AllTypes), NEW s \in 0..2,
                    (s # 0) = (p = Prefix["zone_occupancy_changed"])
             PROVE  LET listed == {e \in Visible : e.id = <<p, r, s>>}
                    IN  GetEvent(<<p, r, s>>) = IF listed = {} THEN NoEvent
                                                ELSE CHOOSE e \in listed : TRUE
  BY Zenon DEF FoundById
<1> DEFINE listed == {e \in Visible : e.id = <<p, r, s>>}
<1>1. PICK t \in AllTypes : Prefix[t] = p
  <2>1. p \in 1..8
    BY TypesCounted
  <2> QED
    BY <2>1, PrefixIs
<1>2. WellFormed(t, s)
  BY <1>1, PrefixIs, PrefixOf DEF WellFormed
<1>3. \A e : e \in listed <=> e = Ours(t, r, s) /\ Lists(t, r, s)
  BY <1>1, <1>2, ListedIs
<1>4. GetEvent(<<p, r, s>>) = IF Lists(t, r, s) THEN Ours(t, r, s) ELSE NoEvent
  BY <1>1, <1>2, GetEventIs
<1> HIDE DEF listed
<1>5. CASE Lists(t, r, s)
  <2>1. listed # {} /\ \A e \in listed : e = Ours(t, r, s)
    BY <1>3, <1>5
  <2>2. (CHOOSE e \in listed : TRUE) = Ours(t, r, s)
    BY <2>1
  <2> QED
    BY <1>4, <1>5, <2>1, <2>2 DEF listed
<1>6. CASE ~Lists(t, r, s)
  <2>1. listed = {}
    BY <1>3, <1>6
  <2> QED
    BY <1>4, <1>6, <2>1 DEF listed
<1> QED
  BY <1>5, <1>6

(* For any rows, with any times: get_event_by_id of the providers resolves *)
(* every id of a known type exactly while their list statements show the   *)
(* event, to that event.                                                   *)
THEOREM TimelineFoundById == Spec => []FoundById
BY FoundAlways, PTL

-----------------------------------------------------------------------------
(* The inductive invariant of a scan.                                      *)

Asked(e) == \E p \in 1..(turn - 1) : e.type \in Owned[Providers[p]]
Behind(e) == cursor # NoCursor => Before(cursor, e, query.sort)

ScanTyped ==
    /\ turn \in 1..4
    /\ items \in Seq(Possible)
    /\ seen \subseteq Possible /\ page.of \subseteq Possible
    /\ cursor = NoCursor \/ \E l \in Possible : cursor = Position(l)
    /\ scan \in {"reading", "between", "done"} => query.limit \in Nat \ {0}

\* A scan begins with nothing received, and a page that ends it has no cursor.
Fresh ==
    /\ scan = "idle" => page = NoPage /\ cursor = NoCursor
    /\ cursor = NoCursor /\ scan # "done" => items = << >>

\* Nothing received lies after the cursor; what was there all the time and is
\* not received does.
Divided ==
    /\ \A i \in DOMAIN items : cursor # NoCursor => ~Before(cursor, items[i], query.sort)
    /\ steady \subseteq Answering(query)

\* While a page is read: the providers asked so far returned the first of what
\* they have after the cursor, and had all of theirs that was there all the time.
Reading ==
    scan = "reading" =>
        /\ streams \in Seq(Seq(Possible))
        /\ \A e \in seen : Asked(e) /\ Behind(e)
        /\ \E Z : Streams(streams, Z, seen, ProviderLimit(query), query.sort)
        /\ \A e \in steady : Asked(e) /\ Behind(e) => e \in seen

ScanInv == ScanTyped /\ Fresh /\ Divided /\ Reading /\ PageIsFirstOfUnion /\ ScanIsFaithful

-----------------------------------------------------------------------------
(* What other transactions do to the events of a request.                  *)

LEMMA RowsGrow ==
    ASSUME row' = row \/ Commit
    PROVE  \A k : Exist(k) \subseteq Exist(k)' /\ Closed(k) \subseteq Closed(k)'
<1>1. ASSUME NEW r \in Rows
      PROVE  /\ row[r] \in {"open", "closed"} => row'[r] \in {"open", "closed"}
             /\ row[r] = "closed" => row'[r] = "closed"
  <2>1. CASE Commit
    BY <2>1 DEF Commit, MayAdvance, Advanced
  <2> QED
    BY <2>1
<1> QED
  BY <1>1 DEF Exist, Closed

LEMMA AnsweringGrows ==
    ASSUME NEW q, query' = q, row' = row \/ Commit
    PROVE  Answering(q) \subseteq Answering(query)'
<1>1. \A k : Exist(k) \subseteq Exist(k)' /\ Closed(k) \subseteq Closed(k)'
  BY RowsGrow
<1>2. AlertEvents \subseteq AlertEvents'
  BY <1>1 DEF AlertEvents, AlertTriggered, AlertResolved
<1>3. LifecycleEvents \subseteq LifecycleEvents'
  BY <1>1 DEF LifecycleEvents, EntityCreated, EntityClosed, ObservationRecorded
<1>4. SpatialEvents \subseteq SpatialEvents'
  BY <1>1 DEF SpatialEvents, ZoneEntered, ZoneExited, OccupancyEntered, OccupancyExited
<1>5. ASSUME NEW p \in DOMAIN Owned PROVE EventsOf(p) \subseteq EventsOf(p)'
  BY <1>2, <1>3, <1>4, OwnedIs DEF EventsOf
<1>6. ASSUME NEW p \in DOMAIN Owned 
      PROVE  Selected(q, p) \subseteq Selected(query, p)'
  BY <1>5 DEF Selected, CanContribute, Relevant, ResolveTypes, Matches
<1> QED
  BY <1>6 DEF Answering

\* Every event has an owner among the three providers.
LEMMA AskedAll ==
    ASSUME turn = 4, NEW q, NEW e \in Answering(q)
    PROVE  Asked(e)
<1>1. PICK p \in DOMAIN Owned : e \in Selected(q, p)
  BY DEF Answering
<1>2. e.type \in Owned[p]
  BY <1>1, SelectedIs
<1>3. \E k \in 1..3 : Providers[k] = p
  BY OwnedIs
<1> QED
  BY <1>2, <1>3 DEF Asked

LEMMA NoStreams ==
    ASSUME NEW n, NEW sort
    PROVE  \E Z : Streams(<< >>, Z, {}, n, sort)
<1>1. Streams(<< >>, << >>, {}, n, sort)
  BY DEF Streams
<1> QED
  BY <1>1

LEMMA BeforePosition ==
    ASSUME NEW l, NEW e, NEW sort
    PROVE  Before(Position(l), e, sort) <=> Before(l, e, sort)
BY DEF Before, Position

LEMMA PositionIsCursor ==
    ASSUME NEW l \in Possible
    PROVE  Position(l) # NoCursor
BY PossibleIs DEF Position, NoCursor

-----------------------------------------------------------------------------
LEMMA ScanInit == Init => ScanInv
<1> SUFFICES ASSUME Init PROVE ScanInv
  OBVIOUS
<1>1. ScanTyped
  BY DEF Init, ScanTyped, NoPage
<1>2. Fresh /\ Divided /\ Reading /\ PageIsFirstOfUnion /\ ScanIsFaithful
  BY DEF Init, Fresh, Divided, Reading, PageIsFirstOfUnion, ScanIsFaithful, Obtained
<1> QED
  BY <1>1, <1>2 DEF ScanInv

LEMMA ScanCommit == ScanInv /\ Commit => ScanInv'
<1> SUFFICES ASSUME ScanInv, Commit PROVE ScanInv'
  OBVIOUS
<1>1. UNCHANGED <<scan, query, cursor, turn, streams, items, seen, page, steady>>
  BY DEF Commit
<1>2. steady' \subseteq Answering(query)'
  BY <1>1, AnsweringGrows DEF ScanInv, Divided
<1>3. ScanTyped' /\ Fresh' /\ PageIsFirstOfUnion' /\ ScanIsFaithful'
  BY <1>1 DEF ScanInv, ScanTyped, Fresh, PageIsFirstOfUnion, ScanIsFaithful, Obtained
<1>4. Divided'
  BY <1>1, <1>2 DEF ScanInv, Divided
<1>5. Reading'
  BY <1>1 DEF ScanInv, Reading, Asked, Behind, ProviderLimit
<1> QED
  BY <1>3, <1>4, <1>5 DEF ScanInv

LEMMA ScanPrune == ScanInv /\ Prune => ScanInv'
<1> SUFFICES ASSUME ScanInv, Prune PROVE ScanInv'
  OBVIOUS
<1>1. UNCHANGED <<scan, query, cursor, turn, streams, items, seen, page>>
      /\ steady' \subseteq steady /\ steady' \subseteq Answering(query)'
  BY DEF Prune
<1>2. ScanTyped' /\ Fresh' /\ PageIsFirstOfUnion' /\ ScanIsFaithful'
  BY <1>1 DEF ScanInv, ScanTyped, Fresh, PageIsFirstOfUnion, ScanIsFaithful, Obtained
<1>3. Divided'
  BY <1>1 DEF ScanInv, Divided
<1>4. Reading'
  BY <1>1 DEF ScanInv, Reading, Asked, Behind, ProviderLimit
<1> QED
  BY <1>2, <1>3, <1>4 DEF ScanInv

\* A page begun.
LEMMA ScanBegin ==
    ASSUME NEW q, BeginPage(q)
    PROVE  /\ scan' = "reading" /\ turn' = 1 /\ streams' = << >> /\ seen' = {}
           /\ q.limit \in Nat \ {0}
           /\ query' = q => Reading'
<1>1. /\ scan' = "reading" /\ turn' = 1 /\ streams' = << >> /\ seen' = {}
      /\ q.limit \in Nat \ {0}
  BY TimelineAssumption DEF BeginPage, ValidLimit, TimelineAssumption
<1>2. ASSUME NEW e PROVE ~Asked(e)'
  BY <1>1 DEF Asked
<1>3. ASSUME query' = q PROVE Reading'
  <2>1. \E Z : Streams(streams', Z, seen', ProviderLimit(query'), query'.sort)
    BY <1>1, NoStreams
  <2>2. streams' \in Seq(Seq(Possible))
    BY <1>1
  <2> QED
    BY <1>1, <1>2, <2>1, <2>2 DEF Reading, ProviderLimit
<1> QED
  BY <1>1, <1>3

LEMMA ScanListTimeline == ASSUME NEW q PROVE ScanInv /\ ListTimeline(q) => ScanInv'
<1> SUFFICES ASSUME ScanInv, ListTimeline(q) PROVE ScanInv'
  OBVIOUS
<1>1. /\ scan = "idle" /\ query' = q /\ steady' = Answering(q)
      /\ UNCHANGED <<row, cursor, items, page>>
      /\ BeginPage(q) \/ Refuse(q)
  BY DEF ListTimeline
<1>2. page = NoPage /\ (cursor = NoCursor => items = << >>)
  BY <1>1 DEF ScanInv, Fresh
<1>3. cursor = NoCursor /\ items = << >>
  BY <1>1 DEF ScanInv, Fresh
<1>4. steady' \subseteq Answering(query)' /\ steady' \subseteq Possible
  BY <1>1, AnsweringGrows, AnsweringIs
<1>5. Divided' /\ PageIsFirstOfUnion'
  BY <1>1, <1>2, <1>3, <1>4 DEF Divided, PageIsFirstOfUnion
<1>6. CASE BeginPage(q)
  <2>1. /\ scan' = "reading" /\ turn' = 1 /\ streams' = << >> /\ seen' = {}
        /\ q.limit \in Nat \ {0}
        /\ Reading'
    BY <1>1, <1>6, ScanBegin
  <2>2. ScanTyped' /\ Fresh' /\ ScanIsFaithful'
    BY <1>1, <1>2, <1>3, <2>1 DEF ScanInv, ScanTyped, Fresh, ScanIsFaithful, NoPage
  <2> QED
    BY <1>5, <2>1, <2>2 DEF ScanInv
<1>7. CASE Refuse(q)
  <2>1. scan' = "refused" /\ UNCHANGED <<turn, streams, seen>>
    BY <1>7 DEF Refuse
  <2>2. ScanTyped' /\ Fresh' /\ ScanIsFaithful' /\ Reading'
    BY <1>1, <1>2, <1>3, <2>1
       DEF ScanInv, ScanTyped, Fresh, ScanIsFaithful, NoPage, Reading
  <2> QED
    BY <1>5, <2>2 DEF ScanInv
<1> QED
  BY <1>1, <1>6, <1>7

LEMMA ScanNextPage == ScanInv /\ NextPage => ScanInv'
<1> SUFFICES ASSUME ScanInv, NextPage PROVE ScanInv'
  OBVIOUS
<1>1. /\ scan = "between" /\ UNCHANGED <<row, query, cursor, items, page, steady>>
      /\ BeginPage(query) \/ Refuse(query)
  BY DEF NextPage
<1>2. scan' # "done" /\ scan' # "idle" /\ scan' # "between" /\ turn' \in 1..4
      /\ seen' \subseteq Possible /\ Reading'
  <2>1. CASE BeginPage(query)
    BY <1>1, <2>1, ScanBegin
  <2>2. CASE Refuse(query)
    BY <2>2 DEF Refuse, ScanInv, ScanTyped, Reading
  <2> QED
    BY <1>1, <2>1, <2>2
<1>3. ScanTyped' /\ Fresh'
  BY <1>1, <1>2 DEF ScanInv, ScanTyped, Fresh
<1>4. Divided'
  <2>1. steady' \subseteq Answering(query)'
    BY <1>1, AnsweringGrows DEF ScanInv, Divided
  <2> QED
    BY <1>1, <2>1 DEF ScanInv, Divided
<1>5. PageIsFirstOfUnion' /\ ScanIsFaithful'
  BY <1>1, <1>2 DEF ScanInv, PageIsFirstOfUnion, ScanIsFaithful, Obtained
<1> QED
  BY <1>2, <1>3, <1>4, <1>5 DEF ScanInv

LEMMA ScanFail == ScanInv /\ Fail => ScanInv'
<1> SUFFICES ASSUME ScanInv, Fail PROVE ScanInv'
  OBVIOUS
<1>1. /\ scan = "reading" /\ scan' = "between"
      /\ UNCHANGED <<row, query, cursor, turn, streams, items, seen, page, steady>>
  BY DEF Fail
<1>2. ScanTyped' /\ Fresh' /\ Reading'
  BY <1>1 DEF ScanInv, ScanTyped, Fresh, Reading
<1>3. Divided'
  <2>1. steady' \subseteq Answering(query)'
    BY <1>1, AnsweringGrows DEF ScanInv, Divided
  <2> QED
    BY <1>1, <2>1 DEF ScanInv, Divided
<1>4. PageIsFirstOfUnion' /\ ScanIsFaithful'
  BY <1>1 DEF ScanInv, PageIsFirstOfUnion, ScanIsFaithful, Obtained
<1> QED
  BY <1>2, <1>3, <1>4 DEF ScanInv

LEMMA ScanLeave == ScanInv /\ Leave => ScanInv'
<1> SUFFICES ASSUME ScanInv, Leave PROVE ScanInv'
  OBVIOUS
<1>1. /\ scan' = "idle" /\ cursor' = NoCursor /\ items' = << >> /\ page' = NoPage
      /\ steady' = {} /\ seen' = {} /\ turn' = 1
  BY DEF Leave
<1>2. ScanTyped'
  BY <1>1 DEF ScanTyped, NoPage
<1> QED
  BY <1>1, <1>2
     DEF ScanInv, Fresh, Divided, Reading, PageIsFirstOfUnion, ScanIsFaithful, Obtained

-----------------------------------------------------------------------------
\* A provider answers: what it selected after the cursor joins what was seen.
LEMMA StreamsGrow ==
    ASSUME NEW S \in Seq(Seq(Possible)), NEW Z, NEW U, NEW n \in Nat \ {0}, NEW sort,
           Streams(S, Z, U, n, sort), U \subseteq Possible,
           NEW A \in SUBSET Possible, U \cap A = {},
           NEW B, B = FirstOf(A, n, sort),
           NEW T, T = IF B = << >> THEN S ELSE Append(S, B)
    PROVE  T \in Seq(Seq(Possible)) /\ \E Y : Streams(T, Y, U \cup A, n, sort)
<1>1. IsFiniteSet(A) /\ Ordered(A, sort)
  BY PartIs
<1>2. /\ B \in Seq(A)
      /\ Len(B) = IF Cardinality(A) < n THEN Cardinality(A) ELSE n
  BY <1>1, FirstOfIs
<1>3. CASE B = << >>
  <2>1. Cardinality(A) = 0
    BY <1>1, <1>2, <1>3, FS_CardinalityType
  <2>2. A = {}
    BY <1>1, <2>1, FS_EmptySet
  <2>3. T = S /\ U \cup A = U
    BY <1>3, <2>2
  <2> QED
    BY <2>3
<1>4. CASE B # << >>
  <2> DEFINE k == Len(S) + 1
             Y == [i \in 1..k |-> IF i = k THEN A ELSE Z[i]]
  <2>1. T = Append(S, B) /\ B \in Seq(Possible)
    BY <1>2, <1>4
  <2>2. /\ T \in Seq(Seq(Possible)) /\ DOMAIN T = 1..k /\ T[k] = B
        /\ \A i \in DOMAIN S : i \in 1..k /\ i # k /\ T[i] = S[i]
        /\ DOMAIN S = 1..Len(S) /\ k = Len(S) + 1 /\ Len(S) \in Nat
    BY <2>1
  <2>3. DOMAIN Y = 1..k /\ Y[k] = A /\ \A i \in 1..k : i # k => Y[i] = Z[i] /\ i \in DOMAIN S
    <3> HIDE DEF k
    <3>1. k \in 1..k /\ \A i \in 1..k : i # k => i \in DOMAIN S
      BY <2>2
    <3> QED
      BY <3>1
  <2> HIDE DEF Y, k
  <2>4. /\ \A i \in DOMAIN S : Z[i] \subseteq U /\ S[i] = FirstOf(Z[i], n, sort)
        /\ \A e \in U : \E i \in DOMAIN S : e \in Z[i]
        /\ \A i, j \in DOMAIN S : i # j => Z[i] \cap Z[j] = {}
    BY DEF Streams
  <2>5. k \in 1..k
    BY <2>2
  <2>6. ASSUME NEW i \in DOMAIN T
        PROVE  Y[i] \subseteq U \cup A /\ T[i] = FirstOf(Y[i], n, sort)
    <3>1. CASE i = k
      BY <2>2, <2>3, <3>1
    <3>2. CASE i # k
      <4>1. i \in DOMAIN S /\ Y[i] = Z[i] /\ T[i] = S[i]
        BY <2>2, <2>3, <3>2
      <4> QED
        BY <2>4, <4>1
    <3> QED
      BY <3>1, <3>2
  <2>7. \A e \in U \cup A : \E i \in DOMAIN T : e \in Y[i]
    BY <2>2, <2>3, <2>4, <2>5
  <2>8. \A i, j \in DOMAIN T : i # j => Y[i] \cap Y[j] = {}
    <3>1. ASSUME NEW i \in DOMAIN T
          PROVE  \/ i = k /\ Y[i] = A
                 \/ i \in DOMAIN S /\ Y[i] = Z[i] /\ Z[i] \subseteq U
      BY <2>2, <2>3, <2>4
    <3>2. ASSUME NEW i \in DOMAIN T, NEW j \in DOMAIN T, i # j
          PROVE  Y[i] \cap Y[j] = {}
      <4>1. CASE i = k
        <5>1. Y[i] = A /\ Y[j] \subseteq U
          BY <2>3, <3>1, <3>2, <4>1
        <5> QED
          BY <5>1
      <4>2. CASE j = k
        <5>1. Y[j] = A /\ Y[i] \subseteq U
          BY <2>3, <3>1, <3>2, <4>2
        <5> QED
          BY <5>1
      <4>3. CASE i # k /\ j # k
        <5>1. i \in DOMAIN S /\ j \in DOMAIN S /\ Y[i] = Z[i] /\ Y[j] = Z[j]
          BY <3>1, <4>3
        <5> QED
          BY <2>4, <3>2, <5>1
      <4> QED
        BY <4>1, <4>2, <4>3
    <3> QED
      BY <3>2
  <2>9. Streams(T, Y, U \cup A, n, sort)
    BY <2>2, <2>3, <2>6, <2>7, <2>8 DEF Streams
  <2> QED
    BY <2>2, <2>9
<1> QED
  BY <1>3, <1>4

LEMMA ScanAsk == ScanInv /\ AskProvider => ScanInv'
<1> SUFFICES ASSUME ScanInv, AskProvider PROVE ScanInv'
  OBVIOUS
<1> DEFINE p == Providers[turn]
           A == AfterCursor(Selected(query, p), cursor, query.sort)
           n == ProviderLimit(query)
<1>1. /\ scan = "reading" /\ turn \in 1..3 /\ p \in DOMAIN Owned
      /\ turn' = turn + 1 /\ seen' = seen \cup A
      /\ UNCHANGED <<row, scan, query, cursor, items, page, steady>>
      /\ streams' = IF ListEvents(query, p) = << >> THEN streams
                                                  ELSE Append(streams, ListEvents(query, p))
      /\ ListEvents(query, p) = FirstOf(A, n, query.sort)
  BY OwnedIs DEF AskProvider, ScanInv, ScanTyped, ListEvents
<1>2. query.limit \in Nat \ {0} /\ n \in Nat \ {0}
  BY <1>1 DEF ScanInv, ScanTyped, ProviderLimit
<1>3. /\ streams \in Seq(Seq(Possible)) /\ seen \subseteq Possible
      /\ \A e \in seen : Asked(e) /\ Behind(e)
      /\ \E Z : Streams(streams, Z, seen, n, query.sort)
      /\ \A e \in steady : Asked(e) /\ Behind(e) => e \in seen
  BY <1>1 DEF ScanInv, ScanTyped, Reading
<1>4. /\ A \subseteq Possible
      /\ \A e \in A : e.type \in Owned[p] /\ Behind(e)
      /\ \A e \in Selected(query, p) : Behind(e) => e \in A
  BY <1>1, SelectedIs DEF AfterCursor, Behind
<1>5. ASSUME NEW e PROVE Asked(e)' <=> Asked(e) \/ e.type \in Owned[p]
  BY <1>1 DEF Asked
<1>6. ASSUME NEW e PROVE Behind(e)' <=> Behind(e)
  BY <1>1 DEF Behind
<1>7. ASSUME NEW e, e.type \in Owned[p] PROVE ~Asked(e)
  BY <1>1, <1>7, OwnedIs DEF Asked
<1>8. seen \cap A = {}
  BY <1>3, <1>4, <1>7
<1> HIDE DEF A, p, n
<1>9. streams' \in Seq(Seq(Possible)) /\ \E Y : Streams(streams', Y, seen', n, query.sort)
  BY <1>1, <1>2, <1>3, <1>4, <1>8, StreamsGrow
<1>10. \A e \in seen' : Asked(e)' /\ Behind(e)'
  BY <1>1, <1>3, <1>4, <1>5, <1>6
<1>11. ASSUME NEW e \in steady, Asked(e)', Behind(e)' PROVE e \in seen'
  <2>1. CASE Asked(e)
    BY <1>1, <1>3, <1>6, <1>11, <2>1
  <2>2. CASE e.type \in Owned[p]
    <3>1. PICK o \in DOMAIN Owned : e \in Selected(query, o)
      BY DEF ScanInv, Divided, Answering
    <3>2. e.type \in Owned[o]
      BY <3>1, SelectedIs
    <3>3. o = p
      BY <1>1, <2>2, <3>2, OwnedIs
    <3> QED
      BY <1>1, <1>4, <1>6, <1>11, <3>1, <3>3
  <2> QED
    BY <1>5, <1>11, <2>1, <2>2
<1>12. Reading'
  <2>1. ProviderLimit(query)' = n
    BY <1>1 DEF ProviderLimit, n
  <2> QED
    BY <1>1, <1>9, <1>10, <1>11, <2>1 DEF Reading
<1>13. ScanTyped' /\ Fresh'
  BY <1>1, <1>4 DEF ScanInv, ScanTyped, Fresh
<1>14. Divided'
  <2>1. steady' \subseteq Answering(query)'
    BY <1>1, AnsweringGrows DEF ScanInv, Divided
  <2> QED
    BY <1>1, <2>1 DEF ScanInv, Divided
<1>15. PageIsFirstOfUnion' /\ ScanIsFaithful'
  BY <1>1 DEF ScanInv, PageIsFirstOfUnion, ScanIsFaithful, Obtained
<1> QED
  BY <1>12, <1>13, <1>14, <1>15 DEF ScanInv

-----------------------------------------------------------------------------
\* The page that is returned, with all the providers were seen to have.
LEMMA ScanReturn == ScanInv /\ ReturnPage => ScanInv'
<1> SUFFICES ASSUME ScanInv, ReturnPage PROVE ScanInv'
  OBVIOUS
<1> DEFINE n == query.limit
           sort == query.sort
           R == Page(FirstOf(seen, n + 1, sort), n)
           F == FirstOf(seen, n, sort)
<1>1. /\ scan = "reading" /\ turn = 4
      /\ UNCHANGED <<row, query, turn, streams, seen, steady>>
  BY OwnedIs DEF ReturnPage, ScanInv, ScanTyped
<1>2. /\ n \in Nat \ {0} /\ seen \subseteq Possible
      /\ items \in Seq(Possible)
      /\ cursor = NoCursor \/ \E l \in Possible : cursor = Position(l)
  BY <1>1 DEF ScanInv, ScanTyped
<1>3. IsFiniteSet(seen) /\ Ordered(seen, sort) /\ \A e \in seen : e.at # 0
  BY <1>2, PartIs
<1>4. Merge(streams, ProviderLimit(query), sort) = FirstOf(seen, n + 1, sort)
  <2>1. PICK Z : Streams(streams, Z, seen, n + 1, sort)
    BY <1>1 DEF ScanInv, Reading, ProviderLimit
  <2>2. n + 1 \in Nat
    BY <1>2
  <2>3. ProviderLimit(query) = n + 1
    BY DEF ProviderLimit
  <2> QED
    BY <1>3, <2>1, <2>2, <2>3, MergeIsFirstOf
<1>5. /\ page' = [items |-> R.items, next |-> R.next, from |-> cursor, of |-> seen]
      /\ items' = items \o R.items
      /\ cursor' = R.next
      /\ scan' = IF R.next = NoCursor THEN "done" ELSE "between"
  BY <1>4 DEF ReturnPage
<1>6. /\ R.items = F
      /\ Cardinality(seen) > n => n \in DOMAIN F /\ R.next = Position(F[n])
      /\ ~(Cardinality(seen) > n) => R.next = NoCursor
  <2>1. R = Page(FirstOf(seen, n + 1, sort), n) /\ F = FirstOf(seen, n, sort)
    OBVIOUS
  <2>2. n \in Nat \ {0} /\ IsFiniteSet(seen) /\ Ordered(seen, sort)
        /\ \A e \in seen : e.at # 0
    BY <1>2, <1>3
  <2> HIDE DEF n, sort, R, F
  <2> QED
    BY <2>1, <2>2, PageIsFirst
<1>7. /\ R.next = NoCursor => ItemsOf(R) = seen
      /\ R.next # NoCursor =>
            \E l \in seen : /\ R.next = Position(l)
                            /\ ItemsOf(R) = {e \in seen : ~Before(l, e, sort)}
  <2>1. R = Page(FirstOf(seen, n + 1, sort), n) /\ F = FirstOf(seen, n, sort)
    OBVIOUS
  <2>2. n \in Nat \ {0} /\ IsFiniteSet(seen) /\ Ordered(seen, sort)
        /\ \A e \in seen : e.at # 0
    BY <1>2, <1>3
  <2> HIDE DEF n, sort, R, F
  <2> QED
    BY <2>1, <2>2, PageHolds
<1>8. /\ F \in Seq(seen)
      /\ \A i \in DOMAIN F : F[i] \in seen /\ Rank(seen, F[i], sort) = i - 1
  BY <1>2, <1>3, FirstOfIs
<1>9. ItemsOf(R) = {F[i] : i \in DOMAIN F}
  BY <1>6 DEF ItemsOf
<1> HIDE DEF R, F
<1>10. Ordered(Possible, sort)
  BY PossibleOrdered
<1>11. \A e \in seen : cursor # NoCursor => Before(cursor, e, sort)
  BY <1>1 DEF ScanInv, Reading, Behind
\* What was received before comes before all of the page.
<1>12. ASSUME NEW i \in DOMAIN items, NEW e \in seen
       PROVE  Before(items[i], e, sort) /\ ~Before(e, items[i], sort)
  <2>1. cursor # NoCursor
    BY <1>1 DEF ScanInv, Fresh
  <2>2. PICK l \in Possible : cursor = Position(l)
    BY <1>2, <2>1
  <2>3. items[i] \in Possible /\ e \in Possible
    BY <1>2
  <2>4. Before(l, e, sort)
    BY <1>11, <2>1, <2>2, BeforePosition
  <2>5. ~Before(l, items[i], sort)
    BY <2>1, <2>2, BeforePosition DEF ScanInv, Divided
  <2>6. Before(items[i], e, sort)
    BY <1>10, <2>3, <2>4, <2>5, Zenon DEF Ordered, Total, Transitive
  <2>7. ~Before(e, items[i], sort)
    BY <1>10, <2>3, <2>6, Zenon DEF Ordered, Irreflexive, Transitive
  <2> QED
    BY <2>6, <2>7
<1>13. /\ items' = items \o F /\ items' \in Seq(Possible) /\ F \in Seq(Possible)
       /\ DOMAIN items' = 1..(Len(items) + Len(F))
       /\ Len(items) \in Nat /\ Len(F) \in Nat
       /\ DOMAIN items = 1..Len(items) /\ DOMAIN F = 1..Len(F)
       /\ \A i \in DOMAIN items : items'[i] = items[i]
       /\ \A i \in DOMAIN items' : ~(i <= Len(items)) =>
              /\ i - Len(items) \in DOMAIN F
              /\ items'[i] = F[i - Len(items)]
  <2>1. items' = items \o F
    BY <1>5, <1>6
  <2>2. F \in Seq(Possible)
    BY <1>2, <1>8
  <2> QED
    BY <1>2, <2>1, <2>2
<1>14. ASSUME NEW i \in DOMAIN items', NEW j \in DOMAIN items', i < j
       PROVE  Before(items'[i], items'[j], sort)
  <2>1. i \in Nat /\ j \in Nat
    BY <1>13
  <2>2. CASE j <= Len(items)
    <3>1. i \in DOMAIN items /\ j \in DOMAIN items
      BY <1>13, <1>14, <2>2
    <3>2. Before(items[i], items[j], sort)
      BY <1>14, <3>1 DEF ScanInv, ScanIsFaithful
    <3> QED
      BY <1>13, <3>1, <3>2
  <2>3. CASE i <= Len(items) /\ ~(j <= Len(items))
    <3>1. i \in DOMAIN items /\ items'[j] \in seen
      BY <1>8, <1>13, <2>3
    <3> QED
      BY <1>12, <1>13, <3>1
  <2>4. CASE ~(i <= Len(items))
    <3> DEFINE x == i - Len(items)
               y == j - Len(items)
    <3>1. x \in DOMAIN F /\ y \in DOMAIN F /\ items'[i] = F[x] /\ items'[j] = F[y]
      BY <1>13, <1>14, <2>1, <2>4
    <3>2. x \in Nat /\ y \in Nat /\ x < y
      BY <1>13, <1>14, <2>1, <3>1
    <3> HIDE DEF x, y
    <3>3. F[x] \in seen /\ F[y] \in seen
          /\ Rank(seen, F[x], sort) < Rank(seen, F[y], sort)
      BY <1>8, <3>1, <3>2
    <3> QED
      BY <1>3, <3>1, <3>3, RankOrder
  <2> QED
    BY <2>2, <2>3, <2>4
<1>15. Obtained' = Obtained \cup ItemsOf(R)
  <2>1. ASSUME NEW i \in DOMAIN items' PROVE items'[i] \in Obtained \cup ItemsOf(R)
    BY <1>9, <1>13 DEF Obtained
  <2>2. ASSUME NEW i \in DOMAIN items PROVE items[i] \in Obtained'
    BY <1>13 DEF Obtained
  <2>3. ASSUME NEW i \in DOMAIN F PROVE F[i] \in Obtained'
    <3>1. /\ i + Len(items) \in DOMAIN items' /\ ~(i + Len(items) <= Len(items))
          /\ (i + Len(items)) - Len(items) = i
      BY <1>13
    <3>2. items'[i + Len(items)] = F[i]
      BY <1>13, <3>1
    <3> QED
      BY <3>1, <3>2 DEF Obtained
  <2> QED
    BY <1>9, <2>1, <2>2, <2>3 DEF Obtained
\* The whole of steady that is not received lies behind the next cursor.
<1>16. ASSUME NEW e \in steady, e \notin Obtained'
       PROVE  R.next # NoCursor /\ Before(R.next, e, sort)
  <2>1. e \in steady \ Obtained
    BY <1>15, <1>16
  <2>2. Behind(e)
    BY <2>1 DEF ScanInv, ScanIsFaithful, Behind
  <2>3. Asked(e)
    BY <1>1, AskedAll DEF ScanInv, Divided
  <2>4. e \in seen /\ e \notin ItemsOf(R)
    BY <1>1, <1>15, <1>16, <2>2, <2>3 DEF ScanInv, Reading
  <2> QED
    BY <1>7, <2>4, BeforePosition
<1>17. ASSUME NEW i \in DOMAIN items', R.next # NoCursor
       PROVE  ~Before(R.next, items'[i], sort)
  <2>1. PICK l \in seen : /\ R.next = Position(l)
                          /\ ItemsOf(R) = {e \in seen : ~Before(l, e, sort)}
    BY <1>7, <1>17
  <2>2. ~Before(l, items'[i], sort)
    <3>1. CASE i <= Len(items)
      BY <1>12, <1>13, <3>1
    <3>2. CASE ~(i <= Len(items))
      <4>1. items'[i] \in ItemsOf(R)
        BY <1>9, <1>13, <3>2
      <4> QED
        BY <2>1, <4>1
    <3> QED
      BY <3>1, <3>2
  <2> QED
    BY <2>1, <2>2, BeforePosition
<1>18. PageIsFirstOfUnion'
  <2>1. page'.items = F /\ page'.next = R.next /\ page'.of = seen
    BY <1>5, <1>6
  <2>2. R.next = IF Cardinality(seen) > n THEN Position(F[n]) ELSE NoCursor
    BY <1>6
  <2> QED
    BY <1>1, <2>1, <2>2 DEF PageIsFirstOfUnion, F
<1>19. ScanIsFaithful'
  BY <1>1, <1>5, <1>14, <1>16 DEF ScanIsFaithful
<1>20. Divided'
  <2>1. steady' \subseteq Answering(query)'
    BY <1>1, AnsweringGrows DEF ScanInv, Divided
  <2> QED
    BY <1>1, <1>5, <1>17, <2>1 DEF Divided
<1>21. ScanTyped' /\ Fresh' /\ Reading'
  <2>1. cursor' = NoCursor \/ \E l \in Possible : cursor' = Position(l)
    BY <1>2, <1>5, <1>7
  <2>2. page'.of \subseteq Possible
    BY <1>2, <1>5
  <2> QED
    BY <1>1, <1>2, <1>5, <1>13, <2>1, <2>2 DEF ScanTyped, Fresh, Reading
<1> QED
  BY <1>18, <1>19, <1>20, <1>21 DEF ScanInv

LEMMA ScanStutter == ScanInv /\ UNCHANGED vars => ScanInv'
<1> SUFFICES ASSUME ScanInv, UNCHANGED vars PROVE ScanInv'
  OBVIOUS
<1>1. UNCHANGED <<row, scan, query, cursor, turn, streams, items, seen, page, steady>>
  BY DEF vars
<1>2. steady' \subseteq Answering(query)'
  BY <1>1, AnsweringGrows DEF ScanInv, Divided
<1>3. ScanTyped' /\ Fresh' /\ PageIsFirstOfUnion' /\ ScanIsFaithful'
  BY <1>1 DEF ScanInv, ScanTyped, Fresh, PageIsFirstOfUnion, ScanIsFaithful, Obtained
<1>4. Divided'
  BY <1>1, <1>2 DEF ScanInv, Divided
<1>5. Reading'
  BY <1>1 DEF ScanInv, Reading, Asked, Behind, ProviderLimit
<1> QED
  BY <1>3, <1>4, <1>5 DEF ScanInv

LEMMA ScanStep == ScanInv /\ [Next]_vars => ScanInv'
BY ScanCommit, ScanPrune, ScanListTimeline, ScanNextPage, ScanAsk, ScanFail,
   ScanReturn, ScanLeave, ScanStutter DEF Next

LEMMA ScanHolds == Spec => []ScanInv
BY ScanInit, ScanStep, PTL DEF Spec

(* For any rows and requests: the page that composer.list_events merges    *)
(* from three streams, each cut off at limit + 1 and read in a transaction *)
(* of its own, is the first of all the readers had, and next_cursor is set *)
(* exactly when they had more.                                             *)
THEOREM TimelinePageIsFirst == Spec => []PageIsFirstOfUnion
<1>1. ScanInv => PageIsFirstOfUnion
  BY DEF ScanInv
<1> QED
  BY <1>1, ScanHolds, PTL

(* For any rows and requests, whatever is committed and pruned between the *)
(* pages and between the readers of one page: a client that follows        *)
(* next_cursor receives events in order, none twice, and every one that    *)
(* was there all the time.                                                 *)
THEOREM TimelineScanIsFaithful == Spec => []ScanIsFaithful
<1>1. ScanInv => ScanIsFaithful
  BY DEF ScanInv
<1> QED
  BY <1>1, ScanHolds, PTL

-----------------------------------------------------------------------------
(* The events of the console.                                              *)

Cursors == Events \cup {NoCursor}
Message == {Ready} \cup {LiveEvent(e) : e \in Events}
Reply == [items : Seq(Events), next : Cursors]
Request == [stage : {"due", "none", "asked", "answered"}, cursor : Cursors, reply : Reply]

LEMMA SizesType ==
    /\ Cap \in Nat \ {0} /\ HistoryPage \in Nat \ {0} /\ RecoveryPage \in Nat \ {0}
    /\ Overlap \in Nat
BY ConsoleAssumption DEF ConsoleAssumption

LEMMA EventType ==
    ASSUME NEW e \in Events
    PROVE  e.at \in Nat \ {0} /\ e.id \in Seq(Nat) /\ e # NoCursor /\ Position(e) = e
BY ConsoleAssumption DEF ConsoleAssumption, NoCursor, Position

LEMMA EventSets ==
    ASSUME NEW S \in SUBSET Events
    PROVE  IsFiniteSet(S) /\ Cardinality(S) \in Nat /\ \A sort : Ordered(S, sort)
<1>1. IsFiniteSet(S) /\ Cardinality(S) \in Nat
  BY ConsoleAssumption, FS_Subset, FS_CardinalityType DEF ConsoleAssumption
<1>2. Identified(S)
  BY ConsoleAssumption DEF ConsoleAssumption, Identified
<1> QED
  BY <1>1, <1>2, IdentifiedOrdered

LEMMA EventOrder ==
    ASSUME NEW sort, NEW e \in Events, NEW f \in Events, NEW g \in Events
    PROVE  /\ ~Before(e, e, sort)
           /\ Before(e, f, sort) /\ Before(f, g, sort) => Before(e, g, sort)
           /\ e = f \/ Before(e, f, sort) \/ Before(f, e, sort)
BY EventSets DEF Ordered, Irreflexive, Transitive, Total

LEMMA Reverse ==
    ASSUME NEW x, NEW y
    PROVE  Before(x, y, "desc") <=> Before(y, x, "asc")
BY DEF Before

-----------------------------------------------------------------------------
(* The store and its cap.                                                  *)

LEMMA TopSize ==
    ASSUME NEW S, IsFiniteSet(S), NEW sort, Ordered(S, sort), NEW k \in Nat,
           Cardinality(S) >= k
    PROVE  Cardinality({e \in S : Rank(S, e, sort) < k}) = k
<1> DEFINE T == {e \in S : Rank(S, e, sort) < k}
           f == [e \in T |-> Rank(S, e, sort)]
           K == 0..(k - 1)
<1>1. Cardinality(S) \in Nat /\ \A e \in S : Rank(S, e, sort) \in 0..(Cardinality(S) - 1)
  BY FS_CardinalityType, RankType
<1>2. IsFiniteSet(K) /\ Cardinality(K) = k
  BY FS_Interval
<1>3. f \in Injection(T, K)
  <2>1. \A e \in T : Rank(S, e, sort) \in K
    BY <1>1
  <2>2. \A e, g \in T : Rank(S, e, sort) = Rank(S, g, sort) => e = g
    BY RankOrder
  <2> QED
    BY <2>1, <2>2 DEF Injection, IsInjective
<1>4. f \in Surjection(T, K)
  <2>1. f \in [T -> K]
    BY <1>3 DEF Injection
  <2>2. ASSUME NEW i \in K PROVE \E e \in T : f[e] = i
    <3>1. i \in 0..(Cardinality(S) - 1) /\ i < k
      BY <1>1
    <3>2. PICK e \in S : Rank(S, e, sort) = i
      BY <3>1, RankOnto
    <3> QED
      BY <3>1, <3>2
  <2> QED
    BY <2>1, <2>2 DEF Surjection
<1>5. IsFiniteSet(T) /\ Cardinality(T) = Cardinality(K)
  <2> HIDE DEF f, T, K
  <2> QED
    BY <1>2, <1>3, <1>4, FS_Injection
<1> QED
  BY <1>2, <1>5

Below(S, e) == Cardinality(S) = Cap /\ \A s \in S : Before(e, s, "asc")

LEMMA UpsertType ==
    ASSUME NEW S, NEW N
    PROVE  UpsertMany(S, N) \subseteq S \cup N
BY DEF UpsertMany

\* What the cap drops is older than all of a full store.
LEMMA UpsertDrops ==
    ASSUME NEW S \in SUBSET Events, NEW N \in SUBSET Events,
           NEW x \in S \cup N, x \notin UpsertMany(S, N)
    PROVE  Below(UpsertMany(S, N), x)
<1> DEFINE all == S \cup N
           T == {e \in all : Rank(all, e, "desc") < Cap}
<1>1. UpsertMany(S, N) = T
  BY DEF UpsertMany
<1>2. all \in SUBSET Events /\ x \in all
  OBVIOUS
<1> HIDE DEF all
<1>3. IsFiniteSet(all) /\ Cardinality(all) \in Nat /\ Ordered(all, "desc")
  BY <1>2, EventSets
<1>4. \A e \in all : Rank(all, e, "desc") \in 0..(Cardinality(all) - 1)
  BY <1>3, RankType
<1>5. Rank(all, x, "desc") >= Cap
  BY <1>1, <1>2, <1>4, SizesType
<1>6. Cardinality(T) = Cap
  <2>1. Cardinality(all) >= Cap /\ Cap \in Nat
    BY <1>2, <1>3, <1>4, <1>5, SizesType
  <2> QED
    BY <1>3, <2>1, TopSize
<1>7. ASSUME NEW s \in T PROVE Before(x, s, "asc")
  <2>1. s \in all /\ Rank(all, s, "desc") < Rank(all, x, "desc")
    BY <1>2, <1>4, <1>5, SizesType
  <2>2. Before(s, x, "desc")
    BY <1>2, <1>3, <2>1, RankOrder
  <2> QED
    BY <2>2, Reverse
<1> QED
  BY <1>1, <1>6, <1>7 DEF Below

\* What was older than all of a full store stays so.
LEMMA UpsertKeepsBelow ==
    ASSUME NEW S \in SUBSET Events, NEW N \in SUBSET Events, NEW e \in Events,
           Below(S, e)
    PROVE  Below(UpsertMany(S, N), e)
<1> DEFINE all == S \cup N
           T == {x \in all : Rank(all, x, "desc") < Cap}
<1>1. UpsertMany(S, N) = T
  BY DEF UpsertMany
<1>2. all \in SUBSET Events /\ S \in SUBSET all
  OBVIOUS
<1> HIDE DEF all
<1>3. IsFiniteSet(all) /\ Cardinality(all) \in Nat /\ Ordered(all, "desc")
  BY <1>2, EventSets
<1>4. Cardinality(T) = Cap
  <2>1. Cardinality(all) >= Cap /\ Cap \in Nat
    BY <1>2, <1>3, FS_Subset, SizesType DEF Below
  <2> QED
    BY <1>3, <2>1, TopSize
<1>5. ASSUME NEW t \in T PROVE Before(e, t, "asc")
  <2>1. SUFFICES ASSUME ~Before(e, t, "asc") PROVE FALSE
    OBVIOUS
  <2>2. t \in Events /\ (t = e \/ Before(t, e, "asc"))
    BY <1>2, <2>1, EventOrder
  <2>3. ASSUME NEW s \in S PROVE Before(s, t, "desc")
    <3>1. s \in Events /\ Before(e, s, "asc")
      BY DEF Below
    <3>2. Before(t, s, "asc")
      BY <2>2, <3>1, EventOrder
    <3> QED
      BY <3>2, Reverse
  <2> DEFINE P == {f \in all : Before(f, t, "desc")}
  <2>4. S \in SUBSET P /\ P \in SUBSET Events
    BY <1>2, <2>3
  <2>5. Rank(all, t, "desc") = Cardinality(P)
    BY DEF Rank
  <2> HIDE DEF P
  <2>6. Cardinality(S) <= Cardinality(P)
    BY <2>4, EventSets, FS_Subset
  <2>7. Cardinality(P) \in Nat /\ Cardinality(P) < Cap
    BY <2>4, <2>5, EventSets
  <2> QED
    BY <2>6, <2>7, SizesType DEF Below
<1> QED
  BY <1>1, <1>4, <1>5 DEF Below

LEMMA NoteProcessedType ==
    ASSUME NEW last \in Cursors, NEW S \in SUBSET Events
    PROVE  NoteProcessed(last, S) \in Cursors
<1> DEFINE all == {Position(e) : e \in S} \cup ({last} \ {NoCursor})
<1>1. all \in SUBSET Events
  BY EventType DEF Cursors
<1>2. NoteProcessed(last, S) =
        IF all = {} THEN NoCursor
        ELSE CHOOSE p \in all : \A q \in all \ {p} : Before(q, p, "asc")
  BY DEF NoteProcessed
<1> HIDE DEF all
<1>3. ASSUME all # {} PROVE \E p \in all : \A q \in all \ {p} : Before(q, p, "asc")
  <2>1. IsFiniteSet(all) /\ Cardinality(all) \in Nat /\ Ordered(all, "asc")
    BY <1>1, EventSets
  <2>2. Cardinality(all) # 0
    BY <1>3, <2>1, FS_EmptySet
  <2>3. PICK p \in all : Rank(all, p, "asc") = Cardinality(all) - 1
    <3>1. Cardinality(all) - 1 \in 0..(Cardinality(all) - 1)
      BY <2>1, <2>2
    <3> QED
      BY <2>1, <3>1, RankOnto
  <2>4. ASSUME NEW q \in all \ {p} PROVE Before(q, p, "asc")
    <3>1. Rank(all, q, "asc") \in 0..(Cardinality(all) - 1)
      BY <2>1, RankType
    <3>2. Rank(all, q, "asc") # Rank(all, p, "asc")
      BY <2>1, RankOrder
    <3>3. Rank(all, q, "asc") < Rank(all, p, "asc")
      BY <2>1, <2>3, <3>1, <3>2
    <3> QED
      BY <2>1, <3>3, RankOrder
  <2> QED
    BY <2>4
<1> QED
  BY <1>1, <1>2, <1>3, Zenon DEF Cursors

-----------------------------------------------------------------------------
(* Replies and messages.                                                   *)

\* The page p of n events of A.
PageOf(p, A, sort, n) ==
    /\ p \in Reply
    /\ ItemsOf(p) \subseteq A
    /\ \A e \in A : e \in ItemsOf(p) <=> Rank(A, e, sort) < n
    /\ p.next = NoCursor => A \subseteq ItemsOf(p)
    /\ p.next # NoCursor =>
          /\ Cardinality(A) > n
          /\ p.next \in A /\ Rank(A, p.next, sort) = n - 1
          /\ \A e \in A : e \in ItemsOf(p) <=> ~Before(p.next, e, sort)

LEMMA ReplyIs ==
    ASSUME NEW S \in SUBSET Events, NEW from \in Cursors, NEW sort,
           NEW n \in Nat \ {0}
    PROVE  /\ AfterCursor(S, from, sort) \subseteq S
           /\ PageOf(ServedPage(S, from, sort, n), AfterCursor(S, from, sort), sort, n)
<1> DEFINE A == AfterCursor(S, from, sort)
           P == ServedPage(S, from, sort, n)
<1>1. A \subseteq S
  BY DEF AfterCursor
<1>2. IsFiniteSet(A) /\ Ordered(A, sort) /\ A \subseteq Events
  BY <1>1, EventSets
<1> HIDE DEF A
<1>3. P = Page(FirstOf(A, n + 1, sort), n)
  BY DEF ServedPage, A
<1>4. /\ P.items = FirstOf(A, n, sort)
      /\ Cardinality(A) > n => n \in DOMAIN FirstOf(A, n, sort)
                               /\ P.next = Position(FirstOf(A, n, sort)[n])
      /\ ~(Cardinality(A) > n) => P.next = NoCursor
  BY <1>2, <1>3, PageIs
<1>5. /\ FirstOf(A, n, sort) \in Seq(A)
      /\ \A i \in DOMAIN FirstOf(A, n, sort) : FirstOf(A, n, sort)[i] \in A
  BY <1>2, FirstOfIs
<1>6. P = [items |-> P.items, next |-> P.next]
  BY <1>3 DEF Page
<1> HIDE DEF P
<1>7. \A e \in A : e.at # 0
  BY <1>2, EventType
<1> DEFINE held == ItemsOf(P)
<1>8. /\ held = {e \in A : Rank(A, e, sort) < n}
      /\ P.next = NoCursor => held = A
      /\ P.next # NoCursor =>
            /\ Cardinality(A) > n
            /\ \E l \in A : /\ P.next = Position(l)
                            /\ Rank(A, l, sort) = n - 1
                            /\ held = {e \in A : ~Before(l, e, sort)}
  BY <1>2, <1>3, <1>7, PageHolds
<1> HIDE DEF held
<1>9. P.items \in Seq(Events) /\ P.next \in Cursors
  <2>1. P.items \in Seq(Events)
    BY <1>2, <1>4, <1>5
  <2>2. P.next \in Cursors
    <3>1. \A l \in A : Position(l) \in Events
      BY <1>2, EventType
    <3> QED
      BY <1>8, <3>1 DEF Cursors
  <2> QED
    BY <2>1, <2>2
<1>10. P \in Reply
  BY <1>6, <1>9 DEF Reply
<1>11. P.next # NoCursor =>
          /\ Cardinality(A) > n
          /\ P.next \in A /\ Rank(A, P.next, sort) = n - 1
          /\ held = {e \in A : ~Before(P.next, e, sort)}
  <2>1. \A l \in A : Position(l) = l
    BY <1>2, EventType
  <2> QED
    BY <1>8, <2>1
<1>12. held \subseteq A
  BY <1>8
<1> QED
  BY <1>1, <1>8, <1>10, <1>11, <1>12 DEF held, A, P, PageOf

LEMMA ServedType ==
    ASSUME NEW S \in SUBSET Events, NEW from \in Cursors, NEW sort,
           NEW n \in Nat \ {0}
    PROVE  ServedPage(S, from, sort, n) \in Reply
BY ReplyIs DEF PageOf

\* The events among the messages of w.
Heard(w) == {w[i].event : i \in {j \in DOMAIN w : w[j] # Ready}}
Told(w) == Ready \in {w[i] : i \in DOMAIN w}

LEMMA MessageKinds ==
    /\ Ready \in Message /\ Ready.kind = "connection.ready"
    /\ \A e : LiveEvent(e).kind = "timeline.event" /\ LiveEvent(e).event = e
    /\ \A e : LiveEvent(e) # Ready
    /\ \A m \in Message : m = Ready \/ \E e \in Events : m = LiveEvent(e)
BY DEF Message, Ready, LiveEvent

LEMMA HeardAppend ==
    ASSUME NEW w \in Seq(Message), NEW e \in Events
    PROVE  /\ Append(w, LiveEvent(e)) \in Seq(Message)
           /\ Heard(Append(w, LiveEvent(e))) = Heard(w) \cup {e}
           /\ Told(Append(w, LiveEvent(e))) <=> Told(w)
<1> DEFINE v == Append(w, LiveEvent(e))
<1>1. LiveEvent(e) \in Message /\ LiveEvent(e).event = e /\ LiveEvent(e) # Ready
  BY MessageKinds DEF Message
<1>2. /\ v \in Seq(Message) /\ DOMAIN v = DOMAIN w \cup {Len(w) + 1}
      /\ Len(w) + 1 \notin DOMAIN w
      /\ v[Len(w) + 1] = LiveEvent(e)
      /\ \A i \in DOMAIN w : v[i] = w[i]
  BY <1>1
<1> HIDE DEF v
<1>3. Heard(v) = Heard(w) \cup {e}
  BY <1>1, <1>2 DEF Heard
<1>4. Told(v) <=> Told(w)
  BY <1>1, <1>2 DEF Told
<1> QED
  BY <1>2, <1>3, <1>4 DEF v

LEMMA HeardTail ==
    ASSUME NEW w \in Seq(Message), w # << >>
    PROVE  /\ Tail(w) \in Seq(Message)
           /\ Head(w).kind = "connection.ready" => Heard(Tail(w)) = Heard(w)
           /\ Head(w).kind = "timeline.event" =>
                 /\ Head(w).event \in Events
                 /\ Heard(w) = Heard(Tail(w)) \cup {Head(w).event}
                 /\ Told(w) <=> Told(Tail(w))
<1> DEFINE v == Tail(w)
<1>1. /\ v \in Seq(Message) /\ Head(w) \in Message
      /\ Head(w) = w[1] /\ 1 \in DOMAIN w
      /\ \A i \in DOMAIN v : i + 1 \in DOMAIN w /\ v[i] = w[i + 1]
      /\ \A i \in DOMAIN w : i = 1 \/ (i - 1 \in DOMAIN v /\ v[i - 1] = w[i])
  OBVIOUS
<1> HIDE DEF v
<1>2. ASSUME NEW i \in DOMAIN w, w[i] # Ready, i # 1
      PROVE  w[i].event \in Heard(v)
  <2>1. i - 1 \in DOMAIN v /\ v[i - 1] # Ready /\ v[i - 1].event = w[i].event
    BY <1>1, <1>2
  <2> QED
    BY <2>1, Zenon DEF Heard
<1>3. CASE Head(w) = Ready
  <2>1. Heard(v) \subseteq Heard(w)
    BY <1>1 DEF Heard
  <2>2. Heard(w) \subseteq Heard(v)
    BY <1>1, <1>2, <1>3 DEF Heard
  <2> QED
    BY <1>1, <1>3, <2>1, <2>2, MessageKinds DEF v
<1>4. ASSUME NEW e \in Events, Head(w) = LiveEvent(e)
      PROVE  Heard(w) = Heard(v) \cup {e} /\ (Told(w) <=> Told(v))
  <2>1. w[1] # Ready /\ w[1].event = e
    BY <1>1, <1>4, MessageKinds
  <2>2. Heard(v) \subseteq Heard(w)
    BY <1>1 DEF Heard
  <2>3. Heard(w) \subseteq Heard(v) \cup {e}
    BY <1>1, <1>2, <2>1 DEF Heard
  <2>4. e \in Heard(w)
    BY <1>1, <2>1 DEF Heard
  <2>5. Told(w) <=> Told(v)
    BY <1>1, <2>1 DEF Told
  <2> QED
    BY <2>2, <2>3, <2>4, <2>5
<1> QED
  BY <1>1, <1>3, <1>4, MessageKinds DEF v

-----------------------------------------------------------------------------
(* The invariant.                                                          *)

Typed ==
    /\ committed \in SUBSET Events /\ published \in SUBSET committed
    /\ wire \in Seq(Message)
    /\ store \in SUBSET Events /\ liveBuffer \in SUBSET Events
    /\ lastProcessed \in Cursors
    /\ recovery \in [stage : {"none", "asked", "answered"}, after : Nat,
                     cursor : Cursors, pages : Nat, collected : SUBSET Events,
                     reply : Reply]
    /\ history \in [Loads -> Request] /\ older \in Request
    /\ nextCursor \in Cursors /\ reach \in Cursors

\* Nothing is left of a recovery that is over, nor of a page asked again.
Quiet ==
    /\ ~Recovering => recovery = NotRecovering /\ liveBuffer = {}
    /\ recovery.stage # "answered" => recovery.reply = NoReply

Live == connected /\ ~Told(wire) /\ connectedOnce
Missing ==
    {e \in published \ (UnderWay \cup excused) : NewerOrAt(reach, e) /\ ~BelowCap(e)}

\* The recovery has still to ask for e.
StillToCome(e) ==
    /\ Recovering
    /\ e.at >= recovery.after
    /\ recovery.stage = "asked" =>
          recovery.cursor = NoCursor \/ Before(recovery.cursor, e, "asc")
    /\ recovery.stage = "answered" =>
          recovery.reply.next # NoCursor /\ Before(recovery.reply.next, e, "asc")

Accounted == Live => \A e \in Missing : StillToCome(e)

IInv == Typed /\ Quiet /\ Accounted

-----------------------------------------------------------------------------
(* Types.                                                                  *)

LEMMA NoReplyType == NoReply \in Reply /\ ItemsOf(NoReply) = {} /\ NoCursor \in Cursors
                     /\ NoReply.next = NoCursor
BY DEF NoReply, Reply, Cursors, ItemsOf

LEMMA ItemsType ==
    ASSUME NEW r \in Reply
    PROVE  ItemsOf(r) \subseteq Events /\ r.next \in Cursors
BY DEF Reply, ItemsOf

LEMMA TypedInit == ConsoleInit => Typed
<1> SUFFICES ASSUME ConsoleInit PROVE Typed
  OBVIOUS
<1> USE NoReplyType
<1>1. NotRecovering \in [stage : {"none", "asked", "answered"}, after : Nat,
                        cursor : Cursors, pages : Nat, collected : SUBSET Events,
                        reply : Reply]
  BY DEF NotRecovering
<1>2. /\ Idle(NoCursor) \in Request
      /\ \A l \in Loads : [Idle(NoCursor) EXCEPT !.stage = IF l = 1 THEN "due" ELSE "none"]
                            \in Request
  BY DEF Request, Idle
<1> QED
  BY <1>1, <1>2 DEF ConsoleInit, Typed

Recovery == [stage : {"none", "asked", "answered"}, after : Nat, cursor : Cursors,
             pages : Nat, collected : SUBSET Events, reply : Reply]

LEMMA RequestServed ==
    ASSUME NEW r \in Request, NEW p \in Reply
    PROVE  [r EXCEPT !.stage = "answered", !.reply = p] \in Request
BY DEF Request

LEMMA IdleType ==
    ASSUME NEW c \in Cursors
    PROVE  AskedFor(c) \in Request /\ Idle(c) \in Request
BY NoReplyType DEF Request, AskedFor, Idle

LEMMA StreamTyped ==
    ASSUME Typed, CommitEvent \/ PublishEvent \/ Connect \/ Disconnect
    PROVE  Typed'
<1>1. CASE CommitEvent
  BY <1>1 DEF CommitEvent, Typed, socket, feed, recov, pages
<1>2. CASE PublishEvent
  <2>1. PICK e \in committed \ published :
          /\ published' = published \cup {e}
          /\ wire' = IF connected THEN Append(wire, LiveEvent(e)) ELSE wire
          /\ UNCHANGED <<committed, connected, feed, recov, pages, disturbances, excused>>
    BY <1>2 DEF PublishEvent
  <2>2. wire' \in Seq(Message)
    BY <2>1, HeardAppend DEF Typed
  <2> QED
    BY <2>1, <2>2 DEF Typed, feed, recov, pages
<1>3. CASE Connect
  <2>1. <<Ready>> \in Seq(Message)
    BY MessageKinds
  <2> QED
    BY <1>3, <2>1 DEF Connect, Typed, stream, feed, recov, pages
<1>4. CASE Disconnect
  BY <1>4 DEF Disconnect, Typed, stream, feed, recov, pages
<1> QED
  BY <1>1, <1>2, <1>3, <1>4

LEMMA ReceiveTyped ==
    ASSUME Typed, FirstReady \/ RunRecovery \/ ReadyWhileRecovering \/ OnEvent
    PROVE  Typed'
<1>1. wire # << >> => Tail(wire) \in Seq(Message)
  BY HeardTail DEF Typed
<1>2. CASE FirstReady
  BY <1>1, <1>2 DEF FirstReady, Received, Typed, stream, recov, pages
<1>3. CASE RunRecovery
  <2>1. WindowStart \in Nat
    BY EventType, SizesType DEF Typed, WindowStart, Cursors, NoCursor
  <2>2. [NotRecovering EXCEPT !.stage = "asked", !.after = WindowStart] \in Recovery
    BY <2>1, NoReplyType DEF Recovery, NotRecovering
  <2> QED
    BY <1>1, <1>3, <2>2 DEF RunRecovery, Received, Typed, stream, feed, pages, Recovery
<1>4. CASE ReadyWhileRecovering
  BY <1>1, <1>4 DEF ReadyWhileRecovering, Received, Typed, stream, feed, recov, pages
<1>5. CASE OnEvent
  <2> DEFINE e == Head(wire).event
  <2>1. e \in Events
    BY <1>5, HeardTail DEF OnEvent, Received, Typed
  <2>2. UpsertMany(store, {e}) \in SUBSET Events
    BY <2>1, UpsertType DEF Typed
  <2>3. NoteProcessed(lastProcessed, {e}) \in Cursors
    BY <2>1, NoteProcessedType DEF Typed
  <2> QED
    BY <1>1, <1>5, <2>1, <2>2, <2>3
       DEF OnEvent, Received, Typed, stream, pages
<1> QED
  BY <1>2, <1>3, <1>4, <1>5

\* What a recovery is asked for and answered.
Window == {e \in committed : e.at >= recovery.after}

LEMMA RecoveryTyped ==
    ASSUME Typed,
           ServeRecoveryPage \/ TakeRecoveryPage \/ FinishRecovery \/ FailRecovery
    PROVE  Typed'
<1>1. recovery \in Recovery /\ Collected \in SUBSET Events
      /\ recovery.reply.next \in Cursors /\ recovery.cursor \in Cursors
  BY ItemsType DEF Typed, Recovery, Collected
<1>2. NotRecovering \in Recovery
  BY NoReplyType DEF Recovery, NotRecovering
<1>3. CASE ServeRecoveryPage
  <2> DEFINE p == ServedPage(Window, recovery.cursor, "asc", RecoveryPage)
  <2>1. p \in Reply
    <3>1. Window \in SUBSET Events
      BY DEF Window, Typed
    <3> QED
      BY <1>1, <3>1, SizesType, ServedType
  <2>2. recovery' = [recovery EXCEPT !.stage = "answered", !.reply = p]
    BY <1>3 DEF ServeRecoveryPage, Window
  <2> HIDE DEF p
  <2>3. recovery' \in Recovery
    BY <1>1, <2>1, <2>2 DEF Recovery
  <2> QED
    BY <1>3, <2>3 DEF ServeRecoveryPage, Typed, Recovery, stream, socket, feed, pages
<1>4. CASE TakeRecoveryPage
  <2>1. recovery' \in Recovery
    <3>1. recovery' = [recovery EXCEPT !.stage = "asked", !.cursor = recovery.reply.next,
                         !.pages = recovery.pages + 1, !.collected = Collected,
                         !.reply = NoReply]
      BY <1>4 DEF TakeRecoveryPage
    <3>2. recovery' = [stage |-> "asked", after |-> recovery.after,
                       cursor |-> recovery.reply.next, pages |-> recovery.pages + 1,
                       collected |-> Collected, reply |-> NoReply]
      BY <1>1, <3>1 DEF Recovery
    <3>3. recovery.after \in Nat /\ recovery.pages + 1 \in Nat
      BY <1>1 DEF Recovery
    <3> QED
      BY <1>1, <3>2, <3>3, NoReplyType DEF Recovery
  <2> QED
    BY <1>4, <2>1 DEF TakeRecoveryPage, Typed, Recovery, stream, socket, feed, pages
<1>5. CASE FinishRecovery
  <2>1. Merged \in SUBSET Events
    BY <1>1, UpsertType DEF Merged, Typed
  <2>2. NoteProcessed(lastProcessed, Merged) \in Cursors
    BY <2>1, NoteProcessedType DEF Typed
  <2> QED
    BY <1>2, <1>5, <2>1, <2>2
       DEF FinishRecovery, Typed, Recovery, stream, socket, pages
<1>6. CASE FailRecovery
  <2>1. UpsertMany(store, liveBuffer) \in SUBSET Events
    BY UpsertType DEF Typed
  <2> QED
    BY <1>2, <1>6, <2>1 DEF FailRecovery, Typed, Recovery, stream, socket, pages
<1> QED
  BY <1>3, <1>4, <1>5, <1>6

LEMMA HistoryTyped ==
    ASSUME Typed,
           \/ LoadInitialHistory
           \/ \E l \in Loads : ServeHistory(l) \/ TakeHistory(l) \/ FailHistory(l)
    PROVE  Typed'
<1>1. history \in [Loads -> Request] /\ NoCursor \in Cursors
      /\ AskedFor(NoCursor) \in Request /\ Idle(NoCursor) \in Request
  BY NoReplyType, IdleType DEF Typed
<1>2. CASE LoadInitialHistory
  <2>1. PICK l \in Loads \cup {1} : history' = [history EXCEPT ![l] = AskedFor(NoCursor)]
    <3>1. CASE history' = [history EXCEPT ![1] = AskedFor(NoCursor)]
      BY <3>1
    <3>2. CASE \E l \in Free : history' = [history EXCEPT ![l] = AskedFor(NoCursor)]
      BY <3>2 DEF Free
    <3> QED
      BY <1>2, <3>1, <3>2 DEF LoadInitialHistory
  <2>2. history' \in [Loads -> Request]
    BY <1>1, <2>1
  <2> QED
    BY <1>1, <1>2, <2>2 DEF LoadInitialHistory, Typed, stream, socket, feed, recov
<1>3. ASSUME NEW l \in Loads, ServeHistory(l) PROVE Typed'
  <2> DEFINE p == ServedPage(committed, NoCursor, "desc", HistoryPage)
  <2>1. p \in Reply
    BY <1>1, SizesType, ServedType DEF Typed
  <2>2. history' = [history EXCEPT ![l].stage = "answered", ![l].reply = p]
    BY <1>3 DEF ServeHistory
  <2> HIDE DEF p
  <2>3. history' \in [Loads -> Request]
    <3>1. history[l] \in Request
      BY <1>1
    <3>2. [history[l] EXCEPT !.stage = "answered", !.reply = p] \in Request
      BY <2>1, <3>1, RequestServed
    <3>3. history' = [history EXCEPT ![l] =
                        [history[l] EXCEPT !.stage = "answered", !.reply = p]]
      BY <1>1, <2>2
    <3> QED
      BY <1>1, <3>2, <3>3
  <2> QED
    BY <1>3, <2>3 DEF ServeHistory, Typed, stream, socket, feed, recov
<1>4. ASSUME NEW l \in Loads, TakeHistory(l) PROVE Typed'
  <2>1. history[l].reply.next \in Cursors
        /\ ItemsOf(history[l].reply) \in SUBSET Events
    BY <1>1, ItemsType DEF Request
  <2>2. UpsertMany({}, ItemsOf(history[l].reply)) \in SUBSET Events
    BY <2>1, UpsertType
  <2>3. NoteProcessed(lastProcessed, ItemsOf(history[l].reply)) \in Cursors
    BY <2>1, NoteProcessedType DEF Typed
  <2>4. history' \in [Loads -> Request]
    BY <1>1, <1>4 DEF TakeHistory
  <2> QED
    BY <1>4, <2>1, <2>2, <2>3, <2>4 DEF TakeHistory, Typed, stream, socket, recov
<1>5. ASSUME NEW l \in Loads, FailHistory(l) PROVE Typed'
  <2>1. history' \in [Loads -> Request]
    BY <1>1, <1>5 DEF FailHistory
  <2> QED
    BY <1>5, <2>1 DEF FailHistory, Typed, stream, socket, feed, recov
<1> QED
  BY <1>2, <1>3, <1>4, <1>5

LEMMA OlderTyped ==
    ASSUME Typed, LoadOlder \/ ServeOlder \/ TakeOlder \/ FailOlder
    PROVE  Typed'
<1>1. older \in Request /\ older.reply.next \in Cursors /\ older.cursor \in Cursors
      /\ ItemsOf(older.reply) \in SUBSET Events /\ NoCursor \in Cursors
  BY ItemsType, NoReplyType DEF Typed, Request
<1>2. CASE LoadOlder
  BY <1>2, IdleType DEF LoadOlder, Typed, stream, socket, feed, recov
<1>3. CASE ServeOlder
  <2>1. ServedPage(committed, older.cursor, "desc", HistoryPage) \in Reply
    BY <1>1, SizesType, ServedType DEF Typed
  <2>2. older' \in Request
    BY <1>1, <1>3, <2>1, RequestServed DEF ServeOlder
  <2> QED
    BY <1>3, <2>2 DEF ServeOlder, Typed, stream, socket, feed, recov
<1>4. CASE TakeOlder
  <2>1. UpsertMany(store, ItemsOf(older.reply)) \in SUBSET Events
    BY <1>1, UpsertType DEF Typed
  <2> QED
    BY <1>1, <1>4, <2>1, IdleType DEF TakeOlder, Typed, stream, socket, recov
<1>5. CASE FailOlder
  BY <1>1, <1>5, IdleType DEF FailOlder, Typed, stream, socket, feed, recov
<1> QED
  BY <1>2, <1>3, <1>4, <1>5

-----------------------------------------------------------------------------
(* Recoveries over and pages asked again.                                  *)

LEMMA QuietNext ==
    ASSUME Typed, Quiet, [ConsoleNext]_consoleVars
    PROVE  Quiet'
<1>1. CASE UNCHANGED <<recovery, liveBuffer>>
  BY <1>1 DEF Quiet, Recovering
<1>2. CASE RunRecovery
  <2>1. NotRecovering.reply = NoReply
    BY DEF NotRecovering
  <2> QED
    BY <1>2, <2>1 DEF RunRecovery, Quiet, Recovering, NotRecovering
<1>3. CASE OnEvent
  BY <1>3 DEF OnEvent, Quiet, Recovering
<1>4. CASE ServeRecoveryPage
  BY <1>4 DEF ServeRecoveryPage, Quiet, Recovering, Typed
<1>5. CASE TakeRecoveryPage
  BY <1>5 DEF TakeRecoveryPage, Quiet, Recovering, Typed
<1>6. CASE FinishRecovery \/ FailRecovery
  BY <1>6 DEF FinishRecovery, FailRecovery, Quiet, Recovering, NotRecovering
<1> QED
  BY <1>1, <1>2, <1>3, <1>4, <1>5, <1>6
     DEF ConsoleNext, consoleVars, recov, CommitEvent, PublishEvent, Connect, Disconnect, FirstReady,
         ReadyWhileRecovering, ServeHistory, TakeHistory, FailHistory,
         LoadInitialHistory, LoadOlder, ServeOlder, TakeOlder, FailOlder

-----------------------------------------------------------------------------
(* What is missing.                                                        *)

LEMMA UnderWayIs ==
    /\ OnWire = Heard(wire)
    /\ OnWire' = Heard(wire')
    /\ \A e : BelowCap(e) <=> Below(store, e)
    /\ \A e : BelowCap(e)' <=> Below(store', e)
BY DEF OnWire, Heard, BelowCap, Below

LEMMA MissingIs ==
    /\ Missing = {e \in published : /\ e \notin store /\ e \notin liveBuffer
                                   /\ e \notin Heard(wire)
                                   /\ e \notin recovery.collected
                                   /\ e \notin ItemsOf(recovery.reply)
                                   /\ e \notin excused
                                   /\ NewerOrAt(reach, e) /\ ~Below(store, e)}
    /\ Missing' = {e \in published' : /\ e \notin store' /\ e \notin liveBuffer'
                                     /\ e \notin Heard(wire')
                                     /\ e \notin recovery'.collected
                                     /\ e \notin ItemsOf(recovery'.reply)
                                     /\ e \notin excused'
                                     /\ NewerOrAt(reach', e) /\ ~Below(store', e)}
<1>1. Missing = {e \in published : /\ e \notin store /\ e \notin liveBuffer
                                   /\ e \notin Heard(wire)
                                   /\ e \notin recovery.collected
                                   /\ e \notin ItemsOf(recovery.reply)
                                   /\ e \notin excused
                                   /\ NewerOrAt(reach, e) /\ ~Below(store, e)}
  BY UnderWayIs DEF Missing, UnderWay
<1>2. UnderWay' = store' \cup liveBuffer' \cup OnWire'
                     \cup recovery'.collected \cup ItemsOf(recovery'.reply)
  BY DEF UnderWay, ItemsOf
<1>3. Missing' = {e \in published' \ (UnderWay' \cup excused') :
                      NewerOrAt(reach', e) /\ ~BelowCap(e)'}
  BY DEF Missing, NewerOrAt
<1>4. Missing' = {e \in published' : /\ e \notin store' /\ e \notin liveBuffer'
                                     /\ e \notin Heard(wire')
                                     /\ e \notin recovery'.collected
                                     /\ e \notin ItemsOf(recovery'.reply)
                                     /\ e \notin excused'
                                     /\ NewerOrAt(reach', e) /\ ~Below(store', e)}
  BY <1>2, <1>3, UnderWayIs
<1> QED
  BY <1>1, <1>4

\* A step that leaves the recovery alone and makes no event missing.
LEMMA NoneLost ==
    ASSUME Accounted, Live' => Live /\ Missing' \subseteq Missing, UNCHANGED recovery
    PROVE  Accounted'
BY DEF Accounted, StillToCome, Recovering

LEMMA StreamAccounted ==
    ASSUME Typed, Accounted, CommitEvent \/ PublishEvent \/ Connect \/ Disconnect
    PROVE  Accounted'
<1>1. CASE CommitEvent
  <2>1. Missing' = Missing /\ Live' = Live /\ UNCHANGED recovery
    BY <1>1, MissingIs DEF CommitEvent, Live, Told, socket, feed, recov, pages
  <2> QED
    BY <2>1, NoneLost
<1>2. CASE PublishEvent
  <2>1. PICK e \in committed \ published :
          /\ published' = published \cup {e}
          /\ wire' = IF connected THEN Append(wire, LiveEvent(e)) ELSE wire
          /\ UNCHANGED <<committed, connected, feed, recov, pages, disturbances, excused>>
    BY <1>2 DEF PublishEvent
  <2>2. ASSUME Live' PROVE Live /\ Missing' \subseteq Missing
    <3>1. connected /\ wire' = Append(wire, LiveEvent(e))
      BY <2>1, <2>2 DEF Live
    <3>2. Heard(wire') = Heard(wire) \cup {e} /\ (Told(wire') <=> Told(wire))
      BY <2>1, <3>1, HeardAppend DEF Typed
    <3>3. Live
      BY <2>1, <2>2, <3>2 DEF Live, feed
    <3>4. Missing' \subseteq Missing
      BY <2>1, <3>2, MissingIs DEF feed, recov, pages
    <3> QED
      BY <3>3, <3>4
  <2>3. UNCHANGED recovery
    BY <2>1 DEF recov
  <2> QED
    BY <2>2, <2>3, NoneLost
<1>3. CASE Connect
  <2>1. wire' = <<Ready>>
    BY <1>3 DEF Connect
  <2>2. Told(wire')
    BY <2>1 DEF Told
  <2> QED
    BY <2>2 DEF Accounted, Live
<1>4. CASE Disconnect
  BY <1>4 DEF Disconnect, Accounted, Live
<1> QED
  BY <1>1, <1>2, <1>3, <1>4

LEMMA ReceiveAccounted ==
    ASSUME Typed, Quiet, Accounted,
           FirstReady \/ RunRecovery \/ ReadyWhileRecovering \/ OnEvent
    PROVE  Accounted'
<1>1. CASE FirstReady \/ ReadyWhileRecovering
  <2>1. /\ UNCHANGED <<published, store, liveBuffer, recovery, reach>>
        /\ wire' = Tail(wire) /\ wire # << >> /\ Head(wire).kind = "connection.ready"
        /\ excused' = excused \cup {e \in published \ UnderWay : NewerOrAt(reach, e)}
    BY <1>1 DEF FirstReady, ReadyWhileRecovering, Received, stream, feed, recov, pages
  <2>2. Heard(wire') = Heard(wire)
    BY <2>1, HeardTail DEF Typed
  <2>3. Missing' = {}
    BY <2>1, <2>2, MissingIs, UnderWayIs DEF UnderWay
  <2> QED
    BY <2>3 DEF Accounted
<1>2. CASE RunRecovery
  <2>1. /\ UNCHANGED <<published, store, reach>>
        /\ ~Recovering
        /\ wire' = Tail(wire) /\ wire # << >> /\ Head(wire).kind = "connection.ready"
        /\ recovery' = [NotRecovering EXCEPT !.stage = "asked", !.after = WindowStart]
        /\ liveBuffer' = {}
        /\ excused' = excused \cup {e \in published \ UnderWay : e.at < WindowStart}
    BY <1>2 DEF RunRecovery, Received, stream, feed, pages
  <2>2. Heard(wire') = Heard(wire)
    BY <2>1, HeardTail DEF Typed
  <2>3. /\ recovery = NotRecovering /\ liveBuffer = {}
        /\ recovery'.collected = recovery.collected /\ recovery'.reply = recovery.reply
        /\ recovery'.stage = "asked" /\ recovery'.cursor = NoCursor
        /\ recovery'.after = WindowStart
    BY <2>1 DEF Quiet, NotRecovering
  <2>4. WindowStart \in Nat
    BY EventType, SizesType DEF Typed, WindowStart, Cursors, NoCursor
  <2>5. ASSUME NEW e \in Missing' PROVE e.at >= WindowStart
    <3>1. e \in published /\ e \notin UnderWay /\ e \notin excused'
      BY <2>1, <2>2, <2>3, MissingIs, UnderWayIs DEF UnderWay
    <3>2. ~(e.at < WindowStart)
      BY <2>1, <3>1
    <3>3. e.at \in Nat
      BY <3>1, EventType DEF Typed
    <3> QED
      BY <2>4, <3>2, <3>3
  <2> QED
    BY <2>3, <2>5 DEF Accounted, StillToCome, Recovering
<1>3. CASE OnEvent
  <2> DEFINE e == Head(wire).event
  <2>1. /\ UNCHANGED <<published, reach, recovery, excused, connected, connectedOnce>>
        /\ wire' = Tail(wire)
        /\ IF Recovering THEN liveBuffer' = liveBuffer \cup {e} /\ UNCHANGED store
                         ELSE store' = UpsertMany(store, {e}) /\ UNCHANGED liveBuffer
    BY <1>3 DEF OnEvent, stream, pages
  <2>2. /\ e \in Events /\ Heard(wire) = Heard(wire') \cup {e}
        /\ Told(wire) <=> Told(wire')
    BY <1>3, <2>1, HeardTail DEF OnEvent, Received, Typed
  <2> HIDE DEF e
  <2>3. Live' => Live
    BY <2>1, <2>2 DEF Live
  <2>4. Missing' \subseteq Missing
    <3>1. CASE Recovering
      BY <2>1, <2>2, <3>1, MissingIs
    <3>2. CASE ~Recovering
      <4>1. store' = UpsertMany(store, {e})
            /\ store \in SUBSET Events /\ {e} \in SUBSET Events
        BY <2>1, <2>2, <3>2 DEF Typed
      <4>2. ASSUME NEW x \in published, x \in store \cup {e}
            PROVE  x \in store' \/ Below(store', x)
        BY <4>1, <4>2, UpsertDrops
      <4>3. ASSUME NEW x \in published, Below(store, x)
            PROVE  Below(store', x)
        BY <4>1, <4>3, UpsertKeepsBelow DEF Typed
      <4> QED
        BY <2>1, <2>2, <3>2, <4>2, <4>3, MissingIs
    <3> QED
      BY <3>1, <3>2
  <2> QED
    BY <2>1, <2>3, <2>4, NoneLost
<1> QED
  BY <1>1, <1>2, <1>3

LEMMA RecoveryAccounted ==
    ASSUME Typed, Quiet, Accounted,
           ServeRecoveryPage \/ TakeRecoveryPage \/ FinishRecovery \/ FailRecovery
    PROVE  Accounted'
<1>1. recovery \in Recovery
  BY DEF Typed, Recovery
<1>2. CASE ServeRecoveryPage
  <2> DEFINE p == ServedPage(Window, recovery.cursor, "asc", RecoveryPage)
             A == AfterCursor(Window, recovery.cursor, "asc")
  <2>1. /\ UNCHANGED <<published, store, liveBuffer, wire, reach, excused, connected,
                       connectedOnce>>
        /\ recovery.stage = "asked"
        /\ recovery' = [recovery EXCEPT !.stage = "answered", !.reply = p]
    BY <1>2 DEF ServeRecoveryPage, Window, stream, socket, feed, pages
  <2>2. Window \in SUBSET Events /\ recovery.cursor \in Cursors
    BY <1>1 DEF Window, Typed, Recovery
  <2>3. /\ p.next = NoCursor => A \subseteq ItemsOf(p)
        /\ p.next # NoCursor =>
              \A e \in A : e \in ItemsOf(p) <=> ~Before(p.next, e, "asc")
    <3>1. PageOf(p, A, "asc", RecoveryPage)
      BY <2>2, SizesType, ReplyIs
    <3> HIDE DEF p, A
    <3> QED
      BY <3>1 DEF PageOf
  <2> HIDE DEF p
  <2>4. /\ recovery'.stage = "answered" /\ recovery'.reply = p
        /\ recovery'.collected = recovery.collected
        /\ recovery'.after = recovery.after
        /\ ItemsOf(recovery.reply) = {}
    BY <1>1, <2>1, NoReplyType DEF Recovery, Quiet
  <2>5. ASSUME Live', NEW e \in Missing' PROVE StillToCome(e)'
    <3>1. e \in Missing /\ e \notin ItemsOf(p) /\ Live
      BY <2>1, <2>4, <2>5, MissingIs DEF Live, Told
    <3>2. StillToCome(e)
      BY <3>1 DEF Accounted
    <3>3. e \in Window
      BY <3>1, <3>2, MissingIs DEF Typed, Window, StillToCome
    <3>4. e \in A
      BY <2>1, <3>2, <3>3 DEF AfterCursor, StillToCome
    <3>5. p.next # NoCursor /\ Before(p.next, e, "asc")
      BY <2>3, <3>1, <3>4
    <3> QED
      BY <2>4, <3>2, <3>5 DEF StillToCome, Recovering
  <2> QED
    BY <2>5 DEF Accounted
<1>3. CASE TakeRecoveryPage
  <2>1. /\ UNCHANGED <<published, store, liveBuffer, wire, reach, excused, connected,
                       connectedOnce>>
        /\ recovery.stage = "answered" /\ ~LastPage
        /\ recovery' = [recovery EXCEPT !.stage = "asked",
                           !.cursor = recovery.reply.next, !.pages = recovery.pages + 1,
                           !.collected = Collected, !.reply = NoReply]
    BY <1>3 DEF TakeRecoveryPage, stream, socket, feed, pages
  <2>2. /\ recovery'.stage = "asked" /\ recovery'.cursor = recovery.reply.next
        /\ recovery'.collected = recovery.collected \cup ItemsOf(recovery.reply)
        /\ recovery'.after = recovery.after
        /\ ItemsOf(recovery'.reply) = {}
    BY <1>1, <2>1, NoReplyType DEF Recovery, Collected
  <2>3. ASSUME Live', NEW e \in Missing' PROVE StillToCome(e)'
    <3>1. e \in Missing /\ Live
      BY <2>1, <2>2, <2>3, MissingIs DEF Live, Told
    <3>2. StillToCome(e)
      BY <3>1 DEF Accounted
    <3> QED
      BY <2>1, <2>2, <3>2 DEF StillToCome, Recovering
  <2> QED
    BY <2>3 DEF Accounted
<1>4. CASE FinishRecovery
  <2> DEFINE C == recovery.collected \cup ItemsOf(recovery.reply)
  <2>1. /\ UNCHANGED <<published, wire, reach, connected, connectedOnce>>
        /\ recovery.stage = "answered"
        /\ store' = UpsertMany(UpsertMany(store, C), liveBuffer)
        /\ recovery' = NotRecovering /\ liveBuffer' = {}
        /\ excused' = IF recovery.reply.next = NoCursor THEN excused
                      ELSE excused \cup {e \in published \ UnderWay :
                                            Before(recovery.reply.next, e, "asc")}
    BY <1>4 DEF FinishRecovery, Merged, Collected, stream, socket, pages
  <2>2. C \in SUBSET Events
    BY <1>1, ItemsType DEF Recovery
  <2> HIDE DEF C
  <2> DEFINE D == UpsertMany(store, C)
  <2>3. D \in SUBSET Events /\ store \in SUBSET Events /\ liveBuffer \in SUBSET Events
    BY <2>2, UpsertType DEF Typed
  <2>4. ASSUME NEW e \in published, Below(store, e) PROVE Below(store', e)
    <3>1. e \in Events
      BY DEF Typed
    <3>2. Below(D, e)
      BY <2>2, <2>3, <2>4, <3>1, UpsertKeepsBelow
    <3> HIDE DEF D
    <3> QED
      BY <2>1, <2>3, <3>1, <3>2, UpsertKeepsBelow DEF D
  <2>5. ASSUME NEW e \in published, e \in store \cup C \cup liveBuffer
        PROVE  e \in store' \/ Below(store', e)
    <3>1. e \in Events
      BY DEF Typed
    <3>2. e \in D \cup liveBuffer \/ Below(D, e)
      BY <2>2, <2>3, <2>5, UpsertDrops
    <3> HIDE DEF D
    <3>3. e \in D \cup liveBuffer => e \in store' \/ Below(store', e)
      BY <2>1, <2>3, UpsertDrops DEF D
    <3>4. Below(D, e) => Below(store', e)
      BY <2>1, <2>3, <3>1, UpsertKeepsBelow DEF D
    <3> QED
      BY <3>2, <3>3, <3>4
  <2>6. ASSUME Live', NEW e \in Missing' PROVE FALSE
    <3>1. /\ e \in published /\ e \notin store' /\ ~Below(store', e)
          /\ e \notin Heard(wire) /\ e \notin excused' /\ NewerOrAt(reach, e)
      BY <2>1, MissingIs
    <3>2. e \in Missing /\ e \notin UnderWay
      BY <2>1, <2>4, <2>5, <3>1, MissingIs, UnderWayIs DEF UnderWay, C
    <3>3. Live
      BY <2>1, <2>6 DEF Live, Told
    <3>4. StillToCome(e)
      BY <3>2, <3>3 DEF Accounted
    <3> QED
      BY <2>1, <3>1, <3>2, <3>4 DEF StillToCome
  <2> QED
    BY <2>6 DEF Accounted
<1>5. CASE FailRecovery
  <2>1. /\ UNCHANGED <<published, wire, reach>>
        /\ store' = UpsertMany(store, liveBuffer)
        /\ recovery' = NotRecovering /\ liveBuffer' = {}
        /\ excused' = excused \cup {e \in published \ (store \cup liveBuffer \cup OnWire) :
                                       NewerOrAt(reach, e)}
    BY <1>5 DEF FailRecovery, stream, socket, pages
  <2>2. ASSUME NEW e \in store \cup liveBuffer PROVE e \in store' \/ Below(store', e)
    BY <2>1, UpsertDrops DEF Typed
  <2>3. Missing' = {}
    BY <2>1, <2>2, MissingIs, UnderWayIs
  <2> QED
    BY <2>3 DEF Accounted
<1> QED
  BY <1>2, <1>3, <1>4, <1>5

LEMMA HistoryAccounted ==
    ASSUME Typed, Accounted,
           \/ LoadInitialHistory
           \/ \E l \in Loads : ServeHistory(l) \/ TakeHistory(l) \/ FailHistory(l)
    PROVE  Accounted'
<1>1. CASE \/ LoadInitialHistory
           \/ \E l \in Loads : ServeHistory(l) \/ FailHistory(l)
  <2>1. UNCHANGED <<published, store, liveBuffer, wire, recovery, excused, reach,
                    connected, connectedOnce>>
    BY <1>1 DEF ServeHistory, FailHistory, LoadInitialHistory,
                stream, socket, feed, recov
  <2>2. Missing' = Missing /\ Live' = Live
    BY <2>1, MissingIs DEF Live, Told
  <2> QED
    BY <2>1, <2>2, NoneLost
<1>2. ASSUME NEW l \in Loads, TakeHistory(l) PROVE Accounted'
  <2> DEFINE new == ItemsOf(history[l].reply)
             end == history[l].reply.next
  <2>1. /\ UNCHANGED <<published, liveBuffer, wire, recovery, connected, connectedOnce>>
        /\ store' = UpsertMany({}, new) /\ reach' = end
        /\ excused' = excused \cup
              {e \in (store \cup {x \in published : BelowCap(x) \/ ~NewerOrAt(reach, x)})
                      \ new : NewerOrAt(end, e)}
    BY <1>2 DEF TakeHistory, stream, socket, recov
  <2>2. new \in SUBSET Events
    BY ItemsType DEF Typed, Request
  <2> HIDE DEF new, end
  <2>3. ASSUME NEW e \in new PROVE e \in store' \/ Below(store', e)
    BY <2>1, <2>2, UpsertDrops
  <2>4. ASSUME NEW e \in Missing' PROVE e \in Missing
    <3>1. /\ e \in published /\ e \notin store' /\ ~Below(store', e)
          /\ e \notin excused' /\ NewerOrAt(end, e)
      BY <2>1, MissingIs
    <3>2. e \notin new
      BY <2>3, <3>1
    <3>3. e \notin store /\ ~Below(store, e) /\ NewerOrAt(reach, e)
      BY <2>1, <3>1, <3>2, UnderWayIs
    <3> QED
      BY <2>1, <3>1, <3>3, MissingIs
  <2>5. Live' => Live
    BY <2>1 DEF Live, Told
  <2> QED
    BY <2>1, <2>4, <2>5, NoneLost
<1> QED
  BY <1>1, <1>2

LEMMA OlderAccounted ==
    ASSUME Typed, Accounted, LoadOlder \/ ServeOlder \/ TakeOlder \/ FailOlder
    PROVE  Accounted'
<1>1. CASE LoadOlder \/ ServeOlder \/ FailOlder
  <2>1. UNCHANGED <<published, store, liveBuffer, wire, recovery, excused, reach,
                    connected, connectedOnce>>
    BY <1>1 DEF LoadOlder, ServeOlder, FailOlder, stream, socket, feed, recov
  <2>2. Missing' = Missing /\ Live' = Live
    BY <2>1, MissingIs DEF Live, Told
  <2> QED
    BY <2>1, <2>2, NoneLost
<1>2. CASE TakeOlder
  <2> DEFINE new == ItemsOf(older.reply)
  <2>1. /\ UNCHANGED <<published, liveBuffer, wire, recovery, connected, connectedOnce>>
        /\ store' = UpsertMany(store, new) /\ reach' = older.reply.next
        /\ excused' = excused \cup
                {e \in published \ (store \cup new) :
                    Before(reach, e, "desc") /\ NewerOrAt(older.reply.next, e)}
    BY <1>2 DEF TakeOlder, stream, socket, recov
  <2>2. new \in SUBSET Events /\ store \in SUBSET Events
    BY ItemsType DEF Typed, Request
  <2> HIDE DEF new
  <2>3. ASSUME NEW e \in store \cup new PROVE e \in store' \/ Below(store', e)
    BY <2>1, <2>2, UpsertDrops
  <2>4. ASSUME NEW e \in published, Below(store, e) PROVE Below(store', e)
    BY <2>1, <2>2, <2>4, UpsertKeepsBelow DEF Typed
  <2>5. ASSUME NEW e \in Missing' PROVE e \in Missing
    <3>1. /\ e \in published /\ e \notin store' /\ ~Below(store', e)
          /\ e \notin excused' /\ NewerOrAt(older.reply.next, e)
      BY <2>1, MissingIs
    <3>2. e \notin store \cup new /\ ~Below(store, e)
      BY <2>3, <2>4, <3>1
    <3>3. NewerOrAt(reach, e)
      BY <2>1, <3>1, <3>2 DEF NewerOrAt
    <3> QED
      BY <2>1, <3>1, <3>2, <3>3, MissingIs
  <2>6. Live' => Live
    BY <2>1 DEF Live, Told
  <2> QED
    BY <2>1, <2>5, <2>6, NoneLost
<1> QED
  BY <1>1, <1>2

-----------------------------------------------------------------------------
(* The theorem.                                                            *)

LEMMA InitIInv == ConsoleInit => IInv
<1> SUFFICES ASSUME ConsoleInit PROVE IInv
  OBVIOUS
<1>1. Typed
  BY TypedInit
<1>2. Quiet
  BY DEF ConsoleInit, Quiet, NotRecovering, Recovering
<1>3. Accounted
  BY DEF ConsoleInit, Accounted, Live
<1> QED
  BY <1>1, <1>2, <1>3 DEF IInv

LEMMA NextIInv == IInv /\ [ConsoleNext]_consoleVars => IInv'
<1> SUFFICES ASSUME Typed, Quiet, Accounted, [ConsoleNext]_consoleVars PROVE IInv'
  BY DEF IInv
<1>1. Quiet'
  BY QuietNext
<1>2. CASE CommitEvent \/ PublishEvent \/ Connect \/ Disconnect
  BY <1>1, <1>2, StreamTyped, StreamAccounted DEF IInv
<1>3. CASE FirstReady \/ RunRecovery \/ ReadyWhileRecovering \/ OnEvent
  BY <1>1, <1>3, ReceiveTyped, ReceiveAccounted DEF IInv
<1>4. CASE ServeRecoveryPage \/ TakeRecoveryPage \/ FinishRecovery \/ FailRecovery
  BY <1>1, <1>4, RecoveryTyped, RecoveryAccounted DEF IInv
<1>5. CASE \/ LoadInitialHistory
           \/ \E l \in Loads : ServeHistory(l) \/ TakeHistory(l) \/ FailHistory(l)
  BY <1>1, <1>5, HistoryTyped, HistoryAccounted DEF IInv
<1>6. CASE LoadOlder \/ ServeOlder \/ TakeOlder \/ FailOlder
  BY <1>1, <1>6, OlderTyped, OlderAccounted DEF IInv
<1>7. CASE UNCHANGED consoleVars
  <2>1. UNCHANGED <<committed, published, connected, wire, store, lastProcessed,
                    connectedOnce, recovery, liveBuffer, history, older, nextCursor,
                    reach, excused>>
    BY <1>7 DEF consoleVars, stream, socket, feed, recov, pages
  <2>2. Typed'
    BY <2>1 DEF Typed
  <2>3. Missing' = Missing /\ Live' = Live
    BY <2>1, MissingIs DEF Live, Told
  <2>4. Accounted'
    BY <2>1, <2>3, NoneLost
  <2> QED
    BY <1>1, <2>2, <2>4 DEF IInv
<1> QED
  BY <1>2, <1>3, <1>4, <1>5, <1>6, <1>7 DEF ConsoleNext

LEMMA IInvGap == IInv => NoGapUnlessExcused
<1> SUFFICES ASSUME Accounted, Settled,
                    NEW e \in published \ (UnderWay \cup excused)
             PROVE  BelowCap(e) \/ ~NewerOrAt(reach, e)
  BY DEF IInv, NoGapUnlessExcused
<1>1. Live /\ ~Recovering
  BY DEF Settled, Live, Told
<1> QED
  BY <1>1 DEF Accounted, StillToCome, Missing

(* For any events, page sizes, caps and windows, and any reloads at once:  *)
(* a console that is live and runs no recovery shows every event that was  *)
(* broadcast, except those older than the pages it loaded, those           *)
(* enforceCap dropped and those of the gaps that recovery.js and main.js   *)
(* leave open.                                                             *)
THEOREM ConsoleHasNoGap == ConsoleSpec => []NoGapUnlessExcused
<1>1. ConsoleSpec => []IInv
  BY InitIInv, NextIInv, PTL DEF ConsoleSpec
<1> QED
  BY <1>1, IInvGap, PTL
=============================================================================
