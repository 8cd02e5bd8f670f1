-------------------------- MODULE RetentionProofs --------------------------
(***************************************************************************)
(* What retention may delete, for any rows, domains, batch sizes, requests *)
(* and interleavings with the components that write the rows.              *)
(***************************************************************************)
EXTENDS Retention, TLAPS

Active(c) == cycle[c].step # "off"

\* A cycle has the lock, unless it is the one that outlived its loop; by then
\* no request is served.
LockInv ==
    /\ \A c \in Callers : Active(c) =>
          \/ lock = c /\ caller[c] = "running"
          \/ c = Loop /\ caller[Loop] = "stopped"
    /\ \A c \in Requests : lock = c => Active(c)
    /\ caller[Loop] = "stopped" => \A c \in Requests : ~Active(c)
    /\ \A c \in Requests : caller[c] # "stopped"

\* What a cycle found is what was configured, and what it set is in force.
FlagInv ==
    /\ (\A c \in Callers : ~Active(c)) => dry_run = ConfigDry
    /\ \A c \in Callers : Active(c) =>
          /\ cycle[c].dry = ConfigDry
          /\ dry_run = (IF c \in DryRequests THEN TRUE
                        ELSE IF c \in RunRequests THEN FALSE ELSE ConfigDry)
          /\ cycle[c].step \in {"check", "delete"} => ~dry_run

\* Foreign keys hold, and an observation is never live.
RowInv ==
    /\ \A r \in Rows : ParentOf[r] # NoRow /\ Present(r) => Present(ParentOf[r])
    /\ \A r \in Rows : DomainOf[r] = "observations" => row[r].status # "live"
    /\ \A r \in Rows : row[r].status = "dead" => row[r].at <= clock

\* The ids of a batch are old rows of its domain, if they have not changed.
BatchInv ==
    \A c \in Callers : cycle[c].step \in {"fetch", "check", "delete"} =>
        /\ cycle[c].domain \in 1..Len(Order)
        /\ cycle[c].step = "fetch" => cycle[c].left > 0 /\ cycle[c].ids = {}
        /\ cycle[c].cutoff <= clock - Keep[Domain(c)]
        /\ cycle[c].safe \subseteq cycle[c].ids
        /\ cycle[c].step = "check" => Domain(c) = "entities"
        /\ \A r \in cycle[c].ids :
              /\ DomainOf[r] = Domain(c)
              /\ \/ row[r].status = "dead" /\ row[r].at < cycle[c].cutoff
                 \/ row[r].status = "gone"
                 \/ r \in changed /\ Domain(c) # "entities"

\* A row that the second look at an entity would have found is one that came
\* after it.
SafeInv ==
    \A c \in Callers :
        cycle[c].step = "delete" /\ Domain(c) = "entities" =>
            /\ \A e \in cycle[c].safe : row[e].status \in {"dead", "gone"}
            /\ \A r \in Children(cycle[c].safe)
                       \union Children(Children(cycle[c].safe)) :
                  row[r].status = "live" => r \in changed

Inv == TypeOK /\ LockInv /\ FlagInv /\ RowInv /\ BatchInv /\ SafeInv

-----------------------------------------------------------------------------
(* Lemmas.                                                                 *)

\* A set of positions that is not empty has a first one.
LEMMA FirstPosition ==
    ASSUME NEW S \in SUBSET (1..Len(Order)), S # {}
    PROVE  Min(S) \in S
<1>1. Len(Order) = 6
  BY DEF Order
<1>2. \E x \in S : \A y \in S : x <= y
  <2>1. CASE 1 \in S
    BY <1>1, <2>1
  <2>2. CASE 1 \notin S /\ 2 \in S
    BY <1>1, <2>2
  <2>3. CASE 1 \notin S /\ 2 \notin S /\ 3 \in S
    BY <1>1, <2>3
  <2>4. CASE 1 \notin S /\ 2 \notin S /\ 3 \notin S /\ 4 \in S
    BY <1>1, <2>4
  <2>5. CASE 1 \notin S /\ 2 \notin S /\ 3 \notin S /\ 4 \notin S /\ 5 \in S
    BY <1>1, <2>5
  <2>6. CASE 1 \notin S /\ 2 \notin S /\ 3 \notin S /\ 4 \notin S /\ 5 \notin S
    <3>1. \A y \in S : y = 6
      BY <1>1, <2>6
    <3>2. PICK x \in S : TRUE
      OBVIOUS
    <3>3. x \in S /\ \A y \in S : x <= y
      BY <3>1, <3>2
    <3>4. QED
      BY <3>3
  <2>7. QED
    BY <1>1, <2>1, <2>2, <2>3, <2>4, <2>5, <2>6
<1>3. QED
  BY <1>2 DEF Min

\* Where the next domain begins: at a position of Order with a new cutoff and
\* no ids, or the cycle ends.
LEMMA EnteredOK ==
    ASSUME TypeOK, NEW i \in Nat \ {0}, NEW dry \in BOOLEAN
    PROVE  /\ Entered(i, dry) \in CycleType
           /\ Entered(i, dry).cutoff <= clock
           /\ Entered(i, dry).step \in {"fetch", "end"}
           /\ Entered(i, dry).dry = dry
           /\ Entered(i, dry).ids = {} /\ Entered(i, dry).safe = {}
           /\ Entered(i, dry).step = "fetch" =>
                 /\ Entered(i, dry).left > 0
                 /\ Entered(i, dry).domain \in 1..Len(Order)
                 /\ Entered(i, dry).cutoff =
                       clock - Keep[Order[Entered(i, dry).domain]]
<1>1. Order \in [1..6 -> Domains] /\ Len(Order) = 6
  BY DEF Order, Domains
<1>2. CASE RunnersFrom(i) = {}
  BY <1>1, <1>2 DEF Entered, Cycle, CycleType, TypeOK
<1>3. CASE RunnersFrom(i) # {}
  <2> DEFINE first == Min(RunnersFrom(i))
  <2>1. RunnersFrom(i) \in SUBSET (1..Len(Order))
    BY <1>1 DEF RunnersFrom
  <2>2. first \in 1..6
    BY <1>1, <1>3, <2>1, FirstPosition
  <2>3. Keep[Order[first]] \in Nat
    BY <1>1, <2>2, RetentionAssumption
  <2>4. Cutoff(Order[first]) \in Int /\ Cutoff(Order[first]) <= clock
    BY <2>3 DEF Cutoff, TypeOK
  <2>5. Entered(i, dry) = Cycle("fetch", first, Cutoff(Order[first]),
                                MaxBatches, {}, {}, dry)
    BY <1>3 DEF Entered
  <2> HIDE DEF first
  <2>6. QED
    BY <1>1, <2>2, <2>4, <2>5, RetentionAssumption DEF Cutoff, Cycle, CycleType
<1>4. QED
  BY <1>2, <1>3

\* No two cycles run at the same time.
LEMMA SoleCycle ==
    ASSUME LockInv, NEW c \in Callers, NEW d \in Callers, Active(c), Active(d)
    PROVE  c = d
BY RetentionAssumption DEF LockInv, Callers

\* A row refers to one whose rows do not refer to deliveries.
LEMMA Schema ==
    ASSUME NEW r \in Rows
    PROVE  /\ DomainOf[r] = "entities" => ParentOf[r] = NoRow
           /\ DomainOf[r] # "entities" => ParentOf[r] \in Rows
           /\ DomainOf[r] = "notification_deliveries" =>
                 DomainOf[ParentOf[r]] = "alerts"
           /\ DomainOf[r] \notin {"entities", "notification_deliveries"} =>
                 DomainOf[ParentOf[r]] = "entities"
<1>1. DomainOf[r] \in Domains /\ ParentOf[r] \in Rows \union {NoRow}
  BY RetentionAssumption
<1>2. ParentOf[r] # NoRow => DomainOf[ParentOf[r]] \in Domains
  BY <1>1, RetentionAssumption
<1>3. Owner[DomainOf[r]] =
        IF ParentOf[r] = NoRow THEN "none" ELSE DomainOf[ParentOf[r]]
  BY RetentionAssumption
<1>4. "none" \notin Domains
  BY DEF Domains
<1>5. QED
  BY <1>1, <1>2, <1>3, <1>4 DEF Owner, Domains

LEMMA InitInv == Init => Inv
<1> SUFFICES ASSUME Init PROVE Inv
  OBVIOUS
<1>1. \A r \in Rows : row[r].status \in {"none", "live"} /\ row[r].at = 0
  BY DEF Init
<1>2. \A c \in Callers : cycle[c] = NoCycle
  BY DEF Init
<1>3. TypeOK
  <2>1. cycle \in [Callers -> CycleType] /\ \A c \in Callers : cycle[c].cutoff <= clock
    BY <1>2 DEF Init, CycleType, NoCycle, Cycle, Order
  <2>2. QED
    BY <2>1, RetentionAssumption DEF Init, TypeOK
<1>4. \A c \in Callers : ~Active(c) /\ cycle[c].step = "off"
  BY <1>2 DEF Active, NoCycle, Cycle
<1>5. LockInv
  BY <1>4, RetentionAssumption DEF Init, LockInv, Callers
<1>6. FlagInv
  BY <1>4 DEF Init, FlagInv
<1>7. RowInv
  <2>1. ASSUME NEW r \in Rows, DomainOf[r] # "entities" PROVE row[r].status = "none"
    BY <2>1, RetentionAssumption DEF Init
  <2>2. ASSUME NEW r \in Rows, ParentOf[r] # NoRow PROVE ~Present(r)
    BY <2>1, <2>2, Schema DEF Present
  <2>3. \A r \in Rows : DomainOf[r] = "observations" => row[r].status # "live"
    BY <2>1
  <2>4. QED
    BY <1>1, <2>2, <2>3 DEF RowInv
<1>8. BatchInv /\ SafeInv
  BY <1>4 DEF BatchInv, SafeInv
<1>9. QED
  BY <1>3, <1>5, <1>6, <1>7, <1>8 DEF Inv

-----------------------------------------------------------------------------
(* The components that write the rows.                                     *)

\* What a write may do: rows of S come or change their status, and a cycle that
\* holds ids is told so by changed.
Written(S) ==
    /\ S \subseteq Rows
    /\ row' \in [Rows -> [status : {"none", "live", "dead", "gone"}, at : Nat]]
    /\ \A r \in Rows \ S : row'[r] = row[r]
    /\ \A r \in S :
          /\ row'[r].status \in {"live", "dead"}
          /\ row'[r].status = "dead" => row'[r].at = clock
          /\ DomainOf[r] = "observations" => row'[r].status = "dead"
          /\ DomainOf[r] = "entities" => row[r].status # "dead"
          /\ row[r].status # "gone"
          /\ ParentOf[r] # NoRow => \/ Present(ParentOf[r])
                                   \/ ParentOf[r] \in S
    /\ Put(S)

LEMMA WriteInv ==
    ASSUME Inv, NEW S, Written(S)
    PROVE  Inv'
<1> USE DEF Inv
<1>a. \A r \in Rows : r \notin S => row'[r] = row[r]
  BY DEF Written
<1>b. \A r \in S : r \in Rows /\ row'[r].status \in {"live", "dead"}
  BY DEF Written
<1>c. \A r \in S : row'[r].status = "dead" => row'[r].at = clock
  BY DEF Written
<1>d. \A r \in S : DomainOf[r] = "observations" => row'[r].status = "dead"
  BY DEF Written
<1>e. \A r \in S :
        /\ row[r].status # "gone"
        /\ DomainOf[r] = "entities" => row[r].status # "dead"
  BY DEF Written
<1>f. \A r \in S : ParentOf[r] # NoRow => Present(ParentOf[r]) \/ ParentOf[r] \in S
  BY DEF Written
<1>1. UNCHANGED <<clock, dry_run, lock, caller, cycle, cooling, faults>>
  BY DEF Written, Put
<1>2. /\ changed' \subseteq Rows /\ changes' \in Nat
      /\ \A c \in Callers : cycle[c].step \in {"check", "delete"} =>
            changed' = changed \union S
  BY DEF Written, Put, TypeOK
<1>3. TypeOK'
  BY <1>1, <1>2 DEF Written, TypeOK
<1>4. LockInv'
  BY <1>1 DEF LockInv, Active
<1>5. FlagInv'
  BY <1>1 DEF FlagInv, Active
<1>6. RowInv'
  <2>1. \A r \in Rows : Present(r) => Present(r)'
    BY <1>a, <1>b DEF Present
  <2>2. ASSUME NEW r \in Rows, ParentOf[r] # NoRow, Present(r)'
        PROVE  Present(ParentOf[r])'
    <3>1. ParentOf[r] \in Rows
      BY <2>2, RetentionAssumption
    <3>2. CASE r \in S
      BY <1>b, <1>f, <2>1, <2>2, <3>1, <3>2 DEF Present
    <3>3. CASE r \notin S
      BY <1>a, <2>1, <2>2, <3>1, <3>3 DEF Present, RowInv
    <3>4. QED
      BY <3>2, <3>3
  <2>3. \A r \in Rows : DomainOf[r] = "observations" => row'[r].status # "live"
    BY <1>a, <1>d DEF RowInv
  <2>4. \A r \in Rows : row'[r].status = "dead" => row'[r].at <= clock
    <3>1. ASSUME NEW r \in Rows, row'[r].status = "dead" PROVE row'[r].at <= clock
      <4>1. CASE r \in S
        BY <1>c, <3>1, <4>1 DEF TypeOK
      <4>2. CASE r \notin S
        BY <1>a, <3>1, <4>2 DEF RowInv
      <4>3. QED
        BY <4>1, <4>2
    <3>2. QED
      BY <3>1
  <2>5. QED
    BY <1>1, <2>2, <2>3, <2>4 DEF RowInv
<1>7. BatchInv'
  <2>1. ASSUME NEW c \in Callers, cycle[c].step \in {"fetch", "check", "delete"},
               NEW r \in cycle[c].ids
        PROVE  \/ row'[r].status = "dead" /\ row'[r].at < cycle[c].cutoff
               \/ row'[r].status = "gone"
               \/ r \in changed' /\ Domain(c) # "entities"
    <3>1. r \in Rows /\ DomainOf[r] = Domain(c) /\ cycle[c].step \in {"check", "delete"}
      BY <2>1 DEF BatchInv, TypeOK, CycleType
    <3>2. CASE r \in S
      BY <1>e, <1>2, <2>1, <3>1, <3>2 DEF BatchInv
    <3>3. CASE r \notin S
      BY <1>a, <1>2, <2>1, <3>1, <3>3 DEF BatchInv
    <3>4. QED
      BY <3>2, <3>3
  <2>2. QED
    BY <1>1, <2>1 DEF BatchInv, Domain
<1>8. SafeInv'
  <2>1. ASSUME NEW c \in Callers,
               cycle[c].step = "delete", Domain(c) = "entities"
        PROVE  /\ \A e \in cycle[c].safe : row'[e].status \in {"dead", "gone"}
               /\ \A r \in Children(cycle[c].safe)
                          \union Children(Children(cycle[c].safe)) :
                     row'[r].status = "live" => r \in changed'
    <3>1. ASSUME NEW e \in cycle[c].safe PROVE row'[e].status \in {"dead", "gone"}
      <4>1. e \in Rows /\ DomainOf[e] = "entities"
            /\ row[e].status \in {"dead", "gone"}
        BY <2>1, <3>1 DEF BatchInv, SafeInv, TypeOK, CycleType
      <4>2. QED
        BY <1>a, <1>e, <4>1
    <3>2. ASSUME NEW r \in Children(cycle[c].safe)
                           \union Children(Children(cycle[c].safe)),
                 row'[r].status = "live"
          PROVE  r \in changed'
      <4>1. r \in Rows
        BY <3>2 DEF Children
      <4>2. CASE r \in S
        BY <1>2, <2>1, <4>2
      <4>3. CASE r \notin S
        BY <1>a, <1>2, <2>1, <3>2, <4>1, <4>3 DEF SafeInv
      <4>4. QED
        BY <4>2, <4>3
    <3>3. QED
      BY <3>1, <3>2
  <2>2. QED
    BY <1>1, <2>1 DEF SafeInv, Domain
<1>9. QED
  BY <1>3, <1>4, <1>5, <1>6, <1>7, <1>8

LEMMA WritersInv == Inv /\ Writers => Inv'
<1> SUFFICES ASSUME Inv, Writers PROVE Inv'
  OBVIOUS
<1> USE DEF Inv
<1>1. CASE Tick
  <2>1. clock' = clock + 1 /\ UNCHANGED <<row, changed, dry_run, lock, caller,
                                           cycle, cooling, faults, changes>>
    BY <1>1 DEF Tick, store
  <2>2. TypeOK'
    BY <2>1 DEF TypeOK, CycleType
  <2>3. LockInv' /\ FlagInv' /\ SafeInv'
    BY <2>1 DEF LockInv, FlagInv, SafeInv, Active, Domain
  <2>4. RowInv'
    BY <2>1 DEF RowInv, TypeOK, Present
  <2>5. BatchInv'
    <3>1. ASSUME NEW c \in Callers,
                 cycle[c].step \in {"fetch", "check", "delete"}
          PROVE  cycle[c].cutoff <= clock' - Keep[Domain(c)]
      <4>1. cycle[c].domain \in 1..6 /\ Order \in [1..6 -> Domains]
            /\ cycle[c].cutoff <= clock - Keep[Domain(c)]
        BY <3>1 DEF BatchInv, Order, Domains
      <4>2. Keep[Domain(c)] \in Nat
        BY <4>1, RetentionAssumption DEF Domain
      <4>3. cycle[c].cutoff \in Int /\ clock \in Nat
        BY DEF TypeOK, CycleType
      <4>4. QED
        BY <2>1, <4>1, <4>2, <4>3
    <3>2. QED
      BY <2>1, <3>1 DEF BatchInv, Domain
  <2>6. QED
    BY <2>2, <2>3, <2>4, <2>5
<1>2. ASSUME NEW r \in Rows, Revive(r) PROVE Inv'
  <2>1. row' = [row EXCEPT ![r] = [status |-> "live", at |-> 0]] /\ Put({r})
        /\ DomainOf[r] \in {"evaluator_state", "notification_deliveries", "alerts"}
        /\ row[r].status = "dead"
    BY <1>2 DEF Revive
  <2>2. Written({r})
    BY <2>1 DEF Written, TypeOK, RowInv, Present
  <2>3. QED
    BY <2>2, WriteInv
<1>3. ASSUME NEW r \in Rows, NEW new \in SUBSET NewDeliveries(r), Insert(r, new)
      PROVE  Inv'
  <2>1. \A d \in new : /\ d \in Rows /\ row[d].status = "none" /\ ParentOf[d] = r
                        /\ DomainOf[d] = "notification_deliveries"
    BY <1>3 DEF NewDeliveries, Children, Of
  <2>2. row[r].status = "none" /\ (ParentOf[r] # NoRow => Present(ParentOf[r]))
    BY <1>3 DEF Insert, MayInsert
  <2>3. row' \in [Rows -> [status : {"none", "live", "dead", "gone"}, at : Nat]]
    BY <1>3 DEF Insert, TypeOK
  <2>4. Written({r} \union new)
    BY <1>3, <2>1, <2>2, <2>3 DEF Insert, Written
  <2>5. QED
    BY <2>4, WriteInv
<1>4. ASSUME NEW r \in Rows, NEW new \in SUBSET NewDeliveries(r), Settle(r, new)
      PROVE  Inv'
  <2>1. \A d \in new : /\ d \in Rows /\ row[d].status = "none" /\ ParentOf[d] = r
                        /\ DomainOf[d] = "notification_deliveries"
    BY <1>4 DEF NewDeliveries, Children, Of
  <2>2. row[r].status = "live" /\ (ParentOf[r] # NoRow => Present(ParentOf[r]))
    BY <1>4 DEF Settle, RowInv, Present
  <2>3. row' \in [Rows -> [status : {"none", "live", "dead", "gone"}, at : Nat]]
    BY <1>4 DEF Settle, TypeOK
  <2>4. Written({r} \union new)
    BY <1>4, <2>1, <2>2, <2>3 DEF Settle, Written
  <2>5. QED
    BY <2>4, WriteInv
<1>5. QED
  BY <1>1, <1>2, <1>3, <1>4 DEF Writers

-----------------------------------------------------------------------------
(* A cycle.                                                                *)

\* A step within a cycle leaves the lock and the flag alone, and a dry cycle
\* never comes to delete.
LEMMA StepKeepsLock ==
    ASSUME Inv, NEW c \in Callers, Active(c), NEW x \in CycleType,
           cycle' = [cycle EXCEPT ![c] = x],
           x.step # "off", x.dry = cycle[c].dry, x.cutoff <= clock,
           x.step \in {"check", "delete"} => ~dry_run,
           row' \in [Rows -> [status : {"none", "live", "dead", "gone"}, at : Nat]],
           changed' \subseteq Rows, faults' \in Nat,
           UNCHANGED <<clock, dry_run, lock, caller, cooling, changes>>
    PROVE  /\ TypeOK' /\ LockInv' /\ FlagInv'
           /\ cycle'[c] = x /\ \A d \in Callers : d # c => ~Active(d)'
<1> USE DEF Inv
<1>1. cycle'[c] = x /\ \A d \in Callers : d # c => cycle'[d] = cycle[d]
  BY DEF TypeOK
<1>2. \A d \in Callers : Active(d)' <=> Active(d)
  BY <1>1 DEF Active
<1>3. \A d \in Callers : d # c => ~Active(d)'
  BY <1>2, SoleCycle
<1>4. TypeOK'
  <2>1. cycle' \in [Callers -> CycleType] /\ \A d \in Callers : cycle'[d].cutoff <= clock
    BY <1>1 DEF TypeOK
  <2>2. QED
    BY <2>1 DEF TypeOK
<1>5. LockInv'
  BY <1>2 DEF LockInv, Callers
<1>6. FlagInv'
  <2>1. c \in Callers /\ Active(c)' /\ cycle'[c].dry = ConfigDry
    BY <1>1, <1>2 DEF FlagInv
  <2>2. dry_run' = (IF c \in DryRequests THEN TRUE
                    ELSE IF c \in RunRequests THEN FALSE ELSE ConfigDry)
    BY DEF FlagInv
  <2>3. cycle'[c].step \in {"check", "delete"} => ~dry_run'
    BY <1>1
  <2>4. QED
    BY <1>3, <2>1, <2>2, <2>3 DEF FlagInv
<1>7. QED
  BY <1>1, <1>3, <1>4, <1>5, <1>6

\* The cycle goes on to the next domain: it holds nothing.
LEMMA NextDomainInv ==
    ASSUME Inv, RowInv', NEW c \in Callers,
           cycle[c].step \in {"fetch", "check", "delete"}, NextDomain(c),
           row' \in [Rows -> [status : {"none", "live", "dead", "gone"}, at : Nat]],
           changed' \subseteq Rows, faults' \in Nat,
           UNCHANGED <<clock, dry_run, lock, caller, cooling, changes>>
    PROVE  Inv'
<1> USE DEF Inv
<1> DEFINE x == Entered(cycle[c].domain + 1, cycle[c].dry)
<1>1. cycle[c] \in CycleType /\ Active(c)
  BY DEF TypeOK, Active
<1>2. cycle[c].domain + 1 \in Nat \ {0} /\ cycle[c].dry \in BOOLEAN
  BY <1>1 DEF CycleType, Order
<1>3. /\ x \in CycleType /\ x.cutoff <= clock /\ x.step \in {"fetch", "end"}
      /\ x.dry = cycle[c].dry /\ x.ids = {} /\ x.safe = {}
      /\ x.step = "fetch" => /\ x.left > 0 /\ x.domain \in 1..Len(Order)
                             /\ x.cutoff = clock - Keep[Order[x.domain]]
  BY <1>2, EnteredOK
<1>4. cycle' = [cycle EXCEPT ![c] = x]
  BY DEF NextDomain
<1> HIDE DEF x
<1>5. TypeOK' /\ LockInv' /\ FlagInv' /\ cycle'[c] = x
      /\ \A d \in Callers : d # c => ~Active(d)'
  BY <1>1, <1>3, <1>4, StepKeepsLock
<1>6. BatchInv'
  <2>1. x.step = "fetch" => x.cutoff <= clock - Keep[Order[x.domain]]
    BY <1>3 DEF CycleType
  <2>2. QED
    BY <1>3, <1>5, <2>1 DEF BatchInv, Active, Domain
<1>7. SafeInv'
  BY <1>3, <1>5 DEF SafeInv, Active
<1>8. QED
  BY <1>5, <1>6, <1>7

LEMMA FailInv == ASSUME Inv, NEW c \in Callers, Fail(c) PROVE Inv'
<1> USE DEF Inv
<1>1. RowInv'
  BY DEF Fail, RowInv, Present
<1>2. changed' \subseteq Rows /\ faults' \in Nat /\ row' = row
  BY DEF Fail, TypeOK
<1>3. QED
  BY <1>1, <1>2, NextDomainInv DEF Fail, TypeOK

LEMMA FetchInv == ASSUME Inv, NEW c \in Callers, Fetch(c) PROVE Inv'
<1> USE DEF Inv
<1>1. PICK ids \in Batches(Domain(c), cycle[c].cutoff, BatchSize) :
         IF ids = {} \/ dry_run
         THEN NextDomain(c)
         ELSE cycle' = [cycle EXCEPT ![c] =
                  Cycle(IF Domain(c) = "entities" THEN "check" ELSE "delete",
                        cycle[c].domain, cycle[c].cutoff, cycle[c].left - 1,
                        ids, {}, cycle[c].dry)]
  BY DEF Fetch
<1>2. /\ cycle[c].step = "fetch" /\ cycle[c] \in CycleType /\ Active(c)
      /\ UNCHANGED <<clock, row, changed, dry_run, lock, caller, cooling, faults,
                     changes>>
  BY DEF Fetch, store, TypeOK, Active
<1>3. RowInv' /\ changed' \subseteq Rows /\ faults' \in Nat
      /\ row' \in [Rows -> [status : {"none", "live", "dead", "gone"}, at : Nat]]
  BY <1>2 DEF RowInv, Present, TypeOK
<1>4. CASE ids = {} \/ dry_run
  BY <1>1, <1>2, <1>3, <1>4, NextDomainInv
<1>5. CASE ids # {} /\ ~dry_run
  <2> DEFINE step == IF Domain(c) = "entities" THEN "check" ELSE "delete"
             x == Cycle(step, cycle[c].domain, cycle[c].cutoff,
                        cycle[c].left - 1, ids, {}, cycle[c].dry)
  <2>1. \A r \in ids : /\ r \in Rows /\ DomainOf[r] = Domain(c)
                       /\ row[r].status = "dead" /\ row[r].at < cycle[c].cutoff
    BY DEF Batches, Eligible, Of
  <2>2. cycle[c].left > 0 /\ cycle[c].domain \in 1..Len(Order)
        /\ cycle[c].cutoff <= clock - Keep[Domain(c)]
    BY <1>2 DEF BatchInv
  <2>3. x \in CycleType /\ x.cutoff <= clock /\ x.step # "off"
        /\ x.dry = cycle[c].dry /\ x.ids = ids /\ x.safe = {} /\ x.step = step
        /\ x.domain = cycle[c].domain /\ x.cutoff = cycle[c].cutoff
    BY <1>2, <2>1, <2>2 DEF Cycle, CycleType, TypeOK
  <2>4. cycle' = [cycle EXCEPT ![c] = x]
    BY <1>1, <1>5
  <2> HIDE DEF x
  <2>5. TypeOK' /\ LockInv' /\ FlagInv' /\ cycle'[c] = x
        /\ \A d \in Callers : d # c => ~Active(d)'
    BY <1>2, <1>3, <1>5, <2>3, <2>4, StepKeepsLock
  <2>6. Domain(c)' = Domain(c)
    BY <2>3, <2>5 DEF Domain
  <2>7. BatchInv'
    <3>1. \A r \in ids : /\ r \in Rows /\ DomainOf[r] = Domain(c)'
                         /\ row'[r].status = "dead" /\ row'[r].at < x.cutoff
      BY <1>2, <2>1, <2>3, <2>6
    <3>2. x.cutoff <= clock' - Keep[Domain(c)'] /\ x.domain \in 1..Len(Order)
      BY <1>2, <2>2, <2>3, <2>6
    <3>3. step = "check" => Domain(c)' = "entities"
      BY <2>6
    <3>4. step \in {"check", "delete"}
      OBVIOUS
    <3> HIDE DEF step
    <3>5. QED
      BY <2>3, <2>5, <3>1, <3>2, <3>3, <3>4 DEF BatchInv, Active
  <2>8. SafeInv'
    <3>1. x.step = "delete" => Domain(c)' # "entities"
      BY <2>3, <2>6
    <3>2. QED
      BY <2>5, <3>1 DEF SafeInv, Active
  <2>9. QED
    BY <1>3, <2>5, <2>7, <2>8
<1>6. QED
  BY <1>4, <1>5, <1>2 DEF TypeOK

LEMMA CheckInv == ASSUME Inv, NEW c \in Callers, Check(c) PROVE Inv'
<1> USE DEF Inv
<1> DEFINE safe == {e \in cycle[c].ids : row[e].status = "dead" /\ ~Blocked(e)}
           x == Cycle("delete", cycle[c].domain, cycle[c].cutoff, cycle[c].left,
                      cycle[c].ids, safe, cycle[c].dry)
<1>1. /\ cycle[c].step = "check" /\ cycle[c] \in CycleType /\ Active(c)
      /\ cycle' = [cycle EXCEPT ![c] = x]
      /\ changed' = changed \ WithDependants(safe)
      /\ UNCHANGED <<clock, row, dry_run, lock, caller, cooling, faults, changes>>
  BY DEF Check, TypeOK, Active
<1>2. /\ cycle[c].domain \in 1..Len(Order) /\ Domain(c) = "entities"
      /\ cycle[c].cutoff <= clock - Keep[Domain(c)]
      /\ \A r \in cycle[c].ids :
            /\ r \in Rows /\ DomainOf[r] = "entities"
            /\ \/ row[r].status = "dead" /\ row[r].at < cycle[c].cutoff
               \/ row[r].status = "gone"
  BY <1>1 DEF BatchInv, CycleType
<1>3. x \in CycleType /\ x.cutoff <= clock /\ x.step = "delete"
      /\ x.dry = cycle[c].dry /\ x.ids = cycle[c].ids /\ x.safe = safe
      /\ x.domain = cycle[c].domain /\ x.cutoff = cycle[c].cutoff
  BY <1>1, <1>2 DEF Cycle, CycleType, TypeOK
<1>4. ~dry_run
  BY <1>1 DEF FlagInv
<1>5. row' \in [Rows -> [status : {"none", "live", "dead", "gone"}, at : Nat]]
      /\ changed' \subseteq Rows /\ faults' \in Nat /\ RowInv'
  BY <1>1 DEF TypeOK, RowInv, Present
<1> HIDE DEF x, safe
<1>6. TypeOK' /\ LockInv' /\ FlagInv' /\ cycle'[c] = x
      /\ \A d \in Callers : d # c => ~Active(d)'
  BY <1>1, <1>3, <1>4, <1>5, StepKeepsLock
<1>7. Domain(c)' = "entities"
  BY <1>2, <1>3, <1>6 DEF Domain
<1>8. BatchInv'
  <2>1. safe \subseteq cycle[c].ids
    BY DEF safe
  <2>2. \A r \in x.ids :
            /\ DomainOf[r] = Domain(c)'
            /\ \/ row'[r].status = "dead" /\ row'[r].at < x.cutoff
               \/ row'[r].status = "gone"
    BY <1>1, <1>2, <1>3, <1>7
  <2>3. x.domain \in 1..Len(Order) /\ x.cutoff <= clock' - Keep[Domain(c)']
    BY <1>1, <1>2, <1>3, <1>7
  <2>4. QED
    BY <1>3, <1>6, <1>7, <2>1, <2>2, <2>3 DEF BatchInv, Active
<1>9. SafeInv'
  <2>1. \A e \in safe : row'[e].status = "dead" /\ e \in Rows /\ ~Blocked(e)
                       /\ DomainOf[e] = "entities"
    BY <1>1, <1>2 DEF safe
  <2>2. ASSUME NEW r \in Children(safe) PROVE row[r].status # "live"
    <3>1. r \in Rows /\ ParentOf[r] \in safe /\ r \in Children({ParentOf[r]})
      BY <2>2 DEF Children
    <3>2. DomainOf[r] \in Domains /\ DomainOf[r] # "entities"
          /\ DomainOf[r] # "notification_deliveries"
      <4>1. DomainOf[ParentOf[r]] = "entities" /\ ParentOf[r] # NoRow
        BY <2>1, <3>1, RetentionAssumption
      <4>2. QED
        BY <3>1, <4>1, Schema, RetentionAssumption
    <3>3. ~Blocked(ParentOf[r])
      BY <2>1, <3>1
    <3>4. QED
      BY <3>1, <3>2, <3>3 DEF Blocked, Domains, Present, RowInv
  <2>3. ASSUME NEW r \in Children(Children(safe)) PROVE row[r].status # "live"
    <3>1. /\ r \in Rows /\ ParentOf[r] \in Rows /\ ParentOf[ParentOf[r]] \in safe
          /\ ParentOf[r] \in Children({ParentOf[ParentOf[r]]})
      BY <2>3 DEF Children
    <3>2. DomainOf[ParentOf[r]] = "alerts" /\ ParentOf[r] # NoRow
      <4>1. ParentOf[ParentOf[r]] # NoRow /\ ParentOf[r] # NoRow
        BY <2>1, <3>1, RetentionAssumption
      <4>2. DomainOf[ParentOf[r]] # "entities"
        BY <3>1, <4>1, Schema
      <4>3. DomainOf[r] # "entities"
        BY <3>1, <4>1, Schema
      <4>4. QED
        BY <3>1, <4>1, <4>2, <4>3, Schema
    <3>3. ~Present(ParentOf[r])
      BY <2>1, <3>1, <3>2 DEF Blocked
    <3>4. QED
      BY <3>1, <3>2, <3>3 DEF RowInv, Present
  <2>4. QED
    BY <1>1, <1>3, <1>6, <2>1, <2>2, <2>3 DEF SafeInv, Active
<1>10. QED
  BY <1>5, <1>6, <1>8, <1>9

\* What a delete leaves and takes.
LEMMA Deleted ==
    ASSUME TypeOK, RowInv, NEW S \in SUBSET Rows, Delete(S)
    PROVE  /\ row' \in [Rows -> [status : {"none", "live", "dead", "gone"}, at : Nat]]
           /\ \A r \in Rows : \/ row'[r] = row[r] /\ ~(r \in WithDependants(S) /\ Present(r))
                              \/ /\ r \in WithDependants(S) /\ Present(r)
                                 /\ row'[r].status = "gone"
           /\ \A r \in Rows : ParentOf[r] # NoRow /\ Present(r)' => Present(ParentOf[r])'
<1>1. row' \in [Rows -> [status : {"none", "live", "dead", "gone"}, at : Nat]]
  BY DEF Delete, TypeOK
<1>2. ASSUME NEW r \in Rows
      PROVE  \/ row'[r] = row[r] /\ ~(r \in WithDependants(S) /\ Present(r))
             \/ /\ r \in WithDependants(S) /\ Present(r)
                /\ row'[r].status = "gone"
  BY DEF Delete
<1>3. ASSUME NEW r \in Rows, ParentOf[r] # NoRow, Present(r)'
      PROVE  Present(ParentOf[r])'
  <2> DEFINE p == ParentOf[r]
  <2>1. p \in Rows
    BY <1>3, RetentionAssumption
  <2>2. Present(r) /\ r \notin WithDependants(S)
    BY <1>2, <1>3 DEF Present
  <2>3. Present(p)
    BY <1>3, <2>2 DEF RowInv
  <2>4. p \notin S /\ p \notin Children(S)
    BY <2>1, <2>2 DEF WithDependants, Children
  <2>5. p \notin Children(Children(S))
    <3>1. SUFFICES ASSUME p \in Children(Children(S)) PROVE FALSE
      OBVIOUS
    <3>2. ParentOf[p] \in Rows /\ ParentOf[ParentOf[p]] \in Rows
      BY <3>1 DEF Children
    <3>3. ParentOf[p] # NoRow /\ ParentOf[ParentOf[p]] # NoRow
      BY <3>2, RetentionAssumption
    <3>4. DomainOf[p] # "entities" /\ DomainOf[ParentOf[p]] # "entities"
          /\ DomainOf[r] # "entities"
      BY <1>3, <2>1, <3>2, <3>3, Schema
    <3>5. DomainOf[p] = "notification_deliveries"
      BY <2>1, <3>4, Schema
    <3>6. DomainOf[p] \in {"alerts", "entities"}
      BY <3>4, Schema
    <3>7. QED
      BY <3>5, <3>6
  <2>6. row'[p] = row[p]
    BY <1>2, <2>1, <2>4, <2>5 DEF WithDependants
  <2>7. QED
    BY <2>3, <2>6 DEF Present
<1>4. QED
  BY <1>1, <1>2, <1>3

LEMMA RemovedRows == ASSUME TypeOK, BatchInv, NEW c \in Callers, cycle[c].step = "delete"
                     PROVE Removed(c) \in SUBSET Rows
BY DEF Removed, Deletable, BatchInv, TypeOK, CycleType

LEMMA DeleteBatchInv == ASSUME Inv, NEW c \in Callers, DeleteBatch(c) PROVE Inv'
<1> USE DEF Inv
<1>1. /\ cycle[c].step = "delete" /\ cycle[c] \in CycleType /\ Active(c)
      /\ Delete(Removed(c)) /\ changed' = {}
      /\ UNCHANGED <<clock, dry_run, lock, caller, cooling, faults, changes>>
  BY DEF DeleteBatch, TypeOK, Active
<1>2. Removed(c) \in SUBSET Rows
  BY <1>1, RemovedRows
<1>3. /\ row' \in [Rows -> [status : {"none", "live", "dead", "gone"}, at : Nat]]
      /\ \A r \in Rows : row'[r] = row[r] \/ row'[r].status = "gone"
      /\ \A r \in Rows : ParentOf[r] # NoRow /\ Present(r)' => Present(ParentOf[r])'
  BY <1>1, <1>2, Deleted
<1>4. RowInv'
  <2>1. ASSUME NEW r \in Rows
        PROVE  /\ DomainOf[r] = "observations" => row'[r].status # "live"
               /\ row'[r].status = "dead" => row'[r].at <= clock'
    BY <1>1, <1>3 DEF RowInv
  <2>2. QED
    BY <1>3, <2>1 DEF RowInv
<1>5. changed' \subseteq Rows /\ faults' \in Nat
  BY <1>1 DEF TypeOK
<1>6. CASE cycle[c].left = 0 \/ Cardinality(cycle[c].ids) < BatchSize
  <2>1. NextDomain(c)
    BY <1>6 DEF DeleteBatch
  <2>2. QED
    BY <1>1, <1>3, <1>4, <1>5, <2>1, NextDomainInv
<1>7. CASE ~(cycle[c].left = 0 \/ Cardinality(cycle[c].ids) < BatchSize)
  <2> DEFINE x == Cycle("fetch", cycle[c].domain, cycle[c].cutoff,
                        cycle[c].left, {}, {}, cycle[c].dry)
  <2>1. cycle' = [cycle EXCEPT ![c] = x]
    BY <1>7 DEF DeleteBatch
  <2>2. cycle[c].left > 0 /\ cycle[c].domain \in 1..Len(Order)
        /\ cycle[c].cutoff <= clock - Keep[Domain(c)]
    BY <1>1, <1>7 DEF BatchInv, CycleType
  <2>3. x \in CycleType /\ x.cutoff <= clock /\ x.step = "fetch" /\ x.left > 0
        /\ x.dry = cycle[c].dry /\ x.ids = {} /\ x.safe = {}
        /\ x.domain = cycle[c].domain /\ x.cutoff = cycle[c].cutoff
    BY <1>1, <2>2 DEF Cycle, CycleType, TypeOK
  <2> HIDE DEF x
  <2>4. TypeOK' /\ LockInv' /\ FlagInv' /\ cycle'[c] = x
        /\ \A d \in Callers : d # c => ~Active(d)'
    BY <1>1, <1>3, <1>5, <2>1, <2>3, StepKeepsLock
  <2>5. Domain(c)' = Domain(c)
    BY <2>3, <2>4 DEF Domain
  <2>6. BatchInv' /\ SafeInv'
    BY <1>1, <2>2, <2>3, <2>4, <2>5 DEF BatchInv, SafeInv, Active
  <2>7. QED
    BY <1>4, <2>4, <2>6
<1>8. QED
  BY <1>6, <1>7

LEMMA EndInv == ASSUME Inv, NEW c \in Callers, End(c) PROVE Inv'
<1> USE DEF Inv
<1>1. /\ Active(c) /\ cycle[c] \in CycleType
      /\ dry_run' = cycle[c].dry
      /\ cycle' = [cycle EXCEPT ![c] = NoCycle]
      /\ lock' = IF lock = c THEN Nobody ELSE lock
      /\ caller' = [caller EXCEPT
             ![c] = IF c \in Requests THEN "done"
                    ELSE IF @ = "running" THEN "idle" ELSE @]
      /\ cooling' \in BOOLEAN
      /\ UNCHANGED <<clock, row, changed, faults, changes>>
  BY DEF End, TypeOK, Active, store
<1>2. NoCycle \in CycleType /\ NoCycle.step = "off" /\ NoCycle.cutoff = 0
  BY DEF NoCycle, Cycle, CycleType, Order
<1>3. cycle'[c] = NoCycle /\ \A d \in Callers : d # c => cycle'[d] = cycle[d]
  BY <1>1 DEF TypeOK
<1>4. \A d \in Callers : ~Active(d)' /\ cycle'[d].step = "off"
  BY <1>1, <1>2, <1>3, SoleCycle DEF Active
<1>5. TypeOK'
  <2>1. cycle' \in [Callers -> CycleType] /\ \A d \in Callers : cycle'[d].cutoff <= clock
    BY <1>1, <1>2, <1>3 DEF TypeOK
  <2>2. caller' \in [Callers -> {"idle", "waiting", "running", "done", "stopped"}]
    BY <1>1 DEF TypeOK
  <2>3. lock' \in Callers \union {Nobody} /\ dry_run' \in BOOLEAN
    BY <1>1 DEF TypeOK, CycleType
  <2>4. QED
    BY <1>1, <2>1, <2>2, <2>3 DEF TypeOK
<1>6. LockInv'
  <2>1. \A d \in Requests : lock' # d
    <3>1. SUFFICES ASSUME NEW d \in Requests, lock' = d PROVE FALSE
      OBVIOUS
    <3>2. d \in Callers /\ d # Nobody
      BY RetentionAssumption DEF Callers
    <3>3. lock = d /\ d # c
      BY <1>1, <3>1, <3>2
    <3>4. Active(d)
      BY <3>3 DEF LockInv
    <3>5. QED
      BY <1>1, <3>2, <3>3, <3>4, SoleCycle
  <2>2. \A d \in Requests : caller'[d] # "stopped"
    BY <1>1 DEF LockInv, TypeOK, Callers
  <2>3. \A d \in Requests : ~Active(d)'
    BY <1>4 DEF Callers
  <2>4. QED
    BY <1>4, <2>1, <2>2, <2>3 DEF LockInv
<1>7. FlagInv'
  BY <1>1, <1>4 DEF FlagInv
<1>8. RowInv' /\ BatchInv' /\ SafeInv'
  BY <1>1, <1>4 DEF RowInv, Present, BatchInv, SafeInv
<1>9. QED
  BY <1>5, <1>6, <1>7, <1>8

\* With the lock a cycle begins alone.
LEMMA BeginInv ==
    ASSUME Inv, NEW c \in Callers, Acquire(c), Begin(c),
           caller[Loop] # "stopped", caller[c] # "stopped",
           c \in RunRequests => ~dry_run,
           UNCHANGED <<clock, row, changed, cooling, faults, changes>>
    PROVE  Inv'
<1> USE DEF Inv
<1> DEFINE x == Entered(1, dry_run)
<1>1. \A d \in Callers : ~Active(d)
  <2>1. lock = Nobody /\ Nobody \notin Callers
    BY RetentionAssumption DEF Acquire
  <2>2. QED
    BY <2>1 DEF LockInv
<1>2. dry_run = ConfigDry
  BY <1>1 DEF FlagInv
<1>3. /\ x \in CycleType /\ x.cutoff <= clock /\ x.step \in {"fetch", "end"}
      /\ x.dry = ConfigDry /\ x.ids = {} /\ x.safe = {}
      /\ x.step = "fetch" => /\ x.left > 0 /\ x.domain \in 1..Len(Order)
                             /\ x.cutoff = clock - Keep[Order[x.domain]]
  BY <1>2, EnteredOK DEF TypeOK
<1>4. cycle' = [cycle EXCEPT ![c] = x] /\ dry_run' = Override(c)
      /\ caller' = [caller EXCEPT ![c] = "running"] /\ lock' = c
  BY DEF Begin, Acquire
<1> HIDE DEF x
<1>5. cycle'[c] = x /\ \A d \in Callers : d # c => cycle'[d] = cycle[d]
  BY <1>4 DEF TypeOK
<1>6. Active(c)' /\ \A d \in Callers : d # c => ~Active(d)'
  BY <1>1, <1>3, <1>5 DEF Active
<1>7. /\ dry_run' = (IF c \in DryRequests THEN TRUE
                     ELSE IF c \in RunRequests THEN FALSE ELSE ConfigDry)
      /\ dry_run' \in BOOLEAN
  BY <1>2, <1>4, RetentionAssumption DEF Override
<1>8. TypeOK'
  <2>1. cycle' \in [Callers -> CycleType] /\ \A d \in Callers : cycle'[d].cutoff <= clock
    BY <1>3, <1>4, <1>5 DEF TypeOK
  <2>2. caller' \in [Callers -> {"idle", "waiting", "running", "done", "stopped"}]
    BY <1>4 DEF TypeOK
  <2>3. QED
    BY <1>4, <1>7, <2>1, <2>2 DEF TypeOK
<1>9. LockInv'
  <2>1. caller'[c] = "running" /\ caller'[Loop] # "stopped"
        /\ \A d \in Requests : caller'[d] # "stopped"
    BY <1>4 DEF TypeOK, LockInv, Callers
  <2>2. QED
    BY <1>4, <1>6, <2>1 DEF LockInv
<1>10. FlagInv'
  BY <1>3, <1>5, <1>6, <1>7 DEF FlagInv
<1>11. RowInv'
  BY DEF RowInv, Present
<1>12. BatchInv'
  <2>1. x.step = "fetch" => x.cutoff <= clock' - Keep[Order[x.domain]]
    BY <1>3 DEF CycleType
  <2>2. QED
    BY <1>3, <1>5, <1>6, <2>1 DEF BatchInv, Active, Domain
<1>13. SafeInv'
  BY <1>3, <1>5, <1>6 DEF SafeInv, Active
<1>14. QED
  BY <1>8, <1>9, <1>10, <1>11, <1>12, <1>13

LEMMA StepInv == Inv /\ [Next]_vars => Inv'
<1> SUFFICES ASSUME Inv, [Next]_vars PROVE Inv'
  OBVIOUS
<1> USE DEF Inv
<1>0. Loop \in Callers /\ Requests \subseteq Callers
  BY DEF Callers
<1>1. CASE Writers
  BY <1>1, WritersInv
<1>2. CASE Wake
  <2>1. /\ caller' = [caller EXCEPT ![Loop] = "waiting"] /\ caller[Loop] = "idle"
        /\ UNCHANGED <<clock, row, changed, dry_run, lock, cycle, cooling, faults,
                       changes>>
    BY <1>2 DEF Wake, store
  <2>2. TypeOK'
    BY <2>1 DEF TypeOK
  <2>3. LockInv'
    BY <1>0, <2>1, RetentionAssumption DEF LockInv, Active, TypeOK
  <2>4. FlagInv' /\ RowInv' /\ BatchInv' /\ SafeInv'
    BY <2>1 DEF FlagInv, RowInv, BatchInv, SafeInv, Active, Present, Domain
  <2>5. QED
    BY <2>2, <2>3, <2>4
<1>3. CASE RunCycle
  <2>1. Loop \notin RunRequests
    BY RetentionAssumption DEF Requests
  <2>2. QED
    BY <1>0, <1>3, <2>1, BeginInv DEF RunCycle, store
<1>4. ASSUME NEW c \in Requests, Trigger(c) PROVE Inv'
  BY <1>0, <1>4, BeginInv DEF Trigger, Serving, Permitted, store
<1>5. CASE CooldownOver
  <2>1. /\ cooling' = FALSE
        /\ UNCHANGED <<clock, row, changed, dry_run, lock, caller, cycle, faults,
                       changes>>
    BY <1>5 DEF CooldownOver, store
  <2>2. TypeOK'
    BY <2>1 DEF TypeOK
  <2>3. LockInv'
    BY <2>1 DEF LockInv, Active
  <2>4. FlagInv' /\ RowInv'
    BY <2>1 DEF FlagInv, RowInv, Active, Present
  <2>5. BatchInv'
    BY <2>1 DEF BatchInv, Active, Domain
  <2>6. SafeInv'
    BY <2>1 DEF SafeInv, Active, Domain, Present
  <2>7. QED
    BY <2>2, <2>3, <2>4, <2>5, <2>6
<1>6. CASE Stop
  <2>1. /\ caller' = [caller EXCEPT ![Loop] = "stopped"]
        /\ \A c \in Requests : caller[c] # "running"
        /\ lock' = IF lock = Loop THEN Nobody ELSE lock
        /\ caller[Loop] # "stopped"
        /\ UNCHANGED <<clock, row, changed, dry_run, cycle, cooling, faults,
                       changes>>
    BY <1>6 DEF Stop, store, Serving
  <2>2. TypeOK'
    BY <2>1 DEF TypeOK
  <2>3. LockInv'
    <3>1. \A c \in Requests : ~Active(c) /\ c # Loop
      BY <1>0, <2>1, RetentionAssumption DEF LockInv
    <3>2. \A c \in Requests : lock' # c
      BY <1>0, <2>1, <3>1, RetentionAssumption DEF LockInv
    <3>3. \A c \in Callers : c # Loop => c \in Requests
      BY DEF Callers
    <3>4. \A c \in Callers : Active(c)' <=> Active(c)
      BY <2>1 DEF Active
    <3>5. caller'[Loop] = "stopped" /\ \A c \in Requests : caller'[c] # "stopped"
      BY <1>0, <2>1, <3>1 DEF LockInv, TypeOK
    <3>6. QED
      BY <1>0, <3>1, <3>2, <3>3, <3>4, <3>5 DEF LockInv
  <2>4. FlagInv' /\ RowInv' /\ BatchInv' /\ SafeInv'
    BY <2>1 DEF FlagInv, RowInv, BatchInv, SafeInv, Active, Present, Domain
  <2>5. QED
    BY <2>2, <2>3, <2>4
<1>7. ASSUME NEW c \in Callers, CycleStep(c) \/ Fail(c) PROVE Inv'
  BY <1>7, FetchInv, CheckInv, DeleteBatchInv, EndInv, FailInv DEF CycleStep
<1>8. CASE UNCHANGED vars
  <2>1. UNCHANGED <<clock, row, dry_run, lock, caller, cycle, cooling, changed,
                    faults, changes>>
    BY <1>8 DEF vars
  <2>2. TypeOK'
    BY <2>1 DEF TypeOK
  <2>3. LockInv'
    BY <2>1 DEF LockInv, Active
  <2>4. FlagInv' /\ RowInv'
    BY <2>1 DEF FlagInv, RowInv, Active, Present
  <2>5. BatchInv'
    BY <2>1 DEF BatchInv, Active, Domain
  <2>6. SafeInv'
    BY <2>1 DEF SafeInv, Active, Domain, Present
  <2>7. QED
    BY <2>2, <2>3, <2>4, <2>5, <2>6
<1>9. QED
  BY <1>1, <1>2, <1>3, <1>4, <1>5, <1>6, <1>7, <1>8 DEF Next

\* The strengthened invariant holds of every reachable state, for any rows,
\* requests and limits.
LEMMA InvHolds == Spec => []Inv
<1>1. QED
  BY InitInv, StepInv, PTL DEF Spec

-----------------------------------------------------------------------------
(* The theorems.                                                           *)

\* A dry run deletes nothing, whoever asked for it and whatever manual cycles
\* the loop runs beside.
THEOREM DryRunDeletesNothingHolds == Spec => []DryRunDeletesNothing
<1>1. Inv => DryRunDeletesNothing
  BY RetentionAssumption
     DEF Inv, FlagInv, Active, DryRunDeletesNothing, Dry, Requests
<1>2. QED
  BY <1>1, InvHolds, PTL

\* The override of a manual cycle does not outlive it.
THEOREM ConfiguredFlagReturnsHolds == Spec => []ConfiguredFlagReturns
<1>1. Inv => ConfiguredFlagReturns
  BY DEF Inv, FlagInv, Active, ConfiguredFlagReturns
<1>2. QED
  BY <1>1, InvHolds, PTL

\* Only the statement of a batch takes rows away.
LEMMA OnlyDeletes ==
    ASSUME Inv, [Next]_vars, NEW r \in Rows, Goes(r)
    PROVE  \E c \in Callers : DeleteBatch(c)
<1> USE DEF Inv
<1>1. row' # row
  BY DEF Goes
<1>2. ASSUME NEW q \in Rows, Revive(q) PROVE FALSE
  BY <1>2 DEF Revive, Goes, TypeOK
<1>3. ASSUME NEW q \in Rows, NEW new, Insert(q, new) PROVE FALSE
  BY <1>3 DEF Insert, Goes, TypeOK
<1>4. ASSUME NEW q \in Rows, NEW new, Settle(q, new) PROVE FALSE
  BY <1>4 DEF Settle, Goes, TypeOK
<1>5. CASE Writers
  BY <1>1, <1>2, <1>3, <1>4, <1>5 DEF Writers, Tick, store
<1>6. ASSUME NEW c \in Callers, CycleStep(c) \/ Fail(c) PROVE DeleteBatch(c)
  BY <1>1, <1>6 DEF CycleStep, Fail, Fetch, Check, End, store
<1>7. QED
  BY <1>1, <1>5, <1>6
     DEF Next, vars, Wake, RunCycle, CooldownOver, Stop, Trigger, store

\* No live row is deleted on its own account.
THEOREM LiveRowsGoOnlyByCascadeHolds == Spec => LiveRowsGoOnlyByCascade
<1>1. ASSUME Inv, [Next]_vars, NEW r \in Rows, row[r].status = "live", Goes(r)
      PROVE  GoesWithParent(r)
  <2> USE DEF Inv
  <2>1. PICK c \in Callers : DeleteBatch(c)
    BY <1>1, OnlyDeletes
  <2>2. cycle[c].step = "delete" /\ Delete(Removed(c)) /\ Removed(c) \in SUBSET Rows
    BY <1>1, <2>1, RemovedRows DEF DeleteBatch
  <2>3. \A q \in Rows : q \in WithDependants(Removed(c)) /\ Present(q) => Goes(q)
    BY <1>1, <2>2, Deleted DEF Goes, Present
  <2>4. r \in WithDependants(Removed(c)) /\ Present(r)
    BY <1>1, <2>2, Deleted DEF Goes
  <2>5. \A q \in Removed(c) : Present(q) /\ q \in Rows /\ DomainOf[q] = Domain(c)
    BY <1>1, <2>2 DEF Removed, Deletable, Present, BatchInv
  <2>6. r \notin Removed(c)
    <3>1. CASE Domain(c) = "entities"
      BY <1>1, <2>2, <3>1 DEF Removed, SafeInv
    <3>2. CASE Domain(c) # "entities"
      BY <1>1, <2>2, <3>2 DEF Removed, Deletable, RowInv
    <3>3. QED
      BY <3>1, <3>2
  <2> DEFINE p == ParentOf[r]
  <2>7. p \in Rows /\ p # NoRow /\ Present(p)
    <3>1. p \in Rows
      BY <2>4, <2>6, <2>2 DEF WithDependants, Children
    <3>2. p # NoRow
      BY <3>1, RetentionAssumption
    <3>3. QED
      BY <1>1, <2>4, <3>1, <3>2 DEF RowInv
  <2>8. p \in WithDependants(Removed(c))
    BY <2>4, <2>6, <2>7 DEF WithDependants, Children
  <2>9. Goes(p)
    BY <2>3, <2>7, <2>8
  <2>10. CASE Domain(c) = "entities"
    <3>1. Removed(c) \subseteq cycle[c].safe
      BY <2>10 DEF Removed
    <3>2. r \in Children(cycle[c].safe) \union Children(Children(cycle[c].safe))
      BY <2>4, <2>6, <3>1 DEF WithDependants, Children
    <3>3. r \in changed
      BY <1>1, <2>2, <2>10, <3>2 DEF SafeInv
    <3>4. QED
      BY <2>7, <2>9, <3>3 DEF GoesWithParent
  <2>11. CASE Domain(c) # "entities"
    <3>1. \A q \in Children(Removed(c)) :
             q \in Rows /\ DomainOf[q] = "notification_deliveries"
             /\ DomainOf[ParentOf[q]] = "alerts" /\ ParentOf[q] \in Removed(c)
      <4>1. ASSUME NEW q \in Children(Removed(c))
            PROVE  q \in Rows /\ DomainOf[q] = "notification_deliveries"
                   /\ DomainOf[ParentOf[q]] = "alerts" /\ ParentOf[q] \in Removed(c)
        <5>1. q \in Rows /\ ParentOf[q] \in Removed(c) /\ ParentOf[q] \in Rows
          BY <2>2 DEF Children
        <5>2. DomainOf[ParentOf[q]] # "entities" /\ ParentOf[q] # NoRow
          BY <2>5, <2>11, <5>1, RetentionAssumption
        <5>3. QED
          BY <5>1, <5>2, Schema
      <4>2. QED
        BY <4>1
    <3>2. Children(Children(Removed(c))) = {}
      <4>1. SUFFICES ASSUME NEW q \in Children(Children(Removed(c))) PROVE FALSE
        OBVIOUS
      <4>2. q \in Rows /\ ParentOf[q] \in Children(Removed(c))
        BY DEF Children
      <4>3. ParentOf[q] \in Rows /\ DomainOf[ParentOf[q]] = "notification_deliveries"
        BY <3>1, <4>2
      <4>4. DomainOf[q] # "entities"
        BY <4>2, <4>3, Schema, RetentionAssumption
      <4>5. DomainOf[ParentOf[q]] \in {"alerts", "entities"}
        BY <4>2, <4>4, Schema
      <4>6. QED
        BY <4>3, <4>5
    <3>3. r \in Children(Removed(c))
      BY <2>4, <2>6, <3>2 DEF WithDependants
    <3>4. DomainOf[p] = "alerts" /\ p \in Removed(c)
      BY <3>1, <3>3
    <3>5. row[p].status = "dead"
      BY <2>11, <3>4 DEF Removed, Deletable
    <3>6. QED
      BY <2>7, <2>9, <3>4, <3>5 DEF GoesWithParent
  <2>12. QED
    BY <2>10, <2>11
<1>2. Inv /\ [Next]_vars =>
        [\A r \in Rows : row[r].status = "live" /\ Goes(r) => GoesWithParent(r)]_vars
  BY <1>1
<1>3. QED
  BY <1>2, InvHolds, PTL DEF Spec, LiveRowsGoOnlyByCascade

\* No row goes before its days are over, except with another or changed.
THEOREM KeptForItsDaysHolds == Spec => KeptForItsDays
<1>1. ASSUME Inv, [Next]_vars, NEW r \in Rows, Goes(r)
      PROVE  \/ row[r].status = "dead" /\ row[r].at + Keep[DomainOf[r]] < clock
             \/ ParentOf[r] # NoRow /\ Goes(ParentOf[r])
             \/ r \in changed
  <2> USE DEF Inv
  <2>1. PICK c \in Callers : DeleteBatch(c)
    BY <1>1, OnlyDeletes
  <2>2. cycle[c].step = "delete" /\ Delete(Removed(c)) /\ Removed(c) \in SUBSET Rows
    BY <1>1, <2>1, RemovedRows DEF DeleteBatch
  <2>3. \A q \in Rows : q \in WithDependants(Removed(c)) /\ Present(q) => Goes(q)
    BY <1>1, <2>2, Deleted DEF Goes, Present
  <2>4. r \in WithDependants(Removed(c)) /\ Present(r)
    BY <1>1, <2>2, Deleted DEF Goes
  <2>5. CASE r \in Removed(c)
    <3>1. r \in cycle[c].ids /\ Present(r)
      BY <1>1, <2>2, <2>4, <2>5 DEF Removed, Deletable, BatchInv
    <3>2. /\ cycle[c].cutoff <= clock - Keep[DomainOf[r]]
          /\ \/ row[r].status = "dead" /\ row[r].at < cycle[c].cutoff
             \/ r \in changed
      BY <1>1, <2>2, <3>1 DEF BatchInv, Present
    <3>3. cycle[c].cutoff \in Int /\ clock \in Nat /\ row[r].at \in Nat
          /\ Keep[DomainOf[r]] \in Nat
      BY <1>1, RetentionAssumption DEF TypeOK, CycleType
    <3>4. QED
      BY <3>2, <3>3
  <2>6. CASE r \notin Removed(c)
    <3> DEFINE p == ParentOf[r]
    <3>1. p \in Rows
      BY <2>4, <2>6, <2>2 DEF WithDependants, Children
    <3>2. p # NoRow
      BY <3>1, RetentionAssumption
    <3>3. Present(p)
      BY <1>1, <2>4, <3>1, <3>2 DEF RowInv
    <3>4. p \in WithDependants(Removed(c))
      BY <2>4, <2>6, <3>1 DEF WithDependants, Children
    <3>5. QED
      BY <2>3, <3>1, <3>2, <3>3, <3>4
  <2>7. QED
    BY <2>5, <2>6
<1>2. Inv /\ [Next]_vars =>
        [\A r \in Rows : Goes(r) =>
            \/ row[r].status = "dead" /\ row[r].at + Keep[DomainOf[r]] < clock
            \/ ParentOf[r] # NoRow /\ Goes(ParentOf[r])
            \/ r \in changed]_vars
  BY <1>1
<1>3. QED
  BY <1>2, InvHolds, PTL DEF Spec, KeptForItsDays
=============================================================================
