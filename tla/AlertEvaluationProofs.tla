----------------------- MODULE AlertEvaluationProofs -----------------------
(***************************************************************************)
(* Proofs about AlertEvaluation for every set of rules and entities, every *)
(* delay, threshold and cooldown, and without the bounds of the runs.      *)
(***************************************************************************)
EXTENDS AlertEvaluation, FiniteSetTheorems, TLAPS

\* What an operator's request changes, spelled out wherever a step leaves it alone.
USE DEF requests

\* The shape of an alert history: what the three safety properties say of one
\* subject.
GoodHistory(h, cooldown) ==
    /\ AtMostOneOpen(h)
    /\ \A i, j \in DOMAIN h : h[i].key = h[j].key => i = j
    /\ \A i, j \in DOMAIN h : i < j => h[j].at - h[i].at >= cooldown

-----------------------------------------------------------------------------
(* The operators on the history of one subject.                            *)

\* create appends a well-typed alert.
LEMMA TriggeredType ==
    ASSUME NEW h \in Seq(Alerts), NEW key \in Keys, NEW now \in Nat
    PROVE  Triggered(h, key, now) \in Seq(Alerts)
BY DEF Triggered, Alerts, Statuses

\* Resolving keeps length, keys and times, and leaves nothing open.
LEMMA ResolvedFacts ==
    ASSUME NEW h \in Seq(Alerts)
    PROVE  /\ Resolved(h) \in Seq(Alerts)
           /\ DOMAIN Resolved(h) = DOMAIN h
           /\ \A i \in DOMAIN h : /\ Resolved(h)[i].key = h[i].key
                                  /\ Resolved(h)[i].at = h[i].at
                                  /\ ~Unresolved(Resolved(h)[i])
<1> DEFINE new(i) == IF Unresolved(h[i])
                     THEN [h[i] EXCEPT !.status = "resolved"] ELSE h[i]
<1>1. DOMAIN h = 1..Len(h) /\ Len(h) \in Nat
  OBVIOUS
<1>2. \A i \in 1..Len(h) : h[i] \in Alerts
  OBVIOUS
<1>3. \A i \in 1..Len(h) : /\ new(i) \in Alerts
                           /\ new(i).key = h[i].key /\ new(i).at = h[i].at
                           /\ ~Unresolved(new(i))
  BY <1>2 DEF Alerts, Statuses, Unresolved
<1>4. Resolved(h) = [i \in 1..Len(h) |-> new(i)]
  BY <1>1 DEF Resolved
<1> HIDE DEF new
<1>5. QED
  BY <1>1, <1>3, <1>4

\* create, behind the checks of _apply_action, keeps a history good.
LEMMA TriggeredGood ==
    ASSUME NEW h \in Seq(Alerts), NEW key \in Keys, NEW now \in Nat,
           NEW cooldown \in Nat,
           GoodHistory(h, cooldown), MayTrigger(h, key, now, cooldown)
    PROVE  GoodHistory(Triggered(h, key, now), cooldown)
<1> DEFINE a == [key |-> key, at |-> now, status |-> "open"]
           n == Len(h) + 1
           t == Triggered(h, key, now)
<1>1. /\ DOMAIN t = 1..n /\ DOMAIN h = 1..(n - 1) /\ n \in Nat \ {0}
      /\ t[n] = a /\ \A i \in 1..(n - 1) : t[i] = h[i]
  BY DEF Triggered
<1>2. \A i \in 1..(n - 1) : h[i] \in Alerts
  OBVIOUS
<1>3. \A i \in 1..(n - 1) :
        ~Unresolved(h[i]) /\ h[i].key # key /\ now - h[i].at >= cooldown
  BY <1>1 DEF MayTrigger, HasOpen
<1>4. a.key = key /\ a.at = now
  OBVIOUS
<1> HIDE DEF a, n, t
<1>5. \A i, j \in DOMAIN t : Unresolved(t[i]) /\ Unresolved(t[j]) => i = j
  BY <1>1, <1>3
<1>6. \A i, j \in DOMAIN t : t[i].key = t[j].key => i = j
  BY <1>1, <1>3, <1>4 DEF GoodHistory
<1>7. \A i, j \in DOMAIN t : i < j => t[j].at - t[i].at >= cooldown
  BY <1>1, <1>3, <1>4 DEF GoodHistory
<1>8. QED
  BY <1>5, <1>6, <1>7 DEF GoodHistory, AtMostOneOpen, t

\* Resolving keeps a history good.
LEMMA ResolvedGood ==
    ASSUME NEW h \in Seq(Alerts), NEW cooldown \in Nat, GoodHistory(h, cooldown)
    PROVE  GoodHistory(Resolved(h), cooldown)
BY ResolvedFacts DEF GoodHistory, AtMostOneOpen

\* Acknowledging or resolving an alert keeps a history good, if the alert was not
\* resolved or the unique index allows it, and in the first case opens nothing.
LEMMA StatusChange ==
    ASSUME NEW h \in Seq(Alerts), NEW i \in DOMAIN h,
           NEW status \in {"acknowledged", "resolved"}
    PROVE  LET new == WithStatus(h, i, status)
           IN  /\ new \in Seq(Alerts)
               /\ Unresolved(h[i]) /\ HasOpen(new) => HasOpen(h)
               /\ \A cooldown \in Nat :
                     GoodHistory(h, cooldown) /\ (Unresolved(h[i]) \/ AtMostOneOpen(new))
                        => GoodHistory(new, cooldown)
<1> DEFINE new == WithStatus(h, i, status)
<1> USE DEF WithStatus
<1>1. h[i] \in Alerts /\ \A j \in DOMAIN h : h[j] \in Alerts
  OBVIOUS
<1>2. new[i] \in Alerts /\ new[i].key = h[i].key /\ new[i].at = h[i].at
  BY <1>1 DEF Alerts, Statuses
<1>3. DOMAIN new = DOMAIN h /\ \A j \in DOMAIN h : j # i => new[j] = h[j]
  OBVIOUS
<1>4. new \in Seq(Alerts)
  BY <1>1, <1>2, <1>3
<1> HIDE DEF new, WithStatus
<1>5. Unresolved(h[i]) /\ HasOpen(new) => HasOpen(h)
  BY <1>3 DEF HasOpen
<1>6. ASSUME NEW cooldown \in Nat, GoodHistory(h, cooldown),
             Unresolved(h[i]) \/ AtMostOneOpen(new)
      PROVE  GoodHistory(new, cooldown)
  <2>1. AtMostOneOpen(new)
    BY <1>3, <1>6 DEF GoodHistory, AtMostOneOpen
  <2>2. \A j \in DOMAIN h : new[j].key = h[j].key /\ new[j].at = h[j].at
    BY <1>2, <1>3
  <2>3. QED
    BY <1>3, <1>6, <2>1, <2>2 DEF GoodHistory
<1>7. QED
  BY <1>4, <1>5, <1>6 DEF new

-----------------------------------------------------------------------------
(* Type correctness.                                                       *)

\* A request of an operator about the i-th alert of subject s.
Request(s, i) ==
    \/ BeginAcknowledge(s, i)
    \/ \E n \in 0..MaxManual : Acknowledge(s, i, n)
    \/ Resolve(s, i)

\* A step is one of the actions.
LEMMA NextCases ==
    ASSUME NEW G, Next,
           Tick => G,
           \A e \in Entities : EnterZone(e) \/ ExitZone(e) => G,
           \A r \in Rules : UpdateRule(r) \/ WindowChanges(r) => G,
           \A s \in Subjects : \A i \in DOMAIN alerts[s] : Request(s, i) => G,
           Evaluate => G, ApplyActions => G, Checkpoint => G,
           EvaluationFails => G, EventDropped => G,
           ListDue => G, CheckCondition => G,
           \A s \in Subjects : ReadRule(s) => G,
           \A s \in Subjects : ClearState(s) => G,
           \A s \in Subjects : FireDue(s) => G,
           PassFails => G, Crash => G
    PROVE  G
BY DEF Next, ConsumerStep, ReconcilerStep, Environment, Request

LEMMA InitType == Init => TypeOK
BY RulesAssumption, BoundsAssumption
   DEF Init, TypeOK, ConsumerTypeOK, ReconcilerTypeOK, Idle, States, StateKinds,
       Excuses

\* The kinds of actions there are.
LEMMA EvaluatedType ==
    ASSUME NEW r \in Rules, NEW v
    PROVE  Evaluated(r, v) \in Kinds
<1>1. RuleType[r] \in RuleTypes
  BY RulesAssumption
<1>2. QED
  BY <1>1 DEF Evaluated, ActionKind, Kinds, RuleTypes

\* excuses grow by excuses.
LEMMA ExcusedType ==
    ASSUME TypeOK, NEW why \in [Subjects -> SUBSET Excuses]
    PROVE  /\ Excused(why) \in [Subjects -> SUBSET Excuses]
           /\ \A s \in Subjects : excuses[s] \cup why[s] = Excused(why)[s]
BY DEF Excused, TypeOK

\* The head of the inbox is an event.
LEMMA HeadType ==
    ASSUME TypeOK, inbox # <<>>
    PROVE  /\ Head(inbox) \in Events /\ Tail(inbox) \in Seq(Events)
           /\ Len(inbox) \in Nat \ {0}
BY DEF TypeOK

\* What a change of the zone does to the clock, the inbox and the rest.
LEMMA MoveType ==
    ASSUME TypeOK, NEW type \in {"zone_entered", "zone_exited"},
           NEW e \in Entities, NEW occupants \in SUBSET Entities,
           Move(type, e, occupants)
    PROVE  TypeOK'
<1>1. Cardinality(occupants) \in Nat
  BY FS_Subset, FS_CardinalityType, RulesAssumption
<1> DEFINE c == Cardinality(occupants)
           event(t) == [id |-> moves, type |-> t, entity |-> e,
                        occupancy |-> c, at |-> clock]
<1>2. moves \in Nat /\ clock \in Nat
  BY BoundsAssumption DEF TypeOK
<1>3. event(type) \in Events /\ event("zone_occupancy_changed") \in Events
  BY <1>1, <1>2 DEF Events, EventTypes
<1> HIDE DEF c
<1>4. ZoneEvents(type, e, c) \in Seq(Events) /\ inbox \in Seq(Events)
  BY <1>3 DEF ZoneEvents, TypeOK
<1>5. inbox' = inbox \o ZoneEvents(type, e, c) /\ inbox' \in Seq(Events)
  BY <1>4 DEF Move, c
<1>6. inbox # <<>> => inbox' # <<>> /\ Head(inbox') = Head(inbox)
  BY <1>4, <1>5
<1>7. ConsumerTypeOK'
  BY <1>6 DEF Move, TypeOK, ConsumerTypeOK, Idle
<1>8. ReconcilerTypeOK'
  BY DEF Move, TypeOK, ReconcilerTypeOK, Idle
<1>9. QED
  BY <1>2, <1>5, <1>7, <1>8, BoundsAssumption DEF Move, TypeOK

\* The consumer's three steps.
LEMMA EvaluateType == ASSUME TypeOK, Evaluate PROVE TypeOK'
<1> DEFINE v == Head(inbox)
           kinds == [r \in Rules |-> Evaluated(r, v)]
           why == [s \in Subjects |->
                     IF s[2] = v.entity THEN Reasons(s[1], v) ELSE {}]
<1>1. kinds \in [Rules -> Kinds]
  BY EvaluatedType
<1>2. v \in Events /\ inbox # <<>>
  BY HeadType DEF Evaluate
<1>3. clock \in Nat
  BY BoundsAssumption DEF TypeOK
<1>4. why \in [Subjects -> SUBSET Excuses]
  BY DEF Reasons, Excuses
<1>5. /\ consumer' = [phase |-> "evaluated", now |-> clock, event |-> v,
                      kinds |-> kinds]
      /\ excuses' = Excused(why)
  BY DEF Evaluate
<1> HIDE DEF kinds, why
<1>6. excuses' \in [Subjects -> SUBSET Excuses]
  BY <1>4, <1>5, ExcusedType
<1>7. ConsumerTypeOK'
  BY <1>1, <1>2, <1>3, <1>5 DEF ConsumerTypeOK, Evaluate
<1>8. ReconcilerTypeOK'
  BY DEF Evaluate, TypeOK, ReconcilerTypeOK
<1>9. QED
  BY <1>6, <1>7, <1>8 DEF Evaluate, TypeOK

\* The record of an evaluation in progress.
LEMMA ConsumerType ==
    ASSUME TypeOK, consumer.phase # "idle"
    PROVE  /\ inbox # <<>> /\ consumer.event = Head(inbox)
           /\ consumer.event \in Events /\ consumer.now \in Nat
           /\ consumer.kinds \in [Rules -> Kinds]
           /\ consumer \in [phase : {"evaluated", "applied"}, now : 0..clock,
                            event : Events, kinds : [Rules -> Kinds]]
BY BoundsAssumption DEF TypeOK, ConsumerTypeOK, Idle

LEMMA EventKeyType == ASSUME TypeOK, consumer.phase # "idle" PROVE EventKey \in Keys
BY ConsumerType DEF EventKey, Keys, Events

\* What the transaction of an event leaves of the state and the alerts of a
\* subject: as they were, scheduled or cleared, resolved or one more.
LEMMA ApplyFacts ==
    ASSUME TypeOK, consumer.phase # "idle", NEW s \in Subjects
    PROVE  /\ StateAfter(s) \in States
           /\ AlertsAfter(s) \in Seq(Alerts)
           /\ \/ AlertsAfter(s) = alerts[s]
              \/ AlertsAfter(s) = Resolved(alerts[s])
              \/ /\ MayTrigger(alerts[s], EventKey, consumer.now, Cooldown[s[1]])
                 /\ AlertsAfter(s) = Triggered(alerts[s], EventKey, consumer.now)
<1>1. /\ s[1] \in Rules /\ Delay[s[1]] \in Nat
      /\ states[s] \in States /\ alerts[s] \in Seq(Alerts)
  BY RulesAssumption DEF Subjects, TypeOK
<1>2. /\ consumer.event.at \in Nat /\ consumer.now \in Nat
      /\ EventKey \in Keys
  BY ConsumerType, EventKeyType DEF Events
<1>3. StateAfter(s) \in States
  <2>1. states[s].due \in Nat /\ states[s].kind \in StateKinds
        /\ consumer.event.at + Delay[s[1]] \in Nat
    BY <1>1, <1>2 DEF States
  <2>2. Scheduled(states[s], consumer.event.at + Delay[s[1]]) \in States
    BY <2>1 DEF Scheduled, States, StateKinds
  <2>3. Cleared(states[s]) \in States
    BY <1>1 DEF Cleared, States, StateKinds
  <2>4. QED
    BY <1>1, <2>2, <2>3 DEF StateAfter
<1>4. \/ AlertsAfter(s) = alerts[s]
      \/ AlertsAfter(s) = Resolved(alerts[s])
      \/ /\ MayTrigger(alerts[s], EventKey, consumer.now, Cooldown[s[1]])
         /\ AlertsAfter(s) = Triggered(alerts[s], EventKey, consumer.now)
  BY DEF AlertsAfter
<1>5. AlertsAfter(s) \in Seq(Alerts)
  BY <1>1, <1>2, <1>4, TriggeredType, ResolvedFacts
<1>6. QED
  BY <1>3, <1>4, <1>5

LEMMA ApplyType == ASSUME TypeOK, ApplyActions PROVE TypeOK'
<1>0. consumer.phase # "idle"
  BY DEF ApplyActions
<1> DEFINE why == [s \in Subjects |->
                     IF Firing(s) /\ KindFor(s) # "none" THEN {"race"} ELSE {}]
<1>1. why \in [Subjects -> SUBSET Excuses] /\ excuses' = Excused(why)
  BY DEF ApplyActions, Excuses
<1> HIDE DEF why
<1>2. excuses' \in [Subjects -> SUBSET Excuses]
  BY <1>1, ExcusedType
<1>3. states' \in [Subjects -> States]
  BY <1>0, ApplyFacts DEF ApplyActions
<1>4. alerts' \in [Subjects -> Seq(Alerts)]
  BY <1>0, ApplyFacts DEF ApplyActions
<1>5. ConsumerTypeOK'
  BY <1>0, ConsumerType DEF ApplyActions, ConsumerTypeOK
<1>6. ReconcilerTypeOK'
  BY DEF ApplyActions, TypeOK, ReconcilerTypeOK
<1>7. QED
  BY <1>2, <1>3, <1>4, <1>5, <1>6 DEF ApplyActions, TypeOK

LEMMA CheckpointType == ASSUME TypeOK, Checkpoint PROVE TypeOK'
<1>1. inbox' \in Seq(Events)
  BY HeadType, ConsumerType DEF Checkpoint
<1>2. ConsumerTypeOK' /\ ReconcilerTypeOK'
  BY DEF Checkpoint, TypeOK, ReconcilerTypeOK, ConsumerTypeOK
<1>3. QED
  BY <1>1, <1>2 DEF Checkpoint, TypeOK

LEMMA FaultType ==
    ASSUME TypeOK, EvaluationFails \/ EventDropped PROVE TypeOK'
<1> DEFINE why(e) == [s \in Subjects |-> IF s[2] = e THEN {"fault"} ELSE {}]
<1>1. \A e : why(e) \in [Subjects -> SUBSET Excuses] /\ ExcusedByFault(e) = Excused(why(e))
  BY DEF Excuses, ExcusedByFault
<1> HIDE DEF why
<1>2. \A e : ExcusedByFault(e) \in [Subjects -> SUBSET Excuses]
  BY <1>1, ExcusedType
<1>3. excuses' \in [Subjects -> SUBSET Excuses]
  BY <1>2 DEF EvaluationFails, EventDropped
<1>4. faults' \in 0..MaxFaults
  BY BoundsAssumption DEF TypeOK, EvaluationFails, EventDropped
<1>5. ReconcilerTypeOK'
  BY DEF TypeOK, ReconcilerTypeOK, EvaluationFails, EventDropped
<1>6. CASE EvaluationFails
  <2>1. inbox' \in Seq(Events) /\ ConsumerTypeOK'
    BY <1>6, HeadType, ConsumerType DEF EvaluationFails, ConsumerTypeOK
  <2>2. QED
    BY <1>3, <1>4, <1>5, <1>6, <2>1 DEF EvaluationFails, TypeOK
<1>7. CASE EventDropped
  <2>1. inbox \in Seq(Events) /\ Len(inbox) \in Nat \ {0}
    BY <1>7 DEF EventDropped, TypeOK
  <2>2. inbox' \in Seq(Events)
    BY <1>7, <2>1 DEF EventDropped
  <2>3. CASE consumer = Idle
    BY <1>3, <1>4, <1>5, <1>7, <2>2, <2>3
       DEF EventDropped, TypeOK, ConsumerTypeOK
  <2>4. CASE consumer # Idle
    <3>1. Len(inbox) > 1
      BY <1>7, <2>4 DEF EventDropped, TypeOK, ConsumerTypeOK
    <3>2. inbox' # <<>> /\ Head(inbox') = Head(inbox)
      <4>1. inbox' = SubSeq(inbox, 1, Len(inbox) - 1) /\ Len(inbox) - 1 >= 1
        BY <1>7, <2>1, <3>1 DEF EventDropped
      <4>2. inbox' \in Seq(Events) /\ Len(inbox') >= 1 /\ inbox'[1] = inbox[1]
        BY <2>1, <4>1
      <4>3. QED
        BY <2>1, <4>2
    <3>3. ConsumerTypeOK'
      BY <1>7, <2>4, <3>2 DEF EventDropped, TypeOK, ConsumerTypeOK
    <3>4. QED
      BY <1>3, <1>4, <1>5, <1>7, <2>2, <3>3 DEF EventDropped, TypeOK
  <2>5. QED
    BY <2>3, <2>4
<1>8. QED
  BY <1>6, <1>7

\* The reconciler's steps.
LEMMA ListType == ASSUME TypeOK, ListDue PROVE TypeOK'
<1>1. PICK batch \in (SUBSET Due) \ {{}} :
        reconciler' = [phase |-> "listed", now |-> clock,
                       batch |-> [s \in batch |-> states[s].due]]
  BY DEF ListDue
<1>2. batch \subseteq Subjects /\ \A s \in batch : states[s].due \in Nat
  BY DEF Due, TypeOK, States
<1>3. clock \in 0..clock
  BY BoundsAssumption DEF TypeOK
<1>4. ReconcilerTypeOK'
  BY <1>1, <1>2, <1>3 DEF ReconcilerTypeOK, ListDue
<1>5. ConsumerTypeOK'
  BY DEF ListDue, TypeOK, ConsumerTypeOK
<1>6. QED
  BY <1>4, <1>5 DEF ListDue, TypeOK

\* The record of a pass in progress.
LEMMA ReconcilerType ==
    ASSUME TypeOK, reconciler.phase # "idle"
    PROVE  /\ reconciler.now \in 0..clock /\ reconciler.now \in Nat
           /\ DOMAIN reconciler.batch \subseteq Subjects
           /\ \A s \in DOMAIN reconciler.batch : reconciler.batch[s] \in Nat
           /\ reconciler.phase # "listed" =>
                 /\ reconciler.phase \in HeldPhases
                 /\ reconciler.subject \in DOMAIN reconciler.batch
                 /\ reconciler.subject \in Subjects
BY BoundsAssumption DEF TypeOK, ReconcilerTypeOK, Idle

LEMMA ReadType ==
    ASSUME TypeOK, NEW s \in Subjects, ReadRule(s) PROVE TypeOK'
<1>1. /\ reconciler'.phase \in HeldPhases /\ reconciler'.now = reconciler.now
      /\ reconciler'.batch = reconciler.batch /\ reconciler'.subject = s
      /\ s \in DOMAIN reconciler.batch
  BY DEF ReadRule, Holding, HeldPhases
<1>2. ReconcilerTypeOK'
  BY <1>1, ReconcilerType DEF ReadRule, ReconcilerTypeOK
<1>3. ConsumerTypeOK'
  BY DEF ReadRule, TypeOK, ConsumerTypeOK
<1>4. QED
  BY <1>2, <1>3 DEF ReadRule, TypeOK

\* CheckCondition changes the phase only.
LEMMA CheckFacts ==
    ASSUME TypeOK, CheckCondition
    PROVE  /\ reconciler'.phase \in {"checked", "lapsed"}
           /\ reconciler'.phase = "checked" <=> ConditionHolds(reconciler.subject)
           /\ reconciler'.now = reconciler.now
           /\ reconciler'.batch = reconciler.batch
           /\ reconciler'.subject = reconciler.subject
BY DEF CheckCondition, Holding

LEMMA CheckType == ASSUME TypeOK, CheckCondition PROVE TypeOK'
<1>1. ReconcilerTypeOK'
  BY CheckFacts, ReconcilerType DEF CheckCondition, ReconcilerTypeOK, HeldPhases
<1>2. ConsumerTypeOK'
  BY DEF CheckCondition, TypeOK, ConsumerTypeOK
<1>3. QED
  BY <1>1, <1>2 DEF CheckCondition, TypeOK

\* The end of one subject of a pass.
LEMMA NextOfBatchType ==
    ASSUME TypeOK, reconciler.phase # "idle", reconciler' = NextOfBatch,
           clock' = clock
    PROVE  ReconcilerTypeOK' /\ reconciler'.phase \in {"idle", "listed"}
<1>1. CASE reconciler' = Idle
  BY <1>1 DEF ReconcilerTypeOK, Idle
<1>2. CASE reconciler' # Idle
  <2> DEFINE rest == DOMAIN reconciler.batch \ {reconciler.subject}
  <2>1. reconciler' = [phase |-> "listed", now |-> reconciler.now,
                       batch |-> [s \in rest |-> reconciler.batch[s]]]
    BY <1>2 DEF NextOfBatch
  <2>2. /\ reconciler'.phase = "listed" /\ reconciler'.now \in 0..clock'
        /\ DOMAIN reconciler'.batch = rest
        /\ \A s \in rest : reconciler'.batch[s] = reconciler.batch[s]
    BY <2>1, ReconcilerType
  <2>3. QED
    BY <2>2, ReconcilerType DEF ReconcilerTypeOK
<1>3. QED
  BY <1>1, <1>2

LEMMA ClearType ==
    ASSUME TypeOK, NEW s \in Subjects, ClearState(s) PROVE TypeOK'
<1>1. ReconcilerTypeOK'
  BY NextOfBatchType DEF ClearState
<1>2. ConsumerTypeOK'
  BY DEF ClearState, TypeOK, ConsumerTypeOK
<1>3. states' \in [Subjects -> States]
  <2>1. Cleared(states[s]) \in States
    BY DEF TypeOK, Cleared, States, StateKinds
  <2>2. states' = [states EXCEPT ![s] = Cleared(states[s])]
    BY DEF ClearState
  <2>3. QED
    BY <2>1, <2>2 DEF TypeOK
<1>4. alerts' \in [Subjects -> Seq(Alerts)]
  BY ResolvedFacts DEF ClearState, TypeOK
<1>5. excuses' \in [Subjects -> SUBSET Excuses]
  BY DEF ClearState, TypeOK, Excuses
<1>6. QED
  BY <1>1, <1>2, <1>3, <1>4, <1>5 DEF ClearState, TypeOK

\* What firing leaves of the alerts.
LEMMA FireFacts ==
    ASSUME TypeOK, NEW s \in Subjects, FireDue(s)
    PROVE  /\ alerts' \in [Subjects -> Seq(Alerts)]
           /\ \A t \in Subjects \ {s} : alerts'[t] = alerts[t]
           /\ \/ alerts'[s] = alerts[s]
              \/ /\ alerts'[s] = Triggered(alerts[s], DueKey, reconciler.now)
                 /\ MayTrigger(alerts[s], DueKey, reconciler.now, Cooldown[s[1]])
<1>1. DueKey \in Keys /\ reconciler.now \in Nat /\ alerts[s] \in Seq(Alerts)
  BY ReconcilerType DEF FireDue, DueKey, Keys, TypeOK
<1>2. Triggered(alerts[s], DueKey, reconciler.now) \in Seq(Alerts)
  BY <1>1, TriggeredType
<1>3. QED
  BY <1>2 DEF FireDue, MayFire, TypeOK

LEMMA FireType ==
    ASSUME TypeOK, NEW s \in Subjects, FireDue(s) PROVE TypeOK'
<1>1. ReconcilerTypeOK'
  BY NextOfBatchType DEF FireDue
<1>2. ConsumerTypeOK'
  BY DEF FireDue, TypeOK, ConsumerTypeOK
<1>3. states' \in [Subjects -> States]
  BY DEF FireDue, TypeOK, States, StateKinds
<1>4. alerts' \in [Subjects -> Seq(Alerts)]
  BY FireFacts
<1>5. QED
  BY <1>1, <1>2, <1>3, <1>4 DEF FireDue, TypeOK

\* A request touches the alerts and the excuses of its subject only; it opens an
\* alert only with an excuse.
LEMMA RequestFacts ==
    ASSUME TypeOK, NEW s \in Subjects, NEW i \in DOMAIN alerts[s], Request(s, i)
    PROVE  /\ alerts' \in [Subjects -> Seq(Alerts)]
           /\ excuses' \in [Subjects -> SUBSET Excuses]
           /\ acknowledging' \subseteq Subjects \X Nat \X (0..MaxManual)
           /\ manual' \in 0..MaxManual
           /\ \A t \in Subjects : t # s => alerts'[t] = alerts[t] /\ excuses'[t] = excuses[t]
           /\ excuses[s] \subseteq excuses'[s]
           /\ \A cooldown \in Nat : GoodHistory(alerts[s], cooldown)
                                        => GoodHistory(alerts'[s], cooldown)
           /\ HasOpen(alerts'[s]) => HasOpen(alerts[s]) \/ excuses'[s] # {}
           /\ UNCHANGED <<clock, inside, moves, inbox, enabled, active, states,
                          consumer, reconciler, faults, toggles>>
<1>0. alerts[s] \in Seq(Alerts) /\ i \in Nat /\ alerts \in [Subjects -> Seq(Alerts)]
  BY DEF TypeOK
<1>1. CASE BeginAcknowledge(s, i)
  BY <1>0, <1>1, BoundsAssumption DEF BeginAcknowledge, TypeOK
<1>2. ASSUME NEW n \in 0..MaxManual, Acknowledge(s, i, n)
      PROVE  /\ excuses' \in [Subjects -> SUBSET Excuses]
             /\ excuses[s] \subseteq excuses'[s]
             /\ \A t \in Subjects : t # s => excuses'[t] = excuses[t]
             /\ \/ alerts' = alerts
                \/ /\ alerts' = [alerts EXCEPT ![s] = WithStatus(alerts[s], i, "acknowledged")]
                   /\ AtMostOneOpen(WithStatus(alerts[s], i, "acknowledged"))
                   /\ alerts[s][i].status = "resolved" => excuses'[s] # {}
  <2> DEFINE new == WithStatus(alerts[s], i, "acknowledged")
  <2>1. CASE AtMostOneOpen(new)
    <3> DEFINE why == IF alerts[s][i].status = "resolved" THEN {"overwritten"} ELSE {}
    <3>1. /\ alerts' = [alerts EXCEPT ![s] = new]
          /\ excuses' = [excuses EXCEPT ![s] = @ \cup why]
      BY <1>2, <2>1 DEF Acknowledge
    <3>2. why \in SUBSET Excuses /\ (alerts[s][i].status = "resolved" => why # {})
      BY DEF Excuses
    <3> HIDE DEF why
    <3>3. excuses' \in [Subjects -> SUBSET Excuses] /\ excuses'[s] = excuses[s] \cup why
      BY <3>1, <3>2 DEF TypeOK
    <3>4. \A t \in Subjects : t # s => excuses'[t] = excuses[t]
      BY <3>1 DEF TypeOK
    <3>5. QED
      BY <2>1, <3>1, <3>2, <3>3, <3>4
  <2>2. CASE ~AtMostOneOpen(new)
    BY <1>2, <2>2 DEF Acknowledge, TypeOK
  <2>3. QED
    BY <2>1, <2>2
<1>3. CASE Resolve(s, i)
  <2>1. /\ Unresolved(alerts[s][i])
        /\ alerts' = [alerts EXCEPT ![s] = WithStatus(alerts[s], i, "resolved")]
    BY <1>3 DEF Resolve
  <2>2. /\ WithStatus(alerts[s], i, "resolved") \in Seq(Alerts)
        /\ HasOpen(WithStatus(alerts[s], i, "resolved")) => HasOpen(alerts[s])
        /\ \A cooldown \in Nat : GoodHistory(alerts[s], cooldown)
              => GoodHistory(WithStatus(alerts[s], i, "resolved"), cooldown)
    BY <1>0, <2>1, StatusChange
  <2>3. QED
    BY <1>0, <1>3, <2>1, <2>2, BoundsAssumption DEF Resolve, TypeOK
<1>4. ASSUME NEW n \in 0..MaxManual, Acknowledge(s, i, n)
      PROVE  /\ alerts' \in [Subjects -> Seq(Alerts)]
             /\ \A t \in Subjects : t # s => alerts'[t] = alerts[t]
             /\ \A cooldown \in Nat : GoodHistory(alerts[s], cooldown)
                                         => GoodHistory(alerts'[s], cooldown)
             /\ HasOpen(alerts'[s]) => HasOpen(alerts[s]) \/ excuses'[s] # {}
  <2> DEFINE new == WithStatus(alerts[s], i, "acknowledged")
  <2>1. CASE alerts' = alerts
    BY <1>0, <2>1
  <2>2. CASE /\ alerts' = [alerts EXCEPT ![s] = new]
             /\ AtMostOneOpen(new)
             /\ alerts[s][i].status = "resolved" => excuses'[s] # {}
    <3>1. /\ new \in Seq(Alerts)
          /\ Unresolved(alerts[s][i]) /\ HasOpen(new) => HasOpen(alerts[s])
          /\ \A cooldown \in Nat : GoodHistory(alerts[s], cooldown) => GoodHistory(new, cooldown)
      BY <1>0, <2>2, StatusChange
    <3>4. alerts[s][i] \in Alerts
      BY <1>0
    <3>2. Unresolved(alerts[s][i]) \/ alerts[s][i].status = "resolved"
      BY <3>4 DEF Unresolved, Alerts, Statuses
    <3> HIDE DEF new
    <3>3. QED
      BY <1>0, <2>2, <3>1, <3>2
  <2>3. QED
    BY <1>2, <1>4, <2>1, <2>2
<1>5. ASSUME NEW n \in 0..MaxManual, Acknowledge(s, i, n)
      PROVE  /\ acknowledging' \subseteq Subjects \X Nat \X (0..MaxManual)
             /\ manual' \in 0..MaxManual
             /\ UNCHANGED <<clock, inside, moves, inbox, enabled, active, states,
                            consumer, reconciler, faults, toggles>>
  BY <1>5 DEF Acknowledge, TypeOK
<1>6. QED
  BY <1>1, <1>2, <1>3, <1>4, <1>5 DEF Request

LEMMA RequestType ==
    ASSUME TypeOK, NEW s \in Subjects, NEW i \in DOMAIN alerts[s], Request(s, i)
    PROVE  TypeOK'
<1>1. ConsumerTypeOK' /\ ReconcilerTypeOK'
  BY RequestFacts DEF TypeOK, ConsumerTypeOK, ReconcilerTypeOK
<1>2. QED
  BY <1>1, RequestFacts DEF TypeOK

\* The other steps.
LEMMA OtherType ==
    ASSUME TypeOK,
           \/ Tick \/ PassFails \/ Crash
           \/ \E r \in Rules : UpdateRule(r) \/ WindowChanges(r)
    PROVE  TypeOK'
<1>1. CASE Tick
  <2>1. clock \in Nat /\ clock' = clock + 1 /\ clock' \in 0..MaxTime
    BY <1>1, BoundsAssumption DEF Tick, TypeOK
  <2>2. ConsumerTypeOK'
    BY <1>1, <2>1 DEF Tick, TypeOK, ConsumerTypeOK
  <2>3. ReconcilerTypeOK'
    BY <1>1, <2>1 DEF Tick, TypeOK, ReconcilerTypeOK
  <2>4. QED
    BY <1>1, <2>1, <2>2, <2>3 DEF Tick, TypeOK
<1>2. CASE PassFails \/ Crash
  <2>1. ConsumerTypeOK' /\ ReconcilerTypeOK'
    BY <1>2 DEF PassFails, Crash, TypeOK, ConsumerTypeOK, ReconcilerTypeOK
  <2>2. CASE PassFails
    BY <2>1, <2>2, BoundsAssumption DEF PassFails, TypeOK
  <2>3. CASE Crash
    BY <2>1, <2>3, BoundsAssumption DEF Crash, TypeOK
  <2>4. QED
    BY <1>2, <2>2, <2>3
<1>3. CASE \E r \in Rules : UpdateRule(r) \/ WindowChanges(r)
  <2>1. UNCHANGED <<clock, inside, moves, inbox, states, alerts, consumer,
                    reconciler, faults, requests, excuses>>
    BY <1>3 DEF UpdateRule, WindowChanges
  <2>2. ConsumerTypeOK' /\ ReconcilerTypeOK'
    BY <2>1 DEF TypeOK, ConsumerTypeOK, ReconcilerTypeOK
  <2>3. enabled' \subseteq Rules /\ active' \subseteq Rules
    BY <1>3 DEF UpdateRule, WindowChanges, TypeOK
  <2>4. toggles' \in 0..MaxToggles
    BY <1>3, BoundsAssumption DEF UpdateRule, WindowChanges, TypeOK
  <2>5. QED
    BY <2>1, <2>2, <2>3, <2>4 DEF TypeOK
<1>4. QED
  BY <1>1, <1>2, <1>3

LEMMA MovesType ==
    ASSUME TypeOK, NEW e \in Entities, EnterZone(e) \/ ExitZone(e)
    PROVE  TypeOK'
<1>1. (inside \cup {e}) \subseteq Entities /\ (inside \ {e}) \subseteq Entities
  BY DEF TypeOK
<1>2. QED
  BY <1>1, MoveType DEF EnterZone, ExitZone

LEMMA StepType == TypeOK /\ [Next]_vars => TypeOK'
<1> SUFFICES ASSUME TypeOK, [Next]_vars PROVE TypeOK'
  OBVIOUS
<1>1. CASE Next
  <2> DEFINE G == TypeOK'
  <2>1. Tick \/ PassFails \/ Crash => G
    BY OtherType
  <2>2. \A r \in Rules : UpdateRule(r) \/ WindowChanges(r) => G
    BY OtherType
  <2>3. \A e \in Entities : EnterZone(e) \/ ExitZone(e) => G
    BY MovesType
  <2>4. \A s \in Subjects : \A i \in DOMAIN alerts[s] : Request(s, i) => G
    BY RequestType
  <2>5. (Evaluate \/ ApplyActions \/ Checkpoint) => G
    BY EvaluateType, ApplyType, CheckpointType
  <2>6. EvaluationFails \/ EventDropped => G
    BY FaultType
  <2>7. ListDue \/ CheckCondition => G
    BY ListType, CheckType
  <2>8. \A s \in Subjects : ReadRule(s) \/ ClearState(s) \/ FireDue(s) => G
    BY ReadType, ClearType, FireType
  <2> HIDE DEF G
  <2>9. G
    BY <1>1, <2>1, <2>2, <2>3, <2>4, <2>5, <2>6, <2>7, <2>8, NextCases
  <2>10. QED
    BY <2>9 DEF G
<1>2. CASE UNCHANGED vars
  BY <1>2 DEF vars, TypeOK, ConsumerTypeOK, ReconcilerTypeOK
<1>3. QED
  BY <1>1, <1>2

\* The types of the evaluation subsystem hold for every value of the constants.
THEOREM TypeCorrect == Spec => []TypeOK
<1>1. Init => TypeOK
  BY InitType
<1>2. TypeOK /\ [Next]_vars => TypeOK'
  BY StepType
<1>3. QED
  BY <1>1, <1>2, PTL DEF Spec

-----------------------------------------------------------------------------
(* One alert per cause, one open alert, and the cooldown.                  *)

HistoryInv == \A s \in Subjects : GoodHistory(alerts[s], Cooldown[s[1]])

LEMMA CooldownType ==
    ASSUME NEW s \in Subjects PROVE s[1] \in Rules /\ Cooldown[s[1]] \in Nat
BY RulesAssumption DEF Subjects

LEMMA HistoryStep ==
    ASSUME TypeOK, HistoryInv, [Next]_vars PROVE HistoryInv'
<1> DEFINE G == HistoryInv'
<1>1. alerts' = alerts => G
  BY DEF HistoryInv
<1>2. \A s \in Subjects : \A i \in DOMAIN alerts[s] : Request(s, i) => G
  <2> SUFFICES ASSUME NEW s \in Subjects, NEW i \in DOMAIN alerts[s], Request(s, i),
                      NEW t \in Subjects
               PROVE  GoodHistory(alerts'[t], Cooldown[t[1]])
    BY DEF HistoryInv
  <2>1. GoodHistory(alerts[t], Cooldown[t[1]])
    BY DEF HistoryInv
  <2>2. QED
    BY <2>1, RequestFacts, CooldownType
<1>3. ApplyActions => G
  <2> SUFFICES ASSUME ApplyActions, NEW s \in Subjects
               PROVE  GoodHistory(alerts'[s], Cooldown[s[1]])
    BY DEF HistoryInv
  <2>1. alerts'[s] = AlertsAfter(s) /\ consumer.phase # "idle"
    BY DEF ApplyActions
  <2>2. /\ alerts[s] \in Seq(Alerts) /\ EventKey \in Keys /\ consumer.now \in Nat
        /\ GoodHistory(alerts[s], Cooldown[s[1]])
    BY <2>1, EventKeyType, ConsumerType DEF HistoryInv, TypeOK
  <2>3. QED
    BY <2>1, <2>2, ApplyFacts, TriggeredGood, ResolvedGood, CooldownType
<1>4. \A s \in Subjects : ClearState(s) => G
  <2> SUFFICES ASSUME NEW s \in Subjects, ClearState(s) PROVE G
    OBVIOUS
  <2>1. GoodHistory(Resolved(alerts[s]), Cooldown[s[1]])
    BY ResolvedGood, CooldownType DEF HistoryInv, TypeOK
  <2>2. QED
    BY <2>1 DEF ClearState, HistoryInv, TypeOK
<1>5. \A s \in Subjects : FireDue(s) => G
  <2> SUFFICES ASSUME NEW s \in Subjects, FireDue(s) PROVE G
    OBVIOUS
  <2>1. /\ alerts[s] \in Seq(Alerts) /\ DueKey \in Keys /\ reconciler.now \in Nat
        /\ GoodHistory(alerts[s], Cooldown[s[1]])
    BY ReconcilerType DEF FireDue, DueKey, Keys, HistoryInv, TypeOK
  <2>2. GoodHistory(alerts'[s], Cooldown[s[1]])
    BY <2>1, FireFacts, TriggeredGood, CooldownType
  <2>3. QED
    BY <2>2, FireFacts DEF HistoryInv
<1> HIDE DEF G
<1>6. CASE Next
  <2>1. \/ Tick \/ Evaluate \/ Checkpoint \/ EvaluationFails \/ EventDropped
        \/ ListDue \/ CheckCondition \/ PassFails \/ Crash
        => G
    BY <1>1 DEF Tick, Evaluate, Checkpoint, EvaluationFails, EventDropped,
                ListDue, CheckCondition, PassFails, Crash
  <2>2. \A s \in Subjects : ReadRule(s) => G
    BY <1>1 DEF ReadRule
  <2>3. \A r \in Rules : UpdateRule(r) \/ WindowChanges(r) => G
    BY <1>1 DEF UpdateRule, WindowChanges
  <2>4. \A e \in Entities : EnterZone(e) \/ ExitZone(e) => G
    BY <1>1 DEF EnterZone, ExitZone, Move
  <2>5. G
    BY <1>2, <1>3, <1>4, <1>5, <1>6, <2>1, <2>2, <2>3, <2>4, NextCases
  <2>6. QED
    BY <2>5 DEF G
<1>7. CASE UNCHANGED vars
  BY <1>1, <1>7 DEF vars, G
<1>8. QED
  BY <1>6, <1>7

LEMMA HistoryInvariant == Spec => []HistoryInv
<1>1. Init => HistoryInv
  BY DEF Init, HistoryInv, GoodHistory, AtMostOneOpen
<1>2. TypeOK /\ HistoryInv /\ [Next]_vars => HistoryInv'
  BY HistoryStep
<1>3. QED
  BY <1>1, <1>2, TypeCorrect, PTL DEF Spec

\* A rule has at most one unresolved alert about a subject.
THEOREM OneOpenAlertHolds == Spec => []OneOpenAlert
<1>1. HistoryInv => OneOpenAlert
  BY DEF HistoryInv, GoodHistory, OneOpenAlert
<1>2. QED
  BY <1>1, HistoryInvariant, PTL

\* A cause raises at most one alert of a rule, however often it is evaluated.
THEOREM OneAlertPerCauseHolds == Spec => []OneAlertPerCause
<1>1. HistoryInv => OneAlertPerCause
  BY DEF HistoryInv, GoodHistory, OneAlertPerCause
<1>2. QED
  BY <1>1, HistoryInvariant, PTL

\* Alerts about a subject are a cooldown apart.
THEOREM CooldownCorrect == Spec => []CooldownHolds
<1>1. HistoryInv => CooldownHolds
  BY DEF HistoryInv, GoodHistory, CooldownHolds
<1>2. QED
  BY <1>1, HistoryInvariant, PTL

-----------------------------------------------------------------------------
(* Dwell alerts of entities that left.                                     *)

\* The i-th event of the inbox is an exit of subject s's entity that will
\* resolve its alert, if it is not lost, skipped or evaluated too early.
Awaited(s, i) ==
    /\ inbox[i].type = "zone_exited" /\ inbox[i].entity = s[2]
    /\ i = 1 => \/ consumer.phase = "idle"
                \/ consumer.phase = "evaluated" /\ consumer.kinds[s[1]] = "lapse"

LeftWithAlert(s) ==
    /\ RuleType[s[1]] = "dwell" /\ s[2] \notin inside /\ excuses[s] = {}
    /\ HasOpen(alerts[s]) \/ Firing(s)

\* An alert that is open, or about to be, of an entity that left has the exit
\* still in front of it; and events never raise a dwell alert.
ExitInv == \A s \in Subjects : LeftWithAlert(s) => \E i \in DOMAIN inbox : Awaited(s, i)
KindsInv ==
    consumer.phase # "idle" =>
        \A r \in Rules : RuleType[r] = "dwell" => consumer.kinds[r] # "trigger"

\* Excuses are for good.
LEMMA ExcusesGrow ==
    ASSUME TypeOK, [Next]_vars, NEW s \in Subjects PROVE excuses[s] \subseteq excuses'[s]
<1> DEFINE G == excuses[s] \subseteq excuses'[s]
<1>1. excuses' = excuses => G
  OBVIOUS
<1>2. \A why : excuses' = Excused(why) => G
  BY DEF Excused
<1>3. \A t \in Subjects : ClearState(t) => G
  BY DEF ClearState, TypeOK
<1> HIDE DEF G
<1>4. CASE Next
  <2>1. \/ Tick \/ Checkpoint \/ ListDue \/ CheckCondition \/ PassFails \/ Crash
        => G
    BY <1>1 DEF Tick, Checkpoint, ListDue, CheckCondition, PassFails, Crash
  <2>2. \A t \in Subjects : ReadRule(t) => G
    BY <1>1 DEF ReadRule
  <2>3. \A t \in Subjects : FireDue(t) => G
    BY <1>1 DEF FireDue
  <2>4. \A r \in Rules : UpdateRule(r) \/ WindowChanges(r) => G
    BY <1>1 DEF UpdateRule, WindowChanges
  <2>5. \A e \in Entities : EnterZone(e) \/ ExitZone(e) => G
    BY <1>1 DEF EnterZone, ExitZone, Move
  <2>6. \A t \in Subjects : \A i \in DOMAIN alerts[t] : Request(t, i) => G
    BY RequestFacts DEF G
  <2>7. Evaluate => G
    BY <1>2 DEF Evaluate
  <2>8. ApplyActions => G
    BY <1>2 DEF ApplyActions
  <2>9. EvaluationFails => G
    BY <1>2 DEF EvaluationFails, ExcusedByFault
  <2>10. EventDropped => G
    BY <1>2 DEF EventDropped, ExcusedByFault
  <2>11. G
    BY <1>3, <1>4, <2>1, <2>2, <2>3, <2>4, <2>5, <2>6, <2>7, <2>8, <2>9, <2>10,
       NextCases
  <2>12. QED
    BY <2>11 DEF G
<1>5. CASE UNCHANGED vars
  BY <1>1, <1>5 DEF vars, G
<1>6. QED
  BY <1>4, <1>5 DEF G

LEMMA KindsStep == TypeOK /\ KindsInv /\ [Next]_vars => KindsInv'
<1> SUFFICES ASSUME TypeOK, KindsInv, [Next]_vars PROVE KindsInv'
  OBVIOUS
<1> DEFINE G == KindsInv'
<1>1. consumer' = consumer \/ consumer' = Idle => G
  BY DEF KindsInv, Idle
<1>2. Evaluate => G
  <2> SUFFICES ASSUME Evaluate, NEW r \in Rules, RuleType[r] = "dwell"
               PROVE  consumer'.kinds[r] # "trigger"
    BY DEF KindsInv
  <2>1. consumer'.kinds[r] = Evaluated(r, Head(inbox))
    BY DEF Evaluate
  <2>2. ActionKind(r, Head(inbox)) # "trigger"
    BY DEF ActionKind
  <2>3. QED
    BY <2>1, <2>2 DEF Evaluated
<1>3. ApplyActions => G
  <2> SUFFICES ASSUME ApplyActions PROVE G
    OBVIOUS
  <2>1. consumer'.kinds = consumer.kinds /\ consumer.phase # "idle"
    BY ConsumerType DEF ApplyActions
  <2>2. QED
    BY <2>1 DEF KindsInv
<1> HIDE DEF G
<1>4. CASE Next
  <2>1. \/ Tick \/ Checkpoint \/ EvaluationFails \/ EventDropped \/ ListDue
        \/ CheckCondition \/ PassFails \/ Crash
        => G
    BY <1>1 DEF Tick, Checkpoint, EvaluationFails, EventDropped, ListDue,
                CheckCondition, PassFails, Crash
  <2>2. \A t \in Subjects : ReadRule(t) => G
    BY <1>1 DEF ReadRule
  <2>3. \A t \in Subjects : FireDue(t) => G
    BY <1>1 DEF FireDue
  <2>4. \A t \in Subjects : ClearState(t) => G
    BY <1>1 DEF ClearState
  <2>5. \A r \in Rules : UpdateRule(r) \/ WindowChanges(r) => G
    BY <1>1 DEF UpdateRule, WindowChanges
  <2>6. \A e \in Entities : EnterZone(e) \/ ExitZone(e) => G
    BY <1>1 DEF EnterZone, ExitZone, Move
  <2>7. \A t \in Subjects : \A i \in DOMAIN alerts[t] : Request(t, i) => G
    BY <1>1, RequestFacts
  <2>8. G
    BY <1>2, <1>3, <1>4, <2>1, <2>2, <2>3, <2>4, <2>5, <2>6, <2>7, NextCases
  <2>9. QED
    BY <2>8 DEF G
<1>5. CASE UNCHANGED vars
  BY <1>1, <1>5 DEF vars, G
<1>6. QED
  BY <1>4, <1>5 DEF G

\* A step that neither raises an alert nor finds a session open, and leaves the
\* awaited exit where it is.
LEMMA ExitFrame ==
    ASSUME TypeOK, ExitInv, [Next]_vars, NEW s \in Subjects, LeftWithAlert(s)',
           inside' = inside, HasOpen(alerts'[s]) => HasOpen(alerts[s]),
           Firing(s)' => Firing(s)
    PROVE  \E i \in DOMAIN inbox : Awaited(s, i)
BY ExcusesGrow DEF LeftWithAlert, ExitInv

LEMMA ExitStays ==
    ASSUME NEW s \in Subjects, NEW i \in DOMAIN inbox, Awaited(s, i),
           inbox' = inbox, consumer' = consumer \/ consumer' = Idle
    PROVE  \E j \in DOMAIN inbox' : Awaited(s, j)'
BY DEF Awaited, Idle

\* The steps that neither move, nor apply, nor touch the inbox.
LEMMA ExitKept ==
    ASSUME TypeOK, ExitInv, [Next]_vars, NEW s \in Subjects, LeftWithAlert(s)',
           inside' = inside, inbox' = inbox, alerts' = alerts,
           consumer' = consumer \/ consumer' = Idle, Firing(s)' => Firing(s)
    PROVE  \E i \in DOMAIN inbox' : Awaited(s, i)'
BY ExitFrame, ExitStays

LEMMA MoveExit ==
    ASSUME TypeOK, ExitInv, [Next]_vars, NEW s \in Subjects, LeftWithAlert(s)',
           NEW e \in Entities, EnterZone(e) \/ ExitZone(e)
    PROVE  \E i \in DOMAIN inbox' : Awaited(s, i)'
<1> DEFINE type == IF EnterZone(e) THEN "zone_entered" ELSE "zone_exited"
<1>0. PICK n \in Nat : n = Len(inbox)
  BY DEF TypeOK
<1>1. PICK occupants \in SUBSET Entities :
         /\ inside' = occupants
         /\ occupants = inside \cup {e} \/ occupants = inside \ {e}
         /\ ExitZone(e) => occupants = inside \ {e}
         /\ EnterZone(e) => occupants = inside \cup {e}
         /\ inbox' = inbox \o ZoneEvents(type, e, Cardinality(occupants))
  <2>1. inside \cup {e} \in SUBSET Entities /\ inside \ {e} \in SUBSET Entities
    BY DEF TypeOK
  <2>2. ~ (EnterZone(e) /\ ExitZone(e))
    BY DEF EnterZone, ExitZone
  <2>3. QED
    BY <2>1, <2>2 DEF EnterZone, ExitZone, Move
<1>2. /\ inbox \in Seq(Events) /\ DOMAIN inbox = 1..n
      /\ UNCHANGED <<alerts, consumer, reconciler, excuses>>
  BY <1>0 DEF TypeOK, EnterZone, ExitZone, Move
<1> DEFINE more == ZoneEvents(type, e, Cardinality(occupants))
<1>3. /\ more # <<>> /\ more \in Seq(Events)
      /\ more[1].type = type /\ more[1].entity = e
  <2>1. Cardinality(occupants) \in Nat
    BY FS_Subset, FS_CardinalityType, RulesAssumption
  <2>2. moves \in Nat /\ clock \in Nat
    BY BoundsAssumption DEF TypeOK
  <2> DEFINE k == Cardinality(occupants)
             event(t) == [id |-> moves, type |-> t, entity |-> e,
                          occupancy |-> k, at |-> clock]
  <2>3. event(type) \in Events /\ event("zone_occupancy_changed") \in Events
    BY <2>1, <2>2 DEF Events, EventTypes
  <2>4. event(type).type = type /\ event(type).entity = e
    OBVIOUS
  <2>5. more = IF PublishOccupancyChanges
               THEN <<event(type), event("zone_occupancy_changed")>>
               ELSE <<event(type)>>
    BY DEF ZoneEvents
  <2> HIDE DEF event, type, more, k
  <2>6. QED
    BY <2>3, <2>4, <2>5
<1> HIDE DEF more, type
<1>4. /\ inbox' = inbox \o more
      /\ DOMAIN inbox' = 1..(n + Len(more)) /\ Len(more) \in Nat \ {0}
      /\ \A i \in 1..n : inbox'[i] = inbox[i]
      /\ inbox'[n + 1] = more[1]
  BY <1>0, <1>1, <1>2, <1>3 DEF more
<1>5. CASE s[2] \notin inside
  <2>1. LeftWithAlert(s)
    BY <1>2, <1>5 DEF LeftWithAlert, Firing
  <2>2. PICK i \in 1..n : Awaited(s, i)
    BY <1>2, <2>1 DEF ExitInv
  <2>3. i \in DOMAIN inbox' /\ Awaited(s, i)'
    BY <1>2, <1>4, <2>2 DEF Awaited
  <2>4. QED
    BY <2>3
<1>6. CASE s[2] \in inside
  <2>1. s[2] = e /\ type = "zone_exited"
    BY <1>1, <1>6 DEF LeftWithAlert, type, EnterZone, ExitZone
  <2>2. n + 1 = 1 => consumer' = Idle
    BY <1>0, <1>2 DEF TypeOK, ConsumerTypeOK
  <2>3. n + 1 \in DOMAIN inbox' /\ Awaited(s, n + 1)'
    BY <1>2, <1>3, <1>4, <2>1, <2>2 DEF Awaited, Idle
  <2>4. QED
    BY <2>3
<1>7. QED
  BY <1>5, <1>6

LEMMA EvaluateExit ==
    ASSUME TypeOK, ExitInv, [Next]_vars, NEW s \in Subjects, LeftWithAlert(s)',
           Evaluate
    PROVE  \E i \in DOMAIN inbox' : Awaited(s, i)'
<1>1. PICK i \in DOMAIN inbox : Awaited(s, i)
  BY ExitFrame DEF Evaluate, Firing
<1>2. i = 1 => Head(inbox) = inbox[i]
  BY DEF Evaluate, TypeOK
<1>3. CASE i = 1
  <2> DEFINE v == Head(inbox)
  <2>1. s[1] \in Rules /\ v.type = "zone_exited" /\ v.entity = s[2]
    BY <1>1, <1>2, <1>3 DEF Awaited, Subjects
  <2>2. Reasons(s[1], v) = {}
    BY <2>1 DEF Evaluate, Excused, LeftWithAlert
  <2>3. ActionKind(s[1], v) = "lapse"
    BY <2>1 DEF ActionKind, LeftWithAlert
  <2>4. s[1] \in enabled /\ s[1] \in active
    BY <2>2, <2>3 DEF Reasons
  <2>5. Evaluated(s[1], v) = "lapse"
    BY <2>3, <2>4 DEF Evaluated
  <2>6. consumer'.phase = "evaluated" /\ consumer'.kinds[s[1]] = "lapse"
    BY <2>1, <2>5 DEF Evaluate
  <2>7. QED
    BY <1>1, <2>6 DEF Awaited, Evaluate
<1>4. CASE i # 1
  BY <1>1, <1>4 DEF Awaited, Evaluate
<1>5. QED
  BY <1>3, <1>4

LEMMA ApplyExit ==
    ASSUME TypeOK, ExitInv, KindsInv, [Next]_vars, NEW s \in Subjects,
           LeftWithAlert(s)', ApplyActions
    PROVE  \E i \in DOMAIN inbox' : Awaited(s, i)'
<1>1. /\ consumer.phase = "evaluated" /\ consumer'.phase = "applied"
      /\ consumer.event = Head(inbox) /\ alerts'[s] = AlertsAfter(s)
      /\ Firing(s)' <=> Firing(s)
      /\ alerts[s] \in Seq(Alerts) /\ s[1] \in Rules
  BY ConsumerType DEF ApplyActions, Firing, TypeOK, Subjects
<1>2. KindFor(s) # "trigger"
  BY <1>1 DEF KindsInv, KindFor, LeftWithAlert
<1>3. AlertsAfter(s) = IF KindFor(s) = "lapse" THEN Resolved(alerts[s]) ELSE alerts[s]
  BY <1>2 DEF AlertsAfter
<1>4. ~HasOpen(Resolved(alerts[s]))
  BY <1>1, ResolvedFacts DEF HasOpen
<1>5. PICK i \in DOMAIN inbox : Awaited(s, i)
  BY <1>1, <1>3, <1>4, ExitFrame DEF ApplyActions
<1>6. CASE KindFor(s) = "lapse"
  <2>1. Firing(s)
    BY <1>1, <1>3, <1>4, <1>6 DEF LeftWithAlert
  <2>2. "race" \in excuses'[s]
    BY <1>6, <2>1 DEF ApplyActions, Excused
  <2>3. QED
    BY <2>2 DEF LeftWithAlert
<1>7. CASE KindFor(s) # "lapse"
  <2>1. i # 1
    BY <1>1, <1>5, <1>7 DEF Awaited, KindFor, TypeOK
  <2>2. QED
    BY <1>5, <2>1 DEF Awaited, ApplyActions
<1>8. QED
  BY <1>6, <1>7

\* The head of the inbox goes, but is not what is awaited.
LEMMA HeadGoes ==
    ASSUME TypeOK, NEW s \in Subjects, NEW i \in DOMAIN inbox, Awaited(s, i), i # 1,
           inbox' = Tail(inbox), consumer' = Idle
    PROVE  \E j \in DOMAIN inbox' : Awaited(s, j)'
<1>1. inbox \in Seq(Events) /\ i \in 2..Len(inbox) /\ Len(inbox) \in Nat
  BY DEF TypeOK
<1>2. i - 1 \in DOMAIN inbox' /\ inbox'[i - 1] = inbox[i]
  BY <1>1
<1>3. Awaited(s, i - 1)'
  BY <1>2 DEF Awaited, Idle
<1>4. QED
  BY <1>2, <1>3

LEMMA ConsumedExit ==
    ASSUME TypeOK, ExitInv, [Next]_vars, NEW s \in Subjects, LeftWithAlert(s)',
           Checkpoint \/ EvaluationFails
    PROVE  \E i \in DOMAIN inbox' : Awaited(s, i)'
<1>1. PICK i \in DOMAIN inbox : Awaited(s, i)
  BY ExitFrame DEF Checkpoint, EvaluationFails, Firing
<1>2. inbox' = Tail(inbox) /\ consumer' = Idle
  BY DEF Checkpoint, EvaluationFails
<1>3. i # 1
  <2>1. CASE Checkpoint
    BY <1>1, <2>1 DEF Checkpoint, Awaited
  <2>2. CASE EvaluationFails
    <3> SUFFICES ASSUME i = 1 PROVE FALSE
      OBVIOUS
    <3>1. Head(inbox).entity = s[2]
      BY <1>1 DEF Awaited, TypeOK
    <3>2. "fault" \in excuses'[s]
      BY <2>2, <3>1 DEF EvaluationFails, ExcusedByFault, Excused
    <3>3. QED
      BY <3>2 DEF LeftWithAlert
  <2>3. QED
    BY <2>1, <2>2
<1>4. QED
  BY <1>1, <1>2, <1>3, HeadGoes

LEMMA DroppedExit ==
    ASSUME TypeOK, ExitInv, [Next]_vars, NEW s \in Subjects, LeftWithAlert(s)',
           EventDropped
    PROVE  \E i \in DOMAIN inbox' : Awaited(s, i)'
<1>1. PICK i \in DOMAIN inbox : Awaited(s, i)
  BY ExitFrame DEF EventDropped, Firing
<1>2. inbox \in Seq(Events) /\ Len(inbox) \in Nat /\ DOMAIN inbox = 1..Len(inbox)
  BY DEF TypeOK
<1>3. i # Len(inbox)
  <2> SUFFICES ASSUME i = Len(inbox) PROVE FALSE
    OBVIOUS
  <2>1. "fault" \in excuses'[s]
    BY <1>1 DEF EventDropped, ExcusedByFault, Excused, Awaited
  <2>2. QED
    BY <2>1 DEF LeftWithAlert
<1>4. i \in DOMAIN inbox' /\ inbox'[i] = inbox[i]
  BY <1>2, <1>3 DEF EventDropped
<1>5. QED
  BY <1>1, <1>4 DEF Awaited, EventDropped

LEMMA FireExit ==
    ASSUME TypeOK, ExitInv, [Next]_vars, NEW s \in Subjects, LeftWithAlert(s)',
           NEW t \in Subjects, FireDue(t)
    PROVE  \E i \in DOMAIN inbox' : Awaited(s, i)'
<1>1. s = t => Firing(s)
  BY DEF FireDue, Firing
<1>2. s # t => alerts'[s] = alerts[s]
  BY FireFacts
<1>3. ~Firing(s)'
  BY NextOfBatchType DEF FireDue, Firing
<1>4. LeftWithAlert(s)
  BY <1>1, <1>2, <1>3 DEF LeftWithAlert, FireDue
<1>5. QED
  BY <1>4, ExitStays DEF ExitInv, FireDue

LEMMA ClearExit ==
    ASSUME TypeOK, ExitInv, [Next]_vars, NEW s \in Subjects, LeftWithAlert(s)',
           NEW t \in Subjects, ClearState(t)
    PROVE  \E i \in DOMAIN inbox' : Awaited(s, i)'
<1>1. ~Firing(s)'
  BY NextOfBatchType DEF ClearState, Firing
<1>2. HasOpen(alerts'[s]) => HasOpen(alerts[s])
  <2>1. alerts'[s] = alerts[s] \/ alerts'[s] = Resolved(alerts[s])
    BY DEF ClearState, TypeOK
  <2>2. ~HasOpen(Resolved(alerts[s]))
    BY ResolvedFacts DEF HasOpen, TypeOK
  <2>3. QED
    BY <2>1, <2>2
<1>3. QED
  BY <1>1, <1>2, ExitFrame, ExitStays DEF ClearState

LEMMA RequestExit ==
    ASSUME TypeOK, ExitInv, [Next]_vars, NEW s \in Subjects, LeftWithAlert(s)',
           NEW t \in Subjects, NEW k \in DOMAIN alerts[t], Request(t, k)
    PROVE  \E i \in DOMAIN inbox' : Awaited(s, i)'
<1>1. UNCHANGED <<inside, inbox, consumer, reconciler>>
  BY RequestFacts
<1>2. HasOpen(alerts'[s]) => HasOpen(alerts[s])
  BY RequestFacts DEF LeftWithAlert
<1>3. QED
  BY <1>1, <1>2, ExitFrame, ExitStays DEF Firing

LEMMA CheckExit ==
    ASSUME TypeOK, ExitInv, [Next]_vars, NEW s \in Subjects, LeftWithAlert(s)',
           CheckCondition
    PROVE  \E i \in DOMAIN inbox' : Awaited(s, i)'
<1>1. ~Firing(s)'
  BY CheckFacts DEF CheckCondition, ConditionHolds, Firing, LeftWithAlert
<1>2. QED
  BY <1>1, ExitKept DEF CheckCondition

LEMMA ExitStep == TypeOK /\ ExitInv /\ KindsInv /\ [Next]_vars => ExitInv'
<1> SUFFICES ASSUME TypeOK, ExitInv, KindsInv, [Next]_vars,
                    NEW s \in Subjects, LeftWithAlert(s)'
             PROVE  \E i \in DOMAIN inbox' : Awaited(s, i)'
  BY DEF ExitInv
<1> DEFINE G == \E i \in DOMAIN inbox' : Awaited(s, i)'
<1>1. /\ inside' = inside /\ inbox' = inbox /\ alerts' = alerts
      /\ consumer' = consumer \/ consumer' = Idle
      /\ Firing(s)' => Firing(s)
      => G
  BY ExitKept
<1> HIDE DEF G
<1>2. CASE Next
  <2>1. Tick => G
    BY <1>1 DEF Tick, Firing
  <2>2. PassFails \/ Crash => G
    BY <1>1 DEF PassFails, Crash, Firing, Idle
  <2>3. ListDue => G
    BY <1>1 DEF ListDue, Firing
  <2>4. \A t \in Subjects : ReadRule(t) => G
    BY <1>1 DEF ReadRule, Holding, Firing
  <2>5. \A r \in Rules : UpdateRule(r) \/ WindowChanges(r) => G
    BY <1>1 DEF UpdateRule, WindowChanges, Firing
  <2>6. \A e \in Entities : EnterZone(e) \/ ExitZone(e) => G
    BY MoveExit DEF G
  <2>7. \A t \in Subjects : \A i \in DOMAIN alerts[t] : Request(t, i) => G
    BY RequestExit DEF G
  <2>8. (Evaluate => G) /\ (ApplyActions => G) /\ (CheckCondition => G)
    BY EvaluateExit, ApplyExit, CheckExit DEF G
  <2>9. (Checkpoint => G) /\ (EvaluationFails => G) /\ (EventDropped => G)
    BY ConsumedExit, DroppedExit DEF G
  <2>10. \A t \in Subjects : ClearState(t) => G
    BY ClearExit DEF G
  <2>11. \A t \in Subjects : FireDue(t) => G
    BY FireExit DEF G
  <2>12. G
    BY <1>2, <2>1, <2>2, <2>3, <2>4, <2>5, <2>6, <2>7, <2>8, <2>9, <2>10, <2>11,
       NextCases
  <2>13. QED
    BY <2>12 DEF G
<1>3. CASE UNCHANGED vars
  BY <1>1, <1>3 DEF vars, Firing, G
<1>4. QED
  BY <1>2, <1>3

\* When an entity has left and its events are evaluated, its dwell alert is
\* resolved, unless an event was lost, met a rule that was disabled or outside
\* its window, or was evaluated while the reconciler was about to fire, or an
\* acknowledgement was written over the resolution.
THEOREM DwellResolvedHolds == Spec => []DwellResolvedUnlessExcused
<1>1. Init => ExitInv /\ KindsInv
  BY DEF Init, ExitInv, KindsInv, LeftWithAlert, HasOpen, Firing, Idle
<1>2. TypeOK /\ ExitInv /\ KindsInv /\ [Next]_vars => ExitInv' /\ KindsInv'
  BY ExitStep, KindsStep
<1>3. ExitInv => DwellResolvedUnlessExcused
  BY DEF ExitInv, DwellResolvedUnlessExcused, OpenAfterExit, LeftWithAlert,
         Quiet, Awaited
<1>4. QED
  BY <1>1, <1>2, <1>3, TypeCorrect, PTL DEF Spec
=============================================================================
