-------------------------- MODULE AlertEvaluation --------------------------
(***************************************************************************)
(* Rule evaluation of durable alerts: AlertEvaluationService, its three    *)
(* evaluators, the due reconciler and the alert and evaluator-state        *)
(* repositories, for one zone.                                             *)
(*                                                                         *)
(* Two threads write.  The consumer takes the committed zone events in     *)
(* order: it reads the rules and computes actions, then applies them in    *)
(* one transaction.  The reconciler lists the states that are due, and for *)
(* each reads the rule, reads the sessions and fires, in transactions of   *)
(* their own.  Operators enable rules, acknowledge and resolve alerts.     *)
(* Every transaction is one action, save the acknowledgement, whose reading *)
(* and writing are apart.  A conflict on a unique index is an exception of *)
(* the loser: one of the faults below, or a refused acknowledgement.       *)
(***************************************************************************)
EXTENDS Integers, Sequences, FiniteSets

CONSTANTS
    Rules, Entities,
    RuleType,       \* [Rules -> {"event_match", "occupancy", "dwell"}]
    Delay,          \* dwell_threshold_seconds, occupancy_duration_seconds
    Threshold,      \* occupancy_threshold
    Cooldown,       \* cooldown_seconds
    MatchTypes,     \* source_event_types of the event_match rules
    PublishOccupancyChanges,  \* SpatialService notifies zone_occupancy_changed
    BatchLimit,     \* batch_size of the reconciler
    MaxTime, MaxMoveTime, MaxMoves, MaxFaults, MaxToggles, MaxManual   \* bounds

RuleTypes == {"event_match", "occupancy", "dwell"}

ASSUME RulesAssumption ==
    /\ IsFiniteSet(Entities)
    /\ RuleType \in [Rules -> RuleTypes]
    /\ Delay \in [Rules -> Nat] /\ Threshold \in [Rules -> Nat]
    /\ Cooldown \in [Rules -> Nat]
    /\ PublishOccupancyChanges \in BOOLEAN
    /\ BatchLimit \in Nat \ {0}

ASSUME BoundsAssumption ==
    /\ MaxTime \in Nat /\ MaxMoveTime \in Nat /\ MaxMoves \in Nat /\ MaxFaults \in Nat
    /\ MaxToggles \in Nat /\ MaxManual \in Nat
    /\ \A r \in Rules : MaxMoveTime + Delay[r] <= MaxTime

VARIABLES
    clock,      \* seconds
    inside,     \* entities with an open session in the zone
    moves,      \* committed entries and exits; numbers the events
    inbox,      \* committed zone events the consumer has not checkpointed
    enabled,    \* rules whose enabled flag is set
    active,     \* rules in their time window
    states,     \* alert_evaluator_state, by (rule, entity)
    alerts,     \* alerts of a (rule, entity), in the order of insertion
    consumer,   \* the evaluation the consumer thread is in
    reconciler, \* the pass the reconciler thread is in
    acknowledging,  \* acknowledgements that have read their alert
    faults, toggles, manual,
    excuses     \* history: what happened to a subject's events on the way

vars == <<clock, inside, moves, inbox, enabled, active, states, alerts,
          consumer, reconciler, acknowledging, faults, toggles, manual, excuses>>

requests == <<acknowledging, manual>>

Subjects == Rules \X Entities
EventTypes == {"zone_entered", "zone_exited", "zone_occupancy_changed"}
Events == [id : Nat, type : EventTypes, entity : Entities, occupancy : Nat,
           at : Nat]
Keys == ({"event"} \X (Nat \X EventTypes)) \cup {<<"due">>}
Statuses == {"open", "acknowledged", "resolved"}
Alerts == [key : Keys, at : Nat, status : Statuses]
StateKinds == {"none", "pending", "triggered", "cleared"}
Excuses == {"fault", "disabled", "window", "race", "overwritten"}
States == [kind : StateKinds, due : Nat]
Kinds == {"none", "trigger", "schedule", "lapse"}

Idle == [phase |-> "idle"]

Init ==
    /\ clock = 0 /\ moves = 0
    /\ inside = {}
    /\ inbox = <<>>
    /\ enabled = Rules /\ active = Rules
    /\ states = [s \in Subjects |-> [kind |-> "none", due |-> 0]]
    /\ alerts = [s \in Subjects |-> <<>>]
    /\ consumer = Idle /\ reconciler = Idle
    /\ acknowledging = {}
    /\ faults = 0 /\ toggles = 0 /\ manual = 0
    /\ excuses = [s \in Subjects |-> {}]

Unresolved(a) == a.status \in {"open", "acknowledged"}
HasOpen(history) == \E i \in DOMAIN history : Unresolved(history[i])

-----------------------------------------------------------------------------
(* The world: time, movement through the zone, operators.                  *)

Tick ==
    /\ clock < MaxTime
    /\ clock' = clock + 1
    /\ UNCHANGED <<inside, moves, inbox, enabled, active, states,
                   alerts, consumer, reconciler, faults, toggles, requests,
                   excuses>>

\* The events of one session change: the entry or exit and, when the
\* service publishes them, the change of occupancy.
ZoneEvents(type, e, occupancy) ==
    LET event(t) == [id |-> moves, type |-> t, entity |-> e,
                     occupancy |-> occupancy, at |-> clock]
    IN  IF PublishOccupancyChanges
        THEN <<event(type), event("zone_occupancy_changed")>>
        ELSE <<event(type)>>

Move(type, e, occupants) ==
    /\ moves < MaxMoves /\ clock <= MaxMoveTime
    /\ moves' = moves + 1
    /\ inside' = occupants
    /\ inbox' = inbox \o ZoneEvents(type, e, Cardinality(occupants))
    /\ UNCHANGED <<clock, enabled, active, states, alerts, consumer,
                   reconciler, faults, toggles, requests, excuses>>

EnterZone(e) ==
    /\ e \notin inside
    /\ Move("zone_entered", e, inside \cup {e})

ExitZone(e) ==
    /\ e \in inside
    /\ Move("zone_exited", e, inside \ {e})

\* AlertRuleService.update_rule, of the enabled flag.
UpdateRule(r) ==
    /\ toggles < MaxToggles
    /\ toggles' = toggles + 1
    /\ enabled' = IF r \in enabled THEN enabled \ {r} ELSE enabled \cup {r}
    /\ UNCHANGED <<clock, inside, moves, inbox, active, states, alerts,
                   consumer, reconciler, faults, requests, excuses>>

\* The active window of a rule opens or closes (rule_is_active_at).
WindowChanges(r) ==
    /\ toggles < MaxToggles
    /\ toggles' = toggles + 1
    /\ active' = IF r \in active THEN active \ {r} ELSE active \cup {r}
    /\ UNCHANGED <<clock, inside, moves, inbox, enabled, states, alerts,
                   consumer, reconciler, faults, requests, excuses>>

WithStatus(history, i, status) == [history EXCEPT ![i].status = status]

\* acknowledge reads the alert and leaves one that is past "open" as it is; its
\* SELECT locks nothing.
BeginAcknowledge(s, i) ==
    /\ alerts[s][i].status = "open"
    /\ manual < MaxManual
    /\ manual' = manual + 1
    /\ acknowledging' = acknowledging \cup {<<s, i, manual>>}
    /\ UNCHANGED <<clock, inside, moves, inbox, enabled, active, states, alerts,
                   consumer, reconciler, faults, toggles, excuses>>

\* uq_alerts_open_rule_subject.
AtMostOneOpen(history) ==
    \A i, j \in DOMAIN history :
        Unresolved(history[i]) /\ Unresolved(history[j]) => i = j

\* Its UPDATE writes "acknowledged" over whatever the alert has become, unless
\* the unique index refuses it.
Acknowledge(s, i, n) ==
    /\ <<s, i, n>> \in acknowledging
    /\ acknowledging' = acknowledging \ {<<s, i, n>>}
    /\ LET after == WithStatus(alerts[s], i, "acknowledged") IN
       IF AtMostOneOpen(after)
       THEN /\ alerts' = [alerts EXCEPT ![s] = after]
            /\ excuses' = [excuses EXCEPT ![s] = @ \cup
                             IF alerts[s][i].status = "resolved"
                             THEN {"overwritten"} ELSE {}]
       ELSE UNCHANGED <<alerts, excuses>>
    /\ UNCHANGED <<clock, inside, moves, inbox, enabled, active, states,
                   consumer, reconciler, faults, toggles, manual>>

\* AlertQueryService.resolve writes "resolved" over both other statuses, so it
\* does not matter when it has read.
Resolve(s, i) ==
    /\ Unresolved(alerts[s][i])
    /\ manual < MaxManual
    /\ manual' = manual + 1
    /\ alerts' = [alerts EXCEPT ![s] = WithStatus(@, i, "resolved")]
    /\ UNCHANGED <<clock, inside, moves, inbox, enabled, active, states, consumer,
                   reconciler, acknowledging, faults, toggles, excuses>>

-----------------------------------------------------------------------------
(* Applying actions to the alerts and the evaluator state of one subject.  *)

MayTriggerAgain(history, key, now, cooldown) ==
    /\ \A i \in DOMAIN history : now - history[i].at >= cooldown
    /\ ~HasOpen(history)

MayTriggerBesideOpen(history, key, now, cooldown) ==
    /\ \A i \in DOMAIN history : now - history[i].at >= cooldown
    /\ \A i \in DOMAIN history : history[i].key # key

\* _apply_action for "trigger": cooldown, idempotency key, open alert; then
\* create.
MayTrigger(history, key, now, cooldown) ==
    /\ \A i \in DOMAIN history : now - history[i].at >= cooldown
    /\ \A i \in DOMAIN history : history[i].key # key
    /\ ~HasOpen(history)

Triggered(history, key, now) ==
    Append(history, [key |-> key, at |-> now, status |-> "open"])

\* _resolve_and_notify of the open alert, if there is one.
Resolved(history) ==
    [i \in DOMAIN history |->
        IF Unresolved(history[i])
        THEN [history[i] EXCEPT !.status = "resolved"]
        ELSE history[i]]

ScheduledOnce(state, due) ==
    IF state.kind = "none" THEN [kind |-> "pending", due |-> due] ELSE state

\* upsert_pending: only a new or a cleared row takes the new due_at.
Scheduled(state, due) ==
    [kind |-> "pending",
     due  |-> IF state.kind \in {"none", "cleared"} THEN due ELSE state.due]

\* clear: an absent row stays absent.
Cleared(state) ==
    IF state.kind = "none" THEN state ELSE [state EXCEPT !.kind = "cleared"]

-----------------------------------------------------------------------------
(* The consumer thread: process_source_event.                              *)

ActionKindWithoutLapse(r, v) ==
    CASE RuleType[r] = "event_match" /\ v.type \in MatchTypes -> "trigger"
      [] RuleType[r] = "occupancy" /\ v.occupancy >= Threshold[r] ->
            IF Delay[r] = 0 THEN "trigger" ELSE "schedule"
      [] RuleType[r] = "dwell" /\ v.type = "zone_entered" -> "schedule"
      [] OTHER -> "none"

\* What the evaluator of the type of rule r makes of event v.  "lapse" is
\* clear_pending followed by resolve_subject.
ActionKind(r, v) ==
    CASE RuleType[r] = "event_match" /\ v.type \in MatchTypes -> "trigger"
      [] RuleType[r] = "occupancy" ->
            IF v.occupancy < Threshold[r] THEN "lapse"
            ELSE IF Delay[r] = 0 THEN "trigger" ELSE "schedule"
      [] RuleType[r] = "dwell" /\ v.type = "zone_entered" -> "schedule"
      [] RuleType[r] = "dwell" /\ v.type = "zone_exited" -> "lapse"
      [] OTHER -> "none"

\* list_enabled, then evaluate of each evaluator, which looks at the window.
Evaluated(r, v) ==
    IF r \in enabled \cap active THEN ActionKind(r, v) ELSE "none"

Reasons(r, v) ==
    IF ActionKind(r, v) = "none" THEN {}
    ELSE (IF r \in enabled THEN {} ELSE {"disabled"})
         \cup (IF r \in active THEN {} ELSE {"window"})

Excused(why) == [s \in Subjects |-> excuses[s] \cup why[s]]

Evaluate ==
    /\ consumer.phase = "idle" /\ inbox # <<>>
    /\ LET v == Head(inbox) IN
       /\ consumer' = [phase |-> "evaluated", now |-> clock, event |-> v,
                       kinds |-> [r \in Rules |-> Evaluated(r, v)]]
       /\ excuses' = Excused([s \in Subjects |->
                        IF s[2] = v.entity THEN Reasons(s[1], v) ELSE {}])
    /\ UNCHANGED <<clock, inside, moves, inbox, enabled, active, states,
                   alerts, reconciler, faults, toggles, requests>>

\* The kind of action the evaluation in progress has for subject s.
KindFor(s) ==
    IF s[2] = consumer.event.entity THEN consumer.kinds[s[1]] ELSE "none"

EventKey == <<"event", <<consumer.event.id, consumer.event.type>>>>

StateAfter(s) ==
    CASE KindFor(s) = "schedule" ->
            Scheduled(states[s], consumer.event.at + Delay[s[1]])
      [] KindFor(s) = "lapse" -> Cleared(states[s])
      [] OTHER -> states[s]

AlertsAfter(s) ==
    CASE KindFor(s) = "lapse" -> Resolved(alerts[s])
      [] /\ KindFor(s) = "trigger"
         /\ MayTrigger(alerts[s], EventKey, consumer.now, Cooldown[s[1]]) ->
            Triggered(alerts[s], EventKey, consumer.now)
      [] OTHER -> alerts[s]

\* The reconciler works on s; it has found that s is to be fired.
HeldPhases == {"ruled", "disabled", "checked", "lapsed"}
Held(s) == reconciler.phase \in HeldPhases /\ reconciler.subject = s
Firing(s) == reconciler.phase = "checked" /\ reconciler.subject = s

\* The transaction of _apply_action for every action of the event.
ApplyActions ==
    /\ consumer.phase = "evaluated"
    /\ states' = [s \in Subjects |-> StateAfter(s)]
    /\ alerts' = [s \in Subjects |-> AlertsAfter(s)]
    /\ consumer' = [consumer EXCEPT !.phase = "applied"]
    /\ excuses' = Excused([s \in Subjects |->
                     IF Firing(s) /\ KindFor(s) # "none" THEN {"race"} ELSE {}])
    /\ UNCHANGED <<clock, inside, moves, inbox, enabled, active,
                   reconciler, faults, toggles, requests>>

\* The checkpoint passes the event, in a transaction of its own.
Checkpoint ==
    /\ consumer.phase = "applied"
    /\ consumer' = Idle
    /\ inbox' = Tail(inbox)
    /\ UNCHANGED <<clock, inside, moves, enabled, active, states, alerts,
                   reconciler, faults, toggles, requests, excuses>>

ExcusedByFault(e) ==
    Excused([s \in Subjects |-> IF s[2] = e THEN {"fault"} ELSE {}])

\* process_source_event raises: _run logs and goes on with the next event.
EvaluationFails ==
    /\ consumer.phase = "evaluated" /\ faults < MaxFaults
    /\ faults' = faults + 1
    /\ consumer' = Idle
    /\ inbox' = Tail(inbox)
    /\ excuses' = ExcusedByFault(Head(inbox).entity)
    /\ UNCHANGED <<clock, inside, moves, enabled, active, states, alerts,
                   reconciler, toggles, requests>>

EventDroppedInFlight ==
    /\ faults < MaxFaults
    /\ faults' = faults + 1
    /\ inbox # <<>>
    /\ excuses' = ExcusedByFault(inbox[Len(inbox)].entity)
    /\ inbox' = SubSeq(inbox, 1, Len(inbox) - 1)
    /\ UNCHANGED <<clock, inside, moves, enabled, active, states, alerts,
                   consumer, reconciler, toggles, requests>>

\* A notification is lost, or submit finds the queue full.
EventDropped ==
    /\ faults < MaxFaults
    /\ faults' = faults + 1
    /\ Len(inbox) > (IF consumer.phase = "idle" THEN 0 ELSE 1)
    /\ excuses' = ExcusedByFault(inbox[Len(inbox)].entity)
    /\ inbox' = SubSeq(inbox, 1, Len(inbox) - 1)
    /\ UNCHANGED <<clock, inside, moves, enabled, active, states, alerts,
                   consumer, reconciler, toggles, requests>>

-----------------------------------------------------------------------------
(* The reconciler thread: process_due_states.                              *)

Due == {s \in Subjects : states[s].kind = "pending" /\ states[s].due <= clock}

\* list_due: the BatchLimit oldest, with their due_at.
OldestDue(batch) ==
    /\ batch \subseteq Due
    /\ Cardinality(batch) = IF Cardinality(Due) < BatchLimit
                            THEN Cardinality(Due) ELSE BatchLimit
    /\ \A s \in batch, t \in Due \ batch : states[s].due <= states[t].due

ListDue ==
    /\ reconciler.phase = "idle"
    /\ \E batch \in (SUBSET Due) \ {{}} :
          /\ OldestDue(batch)
          /\ reconciler' = [phase |-> "listed", now |-> clock,
                            batch |-> [s \in batch |-> states[s].due]]
    /\ UNCHANGED <<clock, inside, moves, inbox, enabled, active, states,
                   alerts, consumer, faults, toggles, requests, excuses>>

\* The pass at subject s of its batch.
Holding(s, phase) == [phase |-> phase, now |-> reconciler.now,
                      batch |-> reconciler.batch, subject |-> s]

\* rules.get_by_id of the next state of the batch.
ReadRule(s) ==
    /\ reconciler.phase = "listed" /\ s \in DOMAIN reconciler.batch
    /\ \A t \in DOMAIN reconciler.batch :
          reconciler.batch[s] <= reconciler.batch[t]
    /\ reconciler' = Holding(s, IF s[1] \in enabled THEN "ruled" ELSE "disabled")
    /\ UNCHANGED <<clock, inside, moves, inbox, enabled, active, states,
                   alerts, consumer, faults, toggles, requests, excuses>>

\* _session_still_open for dwell, _zone_occupancy_meets for occupancy.
ConditionHolds(s) ==
    CASE RuleType[s[1]] = "dwell" -> s[2] \in inside
      [] RuleType[s[1]] = "occupancy" -> Cardinality(inside) >= Threshold[s[1]]
      [] OTHER -> TRUE

CheckCondition ==
    /\ reconciler.phase = "ruled"
    /\ reconciler' = Holding(reconciler.subject,
                             IF ConditionHolds(reconciler.subject)
                             THEN "checked" ELSE "lapsed")
    /\ UNCHANGED <<clock, inside, moves, inbox, enabled, active, states,
                   alerts, consumer, faults, toggles, requests, excuses>>

\* The batch without its subject; the pass ends with the batch.
NextOfBatch ==
    LET rest == DOMAIN reconciler.batch \ {reconciler.subject}
    IN  IF rest = {} THEN Idle
        ELSE [phase |-> "listed", now |-> reconciler.now,
              batch |-> [s \in rest |-> reconciler.batch[s]]]

\* The rule is gone or its condition is: clear, and resolve for dwell.
ClearState(s) ==
    /\ reconciler.phase \in {"disabled", "lapsed"} /\ s = reconciler.subject
    /\ states' = [states EXCEPT ![s] = Cleared(@)]
    /\ alerts' = IF reconciler.phase = "lapsed" /\ RuleType[s[1]] = "dwell"
                 THEN [alerts EXCEPT ![s] = Resolved(@)] ELSE alerts
    /\ excuses' = [excuses EXCEPT ![s] = @ \cup
                     IF reconciler.phase = "disabled" THEN {"disabled"}
                     ELSE IF s[2] \in inside THEN {"race"} ELSE {}]
    /\ reconciler' = NextOfBatch
    /\ UNCHANGED <<clock, inside, moves, inbox, enabled, active,
                   consumer, faults, toggles, requests>>

DueKey == <<"due">>

\* The idempotency key is made of the rule and the id of the state's row,
\* which lives as long as the subject: the same key at every firing.
MayFire(s) ==
    MayTrigger(alerts[s], DueKey, reconciler.now, Cooldown[s[1]])

\* _apply_action and mark_triggered.
FireDue(s) ==
    /\ reconciler.phase = "checked" /\ s = reconciler.subject
    /\ alerts' = IF MayFire(s)
                 THEN [alerts EXCEPT ![s] = Triggered(@, DueKey, reconciler.now)]
                 ELSE alerts
    /\ states' = IF MayFire(s) THEN [states EXCEPT ![s].kind = "triggered"]
                 ELSE states
    /\ reconciler' = NextOfBatch
    /\ UNCHANGED <<clock, inside, moves, inbox, enabled, active,
                   consumer, faults, toggles, requests, excuses>>

\* A transaction of the pass raises: _run logs and waits for the next pass.
PassFails ==
    /\ reconciler.phase # "idle" /\ faults < MaxFaults
    /\ faults' = faults + 1
    /\ reconciler' = Idle
    /\ UNCHANGED <<clock, inside, moves, inbox, enabled, active, states,
                   alerts, consumer, toggles, requests, excuses>>

\* The process dies and starts again; the consumer resumes after its
\* checkpoint, so an event it had applied is evaluated again.
Crash ==
    /\ faults < MaxFaults
    /\ faults' = faults + 1
    /\ consumer' = Idle /\ reconciler' = Idle
    /\ acknowledging' = {}
    /\ UNCHANGED <<clock, inside, moves, inbox, enabled, active, states,
                   alerts, toggles, manual, excuses>>

-----------------------------------------------------------------------------
ConsumerStep == Evaluate \/ ApplyActions \/ Checkpoint

ReconcilerStep ==
    \/ ListDue \/ CheckCondition
    \/ \E s \in Subjects : ReadRule(s) \/ ClearState(s) \/ FireDue(s)

Environment ==
    \/ \E e \in Entities : EnterZone(e) \/ ExitZone(e)
    \/ \E r \in Rules : UpdateRule(r) \/ WindowChanges(r)
    \/ \E s \in Subjects : \E i \in DOMAIN alerts[s] :
            \/ BeginAcknowledge(s, i)
            \/ \E n \in 0..MaxManual : Acknowledge(s, i, n)
            \/ Resolve(s, i)
    \/ EvaluationFails \/ EventDropped \/ PassFails \/ Crash

Next == Tick \/ ConsumerStep \/ ReconcilerStep \/ Environment

Spec == Init /\ [][Next]_vars

\* Time passes, and the loops of the two threads run.
FairSpec ==
    Spec /\ WF_vars(Tick) /\ WF_vars(ConsumerStep) /\ WF_vars(ReconcilerStep)

-----------------------------------------------------------------------------
(* Properties.                                                             *)

ConsumerTypeOK ==
    \/ consumer = Idle
    \/ /\ inbox # <<>> /\ consumer.event = Head(inbox)
       /\ consumer \in [phase : {"evaluated", "applied"}, now : 0..clock,
                        event : Events, kinds : [Rules -> Kinds]]

ReconcilerTypeOK ==
    \/ reconciler = Idle
    \/ /\ reconciler.now \in 0..clock
       /\ DOMAIN reconciler.batch \subseteq Subjects
       /\ \A s \in DOMAIN reconciler.batch : reconciler.batch[s] \in Nat
       /\ \/ reconciler.phase = "listed"
          \/ /\ reconciler.phase \in HeldPhases
             /\ reconciler.subject \in DOMAIN reconciler.batch

\* The type invariant.
TypeOK ==
    /\ clock \in 0..MaxTime /\ moves \in 0..MaxMoves
    /\ inside \subseteq Entities
    /\ inbox \in Seq(Events)
    /\ enabled \subseteq Rules /\ active \subseteq Rules
    /\ states \in [Subjects -> States]
    /\ alerts \in [Subjects -> Seq(Alerts)]
    /\ ConsumerTypeOK /\ ReconcilerTypeOK
    /\ faults \in 0..MaxFaults /\ toggles \in 0..MaxToggles
    /\ manual \in 0..MaxManual
    /\ acknowledging \subseteq Subjects \X Nat \X (0..MaxManual)
    /\ excuses \in [Subjects -> SUBSET Excuses]

\* However events are replayed, rules fire and operators resolve, a rule has
\* at most one unresolved alert about a subject.  uq_alerts_open_rule_subject
\* saves it from one thing only, an acknowledgement written over "resolved"
\* after the next alert was raised; no trigger ever meets the index.
OneOpenAlert == \A s \in Subjects : AtMostOneOpen(alerts[s])

\* A source event raises at most one alert of a rule, also when a crash
\* between the evaluation and the checkpoint has it evaluated again after
\* its alert was resolved.
OneAlertPerCause ==
    \A s \in Subjects : \A i, j \in DOMAIN alerts[s] :
        alerts[s][i].key = alerts[s][j].key => i = j

\* Two alerts about a subject are at least the cooldown apart, though they are
\* stamped with a clock read before their transactions.
CooldownHolds ==
    \A s \in Subjects : \A i, j \in DOMAIN alerts[s] :
        i < j => alerts[s][j].at - alerts[s][i].at >= Cooldown[s[1]]

\* No event of subject s's entity is under way and no thread works on s.
Quiet(s) ==
    /\ \A i \in DOMAIN inbox : inbox[i].entity # s[2]
    /\ ~Held(s)

OpenAfterExit(s) ==
    /\ RuleType[s[1]] = "dwell" /\ s[2] \notin inside /\ Quiet(s)
    /\ HasOpen(alerts[s])

\* When an entity has left and its events are evaluated, its dwell alert is
\* resolved, unless an event was lost or met a rule that was disabled or
\* outside its window, or was evaluated while the reconciler, which had found
\* the session open, was about to fire, or an acknowledgement that had read the
\* alert while it was open was written after it was resolved.
DwellResolvedUnlessExcused ==
    \A s \in Subjects : OpenAfterExit(s) => excuses[s] # {}

\* docs/durable-alerts.md:26 "Pending due_at on zone enter; trigger if still
\* inside": a due state whose session is open, with no alert open and the
\* cooldown over, raises an alert, at the second dwell as at the first.
DueDwellTriggers ==
    [][\A s \in Subjects :
        /\ FireDue(s) /\ RuleType[s[1]] = "dwell"
        /\ \A i \in DOMAIN alerts[s] :
              reconciler.now - alerts[s][i].at >= Cooldown[s[1]]
        => HasOpen(alerts'[s])]_vars

\* An entity that stays in the zone raises its first dwell alert, unless its
\* events were excused.
DwellFires ==
    \A s \in Subjects : RuleType[s[1]] = "dwell" =>
        (s[2] \in inside ~> \/ s[2] \notin inside
                            \/ alerts[s] # <<>>
                            \/ excuses[s] # {})
=============================================================================
