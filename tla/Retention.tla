----------------------------- MODULE Retention -----------------------------
(***************************************************************************)
(* The retention worker (services/ops/retention_worker.py), its manual     *)
(* triggers (retention_control.py) and the rows it deletes                 *)
(* (storage/retention_repository.py), beside the components that write     *)
(* them.                                                                   *)
(*                                                                         *)
(* A row is a member of Rows with its domain and the row it refers to with *)
(* ON DELETE CASCADE.  Of its content the model keeps what retention asks: *)
(* whether it is dead (a closed entity or session, a resolved alert, a     *)
(* cleared evaluator state, a delivery that is delivered or exhausted, any *)
(* observation), and since when.                                           *)
(*                                                                         *)
(* A cycle runs in a thread, for the loop or for a manual request, one     *)
(* action per transaction.  All cycles share the worker's dry_run, which   *)
(* a manual cycle overwrites and restores.                                 *)
(***************************************************************************)
EXTENDS Integers, Sequences, FiniteSets, FiniteSetsExt

CONSTANTS
    Rows, NoRow,
    DomainOf,           \* domain of each row
    ParentOf,           \* row it is deleted with, or NoRow
    Initial,            \* rows of active entities when the server starts
    Enabled,            \* domains that are enabled
    Keep,               \* keep_days of each domain
    BatchSize, MaxBatches,
    ConfigDry,          \* retention.dry_run
    AllowManual,        \* allow_manual_destructive_run
    Loop, DryRequests, RunRequests, Nobody,     \* who asks for cycles
    MaxTime, MaxFaults, MaxChanges       \* bounds

Domains == {"observations", "zone_sessions", "alerts", "evaluator_state",
            "notification_deliveries", "entities"}
\* the domain that the rows of a domain refer to
Owner == [d \in Domains |-> CASE d = "entities" -> "none"
                             [] d = "notification_deliveries" -> "alerts"
                             [] OTHER -> "entities"]
Requests == DryRequests \union RunRequests
Callers == Requests \union {Loop}

ASSUME RetentionAssumption ==
    /\ NoRow \notin Rows
    /\ DomainOf \in [Rows -> Domains]
    /\ ParentOf \in [Rows -> Rows \union {NoRow}]
    /\ \A r \in Rows : Owner[DomainOf[r]] =
          IF ParentOf[r] = NoRow THEN "none" ELSE DomainOf[ParentOf[r]]
    /\ Initial \subseteq {r \in Rows : DomainOf[r] = "entities"}
    /\ Enabled \subseteq Domains
    /\ Keep \in [Domains -> Nat \ {0}]
    /\ BatchSize \in Nat \ {0} /\ MaxBatches \in Nat \ {0}
    /\ ConfigDry \in BOOLEAN /\ AllowManual \in BOOLEAN
    /\ ConfigDry \/ Enabled # {}
    /\ Loop \notin Requests /\ Nobody \notin Callers
    /\ DryRequests \intersect RunRequests = {}
    /\ MaxTime \in Nat /\ MaxFaults \in Nat /\ MaxChanges \in Nat

VARIABLES
    clock,
    row,            \* status of each row and the time it has been dead since
    dry_run,        \* RetentionWorker.dry_run, shared by all cycles
    lock,           \* holder of _cycle_lock
    caller,         \* what the loop and each request are doing
    cycle,          \* run_cycle_sync of each caller
    cooling,        \* last_manual_trigger_at is less than the cooldown ago
    changed,        \* history: rows written since a cycle has fetched them
    faults, changes

vars == <<clock, row, dry_run, lock, caller, cycle, cooling, changed,
          faults, changes>>
store == <<row, changed>>


\* A cycle at a step of a domain: the batches left, the ids it has fetched and
\* those found safe, and the dry_run it found.
Cycle(step, domain, cutoff, left, ids, safe, dry) ==
    [step |-> step, domain |-> domain, cutoff |-> cutoff, left |-> left,
     ids |-> ids, safe |-> safe, dry |-> dry]
NoCycle == Cycle("off", 0, 0, 0, {}, {}, FALSE)

Init ==
    /\ clock = 0
    /\ row = [r \in Rows |->
                [status |-> IF r \in Initial THEN "live" ELSE "none", at |-> 0]]
    /\ dry_run = ConfigDry
    /\ lock = Nobody
    /\ caller = [c \in Callers |-> "idle"]
    /\ cycle = [c \in Callers |-> NoCycle]
    /\ cooling = FALSE
    /\ changed = {}
    /\ faults = 0 /\ changes = 0

-----------------------------------------------------------------------------
(* The rows, as the other components write them.                           *)

Present(r) == row[r].status \in {"live", "dead"}
Of(domain) == {r \in Rows : DomainOf[r] = domain}
Children(S) == {r \in Rows : ParentOf[r] \in S}
\* The rows that go with S: entities have alerts, and these have deliveries.
WithDependants(S) == S \union Children(S) \union Children(Children(S))

\* Deliveries are inserted in the transaction that changes their alert.
NewDeliveries(r) ==
    {d \in Children({r}) \intersect Of("notification_deliveries") :
        row[d].status = "none"}

\* A cycle that has fetched the rows of S will not know that they changed.
Put(S) ==
    /\ changes < MaxChanges
    /\ changes' = changes + 1
    /\ changed' = IF \E c \in Callers : cycle[c].step \in {"check", "delete"}
                  THEN changed \union S ELSE {}
    /\ UNCHANGED <<clock, dry_run, lock, caller, cycle, cooling, faults>>

\* A zone session opens for an active entity only; an alert and a state may
\* come for a closed one, when the consumer is late.
MayInsert(r) ==
    /\ row[r].status = "none"
    /\ DomainOf[r] # "notification_deliveries"
    /\ ParentOf[r] # NoRow => Present(ParentOf[r])
    /\ DomainOf[r] = "zone_sessions" => row[ParentOf[r]].status = "live"

Insert(r, new) ==
    /\ MayInsert(r) /\ new \subseteq NewDeliveries(r)
    /\ row' = [s \in Rows |->
                 IF s \in new \union {r}
                 THEN IF DomainOf[s] = "observations"
                      THEN [status |-> "dead", at |-> clock]
                      ELSE [status |-> "live", at |-> 0]
                 ELSE row[s]]
    /\ Put({r} \union new)

\* An entity or session closes, an alert is resolved (with its deliveries), a
\* state is cleared, a delivery is delivered or exhausted.
Settle(r, new) ==
    /\ row[r].status = "live" /\ new \subseteq NewDeliveries(r)
    /\ row' = [s \in Rows |->
                 IF s = r THEN [status |-> "dead", at |-> clock]
                 ELSE IF s \in new THEN [status |-> "live", at |-> 0]
                 ELSE row[s]]
    /\ Put({r} \union new)

\* A cleared state becomes pending, a final delivery is retried, and an alert
\* that has just been resolved is overwritten by an acknowledge that read it
\* before.
Revive(r) ==
    /\ \/ DomainOf[r] \in {"evaluator_state", "notification_deliveries"}
       \/ DomainOf[r] = "alerts" /\ row[r].at = clock
    /\ row[r].status = "dead"
    /\ row' = [row EXCEPT ![r] = [status |-> "live", at |-> 0]]
    /\ Put({r})

Tick ==
    /\ clock < MaxTime
    /\ clock' = clock + 1
    /\ UNCHANGED <<store, dry_run, lock, caller, cycle, cooling,
                   faults, changes>>

-----------------------------------------------------------------------------
(* RetentionRepository.                                                    *)

\* _entity_cascade_blockers
Blocked(e) ==
    \E r \in Children({e}) :
        \/ DomainOf[r] = "zone_sessions" /\ row[r].status = "live"
        \/ DomainOf[r] \in {"alerts", "evaluator_state"} /\ Present(r)

EligibleNoCutoff(domain, cutoff) ==
    {r \in Of(domain) : row[r].status = "dead"
                        /\ (domain = "entities" => ~Blocked(r))}

\* fetch_eligible_*_ids, before the limit
Eligible(domain, cutoff) ==
    {r \in Of(domain) : /\ row[r].status = "dead" /\ row[r].at < cutoff
                        /\ domain = "entities" => ~Blocked(r)}

\* The first rows in the order of their times, at most limit.
Batches(domain, cutoff, limit) ==
    LET all == Eligible(domain, cutoff)
    IN  {S \in SUBSET all :
            /\ \A r \in S, s \in all \ S : row[r].at <= row[s].at
            /\ \/ Cardinality(S) = limit
               \/ S = all /\ Cardinality(S) < limit}

DeletableUnchecked(ids) == {r \in ids : Present(r)}

\* delete_*_by_ids: what the condition of the statement still finds.  The
\* time is not asked again.
Deletable(ids) ==
    {r \in ids : \/ row[r].status = "dead"
                 \/ DomainOf[r] = "observations" /\ Present(r)}

\* The rows and everything that refers to them go in one statement.
Delete(S) ==
    row' = [r \in Rows |-> IF r \in WithDependants(S) /\ Present(r)
                           THEN [status |-> "gone", at |-> 0] ELSE row[r]]

-----------------------------------------------------------------------------
(* One cycle, run_cycle_sync in a thread.                                  *)

Order == <<"observations", "zone_sessions", "alerts", "evaluator_state",
           "notification_deliveries", "entities">>
RunnersShort(i) == {j \in i..Len(Order) - 1 : Order[j] \in Enabled}

\* _domain_runners, from position i on
RunnersFrom(i) == {j \in i..Len(Order) : Order[j] \in Enabled}

\* Who asks for a dry run: dry-run requests, and the loop as configured.
Dry(c) == c \in DryRequests \/ (c = Loop /\ ConfigDry)

\* force_dry_run: the override for the length of the cycle.
Override(c) ==
    CASE c \in DryRequests -> TRUE
      [] c \in RunRequests -> FALSE
      [] OTHER -> dry_run

Cutoff(domain) == clock - Keep[domain]

\* _run_domain begins with the first domain from position i on, or the cycle
\* is over.
Entered(i, dry) ==
    IF RunnersFrom(i) = {} THEN Cycle("end", 0, 0, 0, {}, {}, dry)
    ELSE LET first == Min(RunnersFrom(i))
         IN  Cycle("fetch", first, Cutoff(Order[first]), MaxBatches, {}, {}, dry)

Begin(c) ==
    /\ caller' = [caller EXCEPT ![c] = "running"]
    /\ dry_run' = Override(c)
    /\ cycle' = [cycle EXCEPT ![c] = Entered(1, dry_run)]

Domain(c) == Order[cycle[c].domain]
NextDomain(c) ==
    cycle' = [cycle EXCEPT ![c] = Entered(@.domain + 1, @.dry)]

\* An exception in a step ends the domain, not the cycle.
Fail(c) ==
    /\ cycle[c].step \in {"fetch", "check", "delete"}
    /\ faults < MaxFaults
    /\ faults' = faults + 1
    /\ NextDomain(c)
    /\ changed' = {}
    /\ UNCHANGED <<clock, row, dry_run, lock, caller, cooling,
                   changes>>

\* Fetch the ids of a batch.  A dry run ends the domain after its first.
Fetch(c) ==
    /\ cycle[c].step = "fetch"
    /\ \E ids \in Batches(Domain(c), cycle[c].cutoff, BatchSize) :
        /\ IF ids = {} \/ dry_run
           THEN NextDomain(c)
           ELSE cycle' = [cycle EXCEPT ![c] =
                    Cycle(IF Domain(c) = "entities" THEN "check" ELSE "delete",
                          @.domain, @.cutoff, @.left - 1, ids, {}, @.dry)]
    /\ UNCHANGED <<clock, store, dry_run, lock, caller, cooling, faults,
                   changes>>

\* delete_entities_by_ids looks again which entities are closed and free, and
\* deletes those in its next statement.
Check(c) ==
    /\ cycle[c].step = "check"
    /\ LET safe == {e \in cycle[c].ids : row[e].status = "dead" /\ ~Blocked(e)}
       IN  /\ cycle' = [cycle EXCEPT ![c] =
                    Cycle("delete", @.domain, @.cutoff, @.left, @.ids, safe, @.dry)]
           /\ changed' = changed \ WithDependants(safe)
    /\ UNCHANGED <<clock, row, dry_run, lock, caller, cooling,
                   faults, changes>>

Removed(c) == IF Domain(c) = "entities" THEN {e \in cycle[c].safe : Present(e)}
              ELSE Deletable(cycle[c].ids)

\* The next batch, until one is not full or the number of batches is used up.
DeleteBatch(c) ==
    /\ cycle[c].step = "delete"
    /\ Delete(Removed(c))
    /\ IF cycle[c].left = 0 \/ Cardinality(cycle[c].ids) < BatchSize
       THEN NextDomain(c)
       ELSE cycle' = [cycle EXCEPT ![c] =
                Cycle("fetch", @.domain, @.cutoff, @.left, {}, {}, @.dry)]
    /\ changed' = {}
    /\ UNCHANGED <<clock, dry_run, lock, caller, cooling, faults, changes>>

\* The flag is restored, the lock released, and a manual trigger is noted.
End(c) ==
    /\ cycle[c].step = "end"
    /\ dry_run' = cycle[c].dry
    /\ cycle' = [cycle EXCEPT ![c] = NoCycle]
    /\ lock' = IF lock = c THEN Nobody ELSE lock
    /\ cooling' = (cooling \/ c \in Requests)
    /\ caller' = [caller EXCEPT ![c] = IF c \in Requests THEN "done"
                                       ELSE IF @ = "running" THEN "idle" ELSE @]
    /\ UNCHANGED <<clock, store, faults, changes>>

CycleStep(c) == Fetch(c) \/ Check(c) \/ DeleteBatch(c) \/ End(c)

-----------------------------------------------------------------------------
(* Who asks for cycles.                                                    *)

AcquireAnyway(c) == lock' = c
Acquire(c) == lock = Nobody /\ lock' = c

\* The interval of _run_loop is over.
Wake ==
    /\ caller[Loop] = "idle"
    /\ caller' = [caller EXCEPT ![Loop] = "waiting"]
    /\ UNCHANGED <<clock, store, dry_run, lock, cycle, cooling, faults,
                   changes>>

\* run_cycle waits for the lock.
RunCycle ==
    /\ caller[Loop] = "waiting"
    /\ Acquire(Loop)
    /\ Begin(Loop)
    /\ UNCHANGED <<clock, store, cooling, faults, changes>>

\* What manual_dry_run and manual_run ask before they try: the flag is read
\* without the lock and may be the override of a dry run in progress.
Permitted(c) ==
    /\ c \in RunRequests => ~dry_run /\ AllowManual /\ Enabled # {}
    /\ ~cooling

Serving == caller[Loop] # "stopped"

\* try_run_cycle.  A request that is rejected changes nothing but a counter.
Trigger(c) ==
    /\ c \in Requests /\ Serving /\ caller[c] = "idle"
    /\ Permitted(c)
    /\ Acquire(c)
    /\ Begin(c)
    /\ UNCHANGED <<clock, store, cooling, faults, changes>>

CooldownOver ==
    /\ cooling
    /\ cooling' = FALSE
    /\ UNCHANGED <<clock, store, dry_run, lock, caller, cycle, faults,
                   changes>>

\* stop cancels the loop, which gives up the lock; the thread goes on.  By
\* then the server has answered its requests and takes no more.
Stop ==
    /\ Serving /\ \A c \in Requests : caller[c] # "running"
    /\ caller' = [caller EXCEPT ![Loop] = "stopped"]
    /\ lock' = IF lock = Loop THEN Nobody ELSE lock
    /\ UNCHANGED <<clock, store, dry_run, cycle, cooling, faults,
                   changes>>

-----------------------------------------------------------------------------
Writers ==
    \/ Tick
    \/ \E r \in Rows : Revive(r) \/ \E new \in SUBSET NewDeliveries(r) :
            Insert(r, new) \/ Settle(r, new)

Next ==
    \/ Writers
    \/ Wake \/ RunCycle \/ CooldownOver \/ Stop
    \/ \E c \in Callers : CycleStep(c) \/ Fail(c)
    \/ \E c \in Requests : Trigger(c)

\* The interval ends, the lock is given to who waits, and threads go on.
Spec == Init /\ [][Next]_vars
FairSpec == Spec /\ WF_vars(Wake) /\ SF_vars(RunCycle)
                 /\ \A c \in Callers : WF_vars(CycleStep(c))

-----------------------------------------------------------------------------
(* Properties.                                                             *)

CycleType ==
    [step : {"off", "fetch", "check", "delete", "end"}, domain : 0..Len(Order),
     cutoff : Int, left : Nat, ids : SUBSET Rows, safe : SUBSET Rows,
     dry : BOOLEAN]

TypeOK ==
    /\ clock \in Nat
    /\ row \in [Rows -> [status : {"none", "live", "dead", "gone"}, at : Nat]]
    /\ dry_run \in BOOLEAN /\ cooling \in BOOLEAN
    /\ lock \in Callers \union {Nobody}
    /\ caller \in [Callers -> {"idle", "waiting", "running", "done", "stopped"}]
    /\ cycle \in [Callers -> CycleType]
    /\ \A c \in Callers : cycle[c].cutoff <= clock
    /\ changed \subseteq Rows
    /\ faults \in Nat /\ changes \in Nat

\* A dry run deletes nothing, though all cycles read one flag that each manual
\* cycle overwrites: neither a manual dry run beside the loop, nor the loop of
\* a server that is configured dry beside a manual run.
DryRunDeletesNothing ==
    \A c \in Callers : Dry(c) => cycle[c].step \notin {"check", "delete"}

\* The override of a manual cycle does not outlive it: whatever the order in
\* which cycles begin, fail and end, the flag is the configured one when none
\* is running, so that the server neither stays dry nor starts to delete.
ConfiguredFlagReturns ==
    (\A c \in Callers : cycle[c].step = "off") => dry_run = ConfigDry

\* A row that is live, as the alert that is open, the state that is pending or
\* the delivery that is to be sent, is never deleted on its own account, even
\* when it became live after its id was fetched.  It goes only with the row it
\* refers to: a delivery with its resolved alert, and what was inserted
\* between the two statements of delete_entities_by_ids with the entity.
Goes(r) == row[r].status # "gone" /\ row'[r].status = "gone"
GoesWithParent(r) ==
    LET p == ParentOf[r]
    IN  /\ p # NoRow /\ Goes(p)
        /\ \/ DomainOf[p] = "alerts" /\ row[p].status = "dead"
           \/ r \in changed

LiveRowsGoOnlyByCascade ==
    [][\A r \in Rows : row[r].status = "live" /\ Goes(r) => GoesWithParent(r)]_vars

\* A row is kept for the days of its domain since it died.  It goes earlier
\* only with the row it refers to, or if it was written again after its id was
\* fetched, for the statement that deletes does not ask for the time.
KeptForItsDays ==
    [][\A r \in Rows : Goes(r) =>
          \/ row[r].status = "dead" /\ row[r].at + Keep[DomainOf[r]] < clock
          \/ ParentOf[r] # NoRow /\ Goes(ParentOf[r])
          \/ r \in changed]_vars

\* While the server runs and its cycles delete, a row that is dead for long
\* enough and that nothing depends on is not kept for ever, whatever the
\* batches leave behind and whichever cycles are rejected or fail.
Prunable(r) ==
    /\ Serving /\ ~ConfigDry /\ DomainOf[r] \in Enabled
    /\ row[r].status = "dead" /\ row[r].at + Keep[DomainOf[r]] < clock
    /\ DomainOf[r] = "entities" => ~Blocked(r)

OldRowsGo == \A r \in Rows : Prunable(r) ~> ~Prunable(r)
=============================================================================
