------------------------- MODULE NotificationOutbox -------------------------
(***************************************************************************)
(* The transactional outbox of outbound notifications: the delivery rows,  *)
(* the worker loops that claim, send and record them, and what the         *)
(* receivers answer.                                                       *)
(*                                                                         *)
(*   src/src/services/notifications/{enqueue,worker,webhook_provider}.py   *)
(*   src/src/storage/notification_repositories.py                          *)
(*                                                                         *)
(* Each action is one committed database transaction or one step of a      *)
(* worker thread outside any transaction.  Time is abstracted: a lock is   *)
(* younger or older than lock_timeout_seconds ("held", "stale") and a row  *)
(* is due or not.                                                          *)
(***************************************************************************)
EXTENDS Integers, FiniteSets

CONSTANTS
    Events,         \* alert state changes: alert_id x event_type
    Targets,        \* notification targets
    Matching,       \* Matching[e]: targets whose filters or rule link select e
    Workers,        \* processes that run a NotificationDeliveryWorker
    MaxAttempts,    \* notifications.max_attempts
    BatchSize,      \* notifications.batch_size
    MaxConcurrent,  \* notifications.max_concurrent_deliveries
    MaxManual,      \* bound: manual retries of one delivery
    MaxFaults,      \* bound: crashes, shutdowns and live locks that expire
    MaxErrors       \* bound: exceptions that end a job or a cycle

ASSUME OutboxAssumption ==
    /\ Matching \in [Events -> SUBSET Targets]
    /\ MaxAttempts \in Nat \ {0}
    /\ BatchSize \in Nat \ {0}
    /\ MaxConcurrent \in Nat \ {0}
    /\ MaxManual \in Nat
    /\ MaxFaults \in Nat
    /\ MaxErrors \in Nat

\* One logical delivery for each idempotency key {alert_id}:{target_id}:{event_type}.
Deliveries == Events \X Targets

VARIABLES
    row,      \* notification_deliveries, a row for each idempotency key
    logged,   \* notification_delivery_attempts: number of rows of a delivery
    enabled,  \* notification_targets.enabled
    pc,       \* where the loop of each worker is
    gen,      \* identity of the semaphore of the worker's current gather
    jobs,     \* _process_delivery calls that are waiting or running
    claims,   \* history: how often a delivery was claimed
    acked,    \* history: 2xx answers a worker has seen for a delivery
    retrying, \* manual retries that have read the row of a delivery: those whose
              \* row has been claimed since, and the others
    excuses,  \* history: why two jobs may be at work on a delivery, or one on
              \* a delivered row
    manual,   \* history: manual retries of a delivery
    faults,   \* number of faults so far
    errors    \* number of exceptions so far

vars == <<row, logged, enabled, pc, gen, jobs, claims, acked, retrying, excuses,
          manual, faults, errors>>

bounds == <<faults, errors>>

Statuses == {"none", "pending", "processing", "delivered", "failed", "exhausted"}
Row == [status: Statuses, attempts: Nat, due: BOOLEAN,
        lock: {"none", "held", "stale"}]
Retrying == [fresh: Nat, overtaken: Nat]
Excuses == {"expired", "overwritten"}
Results == {"ok", "retryable", "terminal"}
Stages == {"queued", "sending"} \cup Results
Job == [d: Deliveries, claim: Nat, w: Workers, gen: Nat, attempts: Nat,
        stage: Stages]

NoRow == [status |-> "none", attempts |-> 0, due |-> FALSE, lock |-> "none"]
NewRow == [status |-> "pending", attempts |-> 0, due |-> TRUE, lock |-> "none"]

Init ==
    /\ row = [d \in Deliveries |-> NoRow]
    /\ logged = [d \in Deliveries |-> 0]
    /\ enabled = [t \in Targets |-> TRUE]
    /\ pc = [w \in Workers |-> "poll"]
    /\ gen = [w \in Workers |-> 0]
    /\ jobs = {}
    /\ claims = [d \in Deliveries |-> 0]
    /\ acked = [d \in Deliveries |-> 0]
    /\ retrying = [d \in Deliveries |-> [fresh |-> 0, overtaken |-> 0]]
    /\ excuses = [d \in Deliveries |-> {}]
    /\ manual = [d \in Deliveries |-> 0]
    /\ faults = 0
    /\ errors = 0

-----------------------------------------------------------------------------
(* The alert transaction and the operator's requests *)

\* enqueue_for_alert: the alert's transaction inserts the missing row of every
\* matching enabled target; a row that exists already is left alone.
Enqueue(e) ==
    LET new == {t \in Matching[e] : enabled[t] /\ row[<<e, t>>].status = "none"}
    IN  /\ new # {}
        /\ row' = [d \in Deliveries |->
                     IF d[1] = e /\ d[2] \in new THEN NewRow ELSE row[d]]
        /\ UNCHANGED <<logged, enabled, pc, gen, jobs, claims, acked, retrying,
                       excuses, manual, bounds>>

\* PATCH /notification-targets/{id} with a new value of "enabled".
ToggleTarget(t) ==
    /\ enabled' = [enabled EXCEPT ![t] = ~@]
    /\ UNCHANGED <<row, logged, pc, gen, jobs, claims, acked, retrying, excuses,
                   manual, bounds>>

\* Which rows a manual retry accepts.  The mutant also accepts a delivered one.
RetryAllowedAnyTerminal(d) == row[d].status \in {"failed", "exhausted", "delivered"}
RetryAllowed(d) == row[d].status \in {"failed", "exhausted"}

\* schedule_manual_retry reads the row and checks its status; the SELECT locks
\* nothing.
BeginManualRetry(d) ==
    /\ RetryAllowed(d)
    /\ manual[d] < MaxManual
    /\ manual' = [manual EXCEPT ![d] = @ + 1]
    /\ retrying' = [retrying EXCEPT ![d].fresh = @ + 1]
    /\ UNCHANGED <<row, logged, enabled, pc, gen, jobs, claims, acked, excuses,
                   bounds>>

\* Its UPDATE sets the columns that differ from what it read, so not the lock,
\* whatever has become of the row in between.
ManualRetry(d) ==
    /\ \/ /\ retrying[d].fresh > 0
          /\ retrying' = [retrying EXCEPT ![d].fresh = @ - 1]
          /\ UNCHANGED excuses
       \/ /\ retrying[d].overtaken > 0
          /\ retrying' = [retrying EXCEPT ![d].overtaken = @ - 1]
          /\ excuses' = [excuses EXCEPT ![d] =
                           IF row[d].status \in {"processing", "delivered"}
                           THEN @ \cup {"overwritten"} ELSE @]
    /\ row' = [row EXCEPT ![d] = [@ EXCEPT !.status = "pending", !.due = TRUE]]
    /\ UNCHANGED <<logged, enabled, pc, gen, jobs, claims, acked, manual, bounds>>

-----------------------------------------------------------------------------
(* The worker loop: recover stale locks, claim a batch, gather its jobs *)

\* Rows recover_stale_locks resets.  The mutants forget the status, ignore the age
\* of the lock, or look for rows without a lock only.
RecoverableAnyStatus(d) == row[d].status # "none" /\ row[d].lock \in {"none", "stale"}
RecoverableAnyAge(d) == row[d].status = "processing"
RecoverableUnlocked(d) == row[d].status = "processing" /\ row[d].lock = "none"
Recoverable(d) ==
    row[d].status = "processing" /\ row[d].lock \in {"none", "stale"}

\* Pending, due at once and unlocked; the attempt counter is left alone.
Requeued(r) == [r EXCEPT !.status = "pending", !.due = TRUE, !.lock = "none"]

RecoverStaleLocks(w) ==
    /\ pc[w] = "poll"
    /\ row' = [d \in Deliveries |->
                 IF Recoverable(d) THEN Requeued(row[d]) ELSE row[d]]
    /\ pc' = [pc EXCEPT ![w] = "claim"]
    /\ UNCHANGED <<logged, enabled, gen, jobs, claims, acked, retrying, excuses,
                   manual, bounds>>

Claimable(d) == row[d].status \in {"pending", "failed"} /\ row[d].due

\* The mutant does not note when the row was locked.
LockedWithoutTime(r) == [r EXCEPT !.status = "processing"]
Locked(r) == [r EXCEPT !.status = "processing", !.lock = "held"]

\* The record claim_due returns, with the attempt count as it is at the claim.
NewJob(w, d) ==
    [d |-> d, claim |-> claims[d] + 1, w |-> w, gen |-> gen[w],
     attempts |-> row[d].attempts, stage |-> "queued"]

\* The retries that have read the row before this claim.
Overtaken(r) == [fresh |-> 0, overtaken |-> r.fresh + r.overtaken]

\* claim_due: the whole batch is locked at once, then the gather starts.  The
\* order by next_attempt_at is abstracted to a free choice of the batch.
ClaimBatch(w, B) ==
    /\ row' = [d \in Deliveries |->
                 IF d \in B THEN Locked(row[d]) ELSE row[d]]
    /\ claims' = [d \in Deliveries |->
                    IF d \in B THEN claims[d] + 1 ELSE claims[d]]
    /\ retrying' = [d \in Deliveries |->
                      IF d \in B THEN Overtaken(retrying[d]) ELSE retrying[d]]
    /\ jobs' = jobs \cup {NewJob(w, d) : d \in B}
    /\ pc' = [pc EXCEPT ![w] = IF B = {} THEN "poll" ELSE "gather"]

ClaimDue(w) ==
    /\ pc[w] = "claim"
    /\ \E B \in SUBSET {d \in Deliveries : Claimable(d)} :
         /\ Cardinality(B) <= BatchSize
         /\ Cardinality(B) < BatchSize =>
               B = {d \in Deliveries : Claimable(d)}
         /\ ClaimBatch(w, B)
    /\ UNCHANGED <<logged, enabled, gen, acked, excuses, manual, bounds>>

\* The gather of the current cycle: the jobs that wait on its semaphore or hold it.
Gathered(w) == {j \in jobs : j.w = w /\ j.gen = gen[w]}

GatherDone(w) ==
    /\ pc[w] = "gather"
    /\ Gathered(w) = {}
    /\ pc' = [pc EXCEPT ![w] = "poll"]
    /\ UNCHANGED <<row, logged, enabled, gen, jobs, claims, acked, retrying,
                   excuses, manual, bounds>>

-----------------------------------------------------------------------------
(* One job: _process_delivery in a thread *)

Running(w, g) == {j \in jobs : j.w = w /\ j.gen = g /\ j.stage # "queued"}

AtStage(j, s) == (jobs \ {j}) \cup {[j EXCEPT !.stage = s]}

\* The semaphore admits the job, which reads the target.  A missing or disabled
\* target, an unknown provider, an unreadable secret and a request that the
\* provider refuses to build all give a terminal result without any request.
StartJob(j) ==
    /\ j.stage = "queued"
    /\ Cardinality(Running(j.w, j.gen)) < MaxConcurrent
    /\ \/ enabled[j.d[2]] /\ jobs' = AtStage(j, "sending")
       \/ jobs' = AtStage(j, "terminal")
    /\ UNCHANGED <<row, logged, enabled, pc, gen, claims, acked, retrying, excuses,
                   manual, bounds>>

\* provider.deliver outside any transaction.  A timeout, a connection error and
\* a retryable status look alike, whether or not the receiver saw the request.
Send(j) ==
    /\ j.stage = "sending"
    /\ \E res \in Results :
         /\ jobs' = AtStage(j, res)
         /\ acked' = [acked EXCEPT ![j.d] = IF res = "ok" THEN @ + 1 ELSE @]
    /\ UNCHANGED <<row, logged, enabled, pc, gen, claims, retrying, excuses, manual,
                   bounds>>

\* The attempt's number comes from the row as it was when claimed.
AttemptNumber(j) == j.attempts + 1

\* The status _record writes.
StatusAfter(res, n) ==
    IF res = "ok" THEN "delivered"
    ELSE IF res = "terminal" \/ n >= MaxAttempts THEN "exhausted" ELSE "failed"

\* record_attempt_and_update: it reads the row but checks neither status nor lock,
\* so one step does; the row is overwritten by whichever job records last.
Record(j) ==
    /\ j.stage \in Results
    /\ LET st == StatusAfter(j.stage, AttemptNumber(j))
       IN  row' = [row EXCEPT ![j.d] =
                     [status |-> st, attempts |-> AttemptNumber(j),
                      due |-> st # "failed", lock |-> "none"]]
    /\ logged' = [logged EXCEPT ![j.d] = @ + 1]
    /\ jobs' = jobs \ {j}
    /\ UNCHANGED <<enabled, pc, gen, claims, acked, retrying,
                   excuses, manual, bounds>>

-----------------------------------------------------------------------------
(* Time *)

Fault == faults < MaxFaults /\ faults' = faults + 1 /\ UNCHANGED errors
Error == errors < MaxErrors /\ errors' = errors + 1 /\ UNCHANGED faults

\* now reaches next_attempt_at of a failed row.
BackoffElapses(d) ==
    /\ row[d].status = "failed" /\ ~row[d].due
    /\ row' = [row EXCEPT ![d].due = TRUE]
    /\ UNCHANGED <<logged, enabled, pc, gen, jobs, claims, acked, retrying, excuses,
                   manual, bounds>>

HasLiveHolder(d) == \E j \in jobs : j.d = d /\ j.claim = claims[d]

Expire(d) ==
    /\ row[d].lock = "held"
    /\ row' = [row EXCEPT ![d].lock = "stale"]
    /\ excuses' = [excuses EXCEPT ![d] = @ \cup {"expired"}]
    /\ UNCHANGED <<logged, enabled, pc, gen, jobs, claims, acked, retrying, manual>>

\* The lock of a delivery nobody works on any more passes the timeout.
OrphanLockExpires(d) == ~HasLiveHolder(d) /\ Expire(d) /\ UNCHANGED bounds

\* The lock passes the timeout while its job still waits for the semaphore or
\* for the receiver.
LiveLockExpires(d) ==
    /\ Fault
    /\ HasLiveHolder(d)
    /\ Expire(d)

-----------------------------------------------------------------------------
(* Faults *)

\* Recovery or the claim raises: recovery's error is logged and the cycle goes
\* on, the claim's error ends the cycle.
CycleFails(w) ==
    /\ Error
    /\ \/ pc[w] = "poll" /\ pc' = [pc EXCEPT ![w] = "claim"]
       \/ pc[w] = "claim" /\ pc' = [pc EXCEPT ![w] = "poll"]
    /\ UNCHANGED <<row, logged, enabled, gen, jobs, claims, acked, retrying,
                   excuses, manual>>

\* A job raises (a database error, or an error the provider does not catch).
\* gather hands the first exception to the cycle, which ends; the other jobs
\* stay on the semaphore of the abandoned gather.
JobFails(j) ==
    /\ Error
    /\ j.stage # "queued"
    /\ jobs' = jobs \ {j}
    /\ IF pc[j.w] = "gather" /\ j.gen = gen[j.w]
       THEN /\ pc' = [pc EXCEPT ![j.w] = "poll"]
            /\ gen' = [gen EXCEPT ![j.w] = @ + 1]
       ELSE UNCHANGED <<pc, gen>>
    /\ UNCHANGED <<row, logged, enabled, claims, acked, retrying,
                   excuses, manual>>

\* Shutdown: stop() cancels the loop and with it the gather it waits for.  Threads
\* run on, and so do the jobs of a gather that an exception has ended.
Stop(w) ==
    /\ Fault
    /\ pc[w] \notin {"down", "stopping"}
    /\ pc' = [pc EXCEPT ![w] = "stopping"]
    /\ gen' = [gen EXCEPT ![w] = @ + 1]
    /\ jobs' = {j \in jobs : j \in Gathered(w) => j.stage # "queued"}
    /\ UNCHANGED <<row, logged, enabled, claims, acked, retrying, excuses, manual>>

\* The event loop ends, with the jobs that still wait for a semaphore; the
\* process lives on until its threads have ended.
LoopEnds(w) ==
    /\ pc[w] = "stopping"
    /\ pc' = [pc EXCEPT ![w] = "down"]
    /\ jobs' = {j \in jobs : j.w = w => j.stage # "queued"}
    /\ UNCHANGED <<row, logged, enabled, gen, claims, acked, retrying, excuses,
                   manual, bounds>>

\* The process dies with all its threads.
Crash(w) ==
    /\ Fault
    /\ pc' = [pc EXCEPT ![w] = "down"]
    /\ jobs' = {j \in jobs : j.w # w}
    /\ UNCHANGED <<row, logged, enabled, gen, claims, acked, retrying,
                   excuses, manual>>

StartWorker(w) ==
    /\ pc[w] = "down"
    /\ pc' = [pc EXCEPT ![w] = "poll"]
    /\ UNCHANGED <<row, logged, enabled, gen, jobs, claims, acked, retrying, excuses,
                   manual, bounds>>

-----------------------------------------------------------------------------
Next ==
    \/ \E e \in Events : Enqueue(e)
    \/ \E t \in Targets : ToggleTarget(t)
    \/ \E d \in Deliveries :
         \/ BeginManualRetry(d)
         \/ ManualRetry(d)
         \/ BackoffElapses(d)
         \/ OrphanLockExpires(d)
         \/ LiveLockExpires(d)
    \/ \E w \in Workers :
         \/ RecoverStaleLocks(w)
         \/ ClaimDue(w)
         \/ GatherDone(w)
         \/ CycleFails(w)
         \/ Stop(w)
         \/ LoopEnds(w)
         \/ Crash(w)
         \/ StartWorker(w)
    \/ \E j \in jobs :
         \/ StartJob(j)
         \/ Send(j)
         \/ Record(j)
         \/ JobFails(j)

Spec == Init /\ [][Next]_vars

\* The loop polls for ever and restarts, threads are not starved, a request ends
\* by its timeout, and time passes.  Nothing is assumed of operators or faults.
Fairness ==
    /\ \A w \in Workers :
         /\ WF_vars(RecoverStaleLocks(w))
         /\ WF_vars(ClaimDue(w))
         /\ WF_vars(GatherDone(w))
         /\ WF_vars(LoopEnds(w))
         /\ WF_vars(StartWorker(w))
    /\ \A d \in Deliveries :
         /\ WF_vars(BackoffElapses(d))
         /\ WF_vars(OrphanLockExpires(d))
         /\ WF_vars(\E j \in jobs : j.d = d /\ (StartJob(j) \/ Send(j) \/ Record(j)))

FairSpec == Spec /\ Fairness

-----------------------------------------------------------------------------
(* Properties *)

\* Every variable keeps its type, and a row that is processing says since when it
\* is locked, so that it is recovered after the timeout and not before.
TypeOK ==
    /\ row \in [Deliveries -> Row]
    /\ \A d \in Deliveries : row[d].status = "processing" => row[d].lock # "none"
    /\ logged \in [Deliveries -> Nat]
    /\ enabled \in [Targets -> BOOLEAN]
    /\ pc \in [Workers -> {"stopping", "down", "poll", "claim", "gather"}]
    /\ gen \in [Workers -> Nat]
    /\ jobs \subseteq Job
    /\ claims \in [Deliveries -> Nat]
    /\ acked \in [Deliveries -> Nat]
    /\ retrying \in [Deliveries -> Retrying]
    /\ excuses \in [Deliveries -> SUBSET Excuses]
    /\ manual \in [Deliveries -> Nat]
    /\ faults \in Nat
    /\ errors \in Nat

\* A row that says "delivered" was answered 2xx by its receiver, whichever of
\* the jobs that raced on it wrote the row.
SuccessIsReal ==
    \A d \in Deliveries : row[d].status = "delivered" => acked[d] > 0

\* Two jobs work on one delivery only after a lock of it has expired, or a manual
\* retry that had read an earlier row wrote over a claim: claims of several
\* workers, crashes, stops and abandoned gathers alone never overlap.
OneJobPerLock ==
    \A j, k \in jobs : j.d = k.d /\ j # k => excuses[j.d] # {}

\* While no lock of a delivery expires and no manual retry overtakes a claim, a
\* receiver's 2xx is answered once: a delivery that succeeded is never sent again.
AnsweredOnceUnlessExcused ==
    \A d \in Deliveries : acked[d] > 1 => excuses[d] # {}

\* The row's counter never runs ahead of the attempt history, and is equal to
\* it until two jobs are at work, which then record the same attempt number.
CounterMatchesHistory ==
    \A d \in Deliveries :
        /\ row[d].attempts <= logged[d]
        /\ row[d].attempts = logged[d] \/ excuses[d] # {}

\* Attempts beyond max_attempts are paid for one by one by manual retries, even
\* when locks expire and jobs record in any order.
AttemptBudget ==
    \A d \in Deliveries : row[d].attempts <= MaxAttempts + manual[d]

\* A delivered row is overwritten only by a job of a lock that expired, or by a
\* manual retry that had read the row before it was delivered, or by a job
\* which that retry let in.
DeliveredFinalUnlessExcused ==
    [][\A d \in Deliveries :
         row[d].status = "delivered" /\ row'[d].status # "delivered"
            => excuses'[d] # {}]_vars

\* The rows and answers implement DeliveryContract: what a reader of the delivery
\* list sees, under the fairness of the worker loop.
Contract == INSTANCE DeliveryContract WITH
    wanted <- {d \in Deliveries : row[d].status # "none"},
    answered <- {d \in Deliveries : acked[d] > 0},
    verdict <- [d \in Deliveries |->
                  IF row[d].status \in {"delivered", "exhausted"}
                  THEN row[d].status ELSE "open"]

ImplementsContract == Contract!FairSpec

\* Every enqueued delivery is in the end delivered or given up, through crashes,
\* expired locks and exceptions.
Settles ==
    \A d \in Deliveries :
        row[d].status # "none" ~> row[d].status \in {"delivered", "exhausted"}
=============================================================================
