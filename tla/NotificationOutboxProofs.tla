----------------------- MODULE NotificationOutboxProofs -----------------------
(***************************************************************************)
(* Theorems about NotificationOutbox for every set of events, targets and   *)
(* workers and every bound, with the inductive invariants they rest on.     *)
(***************************************************************************)
EXTENDS NotificationOutbox, TLAPS

\* Every step of the next-state relation, named: the case split that the proofs
\* of the invariants share.
LEMMA NextCases ==
    ASSUME NEW G,
           \A e \in Events : Enqueue(e) => G,
           \A t \in Targets : ToggleTarget(t) => G,
           \A d \in Deliveries : BeginManualRetry(d) => G,
           \A d \in Deliveries : ManualRetry(d) => G,
           \A d \in Deliveries : BackoffElapses(d) => G,
           \A d \in Deliveries : OrphanLockExpires(d) => G,
           \A d \in Deliveries : LiveLockExpires(d) => G,
           \A w \in Workers : RecoverStaleLocks(w) => G,
           \A w \in Workers : ClaimDue(w) => G,
           \A w \in Workers : GatherDone(w) => G,
           \A w \in Workers : CycleFails(w) => G,
           \A w \in Workers : Stop(w) => G,
           \A w \in Workers : LoopEnds(w) => G,
           \A w \in Workers : Crash(w) => G,
           \A w \in Workers : StartWorker(w) => G,
           \A j \in jobs : StartJob(j) => G,
           \A j \in jobs : Send(j) => G,
           \A j \in jobs : Record(j) => G,
           \A j \in jobs : JobFails(j) => G,
           UNCHANGED vars => G,
           [Next]_vars
    PROVE  G
  BY Zenon DEF Next

LEMMA RequeuedType ==
    \A r \in Row : Requeued(r) \in Row /\ Requeued(r).status = "pending"
  BY DEF Requeued, Row, Statuses

LEMMA LockedType == \A r \in Row : Locked(r) \in Row /\ Locked(r).lock = "held"
  BY DEF Locked, Row, Statuses

LEMMA AtStageType ==
    ASSUME jobs \subseteq Job, NEW j \in jobs, NEW s \in Stages
    PROVE  AtStage(j, s) \subseteq Job
<1>1. [j EXCEPT !.stage = s] \in Job
  BY DEF Job
<1> QED
  BY <1>1 DEF AtStage

LEMMA ExpireType ==
    ASSUME TypeOK, NEW d \in Deliveries, Expire(d)
    PROVE  /\ row' \in [Deliveries -> Row]
           /\ excuses' \in [Deliveries -> SUBSET Excuses]
           /\ \A c \in Deliveries : row'[c].status = "processing" => row'[c].lock # "none"
<1>1. [row[d] EXCEPT !.lock = "stale"] \in Row
  BY DEF TypeOK, Row
<1>2. row' = [row EXCEPT ![d] = [row[d] EXCEPT !.lock = "stale"]]
  BY DEF Expire
<1>3. excuses[d] \cup {"expired"} \in SUBSET Excuses
  BY DEF TypeOK, Excuses
<1>4. row[d] \in Row /\ [row[d] EXCEPT !.lock = "stale"].lock = "stale"
  BY DEF TypeOK, Row
<1> QED
  BY <1>1, <1>2, <1>3, <1>4 DEF TypeOK, Expire

LEMMA WaitingType ==
    ASSUME NEW r \in Retrying
    PROVE  /\ [r EXCEPT !.fresh = @ + 1] \in Retrying
           /\ r.fresh > 0 => [r EXCEPT !.fresh = @ - 1] \in Retrying
           /\ r.overtaken > 0 => [r EXCEPT !.overtaken = @ - 1] \in Retrying
BY DEF Retrying

\* What the UPDATE of a manual retry does to its row, and to those that wait.
LEMMA RetryType ==
    ASSUME TypeOK, NEW d \in Deliveries, ManualRetry(d)
    PROVE  /\ row' \in [Deliveries -> Row]
           /\ retrying' \in [Deliveries -> Retrying]
           /\ excuses' \in [Deliveries -> SUBSET Excuses]
           /\ row'[d].status = "pending" /\ row'[d].attempts = row[d].attempts
           /\ row'[d].lock = row[d].lock
           /\ \A c \in Deliveries : c # d => row'[c] = row[c]
<1> DEFINE new == [row[d] EXCEPT !.status = "pending", !.due = TRUE]
<1>1. row[d] \in Row /\ retrying[d] \in Retrying /\ excuses[d] \in SUBSET Excuses
  BY DEF TypeOK
<1>2. /\ new \in Row /\ new.status = "pending" /\ new.attempts = row[d].attempts
      /\ new.lock = row[d].lock
  BY <1>1 DEF Row, Statuses
<1>3. row' = [row EXCEPT ![d] = new]
  BY DEF ManualRetry
<1> HIDE DEF new
<1>4. row' \in [Deliveries -> Row] /\ row'[d] = new
      /\ \A c \in Deliveries : c # d => row'[c] = row[c]
  BY <1>2, <1>3 DEF TypeOK
<1>5. /\ retrying[d].fresh > 0 => [retrying[d] EXCEPT !.fresh = @ - 1] \in Retrying
      /\ retrying[d].overtaken > 0 => [retrying[d] EXCEPT !.overtaken = @ - 1] \in Retrying
  BY <1>1, WaitingType
<1>6. retrying' \in [Deliveries -> Retrying]
  BY <1>5 DEF ManualRetry, TypeOK
<1>7. excuses[d] \cup {"overwritten"} \in SUBSET Excuses
  BY <1>1 DEF Excuses
<1>8. excuses' \in [Deliveries -> SUBSET Excuses]
  BY <1>7 DEF ManualRetry, TypeOK
<1> QED
  BY <1>2, <1>4, <1>6, <1>8

\* The type invariant of the outbox: every handler leaves every row, job and
\* counter in its type.
THEOREM TypeCorrect == Spec => []TypeOK
<1>1. Init => TypeOK
  BY DEF Init, TypeOK, NoRow, Row, Statuses, Retrying
<1>2. TypeOK /\ [Next]_vars => TypeOK'
  <2> SUFFICES ASSUME TypeOK, [Next]_vars PROVE TypeOK'
    OBVIOUS
  <2> USE DEF TypeOK, Row, Statuses, bounds
  <2>1. ASSUME NEW e \in Events, Enqueue(e) PROVE TypeOK'
    BY <2>1 DEF Enqueue, NewRow
  <2>2. ASSUME NEW t \in Targets, ToggleTarget(t) PROVE TypeOK'
    BY <2>2 DEF ToggleTarget
  <2>0. ASSUME NEW d \in Deliveries, BeginManualRetry(d) PROVE TypeOK'
    <3>1. retrying[d] \in Retrying /\ manual[d] \in Nat
      OBVIOUS
    <3>2. [retrying[d] EXCEPT !.fresh = @ + 1] \in Retrying
      BY <3>1, WaitingType
    <3>3. retrying' \in [Deliveries -> Retrying]
      BY <2>0, <3>2 DEF BeginManualRetry
    <3> HIDE DEF Row
    <3> QED
      BY <2>0, <3>1, <3>3 DEF BeginManualRetry
  <2>3. ASSUME NEW d \in Deliveries, ManualRetry(d) PROVE TypeOK'
    BY <2>3, RetryType DEF ManualRetry
  <2>4. ASSUME NEW d \in Deliveries, BackoffElapses(d) PROVE TypeOK'
    <3>1. [row[d] EXCEPT !.due = TRUE] \in Row
      <4>1. row[d] \in Row
        OBVIOUS
      <4> QED
        BY ONLY <4>1 DEF Row
    <3>2. row' = [row EXCEPT ![d] = [row[d] EXCEPT !.due = TRUE]]
      BY <2>4 DEF BackoffElapses
    <3>3. row' \in [Deliveries -> Row]
      BY <3>1, <3>2
    <3> HIDE DEF Row
    <3> QED
      BY <2>4, <3>3 DEF BackoffElapses
  <2>5. ASSUME NEW d \in Deliveries, OrphanLockExpires(d) PROVE TypeOK'
    <3>1. Expire(d) /\ UNCHANGED bounds
      BY <2>5 DEF OrphanLockExpires
    <3>2. row' \in [Deliveries -> Row] /\ excuses' \in [Deliveries -> SUBSET Excuses]
          /\ \A c \in Deliveries : row'[c].status = "processing" => row'[c].lock # "none"
      BY <3>1, ExpireType
    <3> HIDE DEF Row
    <3> QED
      BY <3>1, <3>2 DEF Expire
  <2>6. ASSUME NEW d \in Deliveries, LiveLockExpires(d) PROVE TypeOK'
    <3>1. Expire(d) /\ Fault
      BY <2>6 DEF LiveLockExpires
    <3>2. row' \in [Deliveries -> Row] /\ excuses' \in [Deliveries -> SUBSET Excuses]
          /\ \A c \in Deliveries : row'[c].status = "processing" => row'[c].lock # "none"
      BY <3>1, ExpireType
    <3> HIDE DEF Row
    <3> QED
      BY <3>1, <3>2 DEF Expire, Fault
  <2>7. ASSUME NEW w \in Workers, RecoverStaleLocks(w) PROVE TypeOK'
    BY <2>7, RequeuedType DEF RecoverStaleLocks
  <2>8. ASSUME NEW w \in Workers, ClaimDue(w) PROVE TypeOK'
    <3>1. PICK B \in SUBSET {d \in Deliveries : Claimable(d)} : ClaimBatch(w, B)
      BY <2>8 DEF ClaimDue
    <3>2. /\ row' \in [Deliveries -> Row]
          /\ \A d \in Deliveries : row'[d].status = "processing" => row'[d].lock # "none"
      BY <3>1, LockedType DEF ClaimBatch
    <3>7. \A r \in Retrying : Overtaken(r) \in Retrying
      BY DEF Retrying, Overtaken
    <3>8. retrying' \in [Deliveries -> Retrying]
      BY <3>1, <3>7 DEF ClaimBatch
    <3>3. claims' \in [Deliveries -> Nat]
      BY <3>1 DEF ClaimBatch
    <3>5. \A d \in B : NewJob(w, d) \in Job
      BY DEF NewJob, Job, Stages
    <3>6. jobs' \subseteq Job
      BY <3>1, <3>5 DEF ClaimBatch
    <3>4. pc' \in [Workers -> {"stopping", "down", "poll", "claim", "gather"}]
      BY <3>1 DEF ClaimBatch
    <3> QED
      BY <2>8, <3>2, <3>3, <3>4, <3>6, <3>8 DEF ClaimDue
  <2>9. ASSUME NEW w \in Workers, GatherDone(w) PROVE TypeOK'
    BY <2>9 DEF GatherDone
  <2>10. ASSUME NEW w \in Workers, CycleFails(w) PROVE TypeOK'
    BY <2>10 DEF CycleFails, Error
  <2>11. ASSUME NEW w \in Workers, Stop(w) PROVE TypeOK'
    BY <2>11 DEF Stop, Fault
  <2>19. ASSUME NEW w \in Workers, LoopEnds(w) PROVE TypeOK'
    BY <2>19 DEF LoopEnds
  <2>12. ASSUME NEW w \in Workers, Crash(w) PROVE TypeOK'
    BY <2>12 DEF Crash, Fault
  <2>13. ASSUME NEW w \in Workers, StartWorker(w) PROVE TypeOK'
    BY <2>13 DEF StartWorker
  <2>14. ASSUME NEW j \in jobs, StartJob(j) PROVE TypeOK'
    <3>1. jobs' \subseteq Job
      BY <2>14, AtStageType DEF StartJob, Stages, Results
    <3> HIDE DEF Row
    <3> QED
      BY <2>14, <3>1 DEF StartJob
  <2>15. ASSUME NEW j \in jobs, Send(j) PROVE TypeOK'
    <3>1. jobs' \subseteq Job
      BY <2>15, AtStageType DEF Send, Stages
    <3>2. acked' \in [Deliveries -> Nat]
      <4>1. PICK res \in Results :
              acked' = [acked EXCEPT ![j.d] = IF res = "ok" THEN @ + 1 ELSE @]
        BY <2>15 DEF Send
      <4>2. acked[j.d] \in Nat
        BY DEF Job
      <4> DEFINE n == IF res = "ok" THEN acked[j.d] + 1 ELSE acked[j.d]
      <4>3. n \in Nat
        BY <4>2
      <4>4. acked' = [acked EXCEPT ![j.d] = n]
        BY <4>1
      <4> HIDE DEF n, Row
      <4> QED
        BY <4>3, <4>4
    <3> HIDE DEF Row
    <3> QED
      BY <2>15, <3>1, <3>2 DEF Send
  <2>16. ASSUME NEW j \in jobs, Record(j) PROVE TypeOK'
    BY <2>16 DEF Record, StatusAfter, AttemptNumber, Job
  <2>17. ASSUME NEW j \in jobs, JobFails(j) PROVE TypeOK'
    <3>1. pc' \in [Workers -> {"stopping", "down", "poll", "claim", "gather"}]
      BY <2>17 DEF JobFails
    <3>2. gen' \in [Workers -> Nat]
      <4>1. gen' = gen \/ gen' = [gen EXCEPT ![j.w] = @ + 1]
        BY <2>17 DEF JobFails
      <4> HIDE DEF Row
      <4> QED
        BY <4>1
    <3> HIDE DEF Row
    <3> QED
      BY <2>17, <3>1, <3>2 DEF JobFails, Error
  <2>18. ASSUME UNCHANGED vars PROVE TypeOK'
    BY <2>18 DEF vars
  <2> HIDE DEF TypeOK
  <2> QED
    BY <2>0, <2>1, <2>2, <2>3, <2>4, <2>5, <2>6, <2>7, <2>8, <2>9, <2>10, <2>11,
       <2>12, <2>13, <2>14, <2>15, <2>16, <2>17, <2>18, <2>19, NextCases
<1> QED
  BY <1>1, <1>2, PTL DEF Spec

-----------------------------------------------------------------------------
(* Success is what a receiver answered *)

\* A job that was answered 2xx, and the row it leaves, have an answer to show.
AnswerInv ==
    /\ SuccessIsReal
    /\ \A j \in jobs : j.stage = "ok" => acked[j.d] > 0

LEMMA AnswerInvariant == Spec => []AnswerInv
<1>1. Init => AnswerInv
  BY DEF Init, AnswerInv, SuccessIsReal, NoRow
<1>2. TypeOK /\ AnswerInv /\ [Next]_vars => AnswerInv'
  <2> SUFFICES ASSUME TypeOK, AnswerInv, [Next]_vars PROVE AnswerInv'
    OBVIOUS
  <2> USE DEF TypeOK, AnswerInv, SuccessIsReal, bounds
  <2>1. ASSUME NEW e \in Events, Enqueue(e) PROVE AnswerInv'
    BY <2>1 DEF Enqueue, NewRow
  <2>2. ASSUME NEW t \in Targets, ToggleTarget(t) PROVE AnswerInv'
    BY <2>2 DEF ToggleTarget
  <2>0. ASSUME NEW d \in Deliveries, BeginManualRetry(d) PROVE AnswerInv'
    BY <2>0 DEF BeginManualRetry
  <2>3. ASSUME NEW d \in Deliveries, ManualRetry(d) PROVE AnswerInv'
    BY <2>3, RetryType DEF ManualRetry
  <2>4. ASSUME NEW d \in Deliveries, BackoffElapses(d) PROVE AnswerInv'
    BY <2>4 DEF BackoffElapses, Row
  <2>5. ASSUME NEW d \in Deliveries, OrphanLockExpires(d) PROVE AnswerInv'
    BY <2>5 DEF OrphanLockExpires, Expire, Row
  <2>6. ASSUME NEW d \in Deliveries, LiveLockExpires(d) PROVE AnswerInv'
    BY <2>6 DEF LiveLockExpires, Expire, Row
  <2>7. ASSUME NEW w \in Workers, RecoverStaleLocks(w) PROVE AnswerInv'
    BY <2>7 DEF RecoverStaleLocks, Requeued, Row
  <2>8. ASSUME NEW w \in Workers, ClaimDue(w) PROVE AnswerInv'
    <3>1. PICK B \in SUBSET {d \in Deliveries : Claimable(d)} : ClaimBatch(w, B)
      BY <2>8 DEF ClaimDue
    <3>2. \A d \in B : NewJob(w, d).stage = "queued"
      BY DEF NewJob
    <3>3. \A j \in jobs' : j.stage = "ok" => j \in jobs
      BY <3>1, <3>2 DEF ClaimBatch
    <3>4. \A d \in Deliveries :
            row'[d].status = "delivered" => row[d].status = "delivered"
      BY <3>1 DEF ClaimBatch, Locked, Row
    <3>5. acked' = acked
      BY <2>8 DEF ClaimDue
    <3> QED
      BY <3>3, <3>4, <3>5
  <2>9. ASSUME NEW w \in Workers, GatherDone(w) PROVE AnswerInv'
    BY <2>9 DEF GatherDone
  <2>10. ASSUME NEW w \in Workers, CycleFails(w) PROVE AnswerInv'
    BY <2>10 DEF CycleFails
  <2>11. ASSUME NEW w \in Workers, Stop(w) PROVE AnswerInv'
    BY <2>11 DEF Stop
  <2>19. ASSUME NEW w \in Workers, LoopEnds(w) PROVE AnswerInv'
    BY <2>19 DEF LoopEnds
  <2>12. ASSUME NEW w \in Workers, Crash(w) PROVE AnswerInv'
    BY <2>12 DEF Crash
  <2>13. ASSUME NEW w \in Workers, StartWorker(w) PROVE AnswerInv'
    BY <2>13 DEF StartWorker
  <2>14. ASSUME NEW j \in jobs, StartJob(j) PROVE AnswerInv'
    BY <2>14 DEF StartJob, AtStage, Job
  <2>15. ASSUME NEW j \in jobs, Send(j) PROVE AnswerInv'
    BY <2>15 DEF Send, AtStage, Job
  <2>16. ASSUME NEW j \in jobs, Record(j) PROVE AnswerInv'
    BY <2>16 DEF Record, StatusAfter, Job, Results
  <2>17. ASSUME NEW j \in jobs, JobFails(j) PROVE AnswerInv'
    BY <2>17 DEF JobFails
  <2>18. ASSUME UNCHANGED vars PROVE AnswerInv'
    BY <2>18 DEF vars
  <2> HIDE DEF AnswerInv
  <2> QED
    BY <2>0, <2>1, <2>2, <2>3, <2>4, <2>5, <2>6, <2>7, <2>8, <2>9, <2>10, <2>11,
       <2>12, <2>13, <2>14, <2>15, <2>16, <2>17, <2>18, <2>19, NextCases
<1> QED
  BY <1>1, <1>2, TypeCorrect, PTL DEF Spec

\* The outbox never reports success for a request no receiver answered 2xx,
\* whatever the interleaving of claims, crashes and late jobs.
THEOREM SuccessCorrect == Spec => []SuccessIsReal
<1>1. AnswerInv => SuccessIsReal
  BY DEF AnswerInv
<1> QED
  BY <1>1, AnswerInvariant, PTL

-----------------------------------------------------------------------------
(* Locks, counters and answers *)

\* A stale lock is on record as expired.
RowLocked(d) == row[d].lock = "stale" => excuses[d] # {}

\* A retry that has read the row finds it unclaimed and not delivered, unless it
\* has been overtaken.
RetrySees(d) ==
    /\ retrying[d].fresh > 0 =>
          excuses[d] # {} \/ row[d].status \in {"pending", "failed", "exhausted"}
    /\ retrying[d].fresh > 0 \/ retrying[d].overtaken > 0 => row[d].status # "none"

\* Unless its delivery is excused, a job is the holder of the row: the row is
\* still "processing" under the job's own claim.
JobHolds(j) ==
    /\ j.claim <= claims[j.d]
    /\ excuses[j.d] # {} \/ (row[j.d].status = "processing" /\ j.claim = claims[j.d])

LockInv ==
    /\ \A d \in Deliveries : RowLocked(d) /\ RetrySees(d)
    /\ \A j \in jobs : JobHolds(j)
    /\ \A j, k \in jobs : j.d = k.d /\ j.claim = k.claim => j = k

\* Every retry that is under way has its attempt in the budget.
Waiting(d) == retrying[d].fresh + retrying[d].overtaken

\* A row that may still be attempted has budget left, and so has a job.
BudgetInv ==
    /\ \A d \in Deliveries :
         /\ Waiting(d) <= manual[d]
         /\ row[d].attempts + Waiting(d) <= MaxAttempts + manual[d]
         /\ row[d].status \in {"pending", "processing", "failed"}
               => row[d].attempts + Waiting(d) < MaxAttempts + manual[d]
    /\ \A j \in jobs : j.attempts + Waiting(j.d) < MaxAttempts + manual[j.d]

\* A job's copy of the counter is current unless excused, never ahead.
HistoryInv ==
    /\ CounterMatchesHistory
    /\ \A d \in Deliveries : row[d].status = "none" => logged[d] = 0
    /\ \A j \in jobs :
         /\ j.attempts <= logged[j.d]
         /\ j.attempts = logged[j.d] \/ excuses[j.d] # {}

\* After its answer a delivery is delivered, or locked by the job that saw it.
OnceInv ==
    \A d \in Deliveries :
        \/ excuses[d] # {}
        \/ acked[d] = 0
        \/ /\ acked[d] = 1
           /\ \/ row[d].status = "delivered"
              \/ /\ row[d].status = "processing"
                 /\ \A j \in jobs : j.d = d => j.stage = "ok"

\* Steps that leave the rows and the history alone and at most drop jobs.
DropsJobs ==
    /\ jobs' \subseteq jobs
    /\ UNCHANGED <<row, logged, claims, acked, retrying, excuses, manual>>

\* What the steps do to rows, jobs and history: the case split of the invariants
\* below.
LEMMA StepCases ==
    ASSUME NEW G, TypeOK, [Next]_vars,
           DropsJobs => G,
           \A e \in Events : Enqueue(e) => G,
           \A d \in Deliveries : BeginManualRetry(d) => G,
           \A d \in Deliveries : ManualRetry(d) => G,
           \A d \in Deliveries : BackoffElapses(d) => G,
           \A d \in Deliveries : Expire(d) => G,
           \A w \in Workers : RecoverStaleLocks(w) => G,
           \A w \in Workers : ClaimDue(w) => G,
           \A j \in jobs : StartJob(j) => G,
           \A j \in jobs : Send(j) => G,
           \A j \in jobs : Record(j) => G
    PROVE  G
<1>1. ASSUME NEW t \in Targets, ToggleTarget(t) PROVE DropsJobs
  BY <1>1 DEF ToggleTarget, DropsJobs
<1>2. ASSUME NEW w \in Workers, GatherDone(w) PROVE DropsJobs
  BY <1>2 DEF GatherDone, DropsJobs
<1>3. ASSUME NEW w \in Workers, CycleFails(w) PROVE DropsJobs
  BY <1>3 DEF CycleFails, DropsJobs
<1>4. ASSUME NEW w \in Workers, Stop(w) PROVE DropsJobs
  BY <1>4 DEF Stop, DropsJobs
<1>11. ASSUME NEW w \in Workers, LoopEnds(w) PROVE DropsJobs
  BY <1>11 DEF LoopEnds, DropsJobs
<1>5. ASSUME NEW w \in Workers, Crash(w) PROVE DropsJobs
  BY <1>5 DEF Crash, DropsJobs
<1>6. ASSUME NEW w \in Workers, StartWorker(w) PROVE DropsJobs
  BY <1>6 DEF StartWorker, DropsJobs
<1>7. ASSUME NEW j \in jobs, JobFails(j) PROVE DropsJobs
  BY <1>7 DEF JobFails, DropsJobs
<1>8. ASSUME UNCHANGED vars PROVE DropsJobs
  BY <1>8 DEF vars, DropsJobs
<1>9. \A d \in Deliveries : OrphanLockExpires(d) => Expire(d)
  BY DEF OrphanLockExpires
<1>10. \A d \in Deliveries : LiveLockExpires(d) => Expire(d)
  BY DEF LiveLockExpires
<1> QED
  BY <1>1, <1>2, <1>3, <1>4, <1>5, <1>6, <1>7, <1>8, <1>9, <1>10, <1>11, NextCases

LEMMA JobFields ==
    ASSUME TypeOK, NEW j \in jobs
    PROVE  /\ j.d \in Deliveries /\ j.w \in Workers
           /\ j.claim \in Nat /\ j.attempts \in Nat
           /\ j.stage \in Stages
  BY DEF TypeOK, Job

\* Moving a job to another stage changes nothing else of it.
LEMMA StageOnly ==
    ASSUME TypeOK, NEW j \in jobs, NEW s, NEW k \in AtStage(j, s)
    PROVE  \E i \in jobs :
             /\ k.d = i.d /\ k.claim = i.claim /\ k.attempts = i.attempts
             /\ \/ k = i /\ i # j
                \/ i = j /\ k = [j EXCEPT !.stage = s] /\ k.stage = s
  BY DEF TypeOK, Job, AtStage

\* Claimed rows were claimable; every new job is the holder of its row.
ClaimEffect(w, B) ==
    /\ \A d \in B : row[d].status \in {"pending", "failed"}
    /\ \A d \in Deliveries :
         /\ row'[d] = IF d \in B THEN Locked(row[d]) ELSE row[d]
         /\ claims'[d] = IF d \in B THEN claims[d] + 1 ELSE claims[d]
         /\ retrying'[d] = IF d \in B THEN Overtaken(retrying[d]) ELSE retrying[d]
    /\ \A d \in B : /\ Locked(row[d]).status = "processing"
                     /\ Locked(row[d]).lock = "held"
                     /\ Locked(row[d]).attempts = row[d].attempts
    /\ \A j \in jobs' :
         \/ j \in jobs
         \/ /\ j.d \in B /\ j = NewJob(w, j.d)
            /\ j.claim = claims[j.d] + 1
            /\ j.attempts = row[j.d].attempts
            /\ j.stage = "queued"
    /\ UNCHANGED <<logged, acked, excuses, manual>>

LEMMA ClaimFacts ==
    ASSUME TypeOK, NEW w \in Workers, ClaimDue(w)
    PROVE  \E B \in SUBSET Deliveries : ClaimEffect(w, B)
<1>1. PICK B \in SUBSET {d \in Deliveries : Claimable(d)} : ClaimBatch(w, B)
  BY DEF ClaimDue
<1>2. \A d \in B : d \in Deliveries /\ row[d].status \in {"pending", "failed"}
  BY DEF Claimable
<1>3. \A d \in Deliveries :
        /\ row'[d] = IF d \in B THEN Locked(row[d]) ELSE row[d]
        /\ claims'[d] = IF d \in B THEN claims[d] + 1 ELSE claims[d]
        /\ retrying'[d] = IF d \in B THEN Overtaken(retrying[d]) ELSE retrying[d]
  BY <1>1 DEF ClaimBatch
<1>4. \A d \in B : /\ Locked(row[d]).status = "processing"
                   /\ Locked(row[d]).lock = "held"
                   /\ Locked(row[d]).attempts = row[d].attempts
  BY <1>2 DEF Locked, TypeOK, Row
<1>5. \A j \in jobs' : j \in jobs \/ \E d \in B : j = NewJob(w, d)
  BY <1>1 DEF ClaimBatch
<1>6. \A d \in B : /\ NewJob(w, d).d = d
                   /\ NewJob(w, d).claim = claims[d] + 1
                   /\ NewJob(w, d).attempts = row[d].attempts
                   /\ NewJob(w, d).stage = "queued"
  BY DEF NewJob
<1>7. UNCHANGED <<logged, acked, excuses, manual>>
  BY DEF ClaimDue
<1> QED
  BY <1>2, <1>3, <1>4, <1>5, <1>6, <1>7 DEF ClaimEffect

\* The alert's transaction adds rows and touches none that exists.
LEMMA EnqueueFacts ==
    ASSUME NEW e \in Events, Enqueue(e), NEW d \in Deliveries
    PROVE  \/ row'[d] = row[d]
           \/ row[d].status = "none" /\ row'[d] = NewRow
<1> DEFINE new == {t \in Matching[e] : enabled[t] /\ row[<<e, t>>].status = "none"}
<1>1. row' = [c \in Deliveries |-> IF c[1] = e /\ c[2] \in new THEN NewRow ELSE row[c]]
  BY DEF Enqueue
<1>2. d = <<d[1], d[2]>>
  BY DEF Deliveries
<1>3. CASE d[1] = e /\ d[2] \in new
  <2>1. row[<<e, d[2]>>].status = "none"
    BY <1>3
  <2>2. d = <<e, d[2]>>
    BY <1>2, <1>3
  <2> HIDE DEF new
  <2> QED
    BY <1>1, <1>3, <2>1, <2>2
<1>4. CASE ~(d[1] = e /\ d[2] \in new)
  <2> HIDE DEF new
  <2> QED
    BY <1>1, <1>4
<1> QED
  BY <1>3, <1>4

LEMMA RequeuedFacts ==
    \A r \in Row : /\ Requeued(r).status = "pending"
                  /\ Requeued(r).lock = "none"
                  /\ Requeued(r).attempts = r.attempts
  BY DEF Requeued, Row

\* What record_attempt_and_update leaves behind.
LEMMA RecordFacts ==
    ASSUME TypeOK, NEW j \in jobs, Record(j)
    PROVE  /\ j.d \in Deliveries
           /\ \A d \in Deliveries : d # j.d => row'[d] = row[d] /\ logged'[d] = logged[d]
           /\ row'[j.d].attempts = j.attempts + 1
           /\ row'[j.d].lock = "none"
           /\ row'[j.d].status \in {"delivered", "exhausted", "failed"}
           /\ row'[j.d].status = "failed" => j.attempts + 1 < MaxAttempts
           /\ row'[j.d].status = "delivered" <=> j.stage = "ok"
           /\ logged'[j.d] = logged[j.d] + 1
           /\ jobs' = jobs \ {j}
           /\ UNCHANGED <<claims, acked, retrying, excuses, manual>>
  BY JobFields, OutboxAssumption
     DEF Record, StatusAfter, AttemptNumber, TypeOK, Results

\* A retry that writes over a claimed or delivered row is on record.
LEMMA Overwrites ==
    ASSUME TypeOK, LockInv, NEW d \in Deliveries, ManualRetry(d)
    PROVE  /\ \A c \in Deliveries : c # d => excuses'[c] = excuses[c]
                                          /\ retrying'[c] = retrying[c]
           /\ excuses[d] # {} => excuses'[d] # {}
           /\ row[d].status \in {"processing", "delivered"} => excuses'[d] # {}
           /\ row[d].status # "none"
<1>1. CASE retrying[d].fresh > 0 /\ UNCHANGED excuses
           /\ retrying' = [retrying EXCEPT ![d].fresh = @ - 1]
  BY <1>1 DEF TypeOK, LockInv, RetrySees
<1>2. CASE /\ retrying[d].overtaken > 0
           /\ retrying' = [retrying EXCEPT ![d].overtaken = @ - 1]
           /\ excuses' = [excuses EXCEPT ![d] =
                            IF row[d].status \in {"processing", "delivered"}
                            THEN @ \cup {"overwritten"} ELSE @]
  BY <1>2 DEF TypeOK, LockInv, RetrySees
<1> QED
  BY <1>1, <1>2 DEF ManualRetry

\* The lock discipline: until its lock expires, a claimed row has one job at most
\* and stays "processing" under that job's claim.
LEMMA LockInvariant == Spec => [](TypeOK /\ LockInv)
<1>1. Init => LockInv
  BY DEF Init, LockInv, RowLocked, RetrySees, NoRow
<1>2. TypeOK /\ LockInv /\ [Next]_vars => LockInv'
  <2> SUFFICES ASSUME TypeOK, LockInv, [Next]_vars PROVE LockInv'
    OBVIOUS
  <2> USE DEF LockInv, RowLocked, JobHolds, RetrySees
  <2>1. ASSUME DropsJobs PROVE LockInv'
    BY <2>1 DEF DropsJobs
  <2>2. ASSUME NEW e \in Events, Enqueue(e) PROVE LockInv'
    <3>1. \A d \in Deliveries :
            \/ row'[d] = row[d]
            \/ row[d].status = "none" /\ row'[d] = NewRow
      BY <2>2, EnqueueFacts
    <3>2. UNCHANGED <<jobs, claims, retrying, excuses>>
      BY <2>2 DEF Enqueue
    <3> QED
      BY <3>1, <3>2, JobFields DEF NewRow
  <2>0. ASSUME NEW d \in Deliveries, BeginManualRetry(d) PROVE LockInv'
    <3>1. /\ row[d].status \in {"failed", "exhausted"}
          /\ \A c \in Deliveries : c # d => retrying'[c] = retrying[c]
          /\ UNCHANGED <<jobs, row, claims, excuses>>
      BY <2>0 DEF BeginManualRetry, RetryAllowed, TypeOK
    <3> QED
      BY <3>1, JobFields
  <2>3. ASSUME NEW d \in Deliveries, ManualRetry(d) PROVE LockInv'
    <3>1. /\ row'[d].status = "pending" /\ row'[d].lock = row[d].lock
          /\ \A c \in Deliveries : c # d => row'[c] = row[c]
      BY <2>3, RetryType
    <3>2. /\ \A c \in Deliveries : c # d => excuses'[c] = excuses[c]
                                           /\ retrying'[c] = retrying[c]
          /\ excuses[d] # {} => excuses'[d] # {}
          /\ row[d].status = "processing" => excuses'[d] # {}
      BY <2>3, Overwrites
    <3>3. UNCHANGED <<jobs, claims>>
      BY <2>3 DEF ManualRetry
    <3> QED
      BY <3>1, <3>2, <3>3, JobFields
  <2>4. ASSUME NEW d \in Deliveries, BackoffElapses(d) PROVE LockInv'
    <3>1. \A c \in Deliveries :
            row'[c].status = row[c].status /\ row'[c].lock = row[c].lock
      BY <2>4 DEF BackoffElapses, TypeOK, Row
    <3>2. UNCHANGED <<jobs, claims, retrying, excuses>>
      BY <2>4 DEF BackoffElapses
    <3> QED
      BY <3>1, <3>2, JobFields
  <2>5. ASSUME NEW d \in Deliveries, Expire(d) PROVE LockInv'
    <3>1. /\ \A c \in Deliveries : c # d => row'[c] = row[c] /\ excuses'[c] = excuses[c]
          /\ excuses'[d] # {} /\ row'[d].lock = "stale" /\ row'[d].status = row[d].status
      BY <2>5 DEF Expire, TypeOK, Row
    <3>2. UNCHANGED <<jobs, claims, retrying>>
      BY <2>5 DEF Expire
    <3> QED
      BY <3>1, <3>2, JobFields
  <2>6. ASSUME NEW w \in Workers, RecoverStaleLocks(w) PROVE LockInv'
    <3>1. \A d \in Deliveries :
            \/ row'[d] = row[d]
            \/ /\ row[d].status = "processing" /\ row[d].lock \in {"none", "stale"}
               /\ row'[d].status = "pending" /\ row'[d].lock = "none"
      BY <2>6, RequeuedFacts DEF RecoverStaleLocks, Recoverable, TypeOK
    <3>2. UNCHANGED <<jobs, claims, retrying, excuses>>
      BY <2>6 DEF RecoverStaleLocks
    <3>3. \A d \in Deliveries :
            \/ row'[d] = row[d]
            \/ /\ row[d].status = "processing" /\ excuses[d] # {}
               /\ row'[d].status = "pending" /\ row'[d].lock = "none"
      BY <3>1 DEF TypeOK
    <3> QED
      BY <3>2, <3>3, JobFields
  <2>7. ASSUME NEW w \in Workers, ClaimDue(w) PROVE LockInv'
    <3> USE DEF ClaimEffect
    <3>1. PICK B \in SUBSET Deliveries : ClaimEffect(w, B)
      BY <2>7, ClaimFacts
    <3>2. \A d \in Deliveries : claims[d] \in Nat
      BY DEF TypeOK
    <3>3. \A d \in Deliveries : RowLocked(d)' /\ RetrySees(d)'
      <4>1. \A r \in Retrying : Overtaken(r).fresh = 0
        BY DEF Overtaken
      <4>2. \A d \in Deliveries : retrying[d] \in Retrying
        BY DEF TypeOK
      <4> QED
        BY <3>1, <4>1, <4>2
    <3>4. \A j \in jobs' : JobHolds(j)'
      <4> SUFFICES ASSUME NEW j \in jobs' PROVE JobHolds(j)'
        OBVIOUS
      <4>1. CASE j \in jobs
        BY <4>1, <3>1, <3>2, JobFields
      <4>2. CASE j \notin jobs
        BY <4>2, <3>1, <3>2
      <4> QED
        BY <4>1, <4>2
    <3>5. \A j, k \in jobs' : j.d = k.d /\ j.claim = k.claim => j = k
      <4> SUFFICES ASSUME NEW j \in jobs', NEW k \in jobs',
                          j.d = k.d, j.claim = k.claim
                   PROVE  j = k
        OBVIOUS
      <4>1. \A i \in jobs : i.claim \in Nat /\ i.d \in Deliveries /\ i.claim <= claims[i.d]
        BY JobFields
      <4>2. CASE j \in jobs /\ k \in jobs
        BY <4>2
      <4>3. CASE j \in jobs /\ k \notin jobs
        BY <4>1, <4>3, <3>1, <3>2
      <4>4. CASE j \notin jobs /\ k \in jobs
        BY <4>1, <4>4, <3>1, <3>2
      <4>5. CASE j \notin jobs /\ k \notin jobs
        BY <4>5, <3>1
      <4> QED
        BY <4>2, <4>3, <4>4, <4>5
    <3> QED
      BY <3>3, <3>4, <3>5
  <2>8. ASSUME NEW j \in jobs, NEW s, jobs' = AtStage(j, s),
               UNCHANGED <<row, claims, retrying, excuses>>
        PROVE  LockInv'
    BY <2>8, StageOnly
  <2>9. ASSUME NEW j \in jobs, Record(j) PROVE LockInv'
    <3> USE RecordFacts, <2>9
    <3>1. \A d \in Deliveries : RowLocked(d)' /\ RetrySees(d)'
      OBVIOUS
    <3>2. \A k \in jobs' : JobHolds(k)'
      BY JobFields
    <3> QED
      BY <3>1, <3>2
  <2>10. ASSUME NEW j \in jobs, StartJob(j) PROVE LockInv'
    BY <2>8, <2>10 DEF StartJob
  <2>11. ASSUME NEW j \in jobs, Send(j) PROVE LockInv'
    BY <2>8, <2>11 DEF Send
  <2> HIDE DEF LockInv
  <2> QED
    BY <2>0, <2>1, <2>2, <2>3, <2>4, <2>5, <2>6, <2>7, <2>9, <2>10, <2>11, StepCases
<1> QED
  BY <1>1, <1>2, TypeCorrect, PTL DEF Spec

\* Two jobs never work on one delivery unless a lock of it has expired or a manual
\* retry has written over a claim.
THEOREM OneJobPerLockHolds == Spec => []OneJobPerLock
<1>1. TypeOK /\ LockInv => OneJobPerLock
  BY JobFields DEF LockInv, JobHolds, OneJobPerLock
<1> QED
  BY <1>1, LockInvariant, PTL

\* record_attempt_and_update and schedule_manual_retry overwrite a delivered row
\* only if a lock of the delivery has expired or the retry was overtaken.
THEOREM DeliveredFinal == Spec => DeliveredFinalUnlessExcused
<1> DEFINE Kept == \A d \in Deliveries :
              row[d].status = "delivered" /\ row'[d].status # "delivered" => excuses'[d] # {}
<1>1. TypeOK /\ LockInv /\ [Next]_vars => Kept
  <2> SUFFICES ASSUME TypeOK, LockInv, [Next]_vars PROVE Kept
    OBVIOUS
  <2>1. ASSUME DropsJobs PROVE Kept
    BY <2>1 DEF DropsJobs
  <2>2. ASSUME NEW e \in Events, Enqueue(e) PROVE Kept
    BY <2>2, EnqueueFacts
  <2>0. ASSUME NEW d \in Deliveries, BeginManualRetry(d) PROVE Kept
    BY <2>0 DEF BeginManualRetry
  <2>3. ASSUME NEW d \in Deliveries, ManualRetry(d) PROVE Kept
    BY <2>3, RetryType, Overwrites
  <2>4. ASSUME NEW d \in Deliveries, BackoffElapses(d) PROVE Kept
    BY <2>4 DEF BackoffElapses, TypeOK, Row
  <2>5. ASSUME NEW d \in Deliveries, Expire(d) PROVE Kept
    BY <2>5 DEF Expire, TypeOK, Row
  <2>6. ASSUME NEW w \in Workers, RecoverStaleLocks(w) PROVE Kept
    BY <2>6 DEF RecoverStaleLocks, Recoverable
  <2>7. ASSUME NEW w \in Workers, ClaimDue(w) PROVE Kept
    BY <2>7, ClaimFacts DEF ClaimEffect
  <2>8. ASSUME NEW j \in jobs, StartJob(j) PROVE Kept
    BY <2>8 DEF StartJob
  <2>9. ASSUME NEW j \in jobs, Send(j) PROVE Kept
    BY <2>9 DEF Send
  <2>10. ASSUME NEW j \in jobs, Record(j) PROVE Kept
    <3>1. excuses[j.d] # {} \/ row[j.d].status = "processing"
      BY DEF LockInv, JobHolds
    <3> QED
      BY <2>10, <3>1, RecordFacts
  <2> HIDE DEF Kept
  <2> QED
    BY <2>0, <2>1, <2>2, <2>3, <2>4, <2>5, <2>6, <2>7, <2>8, <2>9, <2>10, StepCases
<1> QED
  BY <1>1, LockInvariant, PTL DEF Spec, DeliveredFinalUnlessExcused

LEMMA Numbers ==
    ASSUME TypeOK, NEW d \in Deliveries
    PROVE  Waiting(d) \in Nat /\ manual[d] \in Nat /\ row[d].attempts \in Nat
BY DEF TypeOK, Waiting, Retrying, Row

\* Nobody retries what is not there.
LEMMA WaitingNone ==
    ASSUME TypeOK, LockInv, NEW d \in Deliveries, row[d].status = "none"
    PROVE  Waiting(d) = 0
BY DEF TypeOK, LockInv, RetrySees, Waiting, Retrying

\* A delivery is attempted more than max_attempts times only if an operator asked
\* for each of the further attempts.
THEOREM AttemptBudgetHolds == Spec => []AttemptBudget
<1>1. Init => BudgetInv
  BY OutboxAssumption DEF Init, BudgetInv, Waiting, NoRow
<1>2. TypeOK /\ LockInv /\ BudgetInv /\ [Next]_vars => BudgetInv'
  <2> SUFFICES ASSUME TypeOK, LockInv, BudgetInv, [Next]_vars PROVE BudgetInv'
    OBVIOUS
  <2> USE DEF BudgetInv
  <2>11. UNCHANGED retrying => \A c \in Deliveries : Waiting(c)' = Waiting(c)
    BY DEF Waiting
  <2>12. \A c \in Deliveries :
           Waiting(c) \in Nat /\ manual[c] \in Nat /\ row[c].attempts \in Nat
    BY Numbers
  <2>1. ASSUME DropsJobs PROVE BudgetInv'
    BY <2>1, <2>11, JobFields DEF DropsJobs
  <2>2. ASSUME NEW e \in Events, Enqueue(e) PROVE BudgetInv'
    <3>1. \A d \in Deliveries :
            \/ row'[d] = row[d]
            \/ row[d].status = "none" /\ row'[d] = NewRow
      BY <2>2, EnqueueFacts
    <3>2. UNCHANGED <<jobs, logged, acked, retrying, excuses, manual>>
      BY <2>2 DEF Enqueue
    <3>4. NewRow.attempts = 0 /\ NewRow.status = "pending"
      BY DEF NewRow
    <3> QED
      BY <2>11, <2>12, <3>1, <3>2, <3>4, JobFields, WaitingNone, OutboxAssumption
  <2>0. ASSUME NEW d \in Deliveries, BeginManualRetry(d) PROVE BudgetInv'
    <3>1. /\ \A c \in Deliveries : c # d => manual'[c] = manual[c]
                                           /\ Waiting(c)' = Waiting(c)
          /\ manual'[d] = manual[d] + 1
          /\ UNCHANGED <<jobs, row>>
      BY <2>0 DEF BeginManualRetry, TypeOK, Waiting
    <3>2. Waiting(d)' = Waiting(d) + 1
      BY <2>0 DEF BeginManualRetry, TypeOK, Waiting, Retrying
    <3> QED
      BY <2>12, <3>1, <3>2, JobFields, OutboxAssumption
  <2>3. ASSUME NEW d \in Deliveries, ManualRetry(d) PROVE BudgetInv'
    <3>1. /\ row'[d].status = "pending" /\ row'[d].attempts = row[d].attempts
          /\ \A c \in Deliveries : c # d => row'[c] = row[c]
      BY <2>3, RetryType
    <3>2. \A c \in Deliveries : c # d => Waiting(c)' = Waiting(c)
      BY <2>3, Overwrites DEF Waiting
    <3>3. Waiting(d)' = Waiting(d) - 1
      BY <2>3 DEF ManualRetry, TypeOK, Waiting, Retrying
    <3>4. UNCHANGED <<jobs, manual>>
      BY <2>3 DEF ManualRetry
    <3> QED
      BY <2>12, <3>1, <3>2, <3>3, <3>4, JobFields, OutboxAssumption
  <2>4. ASSUME NEW d \in Deliveries, BackoffElapses(d) PROVE BudgetInv'
    <3>1. \A c \in Deliveries :
            /\ row'[c].status = row[c].status
            /\ row'[c].attempts = row[c].attempts
      BY <2>4 DEF BackoffElapses, TypeOK, Row
    <3>2. UNCHANGED <<jobs, logged, acked, retrying, excuses, manual>>
      BY <2>4 DEF BackoffElapses
    <3> QED
      BY <2>11, <2>12, <3>1, <3>2, JobFields
  <2>5. ASSUME NEW d \in Deliveries, Expire(d) PROVE BudgetInv'
    <3>1. \A c \in Deliveries : /\ row'[c].status = row[c].status
                               /\ row'[c].attempts = row[c].attempts
      BY <2>5 DEF Expire, TypeOK, Row
    <3>2. \A c \in Deliveries : excuses[c] # {} => excuses'[c] # {}
      BY <2>5 DEF Expire, TypeOK
    <3>3. UNCHANGED <<jobs, logged, acked, retrying, manual>>
      BY <2>5 DEF Expire
    <3> QED
      BY <2>11, <2>12, <3>1, <3>2, <3>3, JobFields
  <2>6. ASSUME NEW w \in Workers, RecoverStaleLocks(w) PROVE BudgetInv'
    <3>1. \A d \in Deliveries :
            \/ row'[d] = row[d]
            \/ /\ row[d].status = "processing" /\ row'[d].status = "pending"
               /\ row'[d].attempts = row[d].attempts
               /\ excuses[d] # {}
      BY <2>6, RequeuedFacts
         DEF RecoverStaleLocks, Recoverable, TypeOK, LockInv, RowLocked
    <3>2. UNCHANGED <<jobs, logged, acked, retrying, excuses, manual>>
      BY <2>6 DEF RecoverStaleLocks
    <3> QED
      BY <2>11, <2>12, <3>1, <3>2, JobFields
  <2>7. ASSUME NEW w \in Workers, ClaimDue(w) PROVE BudgetInv'
    <3> USE DEF ClaimEffect
    <3>1. PICK B \in SUBSET Deliveries : ClaimEffect(w, B)
      BY <2>7, ClaimFacts
    <3>2. \A c \in Deliveries : Waiting(c)' = Waiting(c)
      <4> SUFFICES ASSUME NEW c \in Deliveries PROVE Waiting(c)' = Waiting(c)
        OBVIOUS
      <4>1. \/ retrying'[c] = retrying[c]
            \/ retrying'[c] = Overtaken(retrying[c])
        BY <3>1
      <4>2. retrying[c].fresh \in Nat /\ retrying[c].overtaken \in Nat
        BY DEF TypeOK, Retrying
      <4> QED
        BY <4>1, <4>2 DEF Waiting, Overtaken
    <3>3. UNCHANGED manual /\ \A c \in Deliveries : row'[c].attempts = row[c].attempts
      BY <3>1
    <3>4. ASSUME NEW c \in Deliveries, row'[c].status \in {"pending", "processing", "failed"}
          PROVE  row[c].status \in {"pending", "processing", "failed"}
      BY <3>1, <3>4
    <3>5. ASSUME NEW j \in jobs'
          PROVE  j.attempts + Waiting(j.d) < MaxAttempts + manual[j.d] /\ j.d \in Deliveries
      BY <3>1, <3>5, <2>12, JobFields
    <3> QED
      BY <2>12, <3>2, <3>3, <3>4, <3>5
  <2>8. ASSUME NEW j \in jobs, StartJob(j) PROVE BudgetInv'
    BY <2>8, <2>11, StageOnly, JobFields DEF StartJob
  <2>9. ASSUME NEW j \in jobs, Send(j) PROVE BudgetInv'
    BY <2>9, <2>11, StageOnly, JobFields DEF Send
  <2>10. ASSUME NEW j \in jobs, Record(j) PROVE BudgetInv'
    <3>1. /\ logged[j.d] \in Nat /\ manual[j.d] \in Nat /\ j.attempts \in Nat
          /\ j.d \in Deliveries
      BY JobFields DEF TypeOK
    <3>3. \A k \in jobs : k.d \in Deliveries /\ k.attempts \in Nat
      BY JobFields
    <3> QED
      BY <2>10, <2>11, <2>12, <3>1, <3>3, RecordFacts, OutboxAssumption
  <2> HIDE DEF BudgetInv
  <2> QED
    BY <2>0, <2>1, <2>2, <2>3, <2>4, <2>5, <2>6, <2>7, <2>8, <2>9, <2>10, StepCases
<1>3. TypeOK /\ BudgetInv => AttemptBudget
  BY Numbers, OutboxAssumption DEF BudgetInv, AttemptBudget
<1> QED
  BY <1>1, <1>2, <1>3, LockInvariant, PTL DEF Spec

\* The attempt counter of a row is the length of its attempt history, unless a
\* lock expired or a retry was overtaken; then it may lag behind, never run ahead.
THEOREM CounterCorrect == Spec => []CounterMatchesHistory
<1>1. Init => HistoryInv
  BY DEF Init, HistoryInv, CounterMatchesHistory, NoRow
<1>2. TypeOK /\ LockInv /\ HistoryInv /\ [Next]_vars => HistoryInv'
  <2> SUFFICES ASSUME TypeOK, LockInv, HistoryInv, [Next]_vars PROVE HistoryInv'
    OBVIOUS
  <2> USE DEF HistoryInv, CounterMatchesHistory
  <2>1. ASSUME DropsJobs PROVE HistoryInv'
    BY <2>1 DEF DropsJobs
  <2>2. ASSUME NEW e \in Events, Enqueue(e) PROVE HistoryInv'
    <3>1. \A d \in Deliveries :
            \/ row'[d] = row[d]
            \/ row[d].status = "none" /\ row'[d] = NewRow
      BY <2>2, EnqueueFacts
    <3>2. UNCHANGED <<jobs, logged, acked, retrying, excuses, manual>>
      BY <2>2 DEF Enqueue
    <3> QED
      BY <3>1, <3>2, JobFields, OutboxAssumption DEF NewRow, TypeOK, Row
  <2>0. ASSUME NEW d \in Deliveries, BeginManualRetry(d) PROVE HistoryInv'
    BY <2>0, JobFields DEF BeginManualRetry
  <2>3. ASSUME NEW d \in Deliveries, ManualRetry(d) PROVE HistoryInv'
    <3>1. /\ row'[d].status = "pending" /\ row'[d].attempts = row[d].attempts
          /\ \A c \in Deliveries : c # d => row'[c] = row[c]
      BY <2>3, RetryType
    <3>2. /\ \A c \in Deliveries : c # d => excuses'[c] = excuses[c]
          /\ excuses[d] # {} => excuses'[d] # {}
          /\ row[d].status \in {"processing", "delivered"} => excuses'[d] # {}
          /\ row[d].status # "none"
      BY <2>3, Overwrites
    <3>3. UNCHANGED <<jobs, logged, acked>>
      BY <2>3 DEF ManualRetry
    <3>4. \A c \in Deliveries : row[c].attempts \in Nat
      BY DEF TypeOK, Row
    <3> QED
      BY <3>1, <3>2, <3>3, <3>4, JobFields, OutboxAssumption
  <2>4. ASSUME NEW d \in Deliveries, BackoffElapses(d) PROVE HistoryInv'
    <3>1. \A c \in Deliveries :
            /\ row'[c].status = row[c].status
            /\ row'[c].attempts = row[c].attempts
      BY <2>4 DEF BackoffElapses, TypeOK, Row
    <3>2. UNCHANGED <<jobs, logged, acked, retrying, excuses, manual>>
      BY <2>4 DEF BackoffElapses
    <3> QED
      BY <3>1, <3>2, JobFields
  <2>5. ASSUME NEW d \in Deliveries, Expire(d) PROVE HistoryInv'
    <3>1. \A c \in Deliveries : /\ row'[c].status = row[c].status
                               /\ row'[c].attempts = row[c].attempts
      BY <2>5 DEF Expire, TypeOK, Row
    <3>2. \A c \in Deliveries : excuses[c] # {} => excuses'[c] # {}
      BY <2>5 DEF Expire, TypeOK
    <3>3. UNCHANGED <<jobs, logged, acked, retrying, manual>>
      BY <2>5 DEF Expire
    <3> QED
      BY <3>1, <3>2, <3>3, JobFields
  <2>6. ASSUME NEW w \in Workers, RecoverStaleLocks(w) PROVE HistoryInv'
    <3>1. \A d \in Deliveries :
            \/ row'[d] = row[d]
            \/ /\ row[d].status = "processing" /\ row'[d].status = "pending"
               /\ row'[d].attempts = row[d].attempts
               /\ excuses[d] # {}
      BY <2>6, RequeuedFacts
         DEF RecoverStaleLocks, Recoverable, TypeOK, LockInv, RowLocked
    <3>2. UNCHANGED <<jobs, logged, acked, retrying, excuses, manual>>
      BY <2>6 DEF RecoverStaleLocks
    <3> QED
      BY <3>1, <3>2, JobFields
  <2>7. ASSUME NEW w \in Workers, ClaimDue(w) PROVE HistoryInv'
    <3> USE DEF ClaimEffect
    <3>1. PICK B \in SUBSET Deliveries : ClaimEffect(w, B)
      BY <2>7, ClaimFacts
    <3> QED
      BY <3>1, JobFields DEF TypeOK, Row
  <2>8. ASSUME NEW j \in jobs, StartJob(j) PROVE HistoryInv'
    BY <2>8, StageOnly, JobFields DEF StartJob
  <2>9. ASSUME NEW j \in jobs, Send(j) PROVE HistoryInv'
    BY <2>9, StageOnly, JobFields DEF Send
  <2>10. ASSUME NEW j \in jobs, Record(j) PROVE HistoryInv'
    <3>1. /\ logged[j.d] \in Nat /\ manual[j.d] \in Nat /\ j.attempts \in Nat
          /\ j.d \in Deliveries
      BY JobFields DEF TypeOK
    <3>2. \A k \in jobs : k # j => excuses[j.d] # {} \/ k.d # j.d
      BY JobFields DEF LockInv, JobHolds
    <3>3. \A k \in jobs : k.d \in Deliveries /\ k.attempts \in Nat
      BY JobFields
    <3>4. \A d \in Deliveries : logged[d] \in Nat /\ row[d].attempts \in Nat
      BY DEF TypeOK, Row
    <3> QED
      BY <2>10, <3>1, <3>2, <3>3, <3>4, RecordFacts, OutboxAssumption
  <2> HIDE DEF HistoryInv
  <2> QED
    BY <2>0, <2>1, <2>2, <2>3, <2>4, <2>5, <2>6, <2>7, <2>8, <2>9, <2>10, StepCases
<1>3. HistoryInv => CounterMatchesHistory
  BY DEF HistoryInv
<1> QED
  BY <1>1, <1>2, <1>3, LockInvariant, PTL DEF Spec

\* A receiver's success is seen once: no delivery is sent again after its 2xx
\* unless one of its locks expired or a retry overtaken by its claim let it in.
THEOREM AnsweredOnce == Spec => []AnsweredOnceUnlessExcused
<1>1. Init => OnceInv
  BY DEF Init, OnceInv
<1>2. TypeOK /\ LockInv /\ OnceInv /\ [Next]_vars => OnceInv'
  <2> SUFFICES ASSUME TypeOK, LockInv, OnceInv, [Next]_vars PROVE OnceInv'
    OBVIOUS
  <2> USE DEF OnceInv
  <2>1. ASSUME DropsJobs PROVE OnceInv'
    BY <2>1 DEF DropsJobs
  <2>2. ASSUME NEW e \in Events, Enqueue(e) PROVE OnceInv'
    <3>1. \A d \in Deliveries :
            \/ row'[d] = row[d]
            \/ row[d].status = "none" /\ row'[d] = NewRow
      BY <2>2, EnqueueFacts
    <3>2. UNCHANGED <<jobs, logged, acked, retrying, excuses, manual>>
      BY <2>2 DEF Enqueue
    <3> QED
      BY <3>1, <3>2, JobFields, OutboxAssumption DEF NewRow, TypeOK, Row
  <2>0. ASSUME NEW d \in Deliveries, BeginManualRetry(d) PROVE OnceInv'
    BY <2>0, JobFields DEF BeginManualRetry
  <2>3. ASSUME NEW d \in Deliveries, ManualRetry(d) PROVE OnceInv'
    <3>1. /\ row'[d].status = "pending" /\ row'[d].attempts = row[d].attempts
          /\ \A c \in Deliveries : c # d => row'[c] = row[c]
      BY <2>3, RetryType
    <3>2. /\ \A c \in Deliveries : c # d => excuses'[c] = excuses[c]
          /\ excuses[d] # {} => excuses'[d] # {}
          /\ row[d].status \in {"processing", "delivered"} => excuses'[d] # {}
          /\ row[d].status # "none"
      BY <2>3, Overwrites
    <3>3. UNCHANGED <<jobs, logged, acked>>
      BY <2>3 DEF ManualRetry
    <3>4. \A c \in Deliveries : row[c].attempts \in Nat
      BY DEF TypeOK, Row
    <3> QED
      BY <3>1, <3>2, <3>3, <3>4, JobFields, OutboxAssumption
  <2>4. ASSUME NEW d \in Deliveries, BackoffElapses(d) PROVE OnceInv'
    <3>1. \A c \in Deliveries :
            /\ row'[c].status = row[c].status
            /\ row'[c].attempts = row[c].attempts
      BY <2>4 DEF BackoffElapses, TypeOK, Row
    <3>2. UNCHANGED <<jobs, logged, acked, retrying, excuses, manual>>
      BY <2>4 DEF BackoffElapses
    <3> QED
      BY <3>1, <3>2, JobFields
  <2>5. ASSUME NEW d \in Deliveries, Expire(d) PROVE OnceInv'
    <3>1. \A c \in Deliveries : /\ row'[c].status = row[c].status
                               /\ row'[c].attempts = row[c].attempts
      BY <2>5 DEF Expire, TypeOK, Row
    <3>2. \A c \in Deliveries : excuses[c] # {} => excuses'[c] # {}
      BY <2>5 DEF Expire, TypeOK
    <3>3. UNCHANGED <<jobs, logged, acked, retrying, manual>>
      BY <2>5 DEF Expire
    <3> QED
      BY <3>1, <3>2, <3>3, JobFields
  <2>6. ASSUME NEW w \in Workers, RecoverStaleLocks(w) PROVE OnceInv'
    <3>1. \A d \in Deliveries :
            \/ row'[d] = row[d]
            \/ /\ row[d].status = "processing" /\ row'[d].status = "pending"
               /\ row'[d].attempts = row[d].attempts
               /\ excuses[d] # {}
      BY <2>6, RequeuedFacts
         DEF RecoverStaleLocks, Recoverable, TypeOK, LockInv, RowLocked
    <3>2. UNCHANGED <<jobs, logged, acked, retrying, excuses, manual>>
      BY <2>6 DEF RecoverStaleLocks
    <3> QED
      BY <3>1, <3>2, JobFields
  <2>7. ASSUME NEW w \in Workers, ClaimDue(w) PROVE OnceInv'
    <3> USE DEF ClaimEffect
    <3>1. PICK B \in SUBSET Deliveries : ClaimEffect(w, B)
      BY <2>7, ClaimFacts
    <3> QED
      BY <3>1, JobFields DEF TypeOK, Row
  <2>8. ASSUME NEW j \in jobs, StartJob(j) PROVE OnceInv'
    BY <2>8, StageOnly, JobFields DEF StartJob
  <2>9. ASSUME NEW j \in jobs, Send(j) PROVE OnceInv'
    <3>1. /\ j.d \in Deliveries
          /\ \A d \in Deliveries : d # j.d => acked'[d] = acked[d]
          /\ j.stage = "sending"
          /\ UNCHANGED <<row, excuses>>
      BY <2>9, JobFields DEF Send, TypeOK
    <3>2. \A k \in jobs' : k.d # j.d => \E i \in jobs : i.d = k.d /\ i.stage = k.stage
      BY <2>9, StageOnly DEF Send
    <3>3. CASE excuses[j.d] # {}
      BY <3>1, <3>2, <3>3
    <3>4. CASE ~excuses[j.d] # {}
      <4>1. row[j.d].status = "processing" /\ \A k \in jobs : k.d = j.d => k = j
        BY <3>4, JobFields DEF LockInv, JobHolds
      <4>2. acked[j.d] = 0
        BY <3>1, <3>4, <4>1
      <4>3. PICK res \in Results :
               /\ jobs' = AtStage(j, res)
               /\ acked' = [acked EXCEPT ![j.d] = IF res = "ok" THEN @ + 1 ELSE @]
        BY <2>9 DEF Send
      <4>4. \A k \in jobs' : k.d = j.d => k.stage = res
        BY <4>1, <4>3, StageOnly
      <4>5. acked'[j.d] = IF res = "ok" THEN 1 ELSE 0
        BY <3>1, <4>2, <4>3 DEF TypeOK
      <4> QED
        BY <3>1, <3>2, <4>1, <4>4, <4>5
    <3> QED
      BY <3>3, <3>4
  <2>10. ASSUME NEW j \in jobs, Record(j) PROVE OnceInv'
    <3>1. \A k \in jobs : k # j => excuses[j.d] # {} \/ k.d # j.d
      BY JobFields DEF LockInv, JobHolds
    <3>2. excuses[j.d] # {} \/ row[j.d].status = "processing"
      BY DEF LockInv, JobHolds
    <3> QED
      BY <2>10, <3>1, <3>2, RecordFacts
  <2> HIDE DEF OnceInv
  <2> QED
    BY <2>0, <2>1, <2>2, <2>3, <2>4, <2>5, <2>6, <2>7, <2>8, <2>9, <2>10, StepCases
<1>3. TypeOK /\ OnceInv => AnsweredOnceUnlessExcused
  BY DEF OnceInv, AnsweredOnceUnlessExcused, TypeOK
<1> QED
  BY <1>1, <1>2, <1>3, LockInvariant, PTL DEF Spec

-----------------------------------------------------------------------------
(* The outbox implements its contract *)

\* Only deliveries that were asked for are worked on.
WantedInv == \A j \in jobs : row[j.d].status # "none"

LEMMA WantedInvariant == Spec => []WantedInv
<1>1. Init => WantedInv
  BY DEF Init, WantedInv
<1>2. TypeOK /\ WantedInv /\ [Next]_vars => WantedInv'
  <2> SUFFICES ASSUME TypeOK, WantedInv, [Next]_vars PROVE WantedInv'
    OBVIOUS
  <2> USE DEF WantedInv
  <2>1. ASSUME DropsJobs PROVE WantedInv'
    BY <2>1 DEF DropsJobs
  <2>2. ASSUME NEW e \in Events, Enqueue(e) PROVE WantedInv'
    <3>1. \A d \in Deliveries : row[d].status # "none" => row'[d].status # "none"
      BY <2>2, EnqueueFacts DEF NewRow
    <3> QED
      BY <2>2, <3>1, JobFields DEF Enqueue
  <2>0. ASSUME NEW d \in Deliveries, BeginManualRetry(d) PROVE WantedInv'
    BY <2>0 DEF BeginManualRetry
  <2>3. ASSUME NEW d \in Deliveries, ManualRetry(d) PROVE WantedInv'
    BY <2>3, RetryType, JobFields DEF ManualRetry
  <2>4. ASSUME NEW d \in Deliveries, BackoffElapses(d) PROVE WantedInv'
    BY <2>4, JobFields DEF BackoffElapses, TypeOK, Row
  <2>5. ASSUME NEW d \in Deliveries, Expire(d) PROVE WantedInv'
    BY <2>5, JobFields DEF Expire, TypeOK, Row
  <2>6. ASSUME NEW w \in Workers, RecoverStaleLocks(w) PROVE WantedInv'
    BY <2>6, RequeuedFacts, JobFields DEF RecoverStaleLocks, TypeOK
  <2>7. ASSUME NEW w \in Workers, ClaimDue(w) PROVE WantedInv'
    BY <2>7, ClaimFacts, JobFields DEF ClaimEffect
  <2>8. ASSUME NEW j \in jobs, StartJob(j) PROVE WantedInv'
    BY <2>8, StageOnly DEF StartJob
  <2>9. ASSUME NEW j \in jobs, Send(j) PROVE WantedInv'
    BY <2>9, StageOnly DEF Send
  <2>10. ASSUME NEW j \in jobs, Record(j) PROVE WantedInv'
    BY <2>10, RecordFacts, JobFields
  <2> HIDE DEF WantedInv
  <2> QED
    BY <2>0, <2>1, <2>2, <2>3, <2>4, <2>5, <2>6, <2>7, <2>8, <2>9, <2>10, StepCases
<1> QED
  BY <1>1, <1>2, TypeCorrect, PTL DEF Spec

\* Every behaviour of the outbox is one the contract allows: no answer without a
\* request, no verdict "delivered" without an answer.
THEOREM OutboxImplementsContract == Spec => Contract!Spec
<1>1. Init => Contract!Init
  BY DEF Init, Contract!Init, NoRow
<1>2. TypeOK /\ LockInv /\ AnswerInv /\ WantedInv /\ [Next]_vars
        => [Contract!Next]_(Contract!cvars)
  <2> SUFFICES ASSUME TypeOK, LockInv, AnswerInv, WantedInv, [Next]_vars
               PROVE  [Contract!Next]_(Contract!cvars)
    OBVIOUS
  <2> DEFINE W == {d \in Deliveries : row[d].status # "none"}
             A == {d \in Deliveries : acked[d] > 0}
             V == [d \in Deliveries |->
                    IF row[d].status \in {"delivered", "exhausted"}
                    THEN row[d].status ELSE "open"]
             Quiet == W' = W /\ A' = A /\ V' = V
             G == [Contract!Next]_(Contract!cvars)
  <2>0. Quiet => G
    BY DEF Contract!cvars
  <2>1. ASSUME DropsJobs PROVE G
    <3>1. Quiet
      BY <2>1 DEF DropsJobs
    <3> QED
      BY <3>1, <2>0
  <2>2. ASSUME NEW e \in Events, Enqueue(e) PROVE G
    <3>1. acked' = acked
      BY <2>2 DEF Enqueue
    <3>2. \A d \in Deliveries :
            \/ row'[d] = row[d]
            \/ row[d].status = "none" /\ row'[d].status = "pending"
      BY <2>2, EnqueueFacts DEF NewRow
    <3>3. A' = A /\ V' = V
      BY <3>1, <3>2
    <3>4. W' = W \cup W'
      BY <3>2
    <3>5. W' \in SUBSET Deliveries
      OBVIOUS
    <3> HIDE DEF W, A, V
    <3>6. \E S \in SUBSET Deliveries : W' = W \cup S /\ A' = A /\ V' = V
      BY <3>3, <3>4, <3>5
    <3>7. \E S \in SUBSET Deliveries : Contract!Ask(S)
      BY <3>6 DEF Contract!Ask, W, A, V
    <3> QED
      BY <3>7 DEF Contract!Next
  <2>0a. ASSUME NEW d \in Deliveries, BeginManualRetry(d) PROVE G
    <3>1. Quiet
      BY <2>0a DEF BeginManualRetry
    <3> QED
      BY <3>1, <2>0
  <2>3. ASSUME NEW d \in Deliveries, ManualRetry(d) PROVE G
    <3>1. /\ row'[d].status = "pending" /\ row[d].status # "none"
          /\ \A c \in Deliveries : c # d => row'[c] = row[c]
          /\ acked' = acked
      BY <2>3, RetryType, Overwrites DEF ManualRetry
    <3>2. W' = W /\ A' = A /\ V' = [V EXCEPT ![d] = "open"]
      BY <3>1
    <3>3. Contract!Reopen(d)
      BY <3>2 DEF Contract!Reopen
    <3> QED
      BY <3>3 DEF Contract!Next
  <2>4. ASSUME NEW d \in Deliveries, BackoffElapses(d) PROVE G
    <3>1. Quiet
      BY <2>4 DEF BackoffElapses, TypeOK, Row
    <3> QED
      BY <3>1, <2>0
  <2>5. ASSUME NEW d \in Deliveries, Expire(d) PROVE G
    <3>1. Quiet
      BY <2>5 DEF Expire, TypeOK, Row
    <3> QED
      BY <3>1, <2>0
  <2>6. ASSUME NEW w \in Workers, RecoverStaleLocks(w) PROVE G
    <3>1. \A d \in Deliveries :
            \/ row'[d] = row[d]
            \/ row[d].status = "processing" /\ row'[d].status = "pending"
      BY <2>6, RequeuedFacts DEF RecoverStaleLocks, Recoverable, TypeOK
    <3>2. Quiet
      BY <2>6, <3>1 DEF RecoverStaleLocks
    <3> QED
      BY <3>2, <2>0
  <2>7. ASSUME NEW w \in Workers, ClaimDue(w) PROVE G
    <3>1. \A d \in Deliveries :
            \/ row'[d] = row[d]
            \/ row[d].status \in {"pending", "failed"} /\ row'[d].status = "processing"
      BY <2>7, ClaimFacts DEF ClaimEffect
    <3>2. acked' = acked
      BY <2>7 DEF ClaimDue
    <3>3. Quiet
      BY <3>1, <3>2
    <3> QED
      BY <3>3, <2>0
  <2>8. ASSUME NEW j \in jobs, StartJob(j) PROVE G
    <3>1. Quiet
      BY <2>8 DEF StartJob
    <3> QED
      BY <3>1, <2>0
  <2>9. ASSUME NEW j \in jobs, Send(j) PROVE G
    <3>1. j.d \in Deliveries /\ row[j.d].status # "none"
      BY JobFields DEF WantedInv
    <3>2. PICK res \in Results :
             acked' = [acked EXCEPT ![j.d] = IF res = "ok" THEN @ + 1 ELSE @]
      BY <2>9 DEF Send
    <3>3. row' = row
      BY <2>9 DEF Send
    <3>4. CASE res = "ok"
      <4>1. acked'[j.d] > 0 /\ \A d \in Deliveries : d # j.d => acked'[d] = acked[d]
        BY <3>1, <3>2, <3>4 DEF TypeOK
      <4>2. j.d \in W /\ W' = W /\ V' = V /\ A' = A \cup {j.d}
        BY <3>1, <3>3, <4>1
      <4>3. Contract!Answer(j.d)
        BY <4>2 DEF Contract!Answer
      <4> QED
        BY <3>1, <4>3 DEF Contract!Next
    <3>5. CASE res # "ok"
      <4>1. acked' = acked
        BY <3>2, <3>5 DEF TypeOK
      <4>2. Quiet
        BY <3>3, <4>1
      <4> QED
        BY <4>2, <2>0
    <3> QED
      BY <3>4, <3>5
  <2>10. ASSUME NEW j \in jobs, Record(j) PROVE G
    <3>1. j.d \in Deliveries /\ row[j.d].status # "none"
      BY JobFields DEF WantedInv
    <3>2. /\ \A d \in Deliveries : d # j.d => row'[d] = row[d]
          /\ row'[j.d].status \in {"delivered", "exhausted", "failed"}
          /\ row'[j.d].status = "delivered" => acked[j.d] > 0
          /\ acked' = acked
      BY <2>10, RecordFacts DEF AnswerInv
    <3>3. W' = W /\ A' = A
      BY <3>1, <3>2
    <3>4. CASE row'[j.d].status = "failed"
      <4>1. V' = [V EXCEPT ![j.d] = "open"]
        BY <3>1, <3>2, <3>4
      <4>2. Contract!Reopen(j.d)
        BY <3>3, <4>1 DEF Contract!Reopen
      <4> QED
        BY <3>1, <4>2 DEF Contract!Next
    <3>5. ASSUME NEW v \in {"delivered", "exhausted"}, row'[j.d].status = v PROVE G
      <4>1. V' = [V EXCEPT ![j.d] = v]
        BY <3>1, <3>2, <3>5
      <4>2. j.d \in W /\ (v = "delivered" => j.d \in A)
        BY <3>1, <3>2, <3>5
      <4>3. Contract!Decide(j.d, v)
        BY <3>3, <4>1, <4>2 DEF Contract!Decide
      <4> QED
        BY <3>1, <4>3 DEF Contract!Next
    <3> QED
      BY <3>2, <3>4, <3>5
  <2> HIDE DEF G, Quiet
  <2>11. G
    BY <2>0a, <2>1, <2>2, <2>3, <2>4, <2>5, <2>6, <2>7, <2>8, <2>9, <2>10, StepCases
  <2> QED
    BY <2>11 DEF G
<1> QED
  BY <1>1, <1>2, LockInvariant, AnswerInvariant, WantedInvariant, PTL
     DEF Spec, Contract!Spec
=============================================================================
