--------------------------- MODULE JobQueueProofs ---------------------------
(***************************************************************************)
(* Proofs about JobQueue for every number of Jobs, worker ids, runs and    *)
(* attempts.                                                               *)
(***************************************************************************)
EXTENDS JobQueue, TLAPS

-----------------------------------------------------------------------------
(* The rows the statements write are rows of the schema.                   *)

LEMMA QueueInitType == QueueInit => QueueTypeOK
  BY DEF QueueInit, QueueTypeOK, NoJobRow, NoRunRow, JobRow, RunRow, JobStatus,
         RunStatus, ErrorCode

LEMMA NoJobRowType == NoJobRow \in JobRow
  BY DEF NoJobRow, JobRow, JobStatus, ErrorCode

LEMMA RowsType ==
  ASSUME NEW row \in JobRow
  PROVE  /\ \A w \in Workers : Claimed(row, w) \in JobRow
         /\ Completed(row) \in JobRow
         /\ Released(row) \in JobRow
         /\ \A b \in BOOLEAN : Failed(row, b) \in JobRow
         /\ Recovered(row) \in JobRow
<1>1. /\ row.attempts \in Nat
      /\ row.attempts + 1 \in Nat
      /\ (IF row.attempts = 0 THEN 0 ELSE row.attempts - 1) \in Nat
  BY DEF JobRow
<1>2. \A w \in Workers : Claimed(row, w) \in JobRow
  BY <1>1, Zenon DEF Claimed, JobRow, JobStatus
<1>3. Completed(row) \in JobRow
  BY DEF Completed, JobRow, JobStatus, ErrorCode
<1>4. Released(row) \in JobRow
  BY <1>1, Zenon DEF Released, JobRow, JobStatus
<1>5. \A b \in BOOLEAN : Failed(row, b) \in JobRow
  BY DEF Failed, JobRow, JobStatus, ErrorCode
<1>6. Recovered(row) \in JobRow
  BY DEF Recovered, JobRow, JobStatus, ErrorCode
<1> QED BY <1>2, <1>3, <1>4, <1>5, <1>6

LEMMA WithRunsFailedType ==
  ASSUME QueueTypeOK, NEW S
  PROVE  WithRunsFailed(S) \in [Runs -> RunRow]
  BY DEF QueueTypeOK, WithRunsFailed, RunRow, RunStatus

LEMMA QueueStepType ==
  ASSUME QueueTypeOK, [QueueNext]_queueVars
  PROVE  QueueTypeOK'
<1> USE QueueAssumption
<1>1. ASSUME NEW j \in Jobs, NEW b \in BOOLEAN, Enqueue(j, b)
      PROVE  QueueTypeOK'
  BY <1>1, NoJobRowType DEF QueueTypeOK, Enqueue, JobRow, JobStatus
<1>2. ASSUME NEW j \in Jobs, NEW b \in BOOLEAN, Requeue(j, b)
      PROVE  QueueTypeOK'
  BY <1>2, NoJobRowType DEF QueueTypeOK, Requeue, JobRow, JobStatus
<1>3. ASSUME NEW w \in Workers, NEW j \in Jobs, NEW skipped, Claim(w, j, skipped)
      PROVE  QueueTypeOK'
  BY <1>3, RowsType DEF QueueTypeOK, Claim
<1>4. ASSUME NEW w \in Workers, NEW j \in Jobs, Complete(w, j)
      PROVE  QueueTypeOK'
  BY <1>4, RowsType DEF QueueTypeOK, Complete
<1>5. ASSUME NEW w \in Workers, NEW j \in Jobs, ExtendLease(w, j)
      PROVE  QueueTypeOK'
  BY <1>5 DEF QueueTypeOK, ExtendLease, JobRow
<1>6. ASSUME NEW w \in Workers, NEW j \in Jobs, Release(w, j)
      PROVE  QueueTypeOK'
  BY <1>6, RowsType DEF QueueTypeOK, Release
<1>7. ASSUME NEW w \in Workers, NEW j \in Jobs, NEW retryable \in BOOLEAN,
             Fail(w, j, retryable)
      PROVE  QueueTypeOK'
  <2>1. runs' \in [Runs -> RunRow]
    BY <1>7, WithRunsFailedType DEF Fail
  <2>2. jobs' \in [Jobs -> JobRow]
    BY <1>7, RowsType DEF QueueTypeOK, Fail
  <2> QED BY <2>1, <2>2 DEF QueueTypeOK
<1>8. ASSUME RecoverStaleJobs
      PROVE  QueueTypeOK'
  <2>1. runs' \in [Runs -> RunRow]
    BY <1>8, WithRunsFailedType DEF RecoverStaleJobs
  <2>2. jobs' \in [Jobs -> JobRow]
    BY <1>8, RowsType DEF QueueTypeOK, RecoverStaleJobs
  <2> QED BY <2>1, <2>2 DEF QueueTypeOK
<1>9. ASSUME NEW j \in Jobs, NEW r \in Runs, StartRun(j, r)
      PROVE  QueueTypeOK'
  BY <1>9 DEF QueueTypeOK, StartRun, RunRow, RunStatus
<1>10. ASSUME NEW r \in Runs, CompleteRun(r) \/ FailRun(r)
       PROVE  QueueTypeOK'
  BY <1>10 DEF QueueTypeOK, CompleteRun, FailRun, RunRow, RunStatus
<1>11. ASSUME NEW j \in Jobs, BecomeAvailable(j) \/ LeaseExpires(j)
       PROVE  QueueTypeOK'
  <2>1. CASE BecomeAvailable(j)
    BY <2>1 DEF QueueTypeOK, BecomeAvailable, JobRow
  <2>2. CASE LeaseExpires(j)
    BY <2>2 DEF QueueTypeOK, LeaseExpires, JobRow
  <2> QED BY <1>11, <2>1, <2>2
<1>12. CASE UNCHANGED queueVars
  BY <1>12 DEF QueueTypeOK, queueVars
<1> QED
  BY <1>1, <1>2, <1>3, <1>4, <1>5, <1>6, <1>7, <1>8, <1>9, <1>10, <1>11, <1>12
     DEF QueueNext

(* Every reachable table has the shape of the schema.                      *)
THEOREM QueueTypeCorrect == QueueSpec => []QueueTypeOK
  BY QueueInitType, QueueStepType, PTL DEF QueueSpec

-----------------------------------------------------------------------------
(* The attempt budget.  AttemptsBounded is inductive together with the     *)
(* type invariant: claimNext may count an attempt without looking at the   *)
(* limit because the row it takes is below it.                             *)

RowBounded(row) ==
    /\ row.attempts <= MaxAttempts
    /\ row.status \in {"queued", "retry_waiting"} => row.attempts < MaxAttempts
    /\ row.status = "processing" => row.attempts >= 1

LEMMA RowsBounded ==
  ASSUME NEW row \in JobRow, RowBounded(row)
  PROVE  /\ row.status \in {"queued", "retry_waiting"} =>
              \A w \in Workers : RowBounded(Claimed(row, w))
         /\ RowBounded(Completed(row))
         /\ row.status = "processing" => RowBounded(Released(row))
         /\ \A b \in BOOLEAN : RowBounded(Failed(row, b))
         /\ RowBounded(Recovered(row))
<1> USE QueueAssumption DEF RowBounded, JobRow
<1>1. ASSUME row.status \in {"queued", "retry_waiting"}, NEW w \in Workers
      PROVE  RowBounded(Claimed(row, w))
  BY <1>1 DEF Claimed
<1>2. RowBounded(Completed(row))
  BY DEF Completed
<1>3. row.status = "processing" => RowBounded(Released(row))
  BY DEF Released
<1>4. ASSUME NEW b \in BOOLEAN
      PROVE  RowBounded(Failed(row, b))
  BY <1>4 DEF Failed, AttemptLeft
<1>5. RowBounded(Recovered(row))
  BY DEF Recovered, AttemptLeft
<1> QED BY <1>1, <1>2, <1>3, <1>4, <1>5

LEMMA NoJobRowBounded ==
  ASSUME NEW b \in BOOLEAN
  PROVE  RowBounded([NoJobRow EXCEPT !.status = "queued", !.available = b])
  BY QueueAssumption DEF RowBounded, NoJobRow

LEMMA AttemptsBoundedInit == QueueInit => AttemptsBounded
  BY QueueAssumption DEF QueueInit, AttemptsBounded, NoJobRow

LEMMA AttemptsBoundedStep ==
  ASSUME QueueTypeOK, AttemptsBounded, [QueueNext]_queueVars
  PROVE  AttemptsBounded'
<1>1. \A j \in Jobs : jobs[j] \in JobRow /\ RowBounded(jobs[j])
  BY DEF QueueTypeOK, AttemptsBounded, RowBounded
<1> SUFFICES ASSUME NEW k \in Jobs
             PROVE  RowBounded(jobs'[k])
  BY DEF AttemptsBounded, RowBounded
<1> USE DEF QueueTypeOK
<1>2. ASSUME NEW j \in Jobs, NEW b \in BOOLEAN, Enqueue(j, b) \/ Requeue(j, b)
      PROVE  RowBounded(jobs'[k])
  BY <1>1, <1>2, NoJobRowBounded DEF Enqueue, Requeue
<1>3. ASSUME NEW w \in Workers, NEW j \in Jobs, NEW skipped, Claim(w, j, skipped)
      PROVE  RowBounded(jobs'[k])
  BY <1>1, <1>3, RowsBounded DEF Claim, OldestClaimable, Claimable
<1>4. ASSUME NEW w \in Workers, NEW j \in Jobs,
             Complete(w, j) \/ Release(w, j)
      PROVE  RowBounded(jobs'[k])
  BY <1>1, <1>4, RowsBounded DEF Complete, Release, LeasedBy
<1>5. ASSUME NEW w \in Workers, NEW j \in Jobs, NEW retryable \in BOOLEAN,
             Fail(w, j, retryable)
      PROVE  RowBounded(jobs'[k])
  BY <1>1, <1>5, RowsBounded DEF Fail
<1>6. CASE RecoverStaleJobs
  BY <1>1, <1>6, RowsBounded DEF RecoverStaleJobs
<1>7. ASSUME NEW j \in Jobs,
             \/ \E w \in Workers : ExtendLease(w, j)
             \/ BecomeAvailable(j)
             \/ LeaseExpires(j)
      PROVE  RowBounded(jobs'[k])
  <2>1. /\ jobs'[k].attempts = jobs[k].attempts
        /\ jobs'[k].status = jobs[k].status
    <3>1. CASE \E w \in Workers : ExtendLease(w, j)
      BY <3>1 DEF ExtendLease, JobRow
    <3>2. CASE BecomeAvailable(j)
      BY <3>2 DEF BecomeAvailable, JobRow
    <3>3. CASE LeaseExpires(j)
      BY <3>3 DEF LeaseExpires, JobRow
    <3> QED BY <1>7, <3>1, <3>2, <3>3
  <2> QED BY <1>1, <2>1 DEF RowBounded
<1>8. CASE UNCHANGED jobs
  BY <1>1, <1>8
<1>9. ASSUME NEW r \in Runs,
             (\E j \in Jobs : StartRun(j, r)) \/ CompleteRun(r) \/ FailRun(r)
      PROVE  UNCHANGED jobs
  BY <1>9 DEF StartRun, CompleteRun, FailRun
<1> QED
  BY <1>2, <1>3, <1>4, <1>5, <1>6, <1>7, <1>8, <1>9 DEF QueueNext, queueVars

(* For every sequence of calls: a waiting Job has an attempt left and no   *)
(* Job uses more than MaxAttempts of them.                                 *)
THEOREM QueueAttemptsBounded == QueueSpec => []AttemptsBounded
<1>1. QueueInit => QueueTypeOK /\ AttemptsBounded
  BY QueueInitType, AttemptsBoundedInit
<1>2. QueueTypeOK /\ AttemptsBounded /\ [QueueNext]_queueVars
         => (QueueTypeOK /\ AttemptsBounded)'
  BY QueueStepType, AttemptsBoundedStep
<1> QED BY <1>1, <1>2, PTL DEF QueueSpec

-----------------------------------------------------------------------------
(* How a Job that has ended may change.                                    *)

EndedRowKept(row, next) ==
    /\ row.status = "completed" => next = row
    /\ row.status = "failed" /\ next # row =>
         /\ row.error # "permanent"
         /\ next.status = "queued"
         /\ next.attempts = 0
         /\ next.lockedBy = NoWorker
         /\ next.error = "none"

(* A statement on one row that is neither completed nor failed.            *)
LEMMA OpenRowMayChange ==
  ASSUME QueueTypeOK, NEW j \in Jobs, NEW row, NEW k \in Jobs,
         jobs[j].status \notin {"completed", "failed"},
         jobs' = [jobs EXCEPT ![j] = row]
  PROVE  EndedRowKept(jobs[k], jobs'[k])
  BY DEF QueueTypeOK, EndedRowKept

LEMMA EndedRowStep ==
  ASSUME QueueTypeOK, QueueNext, NEW k \in Jobs
  PROVE  EndedRowKept(jobs[k], jobs'[k])
<1>1. ASSUME NEW j \in Jobs, NEW b \in BOOLEAN, Enqueue(j, b)
      PROVE  EndedRowKept(jobs[k], jobs'[k])
  BY <1>1, OpenRowMayChange DEF Enqueue
<1>2. ASSUME NEW j \in Jobs, NEW b \in BOOLEAN, Requeue(j, b)
      PROVE  EndedRowKept(jobs[k], jobs'[k])
  BY <1>2 DEF Requeue, QueueTypeOK, EndedRowKept, NoJobRow, RequeueableCode
<1>3. ASSUME NEW w \in Workers, NEW j \in Jobs, NEW skipped, Claim(w, j, skipped)
      PROVE  EndedRowKept(jobs[k], jobs'[k])
  BY <1>3, OpenRowMayChange DEF Claim, OldestClaimable, Claimable
<1>4. ASSUME NEW w \in Workers, NEW j \in Jobs, Complete(w, j) \/ Release(w, j)
      PROVE  EndedRowKept(jobs[k], jobs'[k])
  BY <1>4, OpenRowMayChange DEF Complete, Release, LeasedBy
<1>5. ASSUME NEW w \in Workers, NEW j \in Jobs, NEW retryable \in BOOLEAN,
             Fail(w, j, retryable)
      PROVE  EndedRowKept(jobs[k], jobs'[k])
  BY <1>5, OpenRowMayChange DEF Fail, LeasedBy
<1>6. CASE RecoverStaleJobs
  BY <1>6 DEF RecoverStaleJobs, StaleJobs, QueueTypeOK, EndedRowKept
<1>7. ASSUME NEW j \in Jobs,
             \/ \E w \in Workers : ExtendLease(w, j)
             \/ BecomeAvailable(j)
             \/ LeaseExpires(j)
      PROVE  EndedRowKept(jobs[k], jobs'[k])
  <2>1. jobs[j].status \notin {"completed", "failed"}
    BY <1>7 DEF ExtendLease, LeasedBy, BecomeAvailable, LeaseExpires
  <2>2. k # j => jobs'[k] = jobs[k]
    BY <1>7 DEF ExtendLease, BecomeAvailable, LeaseExpires, QueueTypeOK
  <2> QED BY <2>1, <2>2 DEF EndedRowKept
<1>8. ASSUME NEW r \in Runs,
             (\E j \in Jobs : StartRun(j, r)) \/ CompleteRun(r) \/ FailRun(r)
      PROVE  EndedRowKept(jobs[k], jobs'[k])
  BY <1>8 DEF StartRun, CompleteRun, FailRun, EndedRowKept
<1> QED
  BY <1>1, <1>2, <1>3, <1>4, <1>5, <1>6, <1>7, <1>8 DEF QueueNext

(* A Job that has ended stays ended, unless it failed for a passing reason *)
(* and is put back as a whole new Job.                                     *)
THEOREM QueueOutcomeIsFinal == QueueSpec => OutcomeIsFinal
<1>1. QueueTypeOK /\ [QueueNext]_queueVars
        => [\A j \in Jobs :
              /\ jobs[j].status = "completed" => jobs'[j] = jobs[j]
              /\ jobs[j].status = "failed" /\ jobs'[j] # jobs[j] =>
                   /\ jobs[j].error # "permanent"
                   /\ jobs'[j].status = "queued"
                   /\ jobs'[j].attempts = 0
                   /\ jobs'[j].lockedBy = NoWorker
                   /\ jobs'[j].error = "none"]_jobs
  BY EndedRowStep DEF EndedRowKept, queueVars
<1> QED BY <1>1, QueueTypeCorrect, PTL DEF QueueSpec, OutcomeIsFinal

-----------------------------------------------------------------------------
(* Rows that do not exist, and what no statement does to a run.            *)

(* A run row is unused or belongs to a Job that exists.                    *)
RunsOK == \A r \in Runs : runs[r].status = "absent" <=> runs[r].job = NoJob

(* Rows that do not exist yet are blank.                                   *)
AbsentOK == \A j \in Jobs : jobs[j].status = "absent" => jobs[j] = NoJobRow

LEMMA AbsentInit == QueueInit => RunsOK /\ AbsentOK
  BY DEF QueueInit, RunsOK, AbsentOK, NoRunRow

LEMMA RunStep ==
  ASSUME QueueTypeOK, RunsOK, [QueueNext]_queueVars, NEW r \in Runs
  PROVE  /\ runs'[r].status = "absent" <=> runs'[r].job = NoJob
         /\ runs[r].status # "absent" =>
              /\ runs'[r].job = runs[r].job
              /\ runs'[r].status # "absent"
         /\ runs[r].status = "completed" => runs'[r] = runs[r]
<1> DEFINE Goal == /\ runs'[r].status = "absent" <=> runs'[r].job = NoJob
                   /\ runs[r].status # "absent" =>
                        /\ runs'[r].job = runs[r].job
                        /\ runs'[r].status # "absent"
                   /\ runs[r].status = "completed" => runs'[r] = runs[r]
<1>1. runs[r] \in RunRow /\ (runs[r].status = "absent" <=> runs[r].job = NoJob)
  BY DEF QueueTypeOK, RunsOK
<1>2. CASE UNCHANGED runs
  BY <1>1, <1>2
<1>3. ASSUME NEW S, runs' = WithRunsFailed(S)
      PROVE  Goal
  BY <1>1, <1>3 DEF WithRunsFailed, RunRow
<1>4. ASSUME NEW j \in Jobs, NEW q \in Runs, StartRun(j, q)
      PROVE  Goal
  BY <1>1, <1>4 DEF StartRun, QueueTypeOK, Jobs, NoJob
<1>5. ASSUME NEW q \in Runs, CompleteRun(q) \/ FailRun(q)
      PROVE  Goal
  <2>1. r # q => runs'[r] = runs[r]
    BY <1>5 DEF CompleteRun, FailRun, QueueTypeOK
  <2>2. r = q => /\ runs[r].status = "running"
                 /\ runs'[r].job = runs[r].job
                 /\ runs'[r].status \in {"completed", "failed"}
    BY <1>1, <1>5 DEF CompleteRun, FailRun, QueueTypeOK, RunRow
  <2> QED BY <1>1, <2>1, <2>2
<1>6. \/ UNCHANGED runs
      \/ \E S : runs' = WithRunsFailed(S)
      \/ \E j \in Jobs, q \in Runs : StartRun(j, q)
      \/ \E q \in Runs : CompleteRun(q) \/ FailRun(q)
  BY DEF QueueNext, queueVars, Enqueue, Requeue, Claim, Complete, ExtendLease,
         Release, Fail, RecoverStaleJobs, BecomeAvailable, LeaseExpires
<1> QED BY <1>2, <1>3, <1>4, <1>5, <1>6

(* A statement on one row that exists.                                     *)
LEMMA ExistingRowMayChange ==
  ASSUME QueueTypeOK, AbsentOK, NEW j \in Jobs, NEW k \in Jobs,
         jobs'[j].status # "absent",
         k # j => jobs'[k] = jobs[k]
  PROVE  jobs'[k].status = "absent" => jobs'[k] = NoJobRow
  BY DEF AbsentOK

LEMMA AbsentStep ==
  ASSUME QueueTypeOK, AbsentOK, [QueueNext]_queueVars
  PROVE  AbsentOK'
<1> SUFFICES ASSUME NEW k \in Jobs
             PROVE  jobs'[k].status = "absent" => jobs'[k] = NoJobRow
  BY DEF AbsentOK
<1> USE DEF QueueTypeOK
<1>1. ASSUME NEW j \in Jobs, NEW b \in BOOLEAN, Enqueue(j, b) \/ Requeue(j, b)
      PROVE  jobs'[k].status = "absent" => jobs'[k] = NoJobRow
  BY <1>1, ExistingRowMayChange DEF Enqueue, Requeue, NoJobRow
<1>2. ASSUME NEW w \in Workers, NEW j \in Jobs,
             \/ \E skipped : Claim(w, j, skipped)
             \/ Complete(w, j)
             \/ Release(w, j)
             \/ \E retryable \in BOOLEAN : Fail(w, j, retryable)
      PROVE  jobs'[k].status = "absent" => jobs'[k] = NoJobRow
  <2>1. jobs'[j].status # "absent"
    <3>1. \A w1 \in Workers : Claimed(jobs[j], w1).status = "processing"
      BY DEF Claimed, JobRow
    <3>2. Completed(jobs[j]).status = "completed"
      BY DEF Completed, JobRow
    <3>3. Released(jobs[j]).status = "queued"
      BY DEF Released, JobRow
    <3>4. \A b \in BOOLEAN : Failed(jobs[j], b).status \in {"retry_waiting", "failed"}
      BY DEF Failed, JobRow
    <3> QED BY <1>2, <3>1, <3>2, <3>3, <3>4 DEF Claim, Complete, Release, Fail
  <2>2. k # j => jobs'[k] = jobs[k]
    BY <1>2 DEF Claim, Complete, Release, Fail
  <2> QED BY <2>1, <2>2, ExistingRowMayChange
<1>3. CASE RecoverStaleJobs
  BY <1>3 DEF RecoverStaleJobs, Recovered, AbsentOK, JobRow
<1>4. ASSUME NEW j \in Jobs,
             \/ \E w \in Workers : ExtendLease(w, j)
             \/ BecomeAvailable(j)
             \/ LeaseExpires(j)
      PROVE  jobs'[k].status = "absent" => jobs'[k] = NoJobRow
  <2>1. jobs'[j].status # "absent"
    BY <1>4 DEF ExtendLease, LeasedBy, BecomeAvailable, LeaseExpires, JobRow
  <2>2. k # j => jobs'[k] = jobs[k]
    BY <1>4 DEF ExtendLease, BecomeAvailable, LeaseExpires
  <2> QED BY <2>1, <2>2, ExistingRowMayChange
<1>5. CASE UNCHANGED jobs
  BY <1>5 DEF AbsentOK
<1>6. ASSUME NEW r \in Runs,
             (\E j \in Jobs : StartRun(j, r)) \/ CompleteRun(r) \/ FailRun(r)
      PROVE  UNCHANGED jobs
  BY <1>6 DEF StartRun, CompleteRun, FailRun
<1> QED
  BY <1>1, <1>2, <1>3, <1>4, <1>5, <1>6 DEF QueueNext, queueVars

-----------------------------------------------------------------------------
(* Only a claim leases a Job, and only complete completes one.             *)

LEMMA NoNewLease ==
  ASSUME QueueTypeOK,
         \/ UNCHANGED jobs
         \/ RecoverStaleJobs
         \/ \E j \in Jobs, b \in BOOLEAN : Enqueue(j, b)
         \/ \E w \in Workers, j \in Jobs :
               Complete(w, j) \/ ExtendLease(w, j) \/ Release(w, j)
         \/ \E w \in Workers, j \in Jobs, b \in BOOLEAN : Fail(w, j, b)
         \/ \E j \in Jobs : BecomeAvailable(j) \/ LeaseExpires(j)
  PROVE  \A v \in Workers, k \in Jobs : LeasedBy(v, k)' => LeasedBy(v, k)
<1> SUFFICES ASSUME NEW v \in Workers, NEW k \in Jobs, LeasedBy(v, k)'
             PROVE  LeasedBy(v, k)
  OBVIOUS
<1> USE DEF QueueTypeOK, LeasedBy
<1>1. CASE UNCHANGED jobs
  BY <1>1
<1>2. CASE RecoverStaleJobs
  BY <1>2 DEF RecoverStaleJobs, Recovered, JobRow
<1>3. ASSUME NEW j \in Jobs, NEW b \in BOOLEAN, Enqueue(j, b)
      PROVE  LeasedBy(v, k)
  BY <1>3 DEF Enqueue, NoJobRow
<1>4. ASSUME NEW w \in Workers, NEW j \in Jobs, Complete(w, j)
      PROVE  LeasedBy(v, k)
  BY <1>4 DEF Complete, Completed, JobRow
<1>5. ASSUME NEW w \in Workers, NEW j \in Jobs, ExtendLease(w, j)
      PROVE  LeasedBy(v, k)
  BY <1>5 DEF ExtendLease, JobRow
<1>6. ASSUME NEW w \in Workers, NEW j \in Jobs, Release(w, j)
      PROVE  LeasedBy(v, k)
  BY <1>6 DEF Release, Released, JobRow
<1>7. ASSUME NEW w \in Workers, NEW j \in Jobs, NEW b \in BOOLEAN, Fail(w, j, b)
      PROVE  LeasedBy(v, k)
  BY <1>7 DEF Fail, Failed, JobRow
<1>8. ASSUME NEW j \in Jobs, BecomeAvailable(j)
      PROVE  LeasedBy(v, k)
  BY <1>8 DEF BecomeAvailable, JobRow
<1>9. ASSUME NEW j \in Jobs, LeaseExpires(j)
      PROVE  LeasedBy(v, k)
  BY <1>9 DEF LeaseExpires, JobRow
<1> QED BY <1>1, <1>2, <1>3, <1>4, <1>5, <1>6, <1>7, <1>8, <1>9

(* The three ways a lease ends for the one who held it.                    *)
LEMMA LeaseEnds ==
  ASSUME QueueTypeOK, NEW w \in Workers, NEW j \in Jobs,
         \/ Complete(w, j)
         \/ Release(w, j)
         \/ \E b \in BOOLEAN : Fail(w, j, b)
  PROVE  ~LeasedBy(w, j)'
<1>1. /\ Completed(jobs[j]).status = "completed"
      /\ Released(jobs[j]).status = "queued"
      /\ \A b \in BOOLEAN : Failed(jobs[j], b).status \in {"retry_waiting", "failed"}
  BY DEF QueueTypeOK, JobRow, Completed, Released, Failed
<1> QED BY <1>1 DEF QueueTypeOK, Complete, Release, Fail, LeasedBy
=============================================================================
