------------------------------ MODULE JobQueue ------------------------------
(***************************************************************************)
(* The PostgreSQL job queue and the run table: one action per statement    *)
(* that the repositories PostgresJobQueue and PostgresAgentRunRepository   *)
(* execute.  Every statement (and the two transactions, fail and failRun)  *)
(* is atomic; who calls it, and when, is left open here and fixed by the   *)
(* module Worker.                                                          *)
(*                                                                         *)
(* Time is abstracted to the two comparisons the SQL makes with NOW():     *)
(* "available" stands for available_at <= NOW() and "expired" for          *)
(* locked_at <= NOW() - lockTimeoutMs.                                     *)
(***************************************************************************)
EXTENDS Naturals, FiniteSets

CONSTANTS
    NumJobs,      \* how many rows agent_jobs may receive
    Workers,      \* worker ids, one per worker process
    NoWorker,     \* locked_by IS NULL
    Runs,         \* the primary keys agent_runs may use
    MaxAttempts   \* PostgresJobQueueOptions.maxAttempts

ASSUME QueueAssumption ==
    /\ NumJobs \in Nat
    /\ MaxAttempts \in Nat \ {0}
    /\ NoWorker \notin Workers

VARIABLES
    jobs,   \* the table agent_jobs
    runs    \* the table agent_runs

queueVars == <<jobs, runs>>

\* Job ids are numbered in the order of created_at.
Jobs == 1..NumJobs
NoJob == 0

JobStatus == {"absent", "queued", "processing", "retry_waiting", "completed", "failed"}
RunStatus == {"absent", "running", "completed", "failed"}

(* last_error_code: "transient" stands for the codes of a retryable error  *)
(* (RATE_LIMITED, TEMPORARY_UNAVAILABLE, JOB_RETRYABLE), "permanent" for   *)
(* every other code an execution can end with.                             *)
ErrorCode == {"none", "transient", "permanent", "JOB_LOCK_EXPIRED"}
RequeueableCode == {"transient", "JOB_LOCK_EXPIRED"}

JobRow ==
    [status: JobStatus, attempts: Nat, available: BOOLEAN,
     lockedBy: Workers \cup {NoWorker}, expired: BOOLEAN, error: ErrorCode]

RunRow == [job: Jobs \cup {NoJob}, status: RunStatus]

NoJobRow ==
    [status |-> "absent", attempts |-> 0, available |-> FALSE,
     lockedBy |-> NoWorker, expired |-> FALSE, error |-> "none"]

NoRunRow == [job |-> NoJob, status |-> "absent"]

-----------------------------------------------------------------------------
(* What the WHERE clauses say. *)

\* Mutant of Claimable: a Job waiting for its retry is never picked up.
ClaimableFirstTime(j) == jobs[j].status = "queued" /\ jobs[j].available

\* Mutant of Claimable: an expired lease is taken over without recovery.
ClaimableExpired(j) ==
    \/ jobs[j].status \in {"queued", "retry_waiting"} /\ jobs[j].available
    \/ jobs[j].status = "processing" /\ jobs[j].expired /\ jobs[j].attempts < MaxAttempts

Claimable(j) ==
    /\ jobs[j].status \in {"queued", "retry_waiting"}
    /\ jobs[j].available

\* Mutant of LeasedBy: the WHERE clause forgets locked_by.
LeasedByAnyone(w, j) == jobs[j].status = "processing"

LeasedBy(w, j) == jobs[j].status = "processing" /\ jobs[j].lockedBy = w

\* Mutant of StaleJobs: exhausted Jobs are left out of the recovery.
StaleJobsWithAttemptsLeft ==
    {j \in Jobs : /\ jobs[j].status = "processing" /\ jobs[j].expired
                  /\ jobs[j].attempts < MaxAttempts}

StaleJobs == {j \in Jobs : jobs[j].status = "processing" /\ jobs[j].expired}

RunsOf(j) == {r \in Runs : runs[r].job = j}

-----------------------------------------------------------------------------
QueueInit ==
    /\ jobs = [j \in Jobs |-> NoJobRow]
    /\ runs = [r \in Runs |-> NoRunRow]

(* enqueue: the INSERT of a row whose idempotency key is new.  The caller  *)
(* may ask for a later available_at.                                       *)
Enqueue(j, available) ==
    /\ jobs[j].status = "absent"
    /\ \A k \in 1..(j - 1) : jobs[k].status # "absent"
    /\ jobs' = [jobs EXCEPT ![j] = [NoJobRow EXCEPT !.status = "queued",
                                                    !.available = available]]
    /\ UNCHANGED runs

\* Mutant of Requeue: any failed Job is put back, whatever its error.
RequeueAnyFailure(j, available) ==
    /\ jobs[j].status = "failed"
    /\ jobs' = [jobs EXCEPT ![j] = [NoJobRow EXCEPT !.status = "queued",
                                                    !.available = available]]
    /\ UNCHANGED runs

(* enqueue with retryFailed: the UPDATE that puts a transiently failed Job *)
(* back in the queue and gives it a fresh attempt budget.                  *)
Requeue(j, available) ==
    /\ jobs[j].status = "failed"
    /\ jobs[j].error \in RequeueableCode
    /\ jobs' = [jobs EXCEPT ![j] = [NoJobRow EXCEPT !.status = "queued",
                                                    !.available = available]]
    /\ UNCHANGED runs

(* claimNext, second statement: FOR UPDATE SKIP LOCKED passes over the     *)
(* rows in skipped, which concurrent claims hold; the oldest other         *)
(* claimable row is taken.                                                 *)
OldestClaimable(j, skipped) ==
    /\ Claimable(j) /\ j \notin skipped
    /\ \A k \in Jobs \ skipped : Claimable(k) => j <= k

Claimed(row, w) ==
    [row EXCEPT !.status = "processing",
                !.attempts = row.attempts + 1,
                !.lockedBy = w,
                !.expired = FALSE]

Claim(w, j, skipped) ==
    /\ OldestClaimable(j, skipped)
    /\ jobs' = [jobs EXCEPT ![j] = Claimed(jobs[j], w)]
    /\ UNCHANGED runs

Completed(row) ==
    [row EXCEPT !.status = "completed",
                !.lockedBy = NoWorker,
                !.expired = FALSE,
                !.error = "none"]

Complete(w, j) ==
    /\ LeasedBy(w, j)
    /\ jobs' = [jobs EXCEPT ![j] = Completed(jobs[j])]
    /\ UNCHANGED runs

(* extendLease answers TRUE; when LeasedBy is false it answers FALSE and   *)
(* changes nothing.                                                        *)
ExtendLease(w, j) ==
    /\ LeasedBy(w, j)
    /\ jobs' = [jobs EXCEPT ![j].expired = FALSE]
    /\ UNCHANGED runs

Released(row) ==
    [row EXCEPT !.status = "queued",
                !.attempts = IF row.attempts = 0 THEN 0 ELSE row.attempts - 1,
                !.lockedBy = NoWorker,
                !.expired = FALSE]

Release(w, j) ==
    /\ LeasedBy(w, j)
    /\ jobs' = [jobs EXCEPT ![j] = Released(jobs[j])]
    /\ UNCHANGED runs

\* Mutant of WithRunsFailed: the runs are given the status of their Job.
WithRunsWaiting(S) ==
    [r \in Runs |-> IF runs[r].job \in S /\ runs[r].status = "running"
                    THEN [runs[r] EXCEPT !.status = "retry_waiting"]
                    ELSE runs[r]]

(* Both ways a Job loses its lease close the runs it left running.         *)
WithRunsFailed(S) ==
    [r \in Runs |-> IF runs[r].job \in S /\ runs[r].status = "running"
                    THEN [runs[r] EXCEPT !.status = "failed"]
                    ELSE runs[r]]

\* Mutant of AttemptLeft: off by one at the limit.
AttemptLeftOffByOne(row) == row.attempts <= MaxAttempts

AttemptLeft(row) == row.attempts < MaxAttempts

(* fail: one transaction that decides between a retry, which waits for its *)
(* delay, and the end of the Job.                                          *)
Failed(row, retryable) ==
    LET shouldRetry == retryable /\ AttemptLeft(row)
    IN  [row EXCEPT !.status = IF shouldRetry THEN "retry_waiting" ELSE "failed",
                    !.available = IF shouldRetry THEN FALSE ELSE row.available,
                    !.lockedBy = NoWorker,
                    !.expired = FALSE,
                    !.error = IF retryable THEN "transient" ELSE "permanent"]

Fail(w, j, retryable) ==
    /\ LeasedBy(w, j)
    /\ jobs' = [jobs EXCEPT ![j] = Failed(jobs[j], retryable)]
    /\ runs' = WithRunsFailed({j})

(* recoverStaleJobs: one statement over every Job whose lease has expired; *)
(* a Job with an attempt left may be claimed again at once.                *)
Recovered(row) ==
    [row EXCEPT !.status = IF AttemptLeft(row) THEN "retry_waiting" ELSE "failed",
                !.available = IF AttemptLeft(row) THEN TRUE ELSE row.available,
                !.lockedBy = NoWorker,
                !.expired = FALSE,
                !.error = "JOB_LOCK_EXPIRED"]

RecoverStaleJobs ==
    /\ jobs' = [j \in Jobs |-> IF j \in StaleJobs THEN Recovered(jobs[j]) ELSE jobs[j]]
    /\ runs' = WithRunsFailed(StaleJobs)

-----------------------------------------------------------------------------
(* The run table. *)

StartRun(j, r) ==
    /\ jobs[j].status # "absent"        \* the foreign key on job_id
    /\ runs[r].status = "absent"        \* a new UUID
    /\ runs' = [runs EXCEPT ![r] = [job |-> j, status |-> "running"]]
    /\ UNCHANGED jobs

CompleteRun(r) ==
    /\ runs[r].status = "running"
    /\ runs' = [runs EXCEPT ![r].status = "completed"]
    /\ UNCHANGED jobs

FailRun(r) ==
    /\ runs[r].status = "running"
    /\ runs' = [runs EXCEPT ![r].status = "failed"]
    /\ UNCHANGED jobs

-----------------------------------------------------------------------------
(* NOW() passes available_at, and locked_at + lockTimeoutMs. *)

BecomeAvailable(j) ==
    /\ jobs[j].status \in {"queued", "retry_waiting"}
    /\ ~jobs[j].available
    /\ jobs' = [jobs EXCEPT ![j].available = TRUE]
    /\ UNCHANGED runs

LeaseExpires(j) ==
    /\ jobs[j].status = "processing"
    /\ ~jobs[j].expired
    /\ jobs' = [jobs EXCEPT ![j].expired = TRUE]
    /\ UNCHANGED runs

QueueNext ==
    \/ \E j \in Jobs, b \in BOOLEAN : Enqueue(j, b) \/ Requeue(j, b)
    \/ \E w \in Workers, j \in Jobs :
        \/ \E skipped \in SUBSET Jobs : Claim(w, j, skipped)
        \/ Complete(w, j)
        \/ ExtendLease(w, j)
        \/ Release(w, j)
        \/ \E retryable \in BOOLEAN : Fail(w, j, retryable)
    \/ RecoverStaleJobs
    \/ \E j \in Jobs, r \in Runs : StartRun(j, r)
    \/ \E r \in Runs : CompleteRun(r) \/ FailRun(r)
    \/ \E j \in Jobs : BecomeAvailable(j) \/ LeaseExpires(j)

QueueSpec == QueueInit /\ [][QueueNext]_queueVars

-----------------------------------------------------------------------------
(* The rows have the shape of the schema.                                  *)
QueueTypeOK ==
    /\ jobs \in [Jobs -> JobRow]
    /\ runs \in [Runs -> RunRow]

(* A Job waiting for a claim always has an attempt left, a claimed Job has *)
(* used one, and no sequence of claims, releases, failures, expiries and   *)
(* requeues takes attempts past maxAttempts: claimNext itself never        *)
(* compares attempts with the limit, so every way back to the queue must   *)
(* have done so.                                                           *)
AttemptsBounded ==
    \A j \in Jobs :
        /\ jobs[j].attempts <= MaxAttempts
        /\ jobs[j].status \in {"queued", "retry_waiting"} => jobs[j].attempts < MaxAttempts
        /\ jobs[j].status = "processing" => jobs[j].attempts >= 1

(* Whatever the callers do, a completed Job never runs again, and a failed *)
(* Job comes back only as a whole new Job: unlocked, with no attempt used  *)
(* and no old error.                                                       *)
OutcomeIsFinal ==
    [][\A j \in Jobs :
        /\ jobs[j].status = "completed" => jobs'[j] = jobs[j]
        /\ jobs[j].status = "failed" /\ jobs'[j] # jobs[j] =>
             /\ jobs[j].error # "permanent"
             /\ jobs'[j].status = "queued"
             /\ jobs'[j].attempts = 0
             /\ jobs'[j].lockedBy = NoWorker
             /\ jobs'[j].error = "none"]_jobs
=============================================================================
