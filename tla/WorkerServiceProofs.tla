------------------------- MODULE WorkerServiceProofs -------------------------
(***************************************************************************)
(* The queue and its workers implement JobService: every step of Worker is *)
(* a step of the service or leaves what a client can observe unchanged.    *)
(* A process that stops cleanly leaves no Job locked.  And, with the       *)
(* history variable of WorkerLease, the leases of the executions keep the  *)
(* contract of JobLease.                                                   *)
(***************************************************************************)
EXTENDS WorkerProofs, WorkerLease

-----------------------------------------------------------------------------
(* The statements as a client sees them. *)

Pending == {"queued", "processing", "retry_waiting"}

LEMMA PendingOutcome ==
  /\ ServiceOutcome("absent") = "none"
  /\ \A status \in Pending : ServiceOutcome(status) = "pending"
  /\ ServiceOutcome("completed") = "completed"
  /\ ServiceOutcome("failed") = "failed"
  BY DEF ServiceOutcome, Pending

(* Claims, releases, renewals and the clock leave every outcome open.      *)
LEMMA OutcomesKept ==
  ASSUME QueueTypeOK,
         \/ UNCHANGED jobs
         \/ \E w \in Workers, j \in Jobs, S \in SUBSET Jobs : Claim(w, j, S)
         \/ \E w \in Workers, j \in Jobs : Release(w, j) \/ ExtendLease(w, j)
         \/ \E j \in Jobs : BecomeAvailable(j) \/ LeaseExpires(j)
  PROVE  Outcomes' = Outcomes
<1> SUFFICES ASSUME NEW k \in Jobs
             PROVE  ServiceOutcome(jobs'[k].status) = ServiceOutcome(jobs[k].status)
  BY DEF Outcomes
<1> USE DEF QueueTypeOK
<1>1. CASE UNCHANGED jobs
  BY <1>1
<1>2. ASSUME NEW w \in Workers, NEW j \in Jobs, NEW S, Claim(w, j, S)
      PROVE  ServiceOutcome(jobs'[k].status) = ServiceOutcome(jobs[k].status)
  <2>1. jobs[j].status \in Pending
    BY <1>2 DEF Claim, OldestClaimable, Claimable, Pending
  <2>2. Claimed(jobs[j], w).status \in Pending
    BY DEF Claimed, JobRow, Pending
  <2> QED BY <1>2, <2>1, <2>2, PendingOutcome DEF Claim
<1>3. ASSUME NEW w \in Workers, NEW j \in Jobs, Release(w, j)
      PROVE  ServiceOutcome(jobs'[k].status) = ServiceOutcome(jobs[k].status)
  <2>1. jobs[j].status \in Pending
    BY <1>3 DEF Release, LeasedBy, Pending
  <2>2. Released(jobs[j]).status \in Pending
    BY DEF Released, JobRow, Pending
  <2> QED BY <1>3, <2>1, <2>2, PendingOutcome DEF Release
<1>4. ASSUME NEW w \in Workers, NEW j \in Jobs, ExtendLease(w, j)
      PROVE  jobs'[k].status = jobs[k].status
  BY <1>4 DEF ExtendLease, JobRow
<1>5. ASSUME NEW j \in Jobs, BecomeAvailable(j)
      PROVE  jobs'[k].status = jobs[k].status
  BY <1>5 DEF BecomeAvailable, JobRow
<1>6. ASSUME NEW j \in Jobs, LeaseExpires(j)
      PROVE  jobs'[k].status = jobs[k].status
  BY <1>6 DEF LeaseExpires, JobRow
<1> QED BY <1>1, <1>2, <1>3, <1>4, <1>5, <1>6

LEMMA EnqueueOutcome ==
  ASSUME QueueTypeOK, NEW j \in Jobs, NEW b \in BOOLEAN, Enqueue(j, b)
  PROVE  Outcomes[j] = "none" /\ Outcomes' = [Outcomes EXCEPT ![j] = "pending"]
<1>1. jobs[j].status = "absent" /\ jobs'[j].status = "queued"
  BY DEF Enqueue, QueueTypeOK, NoJobRow
<1>2. \A k \in Jobs : k # j => jobs'[k] = jobs[k]
  BY DEF Enqueue, QueueTypeOK
<1> QED BY <1>1, <1>2, PendingOutcome DEF Outcomes, Pending

LEMMA CompleteOutcome ==
  ASSUME QueueTypeOK, NEW w \in Workers, NEW j \in Jobs, Complete(w, j)
  PROVE  Outcomes[j] = "pending" /\ Outcomes' = [Outcomes EXCEPT ![j] = "completed"]
<1>1. jobs[j].status = "processing" /\ jobs'[j].status = "completed"
  BY DEF Complete, Completed, LeasedBy, QueueTypeOK, JobRow
<1>2. \A k \in Jobs : k # j => jobs'[k] = jobs[k]
  BY DEF Complete, QueueTypeOK
<1> QED BY <1>1, <1>2, PendingOutcome DEF Outcomes, Pending

(* fail and the recovery end some of the processing Jobs as failed and put *)
(* the others back.                                                        *)
LEMMA GiveUpOutcome ==
  ASSUME QueueTypeOK,
         \/ RecoverStaleJobs
         \/ \E w \in Workers, j \in Jobs, b \in BOOLEAN : Fail(w, j, b)
  PROVE  \E S \in SUBSET Jobs :
           /\ \A j \in S : Outcomes[j] = "pending"
           /\ Outcomes' = [j \in Jobs |-> IF j \in S THEN "failed" ELSE Outcomes[j]]
<1> DEFINE S == {j \in Jobs : jobs[j].status = "processing" /\ jobs'[j].status = "failed"}
<1>1. \A k \in Jobs : \/ jobs'[k].status = jobs[k].status
                      \/ /\ jobs[k].status = "processing"
                         /\ jobs'[k].status \in {"retry_waiting", "failed"}
  <2>1. CASE RecoverStaleJobs
    BY <2>1 DEF RecoverStaleJobs, StaleJobs, Recovered, QueueTypeOK, JobRow
  <2>2. ASSUME NEW w \in Workers, NEW j \in Jobs, NEW b \in BOOLEAN, Fail(w, j, b)
        PROVE  \A k \in Jobs : \/ jobs'[k].status = jobs[k].status
                               \/ /\ jobs[k].status = "processing"
                                  /\ jobs'[k].status \in {"retry_waiting", "failed"}
    <3>1. Failed(jobs[j], b).status \in {"retry_waiting", "failed"}
      BY DEF Failed, QueueTypeOK, JobRow
    <3> QED BY <2>2, <3>1 DEF Fail, LeasedBy, QueueTypeOK
  <2> QED BY <2>1, <2>2
<1>2. \A j \in S : Outcomes[j] = "pending"
  BY PendingOutcome DEF Outcomes, Pending
<1>3. \A k \in Jobs : ServiceOutcome(jobs'[k].status)
                        = IF k \in S THEN "failed" ELSE ServiceOutcome(jobs[k].status)
  BY <1>1, PendingOutcome DEF Pending
<1>4. Outcomes' = [j \in Jobs |-> IF j \in S THEN "failed" ELSE Outcomes[j]]
  BY <1>3 DEF Outcomes
<1> QED BY <1>2, <1>4

(* Closing a run that was left running takes no result away.               *)
LEMMA ProductionKept ==
  ASSUME QueueTypeOK,
         \/ UNCHANGED runs
         \/ \E S : runs' = WithRunsFailed(S)
         \/ \E r \in Runs : FailRun(r)
  PROVE  Started' = Started /\ Produced' = Produced
<1>1. \A j : RunsOf(j)' = RunsOf(j)
  BY RunJobsKept
<1>2. ASSUME NEW q \in Runs
      PROVE  runs'[q].status = "completed" <=> runs[q].status = "completed"
  <2>1. CASE UNCHANGED runs
    BY <2>1
  <2>2. ASSUME NEW S, runs' = WithRunsFailed(S)
        PROVE  runs'[q].status = "completed" <=> runs[q].status = "completed"
    BY <2>2 DEF WithRunsFailed, QueueTypeOK, RunRow
  <2>3. ASSUME NEW r \in Runs, FailRun(r)
        PROVE  runs'[q].status = "completed" <=> runs[q].status = "completed"
    BY <2>3 DEF FailRun, QueueTypeOK, RunRow
  <2> QED BY <2>1, <2>2, <2>3
<1>3. Started' = Started
  BY <1>1 DEF Started
<1>4. Produced' = Produced
  <2> SUFFICES ASSUME NEW j \in Jobs
               PROVE  (\E r \in RunsOf(j)' : runs'[r].status = "completed")
                        <=> (\E r \in RunsOf(j) : runs[r].status = "completed")
    BY DEF Produced
  <2> QED BY <1>1, <1>2 DEF RunsOf
<1> QED BY <1>3, <1>4

-----------------------------------------------------------------------------
(* The runs as a client sees them. *)

LEMMA StartIsServiceStep ==
  ASSUME Core, AllPaid, AttemptsBounded, NEW s \in Slots, NEW r \in Runs,
         PersistStart(s, r), NEW j \in Jobs, j = JobOf(s)
  PROVE  Service!StartOneRun(j)
<1>q. QueueTypeOK /\ jobs[j].attempts \in Nat /\ Paid(j)
  BY AttemptsType DEF Core, TypeOK, AllPaid
<1>1. /\ jobs[j].status # "absent"
      /\ runs[r] = [job |-> NoJob, status |-> "absent"]
      /\ runs' = [runs EXCEPT ![r] = [job |-> j, status |-> "running"]]
      /\ UNCHANGED jobs
      /\ s \in Unstarted(j)
  BY <1>q DEF PersistStart, StartRun, Core, RunsOK, QueueTypeOK, RunRow, Unstarted, JobOf
<1>2. Outcomes[j] # "none"
  <2>1. jobs[j].status \in Pending \cup {"completed", "failed"}
    BY <1>1, <1>q DEF QueueTypeOK, JobRow, JobStatus, Pending
  <2> QED BY <2>1, PendingOutcome DEF Outcomes
<1>3. Cardinality(RunsOf(j)) \in Nat /\ Cardinality(RunsOf(j)) < MaxAttempts
  <2>1. Cardinality(Unstarted(j)) \in Nat /\ Cardinality(RunsOf(j)) \in Nat
    BY <1>q, FS_CardinalityType DEF Paid
  <2>2. Cardinality(Unstarted(j)) # 0
    BY <1>1, <1>q, FS_EmptySet DEF Paid
  <2> QED
    BY <2>1, <2>2, <1>q, QueueAssumption DEF Paid, AttemptsBounded
<1>4. j # NoJob
  BY DEF Jobs, NoJob
<1>5. RunsOf(j)' = RunsOf(j) \cup {r} /\ r \notin RunsOf(j)
  BY <1>1, <1>4, <1>q DEF RunsOf, QueueTypeOK
<1>6. \A k \in Jobs : k # j => RunsOf(k)' = RunsOf(k)
  BY <1>1, <1>q DEF RunsOf, QueueTypeOK, Jobs, NoJob
<1>7. Cardinality(RunsOf(j)') = Cardinality(RunsOf(j)) + 1
  BY <1>5, <1>q, FS_AddElement DEF Paid
<1>8. Started' = [Started EXCEPT ![j] = Started[j] + 1]
  BY <1>4, <1>6, <1>7 DEF Started
<1>9. Produced' = Produced
  <2> SUFFICES ASSUME NEW k \in Jobs
               PROVE  (\E q \in RunsOf(k)' : runs'[q].status = "completed")
                        <=> (\E q \in RunsOf(k) : runs[q].status = "completed")
    BY DEF Produced
  <2>1. runs'[r].status # "completed" /\ \A q \in Runs : q # r => runs'[q] = runs[q]
    BY <1>1, <1>q DEF QueueTypeOK
  <2>2. \A q \in RunsOf(k)' : q # r => q \in RunsOf(k)
    BY <1>5, <1>6
  <2>3. RunsOf(k) \subseteq RunsOf(k)' /\ r \notin RunsOf(k)
    BY <1>1, <1>5, <1>6 DEF RunsOf, Jobs, NoJob
  <2> QED BY <2>1, <2>2, <2>3 DEF RunsOf
<1>10. Outcomes' = Outcomes
  BY <1>1, <1>q, OutcomesKept
<1>11. Started[j] < MaxAttempts
  BY <1>3, <1>4 DEF Started
<1> QED BY <1>2, <1>8, <1>9, <1>10, <1>11 DEF Service!StartOneRun

LEMMA ProduceIsServiceStep ==
  ASSUME Core, AllPaid, NEW s \in Slots, PersistCompletion(s),
         NEW j \in Jobs, j = JobOf(s)
  PROVE  Service!Produce(j)
<1>q. QueueTypeOK /\ Paid(j)
  BY DEF Core, TypeOK, AllPaid
<1>1. PICK r \in Runs : runs[r].job = j /\ CompleteRun(r)
  BY DEF PersistCompletion, Core, SlotsOK, SlotOK, HasRun, JobOf
<1>2. runs' = [runs EXCEPT ![r].status = "completed"] /\ UNCHANGED jobs
  BY <1>1 DEF CompleteRun
<1>3. \A k : RunsOf(k)' = RunsOf(k)
  BY <1>1, <1>q, RunJobsKept
<1>4. Started' = Started /\ Outcomes' = Outcomes
  BY <1>2, <1>3, <1>q, OutcomesKept DEF Started
<1>5. Started[j] > 0
  <2>1. r \in RunsOf(j)
    BY <1>1 DEF RunsOf
  <2>2. IsFiniteSet(RunsOf(j)) /\ Cardinality(RunsOf(j)) \in Nat /\ Cardinality(RunsOf(j)) # 0
    BY <1>q, <2>1, FS_CardinalityType, FS_EmptySet DEF Paid
  <2> QED BY <2>2 DEF Started
<1>6. Produced' = [Produced EXCEPT ![j] = TRUE]
  <2>1. runs'[r].status = "completed" /\ \A q \in Runs : q # r => runs'[q] = runs[q]
    BY <1>1, <1>2, <1>q DEF QueueTypeOK, RunRow
  <2>2. r \in RunsOf(j) /\ \A k : k # j => r \notin RunsOf(k)
    BY <1>1 DEF RunsOf
  <2>3. \E q \in RunsOf(j)' : runs'[q].status = "completed"
    BY <2>1, <2>2, <1>3
  <2>4. ASSUME NEW k \in Jobs, k # j
        PROVE  (\E q \in RunsOf(k)' : runs'[q].status = "completed")
                 <=> (\E q \in RunsOf(k) : runs[q].status = "completed")
    BY <2>1, <2>2, <2>4, <1>3 DEF RunsOf
  <2> QED BY <2>3, <2>4 DEF Produced
<1> QED BY <1>4, <1>5, <1>6 DEF Service!Produce

LEMMA CompleteIsServiceStep ==
  ASSUME Core, NEW s \in Slots, CompleteJob(s), NEW j \in Jobs, j = JobOf(s)
  PROVE  Service!Succeed(j)
<1>q. WorkerOf(s) \in Workers /\ QueueTypeOK
  BY WorkerOfType DEF Core, TypeOK
<1>1. Complete(WorkerOf(s), j) /\ UNCHANGED runs
  BY DEF CompleteJob, Complete
<1>2. Produced[j]
  <2>1. /\ slots[s].run \in Runs
        /\ runs[slots[s].run] = [job |-> j, status |-> "completed"]
    BY DEF CompleteJob, Core, SlotsOK, SlotOK, HasOutput, JobOf
  <2>2. \E r \in RunsOf(j) : runs[r].status = "completed"
    BY <2>1 DEF RunsOf
  <2> QED BY <2>2 DEF Produced
<1>3. Started' = Started /\ Produced' = Produced
  BY <1>q, <1>1, ProductionKept
<1>4. Outcomes[j] = "pending" /\ Outcomes' = [Outcomes EXCEPT ![j] = "completed"]
  BY <1>q, <1>1, CompleteOutcome
<1> QED BY <1>2, <1>3, <1>4 DEF Service!Succeed

-----------------------------------------------------------------------------
(* Every step of Worker. *)

ServiceStep == [Service!ServiceNext]_(Service!serviceVars)

(* A step that changes nothing a client sees.                              *)
LEMMA Unobserved ==
  ASSUME Outcomes' = Outcomes, Started' = Started, Produced' = Produced
  PROVE  ServiceStep
  BY DEF ServiceStep, Service!serviceVars

LEMMA GiveUpIsServiceStep ==
  ASSUME QueueTypeOK,
         \/ RecoverStaleJobs
         \/ \E w \in Workers, j \in Jobs, b \in BOOLEAN : Fail(w, j, b)
  PROVE  ServiceStep
<1>1. Started' = Started /\ Produced' = Produced
  BY ProductionKept DEF RecoverStaleJobs, Fail
<1>2. PICK S \in SUBSET Jobs :
        /\ \A j \in S : Outcomes[j] = "pending"
        /\ Outcomes' = [j \in Jobs |-> IF j \in S THEN "failed" ELSE Outcomes[j]]
  BY GiveUpOutcome
<1>3. Service!GiveUp(S)
  BY <1>1, <1>2 DEF Service!GiveUp
<1> QED BY <1>3 DEF ServiceStep, Service!ServiceNext

LEMMA SlotServiceStep ==
  ASSUME Core, AllPaid, AttemptsBounded, NEW s \in Slots, SlotStep(s)
  PROVE  ServiceStep
<1>q. QueueTypeOK /\ WorkerOf(s) \in Workers
  BY WorkerOfType DEF Core, TypeOK
<1>j. slots[s].pc \notin {"idle", "recovering", "claiming"} => JobOf(s) \in Jobs
  BY DEF Core, SlotsOK, SlotOK, HasJob, JobOf
<1> USE DEF ServiceStep, Service!ServiceNext
<1>1. CASE Recover(s)
  BY <1>1, <1>q, GiveUpIsServiceStep DEF Recover
<1>2. ASSUME NEW j \in Jobs, ClaimNext(s, j)
      PROVE  ServiceStep
  <2>1. PICK S \in SUBSET Jobs : Claim(WorkerOf(s), j, S)
    BY <1>2 DEF ClaimNext, SkippableRows
  <2>2. Outcomes' = Outcomes
    BY <1>q, <2>1, OutcomesKept
  <2>3. UNCHANGED runs
    BY <2>1 DEF Claim
  <2> QED BY <1>q, <2>2, <2>3, ProductionKept, Unobserved
<1>3. CASE ReleaseClaim(s)
  <2>1. JobOf(s) \in Jobs /\ Release(WorkerOf(s), JobOf(s)) /\ UNCHANGED runs
    BY <1>3, <1>j DEF ReleaseClaim, Release
  <2> QED BY <1>q, <2>1, OutcomesKept, ProductionKept, Unobserved
<1>4. CASE UNCHANGED <<jobs, runs>>
  BY <1>4, <1>q, OutcomesKept, ProductionKept, Unobserved
<1>5. ASSUME NEW r \in Runs, PersistStart(s, r)
      PROVE  ServiceStep
  BY <1>5, <1>j, StartIsServiceStep DEF PersistStart
<1>6. CASE PersistCompletion(s)
  BY <1>6, <1>j, ProduceIsServiceStep DEF PersistCompletion
<1>7. CASE PersistFailure(s)
  <2>1. slots[s].run \in Runs
    BY <1>7 DEF PersistFailure, Core, SlotsOK, SlotOK, HasRun
  <2>2. FailRun(slots[s].run) /\ UNCHANGED jobs
    BY <1>7 DEF PersistFailure, FailRun
  <2> QED BY <1>q, <2>1, <2>2, OutcomesKept, ProductionKept, Unobserved
<1>8. CASE CompleteJob(s)
  BY <1>8, <1>j, CompleteIsServiceStep DEF CompleteJob
<1>9. CASE FailJob(s)
  <2>1. /\ JobOf(s) \in Jobs
        /\ \E b \in BOOLEAN : Fail(WorkerOf(s), JobOf(s), b)
    BY <1>9, <1>j DEF FailJob
  <2> QED BY <1>q, <2>1, GiveUpIsServiceStep
<1>10. CASE \/ Poll(s) \/ ClaimNothing(s) \/ ClaimAnswered(s) \/ PersistError(s)
            \/ AbandonLostLease(s) \/ ReportOutcome(s) \/ ClaimError(s)
            \/ PersistStartError(s) \/ WriteRejected(s)
  <2>1. UNCHANGED <<jobs, runs>>
    BY <1>10 DEF Poll, ClaimNothing, ClaimAnswered, PersistError, AbandonLostLease,
                 ReportOutcome, ClaimError, PersistStartError, WriteRejected
  <2> QED BY <1>4, <2>1
<1> QED
  BY <1>1, <1>2, <1>3, <1>5, <1>6, <1>7, <1>8, <1>9, <1>10 DEF SlotStep

LEMMA LeaseServiceStep ==
  ASSUME Core, NEW s \in Slots,
         Heartbeat(s) \/ HeartbeatRefused(s) \/ LeaseDeadline(s)
  PROVE  ServiceStep
<1>q. QueueTypeOK /\ WorkerOf(s) \in Workers
  BY WorkerOfType DEF Core, TypeOK
<1>1. CASE Heartbeat(s)
  <2>1. JobOf(s) \in Jobs
    BY <1>1 DEF Heartbeat, Monitored, Core, SlotsOK, SlotOK, HasJob, JobOf
  <2>2. ExtendLease(WorkerOf(s), JobOf(s)) /\ UNCHANGED runs
    BY <1>1 DEF Heartbeat, ExtendLease
  <2> QED BY <1>q, <2>1, <2>2, OutcomesKept, ProductionKept, Unobserved
<1>2. CASE HeartbeatRefused(s) \/ LeaseDeadline(s)
  <2>1. UNCHANGED <<jobs, runs>>
    BY <1>2 DEF HeartbeatRefused, LeaseDeadline
  <2> QED BY <1>q, <2>1, OutcomesKept, ProductionKept, Unobserved
<1> QED BY <1>1, <1>2

LEMMA OtherServiceStep ==
  ASSUME Core,
         \/ \E j \in Jobs, b \in BOOLEAN : EnqueueJob(j, b)
         \/ \E w \in Workers : StartWorker(w) \/ Stop(w) \/ Exit(w) \/ Crash(w)
         \/ \E j \in Jobs : Clock(j)
         \/ UNCHANGED vars
  PROVE  ServiceStep
<1>q. QueueTypeOK
  BY DEF Core, TypeOK
<1>1. UNCHANGED runs
  BY DEF EnqueueJob, StartWorker, Stop, Exit, Crash, Clock, vars, Enqueue,
         BecomeAvailable, LeaseExpires
<1>2. Started' = Started /\ Produced' = Produced
  BY <1>q, <1>1, ProductionKept
<1>3. ASSUME NEW j \in Jobs, NEW b \in BOOLEAN, EnqueueJob(j, b)
      PROVE  ServiceStep
  <2>1. Outcomes[j] = "none" /\ Outcomes' = [Outcomes EXCEPT ![j] = "pending"]
    BY <1>3, <1>q, EnqueueOutcome DEF EnqueueJob
  <2>2. Service!Submit(j)
    BY <1>2, <2>1 DEF Service!Submit
  <2> QED BY <2>2 DEF ServiceStep, Service!ServiceNext
<1>4. CASE \/ \E w \in Workers : StartWorker(w) \/ Stop(w) \/ Exit(w) \/ Crash(w)
           \/ \E j \in Jobs : Clock(j)
           \/ UNCHANGED vars
  <2>1. UNCHANGED jobs \/ \E j \in Jobs : BecomeAvailable(j) \/ LeaseExpires(j)
    BY <1>4 DEF StartWorker, Stop, Exit, Crash, Clock, vars
  <2> QED BY <1>q, <1>2, <2>1, OutcomesKept, Unobserved
<1> QED BY <1>3, <1>4

LEMMA WorkerStepIsServiceStep ==
  ASSUME Core, AllPaid, AttemptsBounded, [Next]_vars
  PROVE  ServiceStep
  BY SlotServiceStep, LeaseServiceStep, OtherServiceStep DEF Next

LEMMA ServiceInitially == Init => Service!ServiceInit
<1> SUFFICES ASSUME Init
             PROVE  Service!ServiceInit
  OBVIOUS
<1>1. \A j \in Jobs : RunsOf(j) = {}
  BY DEF Init, QueueInit, RunsOf, NoRunRow, Jobs, NoJob
<1>2. Outcomes = [j \in Jobs |-> "none"]
  BY PendingOutcome DEF Init, QueueInit, NoJobRow, Outcomes
<1>3. Started = [j \in Jobs |-> 0]
  BY <1>1, FS_EmptySet DEF Started
<1>4. Produced = [j \in Jobs |-> FALSE]
  BY <1>1 DEF Produced
<1> QED BY <1>2, <1>3, <1>4 DEF Service!ServiceInit

LEMMA ServiceInvariant == Spec => [](Core /\ AllPaid /\ AttemptsBounded)
  BY PaidInvariant, WorkersUseTheQueue, QueueAttemptsBounded, PTL

(* The queue and its workers keep the promise made to clients: at most     *)
(* MaxAttempts runs, one outcome, and a result behind every success.       *)
THEOREM WorkersImplementService == Spec => ImplementsService
<1>1. Core /\ AllPaid /\ AttemptsBounded /\ [Next]_vars
        => [Service!ServiceNext]_(Service!serviceVars)
  BY WorkerStepIsServiceStep DEF ServiceStep
<1> QED
  BY <1>1, ServiceInitially, ServiceInvariant, PTL
     DEF Spec, ImplementsService, Service!ServiceSpec

-----------------------------------------------------------------------------
(* What every implementation of the service satisfies: a result, once      *)
(* produced, stays, and a success has one.                                 *)
ResultOK == \A j \in Jobs : Outcomes[j] = "completed" => Produced[j]

LEMMA ResultStep ==
  ASSUME ResultOK, ServiceStep
  PROVE  ResultOK'
<1> SUFFICES ASSUME NEW k \in Jobs, Outcomes'[k] = "completed"
             PROVE  Produced'[k]
  BY DEF ResultOK
<1>d. DOMAIN Outcomes = Jobs /\ DOMAIN Produced = Jobs
  BY DEF Outcomes, Produced
<1>f. /\ Outcomes = [j \in Jobs |-> Outcomes[j]]
      /\ Produced = [j \in Jobs |-> Produced[j]]
  BY DEF Outcomes, Produced
<1> USE DEF ResultOK
<1>1. ASSUME NEW j \in Jobs, Service!Submit(j)
      PROVE  Produced'[k]
  BY <1>1, <1>f DEF Service!Submit
<1>2. ASSUME NEW j \in Jobs, Service!StartOneRun(j)
      PROVE  Produced'[k]
  BY <1>2 DEF Service!StartOneRun
<1>3. ASSUME NEW j \in Jobs, Service!Produce(j)
      PROVE  Produced'[k]
  BY <1>3, <1>f DEF Service!Produce
<1>4. ASSUME NEW j \in Jobs, Service!Succeed(j)
      PROVE  Produced'[k]
  BY <1>4, <1>f DEF Service!Succeed
<1>5. ASSUME NEW S \in SUBSET Jobs, Service!GiveUp(S)
      PROVE  Produced'[k]
  BY <1>5 DEF Service!GiveUp
<1>6. CASE UNCHANGED Service!serviceVars
  BY <1>6 DEF Service!serviceVars
<1> QED
  BY <1>1, <1>2, <1>3, <1>4, <1>5, <1>6 DEF ServiceStep, Service!ServiceNext

(* A completed Job has a run recorded as completed, however many           *)
(* executions of it overlapped.                                            *)
THEOREM CompletedJobsHaveResults == Spec => []CompletedJobHasCompletedRun
<1>1. Init => ResultOK
  BY ServiceInitially DEF Service!ServiceInit, ResultOK
<1>2. Core /\ AllPaid /\ AttemptsBounded /\ ResultOK /\ [Next]_vars => ResultOK'
  BY WorkerStepIsServiceStep, ResultStep
<1>3. ResultOK => CompletedJobHasCompletedRun
  BY PendingOutcome DEF ResultOK, Outcomes, Produced, CompletedJobHasCompletedRun
<1> QED BY <1>1, <1>2, <1>3, ServiceInvariant, PTL DEF Spec

-----------------------------------------------------------------------------
(* A worker process that stops cleanly leaves no Job locked, for every     *)
(* number of processes, slots and Jobs.  The invariant: as long as a       *)
(* process has met no error and lost no lease, each of its leases is held  *)
(* by one of its executions, so a process without executions has none.     *)

Holds(slot, j) == slot.pc \notin {"idle", "recovering", "claiming"} /\ slot.job = j

(* The processes the promise is about: the others may leave a lock behind  *)
(* that only its timeout ends.                                             *)
Clean(w) ==
    /\ procs[w].state # "crashed"
    /\ ~procs[w].pollFailure
    /\ ~procs[w].lostLease

ActiveOK ==
    \A s \in Slots : Active(s) => procs[WorkerOf(s)].state \in {"polling", "stopping"}

LostOK == \A s \in Slots : slots[s].leaseLost => procs[WorkerOf(s)].lostLease

LeasesHeld ==
    \A w \in Workers, j \in Jobs :
        Clean(w) /\ LeasedBy(w, j) =>
            \E s \in Slots : WorkerOf(s) = w /\ Holds(slots[s], j)

ExitInv == ActiveOK /\ LostOK /\ LeasesHeld

LEMMA ExitInit == Init => ExitInv
  BY DEF Init, QueueInit, ExitInv, ActiveOK, LostOK, LeasesHeld, Active, IdleSlot,
         LeasedBy, NoJobRow

-----------------------------------------------------------------------------
(* What a step of slot s leaves of the processes: only the flags of its    *)
(* own process may be raised.                                              *)
ProcsAfter(s) ==
    \A v \in Workers :
        /\ procs'[v].state = procs[v].state
        /\ procs[v].pollFailure => procs'[v].pollFailure
        /\ procs[v].lostLease => procs'[v].lostLease

LEMMA ProcsUnchanged == ASSUME UNCHANGED procs, NEW s PROVE ProcsAfter(s)
  BY DEF ProcsAfter

LEMMA ProcsRejected ==
  ASSUME procs \in [Workers -> ProcRow], NEW s \in Slots, Reject(s)
  PROVE  ProcsAfter(s) /\ procs'[WorkerOf(s)].pollFailure
<1>1. procs' = [procs EXCEPT ![WorkerOf(s)].pollFailure = TRUE] /\ WorkerOf(s) \in Workers
  BY WorkerOfType DEF Reject
<1> QED BY <1>1 DEF ProcsAfter, ProcRow

LEMMA ProcsLost ==
  ASSUME procs \in [Workers -> ProcRow], NEW s \in Slots, LoseLease(s)
  PROVE  ProcsAfter(s) /\ procs'[WorkerOf(s)].lostLease
<1>1. procs' = [procs EXCEPT ![WorkerOf(s)].lostLease = TRUE] /\ WorkerOf(s) \in Workers
  BY WorkerOfType DEF LoseLease
<1> QED BY <1>1 DEF ProcsAfter, ProcRow

(* The frame of the proof: slot s moves, its process keeps its state, and  *)
(* whatever s held is still held, let go of, or no longer promised.        *)
LEMMA ExitStepOfSlot ==
  ASSUME ExitInv, NEW s \in Slots,
         \A t \in Slots : t # s => slots'[t] = slots[t],
         ProcsAfter(s),
         slots'[s].pc # "idle" => procs[WorkerOf(s)].state \in {"polling", "stopping"},
         slots'[s].leaseLost => slots[s].leaseLost \/ procs'[WorkerOf(s)].lostLease,
         \A v \in Workers, k \in Jobs :
             LeasedBy(v, k)' => LeasedBy(v, k) \/ (v = WorkerOf(s) /\ Holds(slots'[s], k)),
         \A k \in Jobs : Holds(slots[s], k) =>
             \/ Holds(slots'[s], k)
             \/ ~LeasedBy(WorkerOf(s), k)'
             \/ ~Clean(WorkerOf(s))'
  PROVE  ExitInv'
<1>w. \A t \in Slots : WorkerOf(t) \in Workers
  BY WorkerOfType
<1>1. ActiveOK'
  BY <1>w DEF ExitInv, ActiveOK, Active, ProcsAfter
<1>2. LostOK'
  BY <1>w DEF ExitInv, LostOK, ProcsAfter
<1>3. LeasesHeld'
  <2> SUFFICES ASSUME NEW v \in Workers, NEW k \in Jobs, Clean(v)', LeasedBy(v, k)'
               PROVE  \E t \in Slots : WorkerOf(t) = v /\ Holds(slots'[t], k)
    BY DEF LeasesHeld, Holds
  <2>1. Clean(v)
    BY DEF Clean, ProcsAfter
  <2>2. CASE v = WorkerOf(s) /\ Holds(slots'[s], k)
    BY <2>2
  <2>3. CASE LeasedBy(v, k)
    <3>1. PICK t \in Slots : WorkerOf(t) = v /\ Holds(slots[t], k)
      BY <2>1, <2>3 DEF ExitInv, LeasesHeld
    <3>2. CASE t # s
      BY <3>1, <3>2
    <3>3. CASE t = s
      BY <3>1, <3>3
    <3> QED BY <3>2, <3>3
  <2> QED BY <2>2, <2>3
<1> QED BY <1>1, <1>2, <1>3 DEF ExitInv

-----------------------------------------------------------------------------
(* The steps that keep the execution going: same Job, same process.        *)
Moves(s) ==
    /\ slots[s].pc \notin {"idle", "recovering", "claiming"}
    /\ slots'[s].pc \notin {"idle", "recovering", "claiming"}
    /\ slots'[s].job = slots[s].job
    /\ slots'[s].leaseLost = slots[s].leaseLost
    /\ \A t \in Slots : t # s => slots'[t] = slots[t]
    /\ UNCHANGED <<jobs, procs>>

LEMMA Movers ==
  ASSUME Core, NEW s \in Slots,
         \/ ClaimAnswered(s) \/ ReportOutcome(s)
         \/ \E r \in Runs : PersistStart(s, r)
         \/ PersistStartError(s) \/ PersistCompletion(s)
         \/ PersistFailure(s) \/ PersistError(s)
  PROVE  Moves(s)
<1>s. slots \in [Slots -> SlotState] /\ slots[s] \in SlotState
  BY DEF Core, TypeOK
<1>1. slots[s].pc \notin {"idle", "recovering", "claiming"} /\ UNCHANGED <<jobs, procs>>
  BY DEF ClaimAnswered, ReportOutcome, PersistStart, PersistStartError,
         PersistCompletion, PersistFailure, PersistError, StartRun, CompleteRun, FailRun
<1>2. \/ \E pc \in {"releasing", "starting", "completing", "failing"} : GoTo(s, pc)
      \/ \E outcome \in Outcome : Settle(s, outcome)
      \/ \E r \in Runs :
            slots' = [slots EXCEPT ![s] = [slots[s] EXCEPT !.pc = "executing", !.run = r]]
  BY DEF ClaimAnswered, ReportOutcome, PersistStart, PersistStartError,
         PersistCompletion, PersistFailure, PersistError, Outcome
<1>3. ASSUME NEW pc \in {"releasing", "starting", "completing", "failing"}, GoTo(s, pc)
      PROVE  Moves(s)
  <2>1. /\ slots'[s] = [slots[s] EXCEPT !.pc = pc]
        /\ \A t \in Slots : t # s => slots'[t] = slots[t]
    BY <1>s, <1>3, GoToType DEF SlotPc
  <2>2. /\ slots'[s].pc = pc
        /\ slots'[s].job = slots[s].job
        /\ slots'[s].leaseLost = slots[s].leaseLost
    BY <1>s, <2>1 DEF SlotState
  <2> QED BY <1>1, <2>1, <2>2 DEF Moves
<1>4. ASSUME NEW outcome \in Outcome, Settle(s, outcome)
      PROVE  Moves(s)
  <2>1. /\ slots'[s] = [slots[s] EXCEPT !.pc = "ran", !.outcome = outcome]
        /\ \A t \in Slots : t # s => slots'[t] = slots[t]
    BY <1>s, <1>4, SettleType
  <2>2. /\ slots'[s].pc = "ran"
        /\ slots'[s].job = slots[s].job
        /\ slots'[s].leaseLost = slots[s].leaseLost
    BY <1>s, <2>1 DEF SlotState
  <2> QED BY <1>1, <2>1, <2>2 DEF Moves
<1>5. ASSUME NEW r \in Runs,
             slots' = [slots EXCEPT ![s] = [slots[s] EXCEPT !.pc = "executing", !.run = r]]
      PROVE  Moves(s)
  <2>1. /\ slots'[s] = [slots[s] EXCEPT !.pc = "executing", !.run = r]
        /\ \A t \in Slots : t # s => slots'[t] = slots[t]
    BY <1>s, <1>5
  <2>2. /\ slots'[s].pc = "executing"
        /\ slots'[s].job = slots[s].job
        /\ slots'[s].leaseLost = slots[s].leaseLost
    BY <1>s, <2>1 DEF SlotState
  <2> QED BY <1>1, <2>1, <2>2 DEF Moves
<1> QED BY <1>2, <1>3, <1>4, <1>5

LEMMA ExitSlotStep ==
  ASSUME Core, ExitInv, NEW s \in Slots, SlotStep(s)
  PROVE  ExitInv'
<1>q. /\ QueueTypeOK
      /\ slots \in [Slots -> SlotState]
      /\ procs \in [Workers -> ProcRow]
      /\ slots[s] \in SlotState
      /\ WorkerOf(s) \in Workers
  BY WorkerOfType DEF Core, TypeOK
<1>j. slots[s].pc \notin {"idle", "recovering", "claiming"} => JobOf(s) \in Jobs
  BY DEF Core, SlotsOK, SlotOK, HasJob, JobOf
<1>a. slots[s].pc # "idle" => procs[WorkerOf(s)].state \in {"polling", "stopping"}
  BY DEF ExitInv, ActiveOK, Active
<1>i. IdleSlot.pc = "idle" /\ IdleSlot.leaseLost = FALSE
  BY DEF IdleSlot
<1>1. ASSUME NEW pc \in {"recovering", "claiming"}, GoTo(s, pc), Poll(s) \/ Recover(s)
      PROVE  ExitInv'
  <2>1. /\ slots'[s] = [slots[s] EXCEPT !.pc = pc]
        /\ \A t \in Slots : t # s => slots'[t] = slots[t]
    BY <1>1, <1>q, GoToType DEF SlotPc
  <2>2. slots'[s].pc = pc /\ slots'[s].leaseLost = slots[s].leaseLost
    BY <1>q, <2>1 DEF SlotState
  <2>3. /\ procs[WorkerOf(s)].state \in {"polling", "stopping"}
        /\ slots[s].pc \in {"idle", "recovering"}
        /\ RecoverStaleJobs \/ UNCHANGED jobs
        /\ UNCHANGED procs
    BY <1>1, <1>a DEF Poll, Recover
  <2>4. \A v \in Workers, k \in Jobs : LeasedBy(v, k)' => LeasedBy(v, k)
    BY <1>q, <2>3, NoNewLease
  <2> QED BY <2>1, <2>2, <2>3, <2>4, ProcsUnchanged, ExitStepOfSlot DEF Holds
<1>2. ASSUME NEW j \in Jobs, ClaimNext(s, j)
      PROVE  ExitInv'
  <2>1. /\ slots'[s] = [slots[s] EXCEPT !.pc = "claimed", !.job = j]
        /\ \A t \in Slots : t # s => slots'[t] = slots[t]
        /\ slots[s].pc = "claiming"
        /\ UNCHANGED procs
    BY <1>2, <1>q DEF ClaimNext
  <2>2. /\ slots'[s].pc = "claimed"
        /\ slots'[s].job = j
        /\ slots'[s].leaseLost = slots[s].leaseLost
    BY <1>q, <2>1 DEF SlotState
  <2>3. jobs' = [jobs EXCEPT ![j] = Claimed(jobs[j], WorkerOf(s))]
    BY <1>2 DEF ClaimNext, Claim
  <2>4. Claimed(jobs[j], WorkerOf(s)).lockedBy = WorkerOf(s)
    BY <1>q DEF Claimed, QueueTypeOK, JobRow
  <2>5. \A v \in Workers, k \in Jobs :
            LeasedBy(v, k)' => LeasedBy(v, k) \/ (v = WorkerOf(s) /\ k = j)
    BY <1>q, <2>3, <2>4 DEF LeasedBy, QueueTypeOK
  <2> QED BY <1>a, <2>1, <2>2, <2>5, ProcsUnchanged, ExitStepOfSlot DEF Holds
<1>3. CASE ClaimNothing(s) \/ ClaimError(s) \/ WriteRejected(s) \/ AbandonLostLease(s)
  <2>1. UNCHANGED jobs /\ (Reject(s) \/ (Finish(s) /\ UNCHANGED procs))
    BY <1>3 DEF ClaimNothing, ClaimError, WriteRejected, AbandonLostLease
  <2>2. slots'[s] = IdleSlot /\ \A t \in Slots : t # s => slots'[t] = slots[t]
    BY <1>q, <2>1, FinishType, RejectType
  <2>3. ProcsAfter(s)
    BY <1>q, <2>1, ProcsRejected, ProcsUnchanged
  <2>4. \A v \in Workers, k \in Jobs : LeasedBy(v, k)' => LeasedBy(v, k)
    BY <1>q, <2>1, NoNewLease
  <2>5. slots[s].pc \notin {"idle", "recovering", "claiming"} => ~Clean(WorkerOf(s))'
    <3>1. CASE Reject(s)
      BY <1>q, <3>1, ProcsRejected DEF Clean
    <3>2. CASE ~Reject(s)
      BY <1>3, <1>q, <2>1, <3>2
         DEF ClaimNothing, ClaimError, WriteRejected, AbandonLostLease, ExitInv, LostOK, Clean
    <3> QED BY <3>1, <3>2
  <2> QED BY <1>i, <2>2, <2>3, <2>4, <2>5, ExitStepOfSlot DEF Holds
<1>4. CASE ReleaseClaim(s) \/ CompleteJob(s) \/ FailJob(s)
  <2>1. /\ slots[s].pc \notin {"idle", "recovering", "claiming"}
        /\ Reject(s) \/ (Finish(s) /\ UNCHANGED procs)
        /\ \/ Complete(WorkerOf(s), JobOf(s))
           \/ Release(WorkerOf(s), JobOf(s))
           \/ \E b \in BOOLEAN : Fail(WorkerOf(s), JobOf(s), b)
    BY <1>4 DEF ReleaseClaim, CompleteJob, FailJob
  <2>2. slots'[s] = IdleSlot /\ \A t \in Slots : t # s => slots'[t] = slots[t]
    BY <1>q, <2>1, FinishType, RejectType
  <2>3. ProcsAfter(s)
    BY <1>q, <2>1, ProcsRejected, ProcsUnchanged
  <2>4. \A v \in Workers, k \in Jobs : LeasedBy(v, k)' => LeasedBy(v, k)
    BY <1>q, <1>j, <2>1, NoNewLease
  <2>6. ASSUME NEW k \in Jobs, Holds(slots[s], k)
        PROVE  ~LeasedBy(WorkerOf(s), k)'
    <3>1. k = JobOf(s)
      BY <2>6 DEF Holds, JobOf
    <3> QED BY <1>q, <2>1, <3>1, LeaseEnds
  <2> QED BY <1>i, <2>2, <2>3, <2>4, <2>6, ExitStepOfSlot
<1>5. CASE Moves(s)
  <2>1. \A v \in Workers, k \in Jobs : LeasedBy(v, k)' => LeasedBy(v, k)
    BY <1>5 DEF Moves, LeasedBy
  <2> QED BY <1>5, <1>a, <2>1, ProcsUnchanged, ExitStepOfSlot DEF Moves, Holds
<1>6. Poll(s) \/ Recover(s) => \E pc \in {"recovering", "claiming"} : GoTo(s, pc)
  BY DEF Poll, Recover
<1> QED BY <1>1, <1>2, <1>3, <1>4, <1>5, <1>6, Movers DEF SlotStep

LEMMA ExitLeaseStep ==
  ASSUME Core, ExitInv, NEW s \in Slots,
         Heartbeat(s) \/ HeartbeatRefused(s) \/ LeaseDeadline(s)
  PROVE  ExitInv'
<1>q. /\ QueueTypeOK
      /\ slots \in [Slots -> SlotState]
      /\ procs \in [Workers -> ProcRow]
      /\ slots[s] \in SlotState
      /\ WorkerOf(s) \in Workers
  BY WorkerOfType DEF Core, TypeOK
<1>a. slots[s].pc # "idle" => procs[WorkerOf(s)].state \in {"polling", "stopping"}
  BY DEF ExitInv, ActiveOK, Active
<1>1. CASE Heartbeat(s)
  <2>1. JobOf(s) \in Jobs
    BY <1>1 DEF Heartbeat, Monitored, Core, SlotsOK, SlotOK, HasJob, JobOf
  <2>2. UNCHANGED <<procs, slots>> /\ ExtendLease(WorkerOf(s), JobOf(s))
    BY <1>1 DEF Heartbeat
  <2>3. \A v \in Workers, k \in Jobs : LeasedBy(v, k)' => LeasedBy(v, k)
    BY <1>q, <2>1, <2>2, NoNewLease
  <2> QED BY <1>a, <2>2, <2>3, ProcsUnchanged, ExitStepOfSlot
<1>2. CASE HeartbeatRefused(s) \/ LeaseDeadline(s)
  <2>1. UNCHANGED jobs /\ LoseLease(s)
    BY <1>2 DEF HeartbeatRefused, LeaseDeadline
  <2>2. /\ slots'[s] = [slots[s] EXCEPT !.leaseLost = TRUE]
        /\ \A t \in Slots : t # s => slots'[t] = slots[t]
    BY <1>q, <2>1, LoseLeaseType
  <2>3. slots'[s].pc = slots[s].pc /\ slots'[s].job = slots[s].job
    BY <1>q, <2>2 DEF SlotState
  <2>4. ProcsAfter(s) /\ procs'[WorkerOf(s)].lostLease
    BY <1>q, <2>1, ProcsLost
  <2>5. \A v \in Workers, k \in Jobs : LeasedBy(v, k)' => LeasedBy(v, k)
    BY <1>q, <2>1, NoNewLease
  <2> QED BY <1>a, <2>2, <2>3, <2>4, <2>5, ExitStepOfSlot DEF Holds
<1> QED BY <1>1, <1>2

(* Processes that start, stop, exit and crash; clients and clocks.         *)
LEMMA ExitOtherStep ==
  ASSUME Core, ExitInv,
         \/ \E j \in Jobs, b \in BOOLEAN : EnqueueJob(j, b)
         \/ \E w \in Workers : StartWorker(w) \/ Stop(w) \/ Exit(w) \/ Crash(w)
         \/ \E j \in Jobs : Clock(j)
         \/ UNCHANGED vars
  PROVE  ExitInv'
<1>q. /\ QueueTypeOK
      /\ slots \in [Slots -> SlotState]
      /\ procs \in [Workers -> ProcRow]
      /\ \A s \in Slots : WorkerOf(s) \in Workers
  BY WorkerOfType DEF Core, TypeOK
<1>1. \A v \in Workers, k \in Jobs : LeasedBy(v, k)' => LeasedBy(v, k)
  BY <1>q, NoNewLease DEF EnqueueJob, StartWorker, Stop, Exit, Crash, Clock, vars
<1>2. CASE UNCHANGED <<procs, slots>>
  BY <1>1, <1>2 DEF ExitInv, ActiveOK, Active, LostOK, LeasesHeld, Clean, Holds
<1>3. ASSUME NEW w \in Workers, NEW state \in ProcState, SetState(w, state),
             UNCHANGED slots,
             procs[w].state # "crashed",
             \/ state \in {"polling", "stopping"}
             \/ \A s \in Slots : WorkerOf(s) = w => ~Active(s)
      PROVE  ExitInv'
  <2>1. \A v \in Workers :
          /\ procs'[v].state = IF v = w THEN state ELSE procs[v].state
          /\ procs'[v].pollFailure = procs[v].pollFailure
          /\ procs'[v].lostLease = procs[v].lostLease
    BY <1>3, <1>q DEF SetState, ProcRow
  <2>2. ActiveOK'
    BY <1>3, <1>q, <2>1 DEF ExitInv, ActiveOK, Active
  <2>3. LostOK'
    BY <1>3, <1>q, <2>1 DEF ExitInv, LostOK
  <2>4. LeasesHeld'
    BY <1>1, <1>3, <2>1 DEF ExitInv, LeasesHeld, Clean, Holds
  <2> QED BY <2>2, <2>3, <2>4 DEF ExitInv
<1>4. ASSUME NEW w \in Workers, Crash(w)
      PROVE  ExitInv'
  <2>1. \A v \in Workers :
          /\ procs'[v].state = IF v = w THEN "crashed" ELSE procs[v].state
          /\ procs'[v].pollFailure = procs[v].pollFailure
          /\ procs'[v].lostLease = procs[v].lostLease
    BY <1>4, <1>q DEF Crash, SetState, ProcRow
  <2>2. \A s \in Slots : slots'[s] = IF WorkerOf(s) = w THEN IdleSlot ELSE slots[s]
    BY <1>4 DEF Crash
  <2>3. ActiveOK'
    BY <1>q, <2>1, <2>2 DEF ExitInv, ActiveOK, Active, IdleSlot
  <2>4. LostOK'
    BY <1>q, <2>1, <2>2 DEF ExitInv, LostOK, IdleSlot
  <2>5. LeasesHeld'
    BY <1>1, <2>1, <2>2 DEF ExitInv, LeasesHeld, Clean, Holds
  <2> QED BY <2>3, <2>4, <2>5 DEF ExitInv
<1>5. \/ UNCHANGED <<procs, slots>>
      \/ \E w \in Workers : Crash(w)
      \/ \E w \in Workers, state \in ProcState :
            /\ SetState(w, state)
            /\ UNCHANGED slots
            /\ procs[w].state # "crashed"
            /\ \/ state \in {"polling", "stopping"}
               \/ \A s \in Slots : WorkerOf(s) = w => ~Active(s)
  BY DEF EnqueueJob, StartWorker, Stop, Exit, Clock, vars, ProcState
<1> QED BY <1>2, <1>3, <1>4, <1>5

LEMMA ExitStep ==
  ASSUME Core, ExitInv, [Next]_vars
  PROVE  ExitInv'
  BY ExitSlotStep, ExitLeaseStep, ExitOtherStep DEF Next

(* A process that ended its stop with no error and no lost lease holds no  *)
(* lease: the next worker need not wait for the lock timeout.              *)
THEOREM CleanExit == Spec => []CleanExitLeavesNoLock
<1>1. Init => Core /\ ExitInv
  BY CoreInit, ExitInit
<1>2. Core /\ ExitInv /\ [Next]_vars => (Core /\ ExitInv)'
  BY CoreStep, ExitStep
<1>3. ExitInv => CleanExitLeavesNoLock
  <2> SUFFICES ASSUME ExitInv, NEW w \in Workers, NEW j \in Jobs,
                      procs[w].state = "exited", ~procs[w].pollFailure,
                      ~procs[w].lostLease, LeasedBy(w, j)
               PROVE  FALSE
    BY DEF CleanExitLeavesNoLock
  <2>1. PICK s \in Slots : WorkerOf(s) = w /\ Holds(slots[s], j)
    BY DEF ExitInv, LeasesHeld, Clean
  <2> QED BY <2>1 DEF ExitInv, ActiveOK, Active, Holds
<1> QED BY <1>1, <1>2, <1>3, PTL DEF Spec

-----------------------------------------------------------------------------
(* The leases.  With the history variable of WorkerLease: what becomes of  *)
(* a row that nobody claims and nobody completes.                          *)
LeaseKept(row, next) ==
    /\ next.status = "processing" =>
         row.status = "processing" /\ next.lockedBy = row.lockedBy
    /\ row.status # "processing" => LeaseStatus(next.status) = LeaseStatus(row.status)
    /\ row.status = "processing" => next.status # "completed"

LeasesKept == \A k \in Jobs : LeaseKept(jobs[k], jobs'[k])

LEMMA RowLeaseKept ==
  ASSUME NEW row \in JobRow
  PROVE  /\ LeaseKept(row, row)
         /\ row.status = "absent" => \A b \in BOOLEAN :
              LeaseKept(row, [NoJobRow EXCEPT !.status = "queued", !.available = b])
         /\ row.status = "processing" => /\ LeaseKept(row, Released(row))
                                         /\ \A b \in BOOLEAN : LeaseKept(row, Failed(row, b))
                                         /\ LeaseKept(row, Recovered(row))
         /\ \A b \in BOOLEAN : /\ LeaseKept(row, [row EXCEPT !.expired = b])
                               /\ LeaseKept(row, [row EXCEPT !.available = b])
<1> USE DEF JobRow
<1>1. LeaseKept(row, row)
  BY DEF LeaseKept
<1>2. ASSUME row.status = "absent", NEW b \in BOOLEAN
      PROVE  LeaseKept(row, [NoJobRow EXCEPT !.status = "queued", !.available = b])
  BY <1>2 DEF LeaseKept, LeaseStatus, NoJobRow
<1>3. ASSUME row.status = "processing"
      PROVE  /\ LeaseKept(row, Released(row))
             /\ \A b \in BOOLEAN : LeaseKept(row, Failed(row, b))
             /\ LeaseKept(row, Recovered(row))
  <2>1. /\ Released(row).status = "queued"
        /\ \A b \in BOOLEAN : Failed(row, b).status \in {"retry_waiting", "failed"}
        /\ Recovered(row).status \in {"retry_waiting", "failed"}
    BY DEF Released, Failed, Recovered
  <2> QED BY <1>3, <2>1 DEF LeaseKept
<1>4. ASSUME NEW b \in BOOLEAN
      PROVE  /\ LeaseKept(row, [row EXCEPT !.expired = b])
             /\ LeaseKept(row, [row EXCEPT !.available = b])
  BY DEF LeaseKept
<1> QED BY <1>1, <1>2, <1>3, <1>4

LEMMA StatementKeepsLeases ==
  ASSUME QueueTypeOK,
         \/ UNCHANGED jobs
         \/ RecoverStaleJobs
         \/ \E j \in Jobs, b \in BOOLEAN : Enqueue(j, b)
         \/ \E w \in Workers, j \in Jobs : ExtendLease(w, j) \/ Release(w, j)
         \/ \E w \in Workers, j \in Jobs, b \in BOOLEAN : Fail(w, j, b)
         \/ \E j \in Jobs : BecomeAvailable(j) \/ LeaseExpires(j)
  PROVE  LeasesKept
<1> SUFFICES ASSUME NEW k \in Jobs
             PROVE  LeaseKept(jobs[k], jobs'[k])
  BY DEF LeasesKept
<1>r. jobs[k] \in JobRow /\ jobs \in [Jobs -> JobRow]
  BY DEF QueueTypeOK
<1>0. LeaseKept(jobs[k], jobs[k])
  BY <1>r, RowLeaseKept
<1>1. CASE UNCHANGED jobs
  BY <1>0, <1>1
<1>2. CASE RecoverStaleJobs
  <2>1. jobs'[k] = IF k \in StaleJobs THEN Recovered(jobs[k]) ELSE jobs[k]
    BY <1>2 DEF RecoverStaleJobs
  <2> QED BY <1>r, <1>0, <2>1, RowLeaseKept DEF StaleJobs
<1>3. ASSUME NEW j \in Jobs, NEW b \in BOOLEAN, Enqueue(j, b)
      PROVE  LeaseKept(jobs[k], jobs'[k])
  <2>1. /\ jobs[j].status = "absent"
        /\ jobs'[k] = IF k = j THEN [NoJobRow EXCEPT !.status = "queued", !.available = b]
                               ELSE jobs[k]
    BY <1>3, <1>r DEF Enqueue
  <2> QED BY <1>r, <1>0, <2>1, RowLeaseKept
<1>4. ASSUME NEW w \in Workers, NEW j \in Jobs, ExtendLease(w, j)
      PROVE  LeaseKept(jobs[k], jobs'[k])
  <2>1. jobs'[k] = IF k = j THEN [jobs[k] EXCEPT !.expired = FALSE] ELSE jobs[k]
    BY <1>4, <1>r DEF ExtendLease
  <2> QED BY <1>r, <1>0, <2>1, RowLeaseKept
<1>5. ASSUME NEW w \in Workers, NEW j \in Jobs, Release(w, j)
      PROVE  LeaseKept(jobs[k], jobs'[k])
  <2>1. /\ jobs[j].status = "processing"
        /\ jobs'[k] = IF k = j THEN Released(jobs[k]) ELSE jobs[k]
    BY <1>5, <1>r DEF Release, LeasedBy
  <2> QED BY <1>r, <1>0, <2>1, RowLeaseKept
<1>6. ASSUME NEW w \in Workers, NEW j \in Jobs, NEW b \in BOOLEAN, Fail(w, j, b)
      PROVE  LeaseKept(jobs[k], jobs'[k])
  <2>1. /\ jobs[j].status = "processing"
        /\ jobs'[k] = IF k = j THEN Failed(jobs[k], b) ELSE jobs[k]
    BY <1>6, <1>r DEF Fail, LeasedBy
  <2> QED BY <1>r, <1>0, <2>1, RowLeaseKept
<1>7. ASSUME NEW j \in Jobs, BecomeAvailable(j)
      PROVE  LeaseKept(jobs[k], jobs'[k])
  <2>1. jobs'[k] = IF k = j THEN [jobs[k] EXCEPT !.available = TRUE] ELSE jobs[k]
    BY <1>7, <1>r DEF BecomeAvailable
  <2> QED BY <1>r, <1>0, <2>1, RowLeaseKept
<1>8. ASSUME NEW j \in Jobs, LeaseExpires(j)
      PROVE  LeaseKept(jobs[k], jobs'[k])
  <2>1. jobs'[k] = IF k = j THEN [jobs[k] EXCEPT !.expired = TRUE] ELSE jobs[k]
    BY <1>8, <1>r DEF LeaseExpires
  <2> QED BY <1>r, <1>0, <2>1, RowLeaseKept
<1> QED BY <1>1, <1>2, <1>3, <1>4, <1>5, <1>6, <1>7, <1>8

(* A step is a claim, the completion of a Job, or keeps the leases; only   *)
(* the first grants one.                                                   *)
NoClaims == \A s \in Slots, j \in Jobs : ~Claims(s, j)

Completes(j) ==
    /\ jobs[j].status = "processing"
    /\ jobs' = [jobs EXCEPT ![j] = Completed(jobs[j])]

LEMMA IdleSlotNotClaimed == IdleSlot.pc # "claimed"
  BY DEF IdleSlot

LEMMA NoClaimUnlessClaiming ==
  ASSUME NEW s \in Slots,
         slots[s].pc # "claiming" \/ slots'[s].pc # "claimed",
         \A t \in Slots : t # s => slots'[t] = slots[t]
  PROVE  NoClaims
  BY DEF NoClaims, Claims

LEMMA SlotStepLeases ==
  ASSUME Core, NEW s \in Slots, SlotStep(s)
  PROVE  \/ \E j \in Jobs : ClaimNext(s, j)
         \/ NoClaims /\ LeasesKept
         \/ NoClaims /\ \E j \in Jobs : Completes(j)
<1>q. /\ QueueTypeOK
      /\ slots \in [Slots -> SlotState]
      /\ procs \in [Workers -> ProcRow]
      /\ WorkerOf(s) \in Workers
  BY WorkerOfType DEF Core, TypeOK
<1>o. \A t \in Slots : t # s => slots'[t] = slots[t]
  BY SlotStepEffect DEF SlotEffect
<1>1. CASE Poll(s) \/ Recover(s)
  <2>1. slots[s].pc # "claiming" /\ (RecoverStaleJobs \/ UNCHANGED jobs)
    BY <1>1 DEF Poll, Recover
  <2> QED BY <1>q, <1>o, <2>1, NoClaimUnlessClaiming, StatementKeepsLeases
<1>2. CASE ClaimNothing(s) \/ ClaimError(s) \/ WriteRejected(s) \/ AbandonLostLease(s)
  <2>1. UNCHANGED jobs /\ (Reject(s) \/ Finish(s))
    BY <1>2 DEF ClaimNothing, ClaimError, WriteRejected, AbandonLostLease
  <2>2. slots'[s].pc # "claimed"
    BY <1>q, <2>1, FinishType, RejectType, IdleSlotNotClaimed
  <2> QED BY <1>q, <1>o, <2>1, <2>2, NoClaimUnlessClaiming, StatementKeepsLeases
<1>3. CASE ReleaseClaim(s) \/ CompleteJob(s) \/ FailJob(s)
  <2>1. slots[s].pc \in {"releasing", "completing", "failing"}
    BY <1>3 DEF ReleaseClaim, CompleteJob, FailJob
  <2>2. JobOf(s) \in Jobs
    BY <2>1 DEF Core, SlotsOK, SlotOK, HasJob, JobOf
  <2>3. NoClaims
    BY <1>o, <2>1, NoClaimUnlessClaiming
  <2>4. CASE ReleaseClaim(s) \/ FailJob(s)
    <3>1. \/ Release(WorkerOf(s), JobOf(s))
          \/ \E b \in BOOLEAN : Fail(WorkerOf(s), JobOf(s), b)
      BY <2>4 DEF ReleaseClaim, FailJob
    <3> QED BY <1>q, <2>2, <2>3, <3>1, StatementKeepsLeases
  <2>5. CASE CompleteJob(s)
    <3>1. Completes(JobOf(s))
      BY <2>5 DEF CompleteJob, Complete, LeasedBy, Completes
    <3> QED BY <2>2, <2>3, <3>1
  <2> QED BY <1>3, <2>4, <2>5
<1>4. CASE Moves(s)
  <2>1. slots[s].pc # "claiming" /\ UNCHANGED jobs
    BY <1>4 DEF Moves
  <2> QED BY <1>q, <1>o, <2>1, NoClaimUnlessClaiming, StatementKeepsLeases
<1> QED BY <1>1, <1>2, <1>3, <1>4, Movers DEF SlotStep

LEMMA StepLeases ==
  ASSUME Core, [Next]_vars
  PROVE  \/ \E s \in Slots, j \in Jobs : ClaimNext(s, j)
         \/ NoClaims /\ LeasesKept
         \/ NoClaims /\ \E j \in Jobs : Completes(j)
<1>q. /\ QueueTypeOK
      /\ slots \in [Slots -> SlotState]
      /\ procs \in [Workers -> ProcRow]
      /\ \A s \in Slots : WorkerOf(s) \in Workers
  BY WorkerOfType DEF Core, TypeOK
<1>1. ASSUME NEW s \in Slots, Heartbeat(s) \/ HeartbeatRefused(s) \/ LeaseDeadline(s)
      PROVE  NoClaims /\ LeasesKept
  <2>1. CASE Heartbeat(s)
    <3>1. JobOf(s) \in Jobs
      BY <2>1 DEF Heartbeat, Monitored, Core, SlotsOK, SlotOK, HasJob, JobOf
    <3>2. UNCHANGED slots /\ ExtendLease(WorkerOf(s), JobOf(s))
      BY <2>1 DEF Heartbeat
    <3>3. LeasesKept
      BY <1>q, <3>1, <3>2, StatementKeepsLeases
    <3>4. NoClaims
      BY <3>2 DEF NoClaims, Claims
    <3> QED BY <3>3, <3>4
  <2>2. CASE HeartbeatRefused(s) \/ LeaseDeadline(s)
    <3>1. UNCHANGED jobs /\ LoseLease(s) /\ slots[s].pc # "claiming"
      BY <2>2 DEF HeartbeatRefused, LeaseDeadline, Monitored
    <3>2. \A t \in Slots : t # s => slots'[t] = slots[t]
      BY <1>q, <3>1, LoseLeaseType
    <3> QED BY <1>q, <3>1, <3>2, NoClaimUnlessClaiming, StatementKeepsLeases
  <2> QED BY <1>1, <2>1, <2>2
<1>2. CASE \/ \E j \in Jobs, b \in BOOLEAN : EnqueueJob(j, b)
           \/ \E w \in Workers : StartWorker(w) \/ Stop(w) \/ Exit(w) \/ Crash(w)
           \/ \E j \in Jobs : Clock(j)
           \/ UNCHANGED vars
  <2>1. \A s \in Slots : slots'[s] \in {slots[s], IdleSlot}
    BY <1>2, OtherStepEffect
  <2>2. NoClaims
    BY <2>1, IdleSlotNotClaimed DEF NoClaims, Claims
  <2>3. LeasesKept
    BY <1>2, <1>q, StatementKeepsLeases
       DEF EnqueueJob, StartWorker, Stop, Exit, Crash, Clock, vars
  <2> QED BY <2>2, <2>3
<1> QED BY <1>1, <1>2, SlotStepLeases DEF Next

(* What a claim does.                                                      *)
LEMMA ClaimGrants ==
  ASSUME Core, NEW s \in Slots, NEW j \in Jobs, ClaimNext(s, j)
  PROVE  /\ \A t \in Slots, k \in Jobs : Claims(t, k) <=> t = s /\ k = j
         /\ jobs[j].status \in {"queued", "retry_waiting"}
         /\ jobs'[j].status = "processing" /\ jobs'[j].lockedBy = WorkerOf(s)
         /\ \A k \in Jobs : k # j => jobs'[k] = jobs[k]
<1>q. /\ QueueTypeOK
      /\ slots \in [Slots -> SlotState]
      /\ slots[s] \in SlotState
      /\ WorkerOf(s) \in Workers
  BY WorkerOfType DEF Core, TypeOK
<1>1. /\ slots[s].pc = "claiming"
      /\ slots' = [slots EXCEPT ![s] = [slots[s] EXCEPT !.pc = "claimed", !.job = j]]
      /\ \E skipped : Claim(WorkerOf(s), j, skipped)
  BY DEF ClaimNext
<1>2. \A t \in Slots, k \in Jobs : Claims(t, k) <=> t = s /\ k = j
  <2>1. slots'[s].pc = "claimed" /\ slots'[s].job = j
    BY <1>q, <1>1 DEF SlotState
  <2>2. \A t \in Slots : t # s => slots'[t] = slots[t]
    BY <1>q, <1>1
  <2> QED BY <1>1, <2>1, <2>2 DEF Claims
<1>3. /\ jobs[j].status \in {"queued", "retry_waiting"}
      /\ jobs' = [jobs EXCEPT ![j] = Claimed(jobs[j], WorkerOf(s))]
  BY <1>1 DEF Claim, OldestClaimable, Claimable
<1>4. /\ Claimed(jobs[j], WorkerOf(s)).status = "processing"
      /\ Claimed(jobs[j], WorkerOf(s)).lockedBy = WorkerOf(s)
  BY <1>q DEF Claimed, QueueTypeOK, JobRow
<1> QED BY <1>q, <1>2, <1>3, <1>4 DEF QueueTypeOK

-----------------------------------------------------------------------------
(* Who holds a lease.                                                      *)

(* The execution that made the claim belongs to the process that the row   *)
(* names, whatever the number of slots.                                    *)
HolderIsLocker ==
    /\ holder \in [Jobs -> Slots \cup {NoHolder}]
    /\ \A j \in Jobs : IF jobs[j].status = "processing"
                       THEN holder[j] \in Slots /\ jobs[j].lockedBy = WorkerOf(holder[j])
                       ELSE holder[j] = NoHolder

HolderStep ==
    holder' = [j \in Jobs |->
         IF jobs'[j].status # "processing" THEN NoHolder
         ELSE IF \E s \in Slots : Claims(s, j) THEN CHOOSE s \in Slots : Claims(s, j)
         ELSE holder[j]]

LEMMA HolderStepOK ==
  ASSUME Core, HolderIsLocker, [LeaseNext]_leaseVars
  PROVE  HolderIsLocker' /\ (HolderStep \/ UNCHANGED leaseVars)
<1>1. CASE UNCHANGED leaseVars
  BY <1>1 DEF HolderIsLocker, leaseVars
<1>2. CASE LeaseNext
  <2>0. HolderStep
    BY <1>2 DEF LeaseNext, HolderStep
  <2>1. Core /\ [Next]_vars
    BY <1>2 DEF LeaseNext
  <2> SUFFICES ASSUME NEW k \in Jobs
               PROVE  IF jobs'[k].status = "processing"
                      THEN /\ holder'[k] \in Slots
                           /\ jobs'[k].lockedBy = WorkerOf(holder'[k])
                      ELSE holder'[k] = NoHolder
    <3> SUFFICES ASSUME \A k \in Jobs :
                          IF jobs'[k].status = "processing"
                          THEN /\ holder'[k] \in Slots
                               /\ jobs'[k].lockedBy = WorkerOf(holder'[k])
                          ELSE holder'[k] = NoHolder
                 PROVE  HolderIsLocker'
      BY <2>0
    <3>1. \A k \in Jobs : holder'[k] \in Slots \cup {NoHolder}
      OBVIOUS
    <3>2. holder' \in [Jobs -> Slots \cup {NoHolder}]
      BY <2>0, <3>1 DEF HolderStep
    <3>3. Slots' = Slots
      BY DEF Slots
    <3> QED BY <3>2, <3>3 DEF HolderIsLocker
  <2>2. CASE jobs'[k].status # "processing"
    BY <2>0, <2>2 DEF HolderStep
  <2>3. CASE jobs'[k].status = "processing" /\ NoClaims /\ LeasesKept
    <3>1. holder'[k] = holder[k]
      BY <2>0, <2>3 DEF HolderStep, NoClaims
    <3> QED BY <2>3, <3>1 DEF HolderIsLocker, LeasesKept, LeaseKept
  <2>4. ASSUME NEW j \in Jobs, Completes(j), NoClaims, jobs'[k].status = "processing"
        PROVE  /\ holder'[k] \in Slots
               /\ jobs'[k].lockedBy = WorkerOf(holder'[k])
    <3>1. holder'[k] = holder[k]
      BY <2>0, <2>4 DEF HolderStep, NoClaims
    <3>2. Completed(jobs[j]).status = "completed"
      BY DEF Core, TypeOK, QueueTypeOK, JobRow, Completed
    <3>3. k # j /\ jobs'[k] = jobs[k]
      BY <2>4, <3>2 DEF Completes, Core, TypeOK, QueueTypeOK
    <3> QED BY <2>4, <3>1, <3>3 DEF HolderIsLocker
  <2>5. ASSUME NEW s \in Slots, NEW j \in Jobs, ClaimNext(s, j), jobs'[k].status = "processing"
        PROVE  /\ holder'[k] \in Slots
               /\ jobs'[k].lockedBy = WorkerOf(holder'[k])
    <3>1. /\ \A t \in Slots, i \in Jobs : Claims(t, i) <=> t = s /\ i = j
          /\ jobs'[j].lockedBy = WorkerOf(s)
          /\ \A i \in Jobs : i # j => jobs'[i] = jobs[i]
      BY <2>5, ClaimGrants
    <3>2. CASE k = j
      <4>1. holder'[k] = CHOOSE t \in Slots : Claims(t, k)
        BY <2>0, <2>5, <3>1, <3>2 DEF HolderStep
      <4>2. holder'[k] = s
        BY <3>1, <3>2, <4>1
      <4> QED BY <3>1, <3>2, <4>2
    <3>3. CASE k # j
      <4>1. holder'[k] = holder[k]
        BY <2>0, <2>5, <3>1, <3>3 DEF HolderStep
      <4> QED BY <2>5, <3>1, <3>3, <4>1 DEF HolderIsLocker
    <3> QED BY <3>2, <3>3
  <2> QED BY <2>1, <2>2, <2>3, <2>4, <2>5, StepLeases
<1> QED BY <1>1, <1>2

LEMMA LeaseInitOK == LeaseInit => Core /\ HolderIsLocker
<1>1. LeaseInit => Core
  BY CoreInit DEF LeaseInit
<1>2. LeaseInit => HolderIsLocker
  BY DEF LeaseInit, Init, QueueInit, HolderIsLocker, NoJobRow
<1> QED BY <1>1, <1>2

LEMMA LeaseStepIsStep == [LeaseNext]_leaseVars => [Next]_vars
  BY DEF LeaseNext, leaseVars, vars

LEMMA LeaseInvariant == LeaseSpec => [](Core /\ HolderIsLocker)
<1>1. Core /\ HolderIsLocker /\ [LeaseNext]_leaseVars => (Core /\ HolderIsLocker)'
  BY LeaseStepIsStep, CoreStep, HolderStepOK
<1> QED BY <1>1, LeaseInitOK, PTL DEF LeaseSpec

(* The process that locked_by names is the one that the claimant is in,    *)
(* for as long as the row says that it is processing.                      *)
THEOREM HolderIsInTheRow == LeaseSpec => []HolderIsLocker
  BY LeaseInvariant, PTL

-----------------------------------------------------------------------------
(* Only the statements of the execution itself finalize a Job, and each of *)
(* them compares locked_by.                                                *)
LEMMA FinalizerHasTheLease ==
  ASSUME Core, [Next]_vars, NEW s \in Slots, NEW j \in Jobs, Finalizes(s, j)
  PROVE  LeasedBy(WorkerOf(s), j)
<1>q. /\ slots \in [Slots -> SlotState]
      /\ procs \in [Workers -> ProcRow]
  BY DEF Core, TypeOK
<1>f. /\ slots[s].pc \in {"releasing", "completing", "failing"}
      /\ slots[s].job = j
      /\ slots'[s].pc = "idle"
      /\ jobs'[j] # jobs[j]
  BY DEF Finalizes
<1>1. ASSUME NEW t \in Slots, SlotStep(t)
      PROVE  LeasedBy(WorkerOf(s), j)
  <2>1. t = s
    BY <1>1, <1>f, SlotStepEffect DEF SlotEffect
  <2>2. CASE ReleaseClaim(s) \/ CompleteJob(s) \/ FailJob(s)
    BY <2>2, <1>f DEF ReleaseClaim, CompleteJob, FailJob, Release, Complete, Fail, JobOf
  <2>3. CASE \/ Poll(s) \/ Recover(s) \/ ClaimNothing(s) \/ ClaimError(s)
             \/ WriteRejected(s) \/ AbandonLostLease(s)
             \/ \E k \in Jobs : ClaimNext(s, k)
    BY <2>3, <1>f DEF Poll, Recover, ClaimNothing, ClaimError, WriteRejected,
                      AbandonLostLease, ClaimNext
  <2>4. CASE Moves(s)
    BY <2>4, <1>f DEF Moves
  <2> QED BY <1>1, <2>1, <2>2, <2>3, <2>4, Movers DEF SlotStep
<1>2. ASSUME NEW t \in Slots, Heartbeat(t) \/ HeartbeatRefused(t) \/ LeaseDeadline(t)
      PROVE  FALSE
  <2>1. CASE Heartbeat(t)
    BY <2>1, <1>f DEF Heartbeat
  <2>2. CASE HeartbeatRefused(t) \/ LeaseDeadline(t)
    BY <2>2, <1>f DEF HeartbeatRefused, LeaseDeadline
  <2> QED BY <1>2, <2>1, <2>2
<1>3. ASSUME \/ \E k \in Jobs, b \in BOOLEAN : EnqueueJob(k, b)
             \/ \E w \in Workers : StartWorker(w) \/ Stop(w) \/ Exit(w) \/ Crash(w)
             \/ \E k \in Jobs : Clock(k)
             \/ UNCHANGED vars
      PROVE  FALSE
  BY <1>3, <1>f DEF EnqueueJob, StartWorker, Stop, Exit, Crash, Clock, vars
<1> QED BY <1>1, <1>2, <1>3 DEF Next

(* Whatever the number of slots, the execution that finalizes a Job and    *)
(* the one whose claim the Job is under belong to the same process: what   *)
(* a comparison with locked_by can promise.                                *)
THEOREM FinalizersShareTheProcess ==
  LeaseSpec => [][\A s \in Slots, j \in Jobs :
                     Finalizes(s, j) => WorkerOf(holder[j]) = WorkerOf(s)]_leaseVars
<1>1. Core /\ HolderIsLocker /\ [LeaseNext]_leaseVars =>
        [\A s \in Slots, j \in Jobs :
            Finalizes(s, j) => WorkerOf(holder[j]) = WorkerOf(s)]_leaseVars
  <2> SUFFICES ASSUME Core, HolderIsLocker, [LeaseNext]_leaseVars,
                      NEW s \in Slots, NEW j \in Jobs, Finalizes(s, j)
               PROVE  WorkerOf(holder[j]) = WorkerOf(s)
    OBVIOUS
  <2>1. LeasedBy(WorkerOf(s), j)
    BY LeaseStepIsStep, FinalizerHasTheLease
  <2> QED BY <2>1 DEF HolderIsLocker, LeasedBy
<1> QED BY <1>1, LeaseInvariant, PTL DEF LeaseSpec

(* With one slot per process that is the execution itself.  With more the  *)
(* promise of worker.test.ts is broken, as MCWorkerLeaseShared.cfg shows.  *)
THEOREM HoldersFinalize ==
  ASSUME Concurrency = 1
  PROVE  LeaseSpec => OnlyHolderFinalizes
<1>1. \A s, t \in Slots : WorkerOf(s) = WorkerOf(t) => s = t
  BY DEF Slots, WorkerOf
<1>2. Core /\ HolderIsLocker /\ [LeaseNext]_leaseVars =>
        [\A s \in Slots, j \in Jobs : Finalizes(s, j) => holder[j] = s]_leaseVars
  <2> SUFFICES ASSUME Core, HolderIsLocker, [LeaseNext]_leaseVars,
                      NEW s \in Slots, NEW j \in Jobs, Finalizes(s, j)
               PROVE  holder[j] = s
    OBVIOUS
  <2>1. LeasedBy(WorkerOf(s), j)
    BY LeaseStepIsStep, FinalizerHasTheLease
  <2> QED BY <1>1, <2>1 DEF HolderIsLocker, LeasedBy
<1> QED BY <1>2, LeaseInvariant, PTL DEF LeaseSpec, OnlyHolderFinalizes

-----------------------------------------------------------------------------
(* The queue and its workers keep the contract of JobLease.                *)

LEMMA LeaseInitially == LeaseInit => Lease!ContractInit
<1> SUFFICES ASSUME LeaseInit
             PROVE  Lease!ContractInit
  OBVIOUS
<1>1. LeaseStatuses = [j \in Jobs |-> "active"]
  BY DEF LeaseInit, Init, QueueInit, NoJobRow, LeaseStatuses, LeaseStatus
<1> QED BY <1>1 DEF LeaseInit, Lease!ContractInit

LEMMA ContractStep ==
  ASSUME Core, HolderIsLocker, [LeaseNext]_leaseVars
  PROVE  [Lease!ContractNext]_(Lease!contractVars)
<1>q. jobs \in [Jobs -> JobRow] /\ jobs' \in [Jobs -> JobRow]
  BY LeaseStepIsStep, CoreStep DEF Core, TypeOK, QueueTypeOK
<1>h. \A k \in Jobs : jobs[k].status = "processing" <=> holder[k] # NoHolder
  BY DEF HolderIsLocker, Slots, NoHolder
<1>d. holder \in [Jobs -> Slots \cup {NoHolder}]
  BY DEF HolderIsLocker
<1>1. CASE UNCHANGED leaseVars
  BY <1>1 DEF leaseVars, Lease!contractVars, LeaseStatuses
<1>2. CASE LeaseNext /\ NoClaims /\ LeasesKept
  <2> DEFINE lost == {k \in Jobs : /\ jobs[k].status = "processing"
                                   /\ jobs'[k].status \notin {"processing", "failed"}}
             givenUp == {k \in Jobs : /\ jobs[k].status = "processing"
                                      /\ jobs'[k].status = "failed"}
  <2>1. HolderStep
    BY <1>2 DEF LeaseNext, HolderStep
  <2>2. \A j \in lost \cup givenUp : holder[j] # NoHolder
    BY <1>h
  <2>3. LeaseStatuses' = [k \in Jobs |-> IF k \in givenUp THEN "failed" ELSE LeaseStatuses[k]]
    <3> SUFFICES ASSUME NEW k \in Jobs
                 PROVE  LeaseStatus(jobs'[k].status) =
                          IF k \in givenUp THEN "failed" ELSE LeaseStatus(jobs[k].status)
      BY DEF LeaseStatuses
    <3>1. LeaseKept(jobs[k], jobs'[k])
      BY <1>2 DEF LeasesKept
    <3> QED BY <3>1 DEF LeaseKept, LeaseStatus
  <2>4. holder' = [k \in Jobs |-> IF k \in lost \cup givenUp THEN NoHolder ELSE holder[k]]
    <3> SUFFICES ASSUME NEW k \in Jobs
                 PROVE  (IF jobs'[k].status # "processing" THEN NoHolder ELSE holder[k]) =
                        IF k \in lost \cup givenUp THEN NoHolder ELSE holder[k]
      BY <1>2, <2>1 DEF HolderStep, NoClaims
    <3>1. LeaseKept(jobs[k], jobs'[k])
      BY <1>2 DEF LeasesKept
    <3> QED BY <1>h, <3>1 DEF LeaseKept
  <2>5. lost \in SUBSET Jobs /\ givenUp \in SUBSET Jobs
    OBVIOUS
  <2> HIDE DEF lost, givenUp
  <2>6. Lease!Lapse(lost, givenUp)
    BY <2>2, <2>3, <2>4 DEF Lease!Lapse
  <2> QED BY <2>5, <2>6 DEF Lease!ContractNext
<1>3. ASSUME LeaseNext, NoClaims, NEW j \in Jobs, Completes(j)
      PROVE  Lease!ContractNext
  <2>1. Completed(jobs[j]).status = "completed"
    BY <1>q DEF JobRow, Completed
  <2>2. \A k \in Jobs : jobs'[k] = IF k = j THEN Completed(jobs[j]) ELSE jobs[k]
    BY <1>q, <1>3 DEF Completes
  <2>3. holder[j] # NoHolder
    BY <1>3, <1>h DEF Completes
  <2>4. LeaseStatuses' = [LeaseStatuses EXCEPT ![j] = "completed"]
    BY <2>1, <2>2 DEF LeaseStatuses, LeaseStatus
  <2>5. holder' = [holder EXCEPT ![j] = NoHolder]
    <3>1. HolderStep
      BY <1>3 DEF LeaseNext, HolderStep
    <3>2. \A k \in Jobs : holder'[k] = IF k = j THEN NoHolder ELSE holder[k]
      BY <1>3, <1>h, <2>1, <2>2, <3>1 DEF HolderStep, NoClaims
    <3> QED BY <1>d, <3>1, <3>2 DEF HolderStep
  <2>6. Lease!Succeed(j)
    BY <2>3, <2>4, <2>5 DEF Lease!Succeed
  <2> QED BY <2>6 DEF Lease!ContractNext
<1>4. ASSUME LeaseNext, NEW s \in Slots, NEW j \in Jobs, ClaimNext(s, j)
      PROVE  Lease!ContractNext
  <2>1. /\ \A t \in Slots, k \in Jobs : Claims(t, k) <=> t = s /\ k = j
        /\ jobs[j].status \in {"queued", "retry_waiting"}
        /\ jobs'[j].status = "processing"
        /\ \A k \in Jobs : k # j => jobs'[k] = jobs[k]
    BY <1>4, ClaimGrants
  <2>2. LeaseStatuses[j] = "active" /\ holder[j] = NoHolder
    BY <1>h, <2>1 DEF LeaseStatuses, LeaseStatus
  <2>3. LeaseStatuses' = LeaseStatuses
    BY <2>1 DEF LeaseStatuses, LeaseStatus
  <2>4. HolderStep
    BY <1>4 DEF LeaseNext, HolderStep
  <2>5. \A k \in Jobs : holder'[k] = IF k = j THEN s ELSE holder[k]
    <3> SUFFICES ASSUME NEW k \in Jobs
                 PROVE  holder'[k] = IF k = j THEN s ELSE holder[k]
      OBVIOUS
    <3>1. CASE k = j
      <4>1. holder'[k] = CHOOSE t \in Slots : Claims(t, k)
        BY <2>1, <2>4, <3>1 DEF HolderStep
      <4>2. holder'[k] = s
        BY <2>1, <3>1, <4>1
      <4> QED BY <3>1, <4>2
    <3>2. CASE k # j
      BY <1>h, <2>1, <2>4, <3>2 DEF HolderStep
    <3> QED BY <3>1, <3>2
  <2>6. holder' = [holder EXCEPT ![j] = s]
    BY <1>d, <2>4, <2>5 DEF HolderStep
  <2>7. Lease!Grant(j, s)
    BY <2>2, <2>3, <2>6 DEF Lease!Grant
  <2> QED BY <2>7 DEF Lease!ContractNext
<1> QED BY <1>1, <1>2, <1>3, <1>4, LeaseStepIsStep, StepLeases DEF LeaseNext

(* Every step of the queue and its workers grants a lease that nobody has, *)
(* completes a leased Job, ends leases without a result, or changes none.  *)
THEOREM WorkersImplementLease == LeaseSpec => ImplementsLease
<1>1. Core /\ HolderIsLocker /\ [LeaseNext]_leaseVars
        => [Lease!ContractNext]_(Lease!contractVars)
  BY ContractStep
<1> QED BY <1>1, LeaseInitially, LeaseInvariant, PTL
        DEF LeaseSpec, ImplementsLease, Lease!ContractSpec
=============================================================================
