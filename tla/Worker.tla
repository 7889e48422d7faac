------------------------------- MODULE Worker -------------------------------
(***************************************************************************)
(* The worker processes of apps/worker: every process polls the queue with *)
(* Concurrency slots, runs the claimed Jobs through the AgentRunner and    *)
(* writes the outcome back.  Slots, heartbeats, timers, shutdown and       *)
(* crashes interleave over the tables of JobQueue.                         *)
(*                                                                         *)
(* A database call may fail with its statement applied or not applied (the *)
(* connection can break before the answer), so every call has three        *)
(* outcomes where the code tells them apart.                               *)
(***************************************************************************)
EXTENDS JobQueue

CONSTANT Concurrency    \* WorkerOptions.concurrency

ASSUME WorkerAssumption == Concurrency \in Nat \ {0}

VARIABLES
    procs,  \* the worker processes
    slots   \* the executions processNextJob has in flight, by process

vars == <<jobs, runs, procs, slots>>

Slots == Workers \X (1..Concurrency)
WorkerOf(s) == s[1]

(* A process takes a fresh worker id when it starts, so an id is never     *)
(* used again once its process has stopped or crashed.                     *)
ProcState == {"unborn", "polling", "stopping", "exited", "crashed"}

(* recovering: claimNext has been called; recoverStaleJobs is under way    *)
(* claiming:  recoverStaleJobs has answered, the claim is under way        *)
(* claimed:   a row is claimed, its answer is on the way                   *)
(* releasing: claimed after the stop; release is under way                 *)
(* starting:  the runner has accepted the request; startRun is under way   *)
(* executing: the Agent runs                                               *)
(* ran:       runner.run has settled with "outcome"                        *)
(* completing, failing: queue.complete or queue.fail is under way          *)
SlotPc == {"idle", "recovering", "claiming", "claimed", "releasing",
           "starting", "executing", "ran", "completing", "failing"}

(* How runner.run settles: with an output, or with an error that           *)
(* isRetryableJobError accepts or not.                                     *)
Outcome == {"none", "output", "retryable", "fatal"}

SlotState ==
    [pc: SlotPc, job: Jobs \cup {NoJob}, run: Runs \cup {"none"},
     outcome: Outcome, leaseLost: BOOLEAN]

IdleSlot ==
    [pc |-> "idle", job |-> NoJob, run |-> "none",
     outcome |-> "none", leaseLost |-> FALSE]

ProcRow == [state: ProcState, pollFailure: BOOLEAN, lostLease: BOOLEAN]

Active(s) == slots[s].pc # "idle"
JobOf(s) == slots[s].job

(* The heartbeat and the lease timer live from the claim's answer until    *)
(* executionFinished, which queue.fail does not reach before it settles.   *)
Monitored(s) == slots[s].pc \in {"starting", "executing", "ran", "failing"}

-----------------------------------------------------------------------------
Init ==
    /\ QueueInit
    /\ procs = [w \in Workers |-> [state |-> "unborn", pollFailure |-> FALSE,
                                   lostLease |-> FALSE]]
    /\ slots = [s \in Slots |-> IdleSlot]

GoTo(s, pc) == slots' = [slots EXCEPT ![s].pc = pc]
Settle(s, outcome) ==
    slots' = [slots EXCEPT ![s] = [slots[s] EXCEPT !.pc = "ran", !.outcome = outcome]]

\* Mutant of Finish: a finished execution is marked and keeps its slot.
FinishKeepingSlot(s) == slots' = [slots EXCEPT ![s].pc = "finished"]

Finish(s) == slots' = [slots EXCEPT ![s] = IdleSlot]

(* processNextJob rejected: poll keeps the first error for stop to throw.  *)
Reject(s) ==
    /\ Finish(s)
    /\ procs' = [procs EXCEPT ![WorkerOf(s)].pollFailure = TRUE]

-----------------------------------------------------------------------------
(* Clients of the queue: the API and the Gmail poller. *)
EnqueueJob(j, available) ==
    /\ Enqueue(j, available)
    /\ UNCHANGED <<procs, slots>>

\* Mutant of Poll: the poller is not cleared by stop.
PollAfterStop(s) ==
    /\ procs[WorkerOf(s)].state \in {"polling", "stopping"}
    /\ slots[s].pc = "idle"
    /\ GoTo(s, "recovering")
    /\ UNCHANGED <<jobs, runs, procs>>

(* poll finds a free slot and calls processNextJob.                        *)
Poll(s) ==
    /\ procs[WorkerOf(s)].state = "polling"
    /\ slots[s].pc = "idle"
    /\ GoTo(s, "recovering")
    /\ UNCHANGED <<jobs, runs, procs>>

(* claimNext, first statement.                                             *)
Recover(s) ==
    /\ slots[s].pc = "recovering"
    /\ RecoverStaleJobs
    /\ GoTo(s, "claiming")
    /\ UNCHANGED procs

(* The rows the claims now under way in other slots may hold.              *)
SkippableRows(s) ==
    {S \in SUBSET {j \in Jobs : Claimable(j)} :
        Cardinality(S) <= Cardinality({t \in Slots \ {s} : slots[t].pc = "claiming"})}

ClaimNext(s, j) ==
    /\ slots[s].pc = "claiming"
    /\ \E skipped \in SkippableRows(s) : Claim(WorkerOf(s), j, skipped)
    /\ slots' = [slots EXCEPT ![s] = [slots[s] EXCEPT !.pc = "claimed", !.job = j]]
    /\ UNCHANGED procs

(* claimNext finds nothing: no claimable row, or every one held by another *)
(* claim under way.                                                        *)
ClaimNothing(s) ==
    /\ slots[s].pc = "claiming"
    /\ {j \in Jobs : Claimable(j)} \in SkippableRows(s)
    /\ Finish(s)
    /\ UNCHANGED <<jobs, runs, procs>>

(* claimNext rejects, with the recovery and the claim applied (then nobody *)
(* executes the claimed Job) or not.                                       *)
ClaimError(s) ==
    /\ slots[s].pc \in {"recovering", "claiming", "claimed"}
    /\ Reject(s)
    /\ UNCHANGED <<jobs, runs>>

\* Mutant of ClaimAnswered: a stop drops the claimed Job without a release.
ClaimDropped(s) ==
    /\ slots[s].pc = "claimed"
    /\ IF procs[WorkerOf(s)].state = "stopping"
       THEN Finish(s)
       ELSE GoTo(s, "starting") \/ Settle(s, "fatal")
    /\ UNCHANGED <<jobs, runs, procs>>

(* The claim's answer arrives.  runner.run refuses an unknown Agent, an    *)
(* unsupported trigger or an invalid input before it creates a Run.        *)
ClaimAnswered(s) ==
    /\ slots[s].pc = "claimed"
    /\ IF procs[WorkerOf(s)].state = "stopping"
       THEN GoTo(s, "releasing")
       ELSE GoTo(s, "starting") \/ Settle(s, "fatal")
    /\ UNCHANGED <<jobs, runs, procs>>

\* Mutant of ReleaseClaim: the return after release is missing.
ReleaseThenRun(s) ==
    /\ slots[s].pc = "releasing"
    /\ Release(WorkerOf(s), JobOf(s))
    /\ GoTo(s, "starting") /\ UNCHANGED procs

ReleaseClaim(s) ==
    /\ slots[s].pc = "releasing"
    /\ Release(WorkerOf(s), JobOf(s))
    /\ (Finish(s) /\ UNCHANGED procs) \/ Reject(s)

(* An UPDATE of this slot's Job settles with an error: no row matched, or  *)
(* the connection broke before the statement was applied.                  *)
WriteRejected(s) ==
    /\ slots[s].pc \in {"releasing", "completing", "failing"}
    /\ Reject(s)
    /\ UNCHANGED <<jobs, runs>>

-----------------------------------------------------------------------------
(* AgentRunner.run *)

PersistStart(s, r) ==
    /\ slots[s].pc = "starting"
    /\ StartRun(JobOf(s), r)
    /\ \/ slots' = [slots EXCEPT ![s] = [slots[s] EXCEPT !.pc = "executing", !.run = r]]
       \/ Settle(s, "retryable")     \* applied, but the answer was lost
    /\ UNCHANGED procs

PersistStartError(s) ==
    /\ slots[s].pc = "starting"
    /\ Settle(s, "retryable")
    /\ UNCHANGED <<jobs, runs, procs>>

\* Mutant of PersistCompletion: completeRun does not check that a row matched.
PersistCompletionUnchecked(s) ==
    /\ slots[s].pc = "executing"
    /\ IF runs[slots[s].run].status = "running"
       THEN CompleteRun(slots[s].run)
       ELSE UNCHANGED <<jobs, runs>>
    /\ Settle(s, "output") \/ Settle(s, "retryable")
    /\ UNCHANGED procs

(* The Agent returned a valid output and completeRun is applied.           *)
PersistCompletion(s) ==
    /\ slots[s].pc = "executing"
    /\ CompleteRun(slots[s].run)
    /\ Settle(s, "output") \/ Settle(s, "retryable")
    /\ UNCHANGED procs

(* The Agent threw, or its output was invalid, and failRun is applied; the *)
(* error thrown on is the Agent's, or the persistence error if the answer  *)
(* is lost.                                                                *)
PersistFailure(s) ==
    /\ slots[s].pc = "executing"
    /\ FailRun(slots[s].run)
    /\ Settle(s, "retryable") \/ Settle(s, "fatal")
    /\ UNCHANGED procs

(* completeRun or failRun is not applied: the run is no longer running, or *)
(* the database failed.  Either way an AgentRunPersistenceError.           *)
PersistError(s) ==
    /\ slots[s].pc = "executing"
    /\ Settle(s, "retryable")
    /\ UNCHANGED <<jobs, runs, procs>>

-----------------------------------------------------------------------------
(* runner.run has settled: a lost lease ends the execution without a write *)
(* to the Job.                                                             *)
AbandonLostLease(s) ==
    /\ slots[s].pc = "ran"
    /\ slots[s].leaseLost
    /\ Finish(s)
    /\ UNCHANGED <<jobs, runs, procs>>

\* Mutant of ReportOutcome: a caught error falls through to queue.complete.
ReportCompletion(s) ==
    /\ slots[s].pc = "ran"
    /\ ~slots[s].leaseLost
    /\ GoTo(s, "completing")
    /\ UNCHANGED <<jobs, runs, procs>>

ReportOutcome(s) ==
    /\ slots[s].pc = "ran"
    /\ ~slots[s].leaseLost
    /\ GoTo(s, IF slots[s].outcome = "output" THEN "completing" ELSE "failing")
    /\ UNCHANGED <<jobs, runs, procs>>

CompleteJob(s) ==
    /\ slots[s].pc = "completing"
    /\ Complete(WorkerOf(s), JobOf(s))
    /\ (Finish(s) /\ UNCHANGED procs) \/ Reject(s)

FailJob(s) ==
    /\ slots[s].pc = "failing"
    /\ Fail(WorkerOf(s), JobOf(s), slots[s].outcome = "retryable")
    /\ (Finish(s) /\ UNCHANGED procs) \/ Reject(s)

-----------------------------------------------------------------------------
(* The lease heartbeat and the lease timer of an execution. *)

LoseLease(s) ==
    /\ slots' = [slots EXCEPT ![s].leaseLost = TRUE]
    /\ procs' = [procs EXCEPT ![WorkerOf(s)].lostLease = TRUE]

(* A renewal sent before runner.run settled may still be applied while     *)
(* complete is under way.                                                  *)
Heartbeat(s) ==
    /\ Monitored(s) \/ slots[s].pc = "completing"
    /\ ExtendLease(WorkerOf(s), JobOf(s))
    /\ UNCHANGED <<procs, slots>>

HeartbeatRefused(s) ==
    /\ Monitored(s) /\ ~slots[s].leaseLost
    /\ ~LeasedBy(WorkerOf(s), JobOf(s))
    /\ LoseLease(s)
    /\ UNCHANGED <<jobs, runs>>

(* The local timer is armed when an answer arrives, the lock timeout runs  *)
(* from the statement's NOW(): the timer may fire after another worker has *)
(* taken the Job, or, when an extension was applied but not answered,      *)
(* before the lock expires.  No order between the two is assumed.          *)
LeaseDeadline(s) ==
    /\ Monitored(s) /\ ~slots[s].leaseLost
    /\ LoseLease(s)
    /\ UNCHANGED <<jobs, runs>>

-----------------------------------------------------------------------------
(* The life of a worker process. *)

SetState(w, state) == procs' = [procs EXCEPT ![w].state = state]

StartWorker(w) ==
    /\ procs[w].state = "unborn"
    /\ SetState(w, "polling")
    /\ UNCHANGED <<jobs, runs, slots>>

Stop(w) ==
    /\ procs[w].state = "polling"
    /\ SetState(w, "stopping")
    /\ UNCHANGED <<jobs, runs, slots>>

(* Promise.allSettled(activeJobs) resolves, the process ends.              *)
Exit(w) ==
    /\ procs[w].state = "stopping"
    /\ \A s \in Slots : WorkerOf(s) = w => ~Active(s)
    /\ SetState(w, "exited")
    /\ UNCHANGED <<jobs, runs, slots>>

Crash(w) ==
    /\ procs[w].state \in {"polling", "stopping"}
    /\ SetState(w, "crashed")
    /\ slots' = [s \in Slots |-> IF WorkerOf(s) = w THEN IdleSlot ELSE slots[s]]
    /\ UNCHANGED <<jobs, runs>>

Clock(j) ==
    /\ BecomeAvailable(j) \/ LeaseExpires(j)
    /\ UNCHANGED <<procs, slots>>

(* One step of processNextJob. *)
SlotStep(s) ==
    \/ Poll(s) \/ Recover(s) \/ ClaimNothing(s) \/ ClaimAnswered(s) \/ ReleaseClaim(s)
    \/ \E j \in Jobs : ClaimNext(s, j)
    \/ \E r \in Runs : PersistStart(s, r)
    \/ PersistCompletion(s) \/ PersistFailure(s) \/ PersistError(s)
    \/ AbandonLostLease(s) \/ ReportOutcome(s) \/ CompleteJob(s) \/ FailJob(s)
    \/ ClaimError(s) \/ PersistStartError(s) \/ WriteRejected(s)

Next ==
    \/ \E j \in Jobs, b \in BOOLEAN : EnqueueJob(j, b)
    \/ \E s \in Slots : \/ SlotStep(s)
                         \/ Heartbeat(s) \/ HeartbeatRefused(s) \/ LeaseDeadline(s)
    \/ \E w \in Workers : StartWorker(w) \/ Stop(w) \/ Exit(w) \/ Crash(w)
    \/ \E j \in Jobs : Clock(j)

Spec == Init /\ [][Next]_vars

(* Fairness.  Polling and the Agent's own steps always go on: the poll     *)
(* runs on an interval, and every call of the Agent has a timeout.  A      *)
(* claim that skips the last row does so because another claim holds it,   *)
(* and the database does not fail for ever: some recovery, and some claim  *)
(* while a row is claimable, succeeds again and again.  Clocks advance.    *)
(* Nothing is assumed of heartbeats, timers, stops, crashes or of a worker *)
(* being started.                                                          *)
FairSpec ==
    /\ Spec
    /\ \A s \in Slots : WF_vars(SlotStep(s))
    /\ SF_vars(\E s \in Slots : Recover(s))
    /\ SF_vars(\E s \in Slots, j \in Jobs : ClaimNext(s, j))
    /\ \A j \in Jobs : WF_vars(Clock(j))
    /\ \A w \in Workers : WF_vars(Exit(w))

-----------------------------------------------------------------------------
TypeOK ==
    /\ QueueTypeOK
    /\ procs \in [Workers -> ProcRow]
    /\ slots \in [Slots -> SlotState]

(* The executions that have claimed j and have not created their run.      *)
Unstarted(j) == {s \in Slots : slots[s].pc \in {"claimed", "releasing", "starting"}
                              /\ slots[s].job = j}

(* Every run of a Job, and every claim that may still create one, is paid  *)
(* for by an attempt.  Neither release, which gives an attempt back, nor   *)
(* an execution that lost its lease and starts its run late, nor a lost    *)
(* answer may break this: it is what bounds the Agent's side effects.      *)
RunsPaidFor ==
    \A j \in Jobs :
        Cardinality(RunsOf(j)) + Cardinality(Unstarted(j)) <= jobs[j].attempts

(* specification.md: a Job is executed at most maxAttempts times.          *)
AtMostMaxAttemptsRuns == \A j \in Jobs : Cardinality(RunsOf(j)) <= MaxAttempts

(* A Job is completed only if one of its runs is recorded as completed,    *)
(* whichever of several overlapping executions wrote either of them.       *)
CompletedJobHasCompletedRun ==
    \A j \in Jobs : jobs[j].status = "completed" =>
        \E r \in RunsOf(j) : runs[r].status = "completed"

(* A shutdown that met no error and lost no lease leaves no Job locked by  *)
(* the process that ended, so nothing has to wait for the lock timeout.    *)
CleanExitLeavesNoLock ==
    \A w \in Workers :
        procs[w].state = "exited" /\ ~procs[w].pollFailure /\ ~procs[w].lostLease =>
            \A j \in Jobs : ~LeasedBy(w, j)

(* What the queue and its workers promise to a client.                     *)
ServiceOutcome(status) ==
    CASE status = "absent" -> "none"
      [] status \in {"queued", "processing", "retry_waiting"} -> "pending"
      [] OTHER -> status

Outcomes == [j \in Jobs |-> ServiceOutcome(jobs[j].status)]
Started == [j \in Jobs |-> Cardinality(RunsOf(j))]
Produced == [j \in Jobs |-> \E r \in RunsOf(j) : runs[r].status = "completed"]

Service == INSTANCE JobService WITH
    outcome <- Outcomes, started <- Started, produced <- Produced

ImplementsService == Service!ServiceSpec

(* As long as some worker process eventually stays up, every Job comes to  *)
(* an end: leases of crashed workers expire, lost answers and overlapping  *)
(* executions use up attempts but never leave a Job waiting for nobody.    *)
EveryJobEnds ==
    (<>[] \E w \in Workers : procs[w].state = "polling") =>
        \A j \in Jobs : jobs[j].status # "absent"
                           ~> jobs[j].status \in {"completed", "failed"}

(* How many steps an execution has left in a process that is stopping.     *)
StepsLeft(pc) ==
    CASE pc = "idle" -> 0
      [] pc \in {"releasing", "completing", "failing"} -> 1
      [] pc \in {"claimed", "ran"} -> 2
      [] pc \in {"claiming", "executing"} -> 3
      [] OTHER -> 4

(* A process that is stopping only drains: no slot is taken again, a claim *)
(* that is answered late goes back instead of starting the Agent, and      *)
(* every step of an execution brings it closer to its end, lost answers    *)
(* and lost leases included; and no process ever polls again after a stop. *)
StopDrains ==
    [][\A w \in Workers : procs[w].state = "stopping" =>
         /\ procs'[w].state \in {"stopping", "exited", "crashed"}
         /\ \A s \in Slots : WorkerOf(s) = w =>
               \/ slots'[s].pc = slots[s].pc
               \/ StepsLeft(slots'[s].pc) < StepsLeft(slots[s].pc)]_vars

(* A stop always ends: no execution, release or late claim keeps stop()    *)
(* waiting.                                                                *)
StopTerminates ==
    \A w \in Workers : procs[w].state = "stopping"
                          ~> procs[w].state \in {"exited", "crashed"}
=============================================================================
