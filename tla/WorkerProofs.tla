---------------------------- MODULE WorkerProofs ----------------------------
(***************************************************************************)
(* Proofs about Worker for every number of Jobs, processes, slots, runs    *)
(* and attempts.                                                           *)
(***************************************************************************)
EXTENDS Worker, JobQueueProofs, FiniteSetTheorems

-----------------------------------------------------------------------------
(* The core invariant: what a slot remembers agrees with the tables.       *)

HasJob(slot) == slot.pc \notin {"idle", "recovering", "claiming"} => slot.job \in Jobs

(* The run an execution works on is its own, and exists.                   *)
HasRun(slot, table) ==
    slot.pc = "executing" =>
        /\ slot.run \in Runs
        /\ table[slot.run].job = slot.job
        /\ table[slot.run].status # "absent"

(* An execution that reports an output has recorded its run as completed.  *)
HasOutput(slot, table) ==
    /\ slot.pc = "completing" => slot.outcome = "output"
    /\ slot.pc \in {"ran", "completing"} /\ slot.outcome = "output" =>
        /\ slot.run \in Runs
        /\ table[slot.run] = [job |-> slot.job, status |-> "completed"]

SlotOK(slot, table) == HasJob(slot) /\ HasRun(slot, table) /\ HasOutput(slot, table)

SlotsOK == \A s \in Slots : SlotOK(slots[s], runs)

Core == TypeOK /\ SlotsOK /\ RunsOK /\ AbsentOK

-----------------------------------------------------------------------------
(* What the slot and process helpers do to slots and procs.                *)

LEMMA WorkerOfType == \A s \in Slots : WorkerOf(s) \in Workers
  BY DEF Slots, WorkerOf

LEMMA SlotUpdate ==
  ASSUME slots \in [Slots -> SlotState], NEW s \in Slots, NEW new \in SlotState,
         slots' = [slots EXCEPT ![s] = new]
  PROVE  /\ slots' \in [Slots -> SlotState]
         /\ slots'[s] = new
         /\ \A t \in Slots : t # s => slots'[t] = slots[t]
  OBVIOUS

LEMMA IdleSlotType == IdleSlot \in SlotState
  BY DEF IdleSlot, SlotState, SlotPc, Outcome

LEMMA FinishType ==
  ASSUME slots \in [Slots -> SlotState], NEW s \in Slots, Finish(s)
  PROVE  /\ slots' \in [Slots -> SlotState]
         /\ slots'[s] = IdleSlot
         /\ \A t \in Slots : t # s => slots'[t] = slots[t]
  BY IdleSlotType, SlotUpdate DEF Finish

LEMMA GoToType ==
  ASSUME slots \in [Slots -> SlotState], NEW s \in Slots, NEW pc \in SlotPc, GoTo(s, pc)
  PROVE  /\ slots' \in [Slots -> SlotState]
         /\ slots'[s] = [slots[s] EXCEPT !.pc = pc]
         /\ \A t \in Slots : t # s => slots'[t] = slots[t]
<1>1. [slots[s] EXCEPT !.pc = pc] \in SlotState
  BY DEF SlotState
<1>2. slots' = [slots EXCEPT ![s] = [slots[s] EXCEPT !.pc = pc]]
  BY DEF GoTo
<1> QED BY <1>1, <1>2, SlotUpdate

LEMMA SettleType ==
  ASSUME slots \in [Slots -> SlotState], NEW s \in Slots,
         NEW outcome \in Outcome, Settle(s, outcome)
  PROVE  /\ slots' \in [Slots -> SlotState]
         /\ slots'[s] = [slots[s] EXCEPT !.pc = "ran", !.outcome = outcome]
         /\ \A t \in Slots : t # s => slots'[t] = slots[t]
<1>1. [slots[s] EXCEPT !.pc = "ran", !.outcome = outcome] \in SlotState
  BY DEF SlotState, SlotPc
<1> QED BY <1>1, SlotUpdate DEF Settle

LEMMA LoseLeaseType ==
  ASSUME slots \in [Slots -> SlotState], procs \in [Workers -> ProcRow],
         NEW s \in Slots, LoseLease(s)
  PROVE  /\ slots' \in [Slots -> SlotState]
         /\ slots'[s] = [slots[s] EXCEPT !.leaseLost = TRUE]
         /\ \A t \in Slots : t # s => slots'[t] = slots[t]
         /\ procs' \in [Workers -> ProcRow]
<1>1. [slots[s] EXCEPT !.leaseLost = TRUE] \in SlotState
  BY DEF SlotState
<1>2. slots' = [slots EXCEPT ![s] = [slots[s] EXCEPT !.leaseLost = TRUE]]
  BY DEF LoseLease
<1>3. procs' \in [Workers -> ProcRow]
  BY WorkerOfType DEF LoseLease, ProcRow
<1> QED BY <1>1, <1>2, <1>3, SlotUpdate

LEMMA RejectType ==
  ASSUME slots \in [Slots -> SlotState], procs \in [Workers -> ProcRow],
         NEW s \in Slots, Reject(s)
  PROVE  /\ slots' \in [Slots -> SlotState]
         /\ slots'[s] = IdleSlot
         /\ \A t \in Slots : t # s => slots'[t] = slots[t]
         /\ procs' \in [Workers -> ProcRow]
<1>1. procs' \in [Workers -> ProcRow]
  BY WorkerOfType DEF Reject, ProcRow
<1> QED BY <1>1, FinishType DEF Reject

LEMMA SetStateType ==
  ASSUME procs \in [Workers -> ProcRow], NEW w \in Workers,
         NEW state \in ProcState, SetState(w, state)
  PROVE  procs' \in [Workers -> ProcRow]
  BY DEF SetState, ProcRow

-----------------------------------------------------------------------------
(* The core invariant is inductive. *)

LEMMA IdleSlotOK == \A table : SlotOK(IdleSlot, table)
  BY DEF SlotOK, HasJob, HasRun, HasOutput, IdleSlot

LEMMA CoreInit == Init => Core
<1> SUFFICES ASSUME Init
             PROVE  Core
  OBVIOUS
<1>1. TypeOK
  BY QueueInitType, IdleSlotType DEF Init, TypeOK, ProcRow, ProcState
<1>2. SlotsOK
  BY IdleSlotOK DEF Init, SlotsOK
<1> QED BY <1>1, <1>2, AbsentInit DEF Init, Core

(* A slot that keeps its state keeps its word, whatever a statement does.  *)
LEMMA SlotKept ==
  ASSUME Core, [QueueNext]_queueVars, NEW slot \in SlotState, SlotOK(slot, runs)
  PROVE  SlotOK(slot, runs')
<1>1. \A r \in Runs :
        /\ runs[r].status # "absent" =>
             /\ runs'[r].job = runs[r].job
             /\ runs'[r].status # "absent"
        /\ runs[r].status = "completed" => runs'[r] = runs[r]
  BY RunStep DEF Core, TypeOK
<1> QED BY <1>1 DEF SlotOK, HasJob, HasRun, HasOutput

LEMMA CoreStepOfSlot ==
  ASSUME Core, [QueueNext]_queueVars, NEW s \in Slots,
         slots' \in [Slots -> SlotState],
         procs' \in [Workers -> ProcRow],
         \A t \in Slots : t # s => slots'[t] = slots[t],
         SlotOK(slots'[s], runs')
  PROVE  Core'
<1>1. QueueTypeOK' /\ RunsOK' /\ AbsentOK'
  BY QueueStepType, RunStep, AbsentStep DEF Core, TypeOK, RunsOK
<1>2. ASSUME NEW t \in Slots
      PROVE  SlotOK(slots'[t], runs')
  BY SlotKept DEF Core, TypeOK, SlotsOK
<1> QED BY <1>1, <1>2 DEF Core, TypeOK, SlotsOK

(* Every step of processNextJob is a statement of JobQueue or none, and    *)
(* changes its own slot only, to a state that agrees with the tables.      *)
SlotEffect(s) ==
    /\ [QueueNext]_queueVars
    /\ slots' \in [Slots -> SlotState]
    /\ procs' \in [Workers -> ProcRow]
    /\ \A t \in Slots : t # s => slots'[t] = slots[t]
    /\ SlotOK(slots'[s], runs')

LEMMA EndEffect ==
  ASSUME Core, [QueueNext]_queueVars, NEW s \in Slots,
         (Finish(s) /\ UNCHANGED procs) \/ Reject(s)
  PROVE  SlotEffect(s)
  BY FinishType, RejectType, IdleSlotOK DEF Core, TypeOK, SlotEffect

LEMMA SettleErrorEffect ==
  ASSUME Core, [QueueNext]_queueVars, NEW s \in Slots,
         slots[s].pc \notin {"idle", "recovering", "claiming"},
         NEW outcome \in {"retryable", "fatal"}, Settle(s, outcome),
         UNCHANGED procs
  PROVE  SlotEffect(s)
<1>1. /\ slots \in [Slots -> SlotState]
      /\ slots[s] \in SlotState
      /\ SlotOK(slots[s], runs)
      /\ outcome \in Outcome
  BY DEF Core, TypeOK, SlotsOK, Outcome
<1>2. /\ slots'[s].pc = "ran"
      /\ slots'[s].outcome = outcome
      /\ slots'[s].job = slots[s].job
  <2>1. slots'[s] = [slots[s] EXCEPT !.pc = "ran", !.outcome = outcome]
    BY <1>1, SettleType
  <2> QED BY <1>1, <2>1 DEF SlotState
<1>3. SlotOK(slots'[s], runs')
  BY <1>1, <1>2 DEF SlotOK, HasJob, HasRun, HasOutput
<1> QED BY <1>1, <1>3, SettleType DEF Core, TypeOK, SlotEffect

LEMMA GoToEffect ==
  ASSUME Core, [QueueNext]_queueVars, NEW s \in Slots,
         NEW pc \in {"recovering", "claiming", "releasing", "starting", "failing"}, GoTo(s, pc),
         pc \in {"recovering", "claiming"} \/ slots[s].pc \notin {"idle", "recovering", "claiming"},
         UNCHANGED procs
  PROVE  SlotEffect(s)
<1>1. /\ slots \in [Slots -> SlotState]
      /\ slots[s] \in SlotState
      /\ SlotOK(slots[s], runs)
      /\ pc \in SlotPc
  BY DEF Core, TypeOK, SlotsOK, SlotPc
<1>2. slots'[s].pc = pc /\ slots'[s].job = slots[s].job
  <2>1. slots'[s] = [slots[s] EXCEPT !.pc = pc]
    BY <1>1, GoToType
  <2> QED BY <1>1, <2>1 DEF SlotState
<1>3. SlotOK(slots'[s], runs')
  BY <1>1, <1>2 DEF SlotOK, HasJob, HasRun, HasOutput
<1> QED BY <1>1, <1>3, GoToType DEF Core, TypeOK, SlotEffect

LEMMA SlotStepEffect ==
  ASSUME Core, NEW s \in Slots, SlotStep(s)
  PROVE  SlotEffect(s)
<1>s. /\ slots \in [Slots -> SlotState]
      /\ procs \in [Workers -> ProcRow]
      /\ WorkerOf(s) \in Workers
      /\ SlotOK(slots[s], runs)
      /\ slots[s] \in SlotState
  BY WorkerOfType DEF Core, TypeOK, SlotsOK
<1>j. slots[s].pc \notin {"idle", "recovering", "claiming"} => JobOf(s) \in Jobs
  BY <1>s DEF SlotOK, HasJob, JobOf
<1>1. CASE Poll(s) \/ Recover(s)
  BY <1>1, GoToEffect DEF Poll, Recover, QueueNext, queueVars
<1>2. ASSUME NEW j \in Jobs, ClaimNext(s, j)
      PROVE  SlotEffect(s)
  <2>1. [QueueNext]_queueVars
    BY <1>2, <1>s DEF ClaimNext, SkippableRows, QueueNext
  <2> DEFINE new == [slots[s] EXCEPT !.pc = "claimed", !.job = j]
  <2>2. new \in SlotState /\ new.pc = "claimed" /\ new.job = j
    BY <1>s DEF SlotState, SlotPc
  <2>3. slots' = [slots EXCEPT ![s] = new]
    BY <1>2 DEF ClaimNext
  <2> HIDE DEF new
  <2>4. /\ slots' \in [Slots -> SlotState]
        /\ slots'[s] = new
        /\ \A t \in Slots : t # s => slots'[t] = slots[t]
    BY <1>s, <2>2, <2>3, SlotUpdate
  <2>5. SlotOK(new, runs')
    BY <2>2 DEF SlotOK, HasJob, HasRun, HasOutput
  <2> QED BY <1>2, <1>s, <2>1, <2>4, <2>5 DEF ClaimNext, SlotEffect
<1>3. CASE ClaimNothing(s) \/ ClaimError(s) \/ WriteRejected(s) \/ AbandonLostLease(s)
  BY <1>3, EndEffect
     DEF ClaimNothing, ClaimError, WriteRejected, AbandonLostLease, queueVars
<1>4. CASE ClaimAnswered(s)
  BY <1>4, GoToEffect, SettleErrorEffect DEF ClaimAnswered, queueVars
<1>5. CASE ReleaseClaim(s) \/ CompleteJob(s) \/ FailJob(s)
  <2>1. [QueueNext]_queueVars
    BY <1>5, <1>s, <1>j DEF ReleaseClaim, CompleteJob, FailJob, QueueNext
  <2> QED BY <1>5, <2>1, EndEffect DEF ReleaseClaim, CompleteJob, FailJob
<1>6. ASSUME NEW r \in Runs, PersistStart(s, r)
      PROVE  SlotEffect(s)
  <2>1. [QueueNext]_queueVars
    BY <1>6, <1>j DEF PersistStart, QueueNext
  <2>2. CASE Settle(s, "retryable")
    BY <1>6, <2>1, <2>2, SettleErrorEffect DEF PersistStart
  <2> DEFINE new == [slots[s] EXCEPT !.pc = "executing", !.run = r]
  <2>3. CASE slots' = [slots EXCEPT ![s] = new]
    <3>1. /\ new \in SlotState
          /\ new.pc = "executing"
          /\ new.run = r
          /\ new.job = slots[s].job
      BY <1>s DEF SlotState, SlotPc
    <3> HIDE DEF new
    <3>2. /\ slots' \in [Slots -> SlotState]
          /\ slots'[s] = new
          /\ \A t \in Slots : t # s => slots'[t] = slots[t]
      BY <1>s, <2>3, <3>1, SlotUpdate
    <3>3. runs'[r] = [job |-> slots[s].job, status |-> "running"]
      BY <1>6 DEF PersistStart, StartRun, JobOf, Core, TypeOK, QueueTypeOK
    <3>4. new.job \in Jobs
      BY <1>6, <1>j, <3>1 DEF PersistStart, JobOf
    <3>5. SlotOK(new, runs')
      BY <3>1, <3>3, <3>4 DEF SlotOK, HasJob, HasRun, HasOutput
    <3> QED BY <1>6, <1>s, <2>1, <3>2, <3>5 DEF PersistStart, SlotEffect
  <2> QED BY <1>6, <2>2, <2>3 DEF PersistStart
<1>7. CASE PersistCompletion(s)
  <2>1. slots[s].run \in Runs /\ runs[slots[s].run].job = slots[s].job
    BY <1>7, <1>s DEF PersistCompletion, SlotOK, HasRun
  <2>2. [QueueNext]_queueVars
    BY <1>7, <2>1 DEF PersistCompletion, QueueNext
  <2>3. CASE Settle(s, "retryable")
    BY <1>7, <2>2, <2>3, SettleErrorEffect DEF PersistCompletion
  <2>4. CASE Settle(s, "output")
    <3>1. /\ slots' \in [Slots -> SlotState]
          /\ slots'[s] = [slots[s] EXCEPT !.pc = "ran", !.outcome = "output"]
          /\ \A t \in Slots : t # s => slots'[t] = slots[t]
      BY <1>s, <2>4, SettleType DEF Outcome
    <3>2. /\ slots'[s].pc = "ran"
          /\ slots'[s].job = slots[s].job
          /\ slots'[s].run = slots[s].run
      BY <1>s, <3>1 DEF SlotState
    <3>3. runs'[slots[s].run] = [job |-> slots[s].job, status |-> "completed"]
      BY <1>7, <2>1 DEF PersistCompletion, CompleteRun, Core, TypeOK, QueueTypeOK, RunRow
    <3>4. SlotOK(slots'[s], runs')
      BY <1>7, <1>s, <2>1, <3>2, <3>3
         DEF PersistCompletion, SlotOK, HasJob, HasRun, HasOutput
    <3> QED BY <1>7, <1>s, <2>2, <3>1, <3>4 DEF PersistCompletion, SlotEffect
  <2> QED BY <1>7, <2>3, <2>4 DEF PersistCompletion
<1>8. CASE PersistFailure(s)
  <2>1. slots[s].run \in Runs
    BY <1>8, <1>s DEF PersistFailure, SlotOK, HasRun
  <2>2. [QueueNext]_queueVars
    BY <1>8, <2>1 DEF PersistFailure, QueueNext
  <2> QED BY <1>8, <2>2, SettleErrorEffect DEF PersistFailure
<1>9. CASE PersistError(s) \/ PersistStartError(s)
  BY <1>9, SettleErrorEffect DEF PersistError, PersistStartError, queueVars
<1>10. CASE ReportOutcome(s)
  <2>1. [QueueNext]_queueVars
    BY <1>10 DEF ReportOutcome, queueVars
  <2>2. CASE slots[s].outcome = "output"
    <3>1. GoTo(s, "completing") /\ "completing" \in SlotPc
      BY <1>10, <2>2 DEF ReportOutcome, SlotPc
    <3>2. /\ slots'[s].pc = "completing"
          /\ slots'[s].job = slots[s].job
          /\ slots'[s].run = slots[s].run
          /\ slots'[s].outcome = "output"
      <4>1. slots'[s] = [slots[s] EXCEPT !.pc = "completing"]
        BY <1>s, <3>1, GoToType
      <4> QED BY <1>s, <2>2, <4>1 DEF SlotState
    <3>3. SlotOK(slots'[s], runs')
      BY <1>10, <1>s, <2>2, <3>2 DEF ReportOutcome, SlotOK, HasJob, HasRun, HasOutput
    <3> QED BY <1>10, <1>s, <2>1, <3>1, <3>3, GoToType DEF ReportOutcome, SlotEffect
  <2>3. CASE slots[s].outcome # "output"
    BY <1>10, <2>1, <2>3, GoToEffect DEF ReportOutcome
  <2> QED BY <2>2, <2>3
<1> QED
  BY <1>1, <1>2, <1>3, <1>4, <1>5, <1>6, <1>7, <1>8, <1>9, <1>10 DEF SlotStep

(* The heartbeat and the lease timer.                                      *)
LEMMA LeaseStepEffect ==
  ASSUME Core, NEW s \in Slots,
         Heartbeat(s) \/ HeartbeatRefused(s) \/ LeaseDeadline(s)
  PROVE  SlotEffect(s)
<1>s. /\ slots \in [Slots -> SlotState]
      /\ procs \in [Workers -> ProcRow]
      /\ WorkerOf(s) \in Workers
      /\ SlotOK(slots[s], runs)
      /\ slots[s] \in SlotState
  BY WorkerOfType DEF Core, TypeOK, SlotsOK
<1>1. CASE Heartbeat(s)
  <2>1. JobOf(s) \in Jobs
    BY <1>1, <1>s DEF Heartbeat, Monitored, SlotOK, HasJob, JobOf
  <2>2. [QueueNext]_queueVars
    BY <1>1, <1>s, <2>1 DEF Heartbeat, QueueNext
  <2> QED BY <1>1, <1>s, <2>2, SlotKept DEF Heartbeat, SlotEffect
<1>2. CASE HeartbeatRefused(s) \/ LeaseDeadline(s)
  <2>1. LoseLease(s) /\ UNCHANGED <<jobs, runs>>
    BY <1>2 DEF HeartbeatRefused, LeaseDeadline
  <2>2. /\ slots'[s].pc = slots[s].pc
        /\ slots'[s].job = slots[s].job
        /\ slots'[s].run = slots[s].run
        /\ slots'[s].outcome = slots[s].outcome
    BY <1>s, <2>1, LoseLeaseType DEF SlotState
  <2>3. SlotOK(slots'[s], runs')
    BY <1>s, <2>1, <2>2 DEF SlotOK, HasJob, HasRun, HasOutput
  <2> QED BY <1>s, <2>1, <2>3, LoseLeaseType DEF SlotEffect, queueVars
<1> QED BY <1>1, <1>2

(* The steps that belong to no slot: clients, processes, clocks.           *)
LEMMA OtherStepEffect ==
  ASSUME Core,
         \/ \E j \in Jobs, b \in BOOLEAN : EnqueueJob(j, b)
         \/ \E w \in Workers : StartWorker(w) \/ Stop(w) \/ Exit(w) \/ Crash(w)
         \/ \E j \in Jobs : Clock(j)
         \/ UNCHANGED vars
  PROVE  /\ [QueueNext]_queueVars
         /\ procs' \in [Workers -> ProcRow]
         /\ \A s \in Slots : slots'[s] \in {slots[s], IdleSlot}
         /\ slots' \in [Slots -> SlotState]
<1>s. /\ slots \in [Slots -> SlotState]
      /\ procs \in [Workers -> ProcRow]
  BY DEF Core, TypeOK
<1>1. [QueueNext]_queueVars
  BY DEF EnqueueJob, StartWorker, Stop, Exit, Crash, Clock, QueueNext, queueVars, vars
<1>2. procs' \in [Workers -> ProcRow]
  BY <1>s, SetStateType
     DEF EnqueueJob, StartWorker, Stop, Exit, Crash, Clock, vars, ProcState
<1>3. CASE UNCHANGED slots
  BY <1>1, <1>2, <1>3, <1>s
<1>4. ASSUME NEW w \in Workers, Crash(w)
      PROVE  /\ \A s \in Slots : slots'[s] \in {slots[s], IdleSlot}
             /\ slots' \in [Slots -> SlotState]
  BY <1>4, <1>s, IdleSlotType DEF Crash
<1>5. UNCHANGED slots \/ \E w \in Workers : Crash(w)
  BY DEF EnqueueJob, StartWorker, Stop, Exit, Clock, vars
<1> QED BY <1>1, <1>2, <1>3, <1>4, <1>5

LEMMA CoreStep ==
  ASSUME Core, [Next]_vars
  PROVE  Core' /\ [QueueNext]_queueVars
<1>1. ASSUME NEW s \in Slots, SlotEffect(s)
      PROVE  Core' /\ [QueueNext]_queueVars
  BY <1>1, CoreStepOfSlot DEF SlotEffect
<1>2. CASE \E s \in Slots : \/ SlotStep(s)
                            \/ Heartbeat(s) \/ HeartbeatRefused(s) \/ LeaseDeadline(s)
  BY <1>1, <1>2, SlotStepEffect, LeaseStepEffect
<1>3. CASE \/ \E j \in Jobs, b \in BOOLEAN : EnqueueJob(j, b)
           \/ \E w \in Workers : StartWorker(w) \/ Stop(w) \/ Exit(w) \/ Crash(w)
           \/ \E j \in Jobs : Clock(j)
           \/ UNCHANGED vars
  <2>1. /\ [QueueNext]_queueVars
        /\ procs' \in [Workers -> ProcRow]
        /\ \A s \in Slots : slots'[s] \in {slots[s], IdleSlot}
        /\ slots' \in [Slots -> SlotState]
    BY <1>3, OtherStepEffect
  <2>2. QueueTypeOK' /\ RunsOK' /\ AbsentOK'
    BY <2>1, QueueStepType, RunStep, AbsentStep DEF Core, TypeOK, RunsOK
  <2>3. SlotsOK'
    BY <2>1, SlotKept, IdleSlotOK DEF Core, TypeOK, SlotsOK
  <2> QED BY <2>1, <2>2, <2>3 DEF Core, TypeOK
<1> QED BY <1>2, <1>3 DEF Next

LEMMA CoreInvariant == Spec => []Core
  BY CoreInit, CoreStep, PTL DEF Spec

(* Tables, processes and executions keep their shape.                      *)
THEOREM TypeCorrect == Spec => []TypeOK
<1>1. Core => TypeOK
  BY DEF Core
<1> QED BY <1>1, CoreInvariant, PTL

(* The workers use the queue only through its statements, so everything    *)
(* proved of the queue holds of the whole system.                          *)
THEOREM WorkersUseTheQueue == Spec => QueueSpec
<1>1. Init => QueueInit
  BY DEF Init
<1>2. Core /\ [Next]_vars => [QueueNext]_queueVars
  BY CoreStep
<1> QED BY <1>1, <1>2, CoreInvariant, PTL DEF Spec, QueueSpec

-----------------------------------------------------------------------------
(* The attempt budget: every run and every claim that may still start one  *)
(* is paid for.  The sets are finite because attempts pay for their        *)
(* members one by one, even if there were infinitely many slots or runs.   *)

Paid(j) ==
    /\ IsFiniteSet(RunsOf(j))
    /\ IsFiniteSet(Unstarted(j))
    /\ Cardinality(RunsOf(j)) + Cardinality(Unstarted(j)) <= jobs[j].attempts

AllPaid == \A j \in Jobs : Paid(j)

LEMMA AttemptsType == Core => \A j \in Jobs : jobs[j].attempts \in Nat
  BY DEF Core, TypeOK, QueueTypeOK, JobRow

LEMMA PaidKept ==
  ASSUME NEW j \in Jobs, Paid(j), jobs[j].attempts \in Nat,
         RunsOf(j)' \subseteq RunsOf(j),
         Unstarted(j)' \subseteq Unstarted(j),
         jobs'[j].attempts = jobs[j].attempts
  PROVE  Paid(j)'
<1>1. /\ IsFiniteSet(RunsOf(j)')
      /\ IsFiniteSet(Unstarted(j)')
      /\ Cardinality(RunsOf(j)') <= Cardinality(RunsOf(j))
      /\ Cardinality(Unstarted(j)') <= Cardinality(Unstarted(j))
  BY FS_Subset DEF Paid
<1>2. /\ Cardinality(RunsOf(j)) \in Nat /\ Cardinality(Unstarted(j)) \in Nat
      /\ Cardinality(RunsOf(j)') \in Nat /\ Cardinality(Unstarted(j)') \in Nat
  BY <1>1, FS_CardinalityType DEF Paid
<1> QED BY <1>1, <1>2 DEF Paid

(* Which slot may count for which Job.                                     *)
CountsFor(slot, j) == slot.pc \in {"claimed", "releasing", "starting"} /\ slot.job = j

LEMMA UnstartedKept ==
  ASSUME NEW s \in Slots, NEW j,
         \A t \in Slots : t # s => slots'[t] = slots[t],
         CountsFor(slots'[s], j) => CountsFor(slots[s], j)
  PROVE  Unstarted(j)' \subseteq Unstarted(j)
  BY DEF Unstarted, CountsFor

LEMMA RunJobsKept ==
  ASSUME QueueTypeOK,
         \/ UNCHANGED runs
         \/ \E S : runs' = WithRunsFailed(S)
         \/ \E r \in Runs : CompleteRun(r) \/ FailRun(r)
  PROVE  \A j : RunsOf(j)' = RunsOf(j)
<1> SUFFICES ASSUME NEW q \in Runs
             PROVE  runs'[q].job = runs[q].job
  BY DEF RunsOf
<1>1. CASE UNCHANGED runs
  BY <1>1
<1>2. ASSUME NEW S, runs' = WithRunsFailed(S)
      PROVE  runs'[q].job = runs[q].job
  BY <1>2 DEF WithRunsFailed, QueueTypeOK, RunRow
<1>3. ASSUME NEW r \in Runs, CompleteRun(r) \/ FailRun(r)
      PROVE  runs'[q].job = runs[q].job
  BY <1>3 DEF CompleteRun, FailRun, QueueTypeOK, RunRow
<1> QED BY <1>1, <1>2, <1>3

LEMMA AttemptsKept ==
  ASSUME QueueTypeOK, AbsentOK,
         \/ UNCHANGED jobs
         \/ RecoverStaleJobs
         \/ \E j \in Jobs, b \in BOOLEAN : Enqueue(j, b)
         \/ \E w \in Workers, j \in Jobs : Complete(w, j) \/ ExtendLease(w, j)
         \/ \E w \in Workers, j \in Jobs, b \in BOOLEAN : Fail(w, j, b)
         \/ \E j \in Jobs : BecomeAvailable(j) \/ LeaseExpires(j)
  PROVE  \A k \in Jobs : jobs'[k].attempts = jobs[k].attempts
<1> SUFFICES ASSUME NEW k \in Jobs
             PROVE  jobs'[k].attempts = jobs[k].attempts
  OBVIOUS
<1> USE DEF QueueTypeOK
<1>1. CASE UNCHANGED jobs
  BY <1>1
<1>2. CASE RecoverStaleJobs
  BY <1>2 DEF RecoverStaleJobs, Recovered, JobRow
<1>3. ASSUME NEW j \in Jobs, NEW b \in BOOLEAN, Enqueue(j, b)
      PROVE  jobs'[k].attempts = jobs[k].attempts
  BY <1>3 DEF Enqueue, AbsentOK, NoJobRow
<1>4. ASSUME NEW w \in Workers, NEW j \in Jobs, Complete(w, j)
      PROVE  jobs'[k].attempts = jobs[k].attempts
  BY <1>4 DEF Complete, Completed, JobRow
<1>5. ASSUME NEW w \in Workers, NEW j \in Jobs, ExtendLease(w, j)
      PROVE  jobs'[k].attempts = jobs[k].attempts
  BY <1>5 DEF ExtendLease, JobRow
<1>6. ASSUME NEW w \in Workers, NEW j \in Jobs, NEW b \in BOOLEAN, Fail(w, j, b)
      PROVE  jobs'[k].attempts = jobs[k].attempts
  BY <1>6 DEF Fail, Failed, JobRow
<1>7. ASSUME NEW j \in Jobs, BecomeAvailable(j)
      PROVE  jobs'[k].attempts = jobs[k].attempts
  BY <1>7 DEF BecomeAvailable, JobRow
<1>8. ASSUME NEW j \in Jobs, LeaseExpires(j)
      PROVE  jobs'[k].attempts = jobs[k].attempts
  BY <1>8 DEF LeaseExpires, JobRow
<1> QED BY <1>1, <1>2, <1>3, <1>4, <1>5, <1>6, <1>7, <1>8

(* The steps that neither use nor give back an attempt.                    *)
KeepsBudget ==
    \A j \in Jobs :
        /\ RunsOf(j)' \subseteq RunsOf(j)
        /\ Unstarted(j)' \subseteq Unstarted(j)
        /\ jobs'[j].attempts = jobs[j].attempts

(* What the helpers leave of a slot's claim.                               *)
LEMMA SlotClaimKept ==
  ASSUME Core, NEW s \in Slots,
         \/ Finish(s) \/ Reject(s) \/ LoseLease(s)
         \/ \E outcome \in Outcome : Settle(s, outcome)
         \/ \E pc \in {"recovering", "claiming", "completing", "failing"} : GoTo(s, pc)
         \/ slots[s].pc = "claimed" /\ \E pc \in {"releasing", "starting"} : GoTo(s, pc)
  PROVE  \A j : Unstarted(j)' \subseteq Unstarted(j)
<1> SUFFICES ASSUME NEW j
             PROVE  Unstarted(j)' \subseteq Unstarted(j)
  OBVIOUS
<1>s. /\ slots \in [Slots -> SlotState]
      /\ procs \in [Workers -> ProcRow]
      /\ slots[s] \in SlotState
  BY DEF Core, TypeOK
<1>1. CASE Finish(s) \/ Reject(s)
  <2>1. slots'[s].pc = "idle" /\ \A t \in Slots : t # s => slots'[t] = slots[t]
    BY <1>1, <1>s, FinishType DEF Reject, IdleSlot
  <2> QED BY <2>1, UnstartedKept DEF CountsFor
<1>2. CASE LoseLease(s)
  <2>1. /\ slots'[s] = [slots[s] EXCEPT !.leaseLost = TRUE]
        /\ \A t \in Slots : t # s => slots'[t] = slots[t]
    BY <1>2, <1>s, LoseLeaseType
  <2>2. slots'[s].pc = slots[s].pc /\ slots'[s].job = slots[s].job
    BY <1>s, <2>1 DEF SlotState
  <2> QED BY <2>1, <2>2, UnstartedKept DEF CountsFor
<1>3. ASSUME NEW outcome \in Outcome, Settle(s, outcome)
      PROVE  Unstarted(j)' \subseteq Unstarted(j)
  <2>1. /\ slots'[s] = [slots[s] EXCEPT !.pc = "ran", !.outcome = outcome]
        /\ \A t \in Slots : t # s => slots'[t] = slots[t]
    BY <1>3, <1>s, SettleType
  <2>2. slots'[s].pc = "ran"
    BY <1>s, <2>1 DEF SlotState
  <2> QED BY <2>1, <2>2, UnstartedKept DEF CountsFor
<1>4. ASSUME NEW pc \in SlotPc, GoTo(s, pc),
             pc \in {"recovering", "claiming", "completing", "failing"} \/ slots[s].pc = "claimed"
      PROVE  Unstarted(j)' \subseteq Unstarted(j)
  <2>1. /\ slots'[s] = [slots[s] EXCEPT !.pc = pc]
        /\ \A t \in Slots : t # s => slots'[t] = slots[t]
    BY <1>4, <1>s, GoToType
  <2>2. slots'[s].pc = pc /\ slots'[s].job = slots[s].job
    BY <1>s, <2>1 DEF SlotState
  <2> QED BY <1>4, <2>1, <2>2, UnstartedKept DEF CountsFor
<1> QED BY <1>1, <1>2, <1>3, <1>4 DEF SlotPc

LEMMA SlotStepBudget ==
  ASSUME Core, NEW s \in Slots, SlotStep(s)
  PROVE  \/ KeepsBudget
         \/ \E j \in Jobs : ClaimNext(s, j)
         \/ ReleaseClaim(s)
         \/ \E r \in Runs : PersistStart(s, r)
<1>q. QueueTypeOK /\ AbsentOK /\ WorkerOf(s) \in Workers
  BY WorkerOfType DEF Core, TypeOK
<1>j. slots[s].pc \notin {"idle", "recovering", "claiming"} => JobOf(s) \in Jobs
  BY DEF Core, SlotsOK, SlotOK, HasJob, JobOf
<1>r. slots[s].pc = "executing" => slots[s].run \in Runs
  BY DEF Core, SlotsOK, SlotOK, HasRun
<1>1. CASE Poll(s) \/ Recover(s)
  <2>1. \A j : Unstarted(j)' \subseteq Unstarted(j)
    BY <1>1, SlotClaimKept DEF Poll, Recover
  <2> QED BY <1>1, <1>q, <2>1, AttemptsKept, RunJobsKept
          DEF Poll, Recover, RecoverStaleJobs, KeepsBudget
<1>2. CASE ClaimNothing(s) \/ ClaimError(s) \/ WriteRejected(s) \/ AbandonLostLease(s)
  <2>1. UNCHANGED <<jobs, runs>> /\ (Finish(s) \/ Reject(s))
    BY <1>2 DEF ClaimNothing, ClaimError, WriteRejected, AbandonLostLease
  <2> QED BY <1>q, <2>1, AttemptsKept, RunJobsKept, SlotClaimKept DEF KeepsBudget
<1>3. CASE ClaimAnswered(s)
  <2>1. \A j : Unstarted(j)' \subseteq Unstarted(j)
    BY <1>3, SlotClaimKept DEF ClaimAnswered, Outcome
  <2> QED BY <1>3, <1>q, <2>1, AttemptsKept, RunJobsKept DEF ClaimAnswered, KeepsBudget
<1>4. CASE CompleteJob(s) \/ FailJob(s)
  <2>1. Finish(s) \/ Reject(s)
    BY <1>4 DEF CompleteJob, FailJob
  <2>2. \A j : RunsOf(j)' = RunsOf(j)
    BY <1>4, <1>q, RunJobsKept DEF CompleteJob, FailJob, Complete, Fail
  <2>3. \A j \in Jobs : jobs'[j].attempts = jobs[j].attempts
    BY <1>4, <1>q, <1>j, AttemptsKept DEF CompleteJob, FailJob
  <2> QED BY <2>1, <2>2, <2>3, SlotClaimKept DEF KeepsBudget
<1>5. CASE PersistCompletion(s) \/ PersistFailure(s) \/ PersistError(s) \/ PersistStartError(s)
  <2>1. \E outcome \in Outcome : Settle(s, outcome)
    BY <1>5 DEF PersistCompletion, PersistFailure, PersistError, PersistStartError, Outcome
  <2>2. \A j : RunsOf(j)' = RunsOf(j)
    BY <1>5, <1>q, <1>r, RunJobsKept
       DEF PersistCompletion, PersistFailure, PersistError, PersistStartError
  <2>3. UNCHANGED jobs
    BY <1>5 DEF PersistCompletion, PersistFailure, PersistError, PersistStartError,
                CompleteRun, FailRun
  <2> QED BY <2>1, <2>2, <2>3, SlotClaimKept DEF KeepsBudget
<1>6. CASE ReportOutcome(s)
  <2>1. \A j : Unstarted(j)' \subseteq Unstarted(j)
    BY <1>6, SlotClaimKept DEF ReportOutcome
  <2> QED BY <1>6, <1>q, <2>1, AttemptsKept, RunJobsKept DEF ReportOutcome, KeepsBudget
<1> QED BY <1>1, <1>2, <1>3, <1>4, <1>5, <1>6 DEF SlotStep

LEMMA LeaseStepBudget ==
  ASSUME Core, NEW s \in Slots,
         Heartbeat(s) \/ HeartbeatRefused(s) \/ LeaseDeadline(s)
  PROVE  KeepsBudget
<1>q. QueueTypeOK /\ AbsentOK /\ WorkerOf(s) \in Workers
  BY WorkerOfType DEF Core, TypeOK
<1>1. CASE Heartbeat(s)
  <2>1. JobOf(s) \in Jobs
    BY <1>1 DEF Heartbeat, Monitored, Core, SlotsOK, SlotOK, HasJob, JobOf
  <2>2. UNCHANGED <<runs, slots>> /\ ExtendLease(WorkerOf(s), JobOf(s))
    BY <1>1 DEF Heartbeat, ExtendLease
  <2>3. \A j : Unstarted(j)' = Unstarted(j)
    BY <2>2 DEF Unstarted
  <2> QED BY <1>q, <2>1, <2>2, <2>3, AttemptsKept, RunJobsKept DEF KeepsBudget
<1>2. CASE HeartbeatRefused(s) \/ LeaseDeadline(s)
  <2>1. UNCHANGED <<jobs, runs>> /\ LoseLease(s)
    BY <1>2 DEF HeartbeatRefused, LeaseDeadline
  <2> QED BY <1>q, <2>1, AttemptsKept, RunJobsKept, SlotClaimKept DEF KeepsBudget
<1> QED BY <1>1, <1>2

LEMMA OtherStepBudget ==
  ASSUME Core,
         \/ \E j \in Jobs, b \in BOOLEAN : EnqueueJob(j, b)
         \/ \E w \in Workers : StartWorker(w) \/ Stop(w) \/ Exit(w) \/ Crash(w)
         \/ \E j \in Jobs : Clock(j)
         \/ UNCHANGED vars
  PROVE  KeepsBudget
<1>q. QueueTypeOK /\ AbsentOK
  BY DEF Core, TypeOK
<1>1. \A s \in Slots : slots'[s] \in {slots[s], IdleSlot}
  BY OtherStepEffect
<1>2. \A j : Unstarted(j)' \subseteq Unstarted(j)
  BY <1>1 DEF Unstarted, IdleSlot
<1>3. UNCHANGED runs
  BY DEF EnqueueJob, StartWorker, Stop, Exit, Crash, Clock, vars, Enqueue,
         BecomeAvailable, LeaseExpires
<1>4. \A j \in Jobs : jobs'[j].attempts = jobs[j].attempts
  BY <1>q, AttemptsKept DEF EnqueueJob, StartWorker, Stop, Exit, Crash, Clock, vars
<1> QED BY <1>2, <1>3, <1>4 DEF KeepsBudget, RunsOf

(* A claim takes one attempt and one slot starts to count for the Job.     *)
LEMMA ClaimBudget ==
  ASSUME Core, AllPaid, NEW s \in Slots, NEW j \in Jobs, ClaimNext(s, j)
  PROVE  AllPaid'
<1> SUFFICES ASSUME NEW k \in Jobs
             PROVE  Paid(k)'
  BY DEF AllPaid
<1>s. slots \in [Slots -> SlotState] /\ slots[s] \in SlotState /\ jobs \in [Jobs -> JobRow]
  BY DEF Core, TypeOK, QueueTypeOK
<1>1. Paid(k) /\ jobs[k].attempts \in Nat
  BY AttemptsType DEF AllPaid
<1>2. RunsOf(k)' = RunsOf(k)
  BY DEF ClaimNext, Claim, RunsOf
<1>3. /\ slots[s].pc = "claiming"
      /\ slots'[s].pc = "claimed"
      /\ slots'[s].job = j
      /\ \A t \in Slots : t # s => slots'[t] = slots[t]
  <2>1. slots' = [slots EXCEPT ![s] = [slots[s] EXCEPT !.pc = "claimed", !.job = j]]
    BY DEF ClaimNext
  <2>2. slots[s].pc = "claiming"
    BY DEF ClaimNext
  <2> QED BY <1>s, <2>1, <2>2 DEF SlotState
<1>4. CASE k # j
  <2>1. jobs'[k].attempts = jobs[k].attempts
    BY <1>s, <1>4 DEF ClaimNext, Claim
  <2>2. Unstarted(k)' \subseteq Unstarted(k)
    BY <1>3, <1>4, UnstartedKept DEF CountsFor
  <2> QED BY <1>1, <1>2, <2>1, <2>2, PaidKept
<1>5. CASE k = j
  <2>1. jobs'[j].attempts = jobs[j].attempts + 1
    BY <1>s DEF ClaimNext, Claim, Claimed, JobRow
  <2>2. Unstarted(j)' = Unstarted(j) \cup {s} /\ s \notin Unstarted(j)
    BY <1>3 DEF Unstarted
  <2>3. /\ IsFiniteSet(Unstarted(j)')
        /\ Cardinality(Unstarted(j)') = Cardinality(Unstarted(j)) + 1
    BY <1>1, <1>5, <2>2, FS_AddElement DEF Paid
  <2>4. Cardinality(RunsOf(j)) \in Nat /\ Cardinality(Unstarted(j)) \in Nat
    BY <1>1, <1>5, FS_CardinalityType DEF Paid
  <2> QED BY <1>1, <1>2, <1>5, <2>1, <2>3, <2>4 DEF Paid
<1> QED BY <1>4, <1>5

(* A release gives the attempt back only for the slot that lets go of it.  *)
LEMMA ReleaseBudget ==
  ASSUME Core, AllPaid, NEW s \in Slots, ReleaseClaim(s)
  PROVE  AllPaid'
<1> SUFFICES ASSUME NEW k \in Jobs
             PROVE  Paid(k)'
  BY DEF AllPaid
<1>s. slots \in [Slots -> SlotState] /\ procs \in [Workers -> ProcRow]
        /\ jobs \in [Jobs -> JobRow]
  BY DEF Core, TypeOK, QueueTypeOK
<1>j. JobOf(s) \in Jobs
  BY DEF ReleaseClaim, Core, SlotsOK, SlotOK, HasJob, JobOf
<1>1. Paid(k) /\ jobs[k].attempts \in Nat
  BY AttemptsType DEF AllPaid
<1>2. RunsOf(k)' = RunsOf(k)
  BY DEF ReleaseClaim, Release, RunsOf
<1>3. /\ slots'[s].pc = "idle"
      /\ \A t \in Slots : t # s => slots'[t] = slots[t]
  BY <1>s, FinishType DEF ReleaseClaim, Reject, IdleSlot
<1>4. Unstarted(k)' \subseteq Unstarted(k)
  BY <1>3, UnstartedKept DEF CountsFor
<1>5. CASE k # JobOf(s)
  <2>1. jobs'[k].attempts = jobs[k].attempts
    BY <1>s, <1>5 DEF ReleaseClaim, Release
  <2> QED BY <1>1, <1>2, <1>4, <2>1, PaidKept
<1>6. CASE k = JobOf(s)
  <2>1. s \in Unstarted(k) /\ s \notin Unstarted(k)'
    BY <1>3, <1>6 DEF ReleaseClaim, Unstarted, JobOf
  <2>2. Unstarted(k)' \subseteq Unstarted(k) \ {s}
    BY <1>4, <2>1
  <2>3. /\ IsFiniteSet(Unstarted(k) \ {s})
        /\ Cardinality(Unstarted(k) \ {s}) = Cardinality(Unstarted(k)) - 1
    BY <1>1, <2>1, FS_RemoveElement DEF Paid
  <2>4. /\ IsFiniteSet(Unstarted(k)')
        /\ Cardinality(Unstarted(k)') <= Cardinality(Unstarted(k)) - 1
    BY <2>2, <2>3, FS_Subset
  <2>5. /\ Cardinality(RunsOf(k)) \in Nat /\ Cardinality(Unstarted(k)) \in Nat
        /\ Cardinality(Unstarted(k)') \in Nat
    BY <1>1, <2>4, FS_CardinalityType DEF Paid
  <2>6. jobs'[k].attempts = IF jobs[k].attempts = 0 THEN 0 ELSE jobs[k].attempts - 1
    BY <1>s, <1>6 DEF ReleaseClaim, Release, Released, JobRow
  <2> QED BY <1>1, <1>2, <2>4, <2>5, <2>6 DEF Paid
<1> QED BY <1>5, <1>6

(* A run that starts takes the place of the claim that paid for it.        *)
LEMMA StartBudget ==
  ASSUME Core, AllPaid, NEW s \in Slots, NEW r \in Runs, PersistStart(s, r)
  PROVE  AllPaid'
<1> SUFFICES ASSUME NEW k \in Jobs
             PROVE  Paid(k)'
  BY DEF AllPaid
<1>s. slots \in [Slots -> SlotState] /\ slots[s] \in SlotState /\ runs \in [Runs -> RunRow]
  BY DEF Core, TypeOK, QueueTypeOK
<1>1. Paid(k) /\ jobs[k].attempts \in Nat
  BY AttemptsType DEF AllPaid
<1>2. jobs'[k].attempts = jobs[k].attempts
  BY DEF PersistStart, StartRun
<1>3. /\ slots'[s].pc \in {"executing", "ran"}
      /\ \A t \in Slots : t # s => slots'[t] = slots[t]
  <2>1. \/ slots' = [slots EXCEPT ![s] = [slots[s] EXCEPT !.pc = "executing", !.run = r]]
        \/ slots' = [slots EXCEPT ![s] = [slots[s] EXCEPT !.pc = "ran", !.outcome = "retryable"]]
    BY DEF PersistStart, Settle
  <2> QED BY <1>s, <2>1 DEF SlotState
<1>4. Unstarted(k)' \subseteq Unstarted(k)
  BY <1>3, UnstartedKept DEF CountsFor
<1>5. CASE k # JobOf(s)
  <2>1. RunsOf(k)' \subseteq RunsOf(k)
    BY <1>s, <1>5 DEF PersistStart, StartRun, RunsOf
  <2> QED BY <1>1, <1>2, <1>4, <2>1, PaidKept
<1>6. CASE k = JobOf(s)
  <2>1. s \in Unstarted(k) /\ s \notin Unstarted(k)'
    BY <1>3, <1>6 DEF PersistStart, Unstarted, JobOf
  <2>2. /\ IsFiniteSet(Unstarted(k) \ {s})
        /\ Cardinality(Unstarted(k) \ {s}) = Cardinality(Unstarted(k)) - 1
    BY <1>1, <2>1, FS_RemoveElement DEF Paid
  <2>3. /\ IsFiniteSet(Unstarted(k)')
        /\ Cardinality(Unstarted(k)') <= Cardinality(Unstarted(k)) - 1
    BY <1>4, <2>1, <2>2, FS_Subset
  <2>4. RunsOf(k)' \subseteq RunsOf(k) \cup {r}
    BY <1>s DEF PersistStart, StartRun, RunsOf
  <2>5. /\ IsFiniteSet(RunsOf(k) \cup {r})
        /\ Cardinality(RunsOf(k) \cup {r}) <= Cardinality(RunsOf(k)) + 1
    <3>1. r \notin RunsOf(k)
      BY DEF PersistStart, StartRun, RunsOf, Core, RunsOK, Jobs, NoJob
    <3>2. Cardinality(RunsOf(k)) \in Nat
      BY <1>1, FS_CardinalityType DEF Paid
    <3>3. /\ IsFiniteSet(RunsOf(k) \cup {r})
          /\ Cardinality(RunsOf(k) \cup {r}) = Cardinality(RunsOf(k)) + 1
      BY <1>1, <3>1, FS_AddElement DEF Paid
    <3> QED BY <3>2, <3>3
  <2>6. /\ IsFiniteSet(RunsOf(k)')
        /\ Cardinality(RunsOf(k)') <= Cardinality(RunsOf(k) \cup {r})
    BY <2>4, <2>5, FS_Subset
  <2>7. /\ Cardinality(RunsOf(k)) \in Nat /\ Cardinality(Unstarted(k)) \in Nat
        /\ Cardinality(RunsOf(k)') \in Nat /\ Cardinality(Unstarted(k)') \in Nat
        /\ Cardinality(RunsOf(k) \cup {r}) \in Nat
    BY <1>1, <2>3, <2>5, <2>6, FS_CardinalityType DEF Paid
  <2> QED BY <1>1, <1>2, <2>3, <2>5, <2>6, <2>7 DEF Paid
<1> QED BY <1>5, <1>6

LEMMA PaidInit == Init => AllPaid
<1> SUFFICES ASSUME Init, NEW j \in Jobs
             PROVE  Paid(j)
  BY DEF AllPaid
<1>1. RunsOf(j) = {} /\ Unstarted(j) = {}
  BY DEF Init, QueueInit, RunsOf, Unstarted, IdleSlot, NoRunRow, Jobs, NoJob
<1>2. jobs[j].attempts = 0
  BY DEF Init, QueueInit, NoJobRow
<1> QED BY <1>1, <1>2, FS_EmptySet DEF Paid

LEMMA PaidStep ==
  ASSUME Core, AllPaid, [Next]_vars
  PROVE  AllPaid'
<1>1. ASSUME KeepsBudget
      PROVE  AllPaid'
  BY <1>1, PaidKept, AttemptsType DEF KeepsBudget, AllPaid
<1>2. ASSUME NEW s \in Slots,
             \/ SlotStep(s)
             \/ Heartbeat(s) \/ HeartbeatRefused(s) \/ LeaseDeadline(s)
      PROVE  AllPaid'
  BY <1>1, <1>2, SlotStepBudget, LeaseStepBudget, ClaimBudget, ReleaseBudget, StartBudget
<1>3. CASE \/ \E j \in Jobs, b \in BOOLEAN : EnqueueJob(j, b)
           \/ \E w \in Workers : StartWorker(w) \/ Stop(w) \/ Exit(w) \/ Crash(w)
           \/ \E j \in Jobs : Clock(j)
           \/ UNCHANGED vars
  BY <1>1, <1>3, OtherStepBudget
<1> QED BY <1>2, <1>3 DEF Next

LEMMA PaidInvariant == Spec => [](Core /\ AllPaid)
<1>1. Core /\ AllPaid /\ [Next]_vars => (Core /\ AllPaid)'
  BY CoreStep, PaidStep
<1> QED BY <1>1, CoreInit, PaidInit, PTL DEF Spec

(* Every run of a Job, and every claim that may still start one, is paid   *)
(* for by an attempt, for any number of overlapping executions.            *)
THEOREM RunsArePaidFor == Spec => []RunsPaidFor
<1>1. AllPaid => RunsPaidFor
  BY DEF AllPaid, Paid, RunsPaidFor
<1> QED BY <1>1, PaidInvariant, PTL

(* The Agent is started at most MaxAttempts times for a Job.               *)
THEOREM RunsAreBounded == Spec => []AtMostMaxAttemptsRuns
<1>1. AttemptsBounded /\ Core /\ AllPaid => AtMostMaxAttemptsRuns
  <2> SUFFICES ASSUME AttemptsBounded, Core, AllPaid, NEW j \in Jobs
               PROVE  Cardinality(RunsOf(j)) <= MaxAttempts
    BY DEF AtMostMaxAttemptsRuns
  <2>1. Cardinality(RunsOf(j)) \in Nat /\ Cardinality(Unstarted(j)) \in Nat
    BY FS_CardinalityType DEF AllPaid, Paid
  <2> QED
    BY <2>1, AttemptsType, QueueAssumption DEF AttemptsBounded, AllPaid, Paid
<1> QED BY <1>1, PaidInvariant, WorkersUseTheQueue, QueueAttemptsBounded, PTL

-----------------------------------------------------------------------------
(* What a stop leaves to do. *)

Draining(s) ==
    \/ slots'[s].pc = slots[s].pc
    \/ StepsLeft(slots'[s].pc) < StepsLeft(slots[s].pc)

Drains(w) ==
    /\ procs'[w].state \in {"stopping", "exited", "crashed"}
    /\ \A s \in Slots : WorkerOf(s) = w => Draining(s)

LEMMA IdleDrains == ASSUME NEW s, slots'[s].pc = "idle" PROVE Draining(s)
  BY DEF Draining, StepsLeft

LEMMA SlotStepDrains ==
  ASSUME Core, NEW s \in Slots, SlotStep(s), procs[WorkerOf(s)].state = "stopping"
  PROVE  Draining(s) /\ procs'[WorkerOf(s)].state = "stopping"
<1>s. /\ slots \in [Slots -> SlotState] /\ slots[s] \in SlotState
      /\ procs \in [Workers -> ProcRow] /\ WorkerOf(s) \in Workers
  BY WorkerOfType DEF Core, TypeOK
<1>f. ASSUME Finish(s) PROVE Draining(s)
  BY <1>s, <1>f, IdleDrains DEF Finish, IdleSlot
<1>r. ASSUME Reject(s) PROVE Draining(s) /\ procs'[WorkerOf(s)].state = "stopping"
  BY <1>s, <1>r, <1>f DEF Reject, ProcRow
<1>g. ASSUME NEW pc, GoTo(s, pc), StepsLeft(pc) < StepsLeft(slots[s].pc) PROVE Draining(s)
  <2>1. slots'[s].pc = pc
    BY <1>s, <1>g DEF GoTo, SlotState
  <2> QED BY <1>g, <2>1 DEF Draining
<1>o. ASSUME NEW outcome, Settle(s, outcome), slots[s].pc \in {"starting", "executing"}
      PROVE  Draining(s)
  <2>1. slots'[s].pc = "ran"
    BY <1>s, <1>o DEF Settle, SlotState
  <2> QED BY <1>o, <2>1 DEF Draining, StepsLeft
<1>1. ASSUME NEW j \in Jobs, ClaimNext(s, j) PROVE Draining(s) /\ UNCHANGED procs
  <2>1. slots[s].pc = "claiming" /\ slots'[s].pc = "claimed" /\ UNCHANGED procs
    BY <1>s, <1>1 DEF ClaimNext, SlotState
  <2> QED BY <2>1 DEF Draining, StepsLeft
<1>2. ASSUME NEW r \in Runs, PersistStart(s, r) PROVE Draining(s) /\ UNCHANGED procs
  <2>1. ASSUME slots' = [slots EXCEPT ![s] = [slots[s] EXCEPT !.pc = "executing", !.run = r]]
        PROVE  Draining(s)
    <3>1. slots[s].pc = "starting" /\ slots'[s].pc = "executing"
      BY <1>s, <1>2, <2>1 DEF PersistStart, SlotState
    <3> QED BY <3>1 DEF Draining, StepsLeft
  <2> QED BY <1>2, <1>o, <2>1 DEF PersistStart
<1>3. CASE Recover(s)
  BY <1>3, <1>g DEF Recover, StepsLeft
<1>4. CASE ClaimAnswered(s)
  BY <1>4, <1>g DEF ClaimAnswered, StepsLeft
<1>5. CASE ReportOutcome(s)
  BY <1>5, <1>g DEF ReportOutcome, StepsLeft
<1>6. CASE PersistCompletion(s) \/ PersistFailure(s) \/ PersistError(s) \/ PersistStartError(s)
  BY <1>6, <1>o DEF PersistCompletion, PersistFailure, PersistError, PersistStartError
<1>7. CASE ClaimNothing(s) \/ AbandonLostLease(s)
  BY <1>7, <1>f DEF ClaimNothing, AbandonLostLease
<1>8. CASE ReleaseClaim(s) \/ CompleteJob(s) \/ FailJob(s)
  BY <1>8, <1>f, <1>r DEF ReleaseClaim, CompleteJob, FailJob
<1>9. CASE ClaimError(s) \/ WriteRejected(s)
  BY <1>9, <1>r DEF ClaimError, WriteRejected
<1>10. ~Poll(s)
  BY DEF Poll
<1> QED BY <1>1, <1>2, <1>3, <1>4, <1>5, <1>6, <1>7, <1>8, <1>9, <1>10 DEF SlotStep

(* A step of one execution leaves the others, and their processes, alone.  *)
LEMMA OneSlotMoves ==
  ASSUME Core, NEW s \in Slots,
         SlotStep(s) \/ Heartbeat(s) \/ HeartbeatRefused(s) \/ LeaseDeadline(s)
  PROVE  /\ \A t \in Slots : t # s => slots'[t] = slots[t]
         /\ \A w \in Workers : procs'[w].state = procs[w].state
<1>1. \A t \in Slots : t # s => slots'[t] = slots[t]
  BY SlotStepEffect, LeaseStepEffect DEF SlotEffect
<1>2. procs \in [Workers -> ProcRow]
  BY DEF Core, TypeOK
<1>3. \/ UNCHANGED procs \/ Reject(s) \/ LoseLease(s)
  BY DEF SlotStep, Poll, Recover, ClaimNothing, ClaimAnswered, ReleaseClaim, ClaimNext,
     PersistStart, PersistCompletion, PersistFailure, PersistError, AbandonLostLease,
     ReportOutcome, CompleteJob, FailJob, ClaimError, PersistStartError, WriteRejected,
     Heartbeat, HeartbeatRefused, LeaseDeadline
<1>4. ASSUME Reject(s) \/ LoseLease(s), NEW w \in Workers
      PROVE  procs'[w].state = procs[w].state
  BY <1>2, <1>4 DEF Reject, LoseLease, ProcRow
<1> QED BY <1>1, <1>3, <1>4

(* In a process that is stopping nothing begins, and every step that an    *)
(* execution takes is one of the few it has left: the safety half of       *)
(* StopTerminates, for any number of slots, Jobs and other processes.      *)
THEOREM StopsOnlyDrain == Spec => StopDrains
<1>1. ASSUME Core, [Next]_vars, NEW w \in Workers, procs[w].state = "stopping"
      PROVE  Drains(w)
  <2>s. procs \in [Workers -> ProcRow] /\ slots \in [Slots -> SlotState]
    BY <1>1 DEF Core, TypeOK
  <2>1. ASSUME NEW s \in Slots, SlotStep(s) PROVE Drains(w)
    <3>1. /\ \A t \in Slots : t # s => slots'[t] = slots[t]
          /\ procs'[w].state = "stopping"
      BY <1>1, <2>1, OneSlotMoves
    <3>2. WorkerOf(s) = w => Draining(s)
      BY <1>1, <2>1, SlotStepDrains
    <3> QED BY <1>1, <3>1, <3>2 DEF Drains, Draining
  <2>2. ASSUME NEW s \in Slots, Heartbeat(s) \/ HeartbeatRefused(s) \/ LeaseDeadline(s)
        PROVE Drains(w)
    <3>1. /\ \A t \in Slots : t # s => slots'[t] = slots[t]
          /\ procs'[w].state = "stopping"
      BY <1>1, <2>2, OneSlotMoves
    <3>2. slots'[s].pc = slots[s].pc
      BY <2>s, <2>2 DEF Heartbeat, HeartbeatRefused, LeaseDeadline, LoseLease, SlotState
    <3> QED BY <1>1, <3>1, <3>2 DEF Drains, Draining
  <2>3. CASE \E j \in Jobs : (\E b \in BOOLEAN : EnqueueJob(j, b)) \/ Clock(j)
    BY <1>1, <2>3 DEF EnqueueJob, Clock, Drains, Draining
  <2>4. ASSUME NEW v \in Workers, StartWorker(v) \/ Stop(v) \/ Exit(v) \/ Crash(v)
        PROVE Drains(w)
    <3>1. procs'[w].state \in {"stopping", "exited", "crashed"}
      BY <1>1, <2>s, <2>4 DEF StartWorker, Stop, Exit, Crash, SetState, ProcRow
    <3>2. \A s \in Slots : slots'[s] = slots[s] \/ slots'[s] = IdleSlot
      BY <2>s, <2>4 DEF StartWorker, Stop, Exit, Crash
    <3>3. \A s \in Slots : Draining(s)
      BY <3>2, IdleDrains DEF IdleSlot, Draining
    <3> QED BY <3>1, <3>3 DEF Drains
  <2>5. CASE UNCHANGED vars
    BY <1>1, <2>5 DEF vars, Drains, Draining
  <2> QED BY <1>1, <2>1, <2>2, <2>3, <2>4, <2>5 DEF Next
<1>2. Core /\ [Next]_vars =>
        (\A w \in Workers : procs[w].state = "stopping" => Drains(w))
  BY <1>1
<1> QED BY <1>2, CoreInvariant, PTL DEF Spec, StopDrains, Drains, Draining
=============================================================================
