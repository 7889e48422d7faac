----------------------------- MODULE JobService -----------------------------
(***************************************************************************)
(* What the queue and the workers together promise to whoever enqueues a   *)
(* Job, without workers, leases, attempts or lost answers: the Agent is    *)
(* started for the Job at most MaxAttempts times, the Job ends at most     *)
(* once, and it ends as completed only after one of those runs completed.  *)
(***************************************************************************)
EXTENDS Naturals

CONSTANTS Jobs, MaxAttempts

VARIABLES
    outcome,   \* "none" until the Job is enqueued, then "pending", then how it ended
    started,   \* how many runs of the Job have been created
    produced   \* whether one of them has completed

serviceVars == <<outcome, started, produced>>

ServiceInit ==
    /\ outcome = [j \in Jobs |-> "none"]
    /\ started = [j \in Jobs |-> 0]
    /\ produced = [j \in Jobs |-> FALSE]

Submit(j) ==
    /\ outcome[j] = "none"
    /\ outcome' = [outcome EXCEPT ![j] = "pending"]
    /\ UNCHANGED <<started, produced>>

(* A run may still start after the Job has ended: the lease protects the   *)
(* Job's row, not the Agent's execution.                                   *)
StartOneRun(j) ==
    /\ outcome[j] # "none"
    /\ started[j] < MaxAttempts
    /\ started' = [started EXCEPT ![j] = @ + 1]
    /\ UNCHANGED <<outcome, produced>>

Produce(j) ==
    /\ started[j] > 0
    /\ produced' = [produced EXCEPT ![j] = TRUE]
    /\ UNCHANGED <<outcome, started>>

Succeed(j) ==
    /\ outcome[j] = "pending"
    /\ produced[j]
    /\ outcome' = [outcome EXCEPT ![j] = "completed"]
    /\ UNCHANGED <<started, produced>>

(* One recovery of stale Jobs may give up several of them.                 *)
GiveUp(S) ==
    /\ \A j \in S : outcome[j] = "pending"
    /\ outcome' = [j \in Jobs |-> IF j \in S THEN "failed" ELSE outcome[j]]
    /\ UNCHANGED <<started, produced>>

ServiceNext ==
    \/ \E j \in Jobs : Submit(j) \/ StartOneRun(j) \/ Produce(j) \/ Succeed(j)
    \/ \E S \in SUBSET Jobs : GiveUp(S)

ServiceSpec == ServiceInit /\ [][ServiceNext]_serviceVars
=============================================================================
