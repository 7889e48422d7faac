----------------------------- MODULE WorkerLease -----------------------------
(***************************************************************************)
(* Worker with a history variable: which execution made the claim that a   *)
(* processing Job is under.  The rows only record locked_by, the id of the *)
(* whole process, so this is what complete, fail, release and extendLease  *)
(* are meant to check and cannot see.                                      *)
(***************************************************************************)
EXTENDS Worker

VARIABLE holder

leaseVars == <<jobs, runs, procs, slots, holder>>

NoHolder == <<NoWorker, 0>>

Claims(s, j) ==
    /\ slots[s].pc = "claiming"
    /\ slots'[s].pc = "claimed"
    /\ slots'[s].job = j

LeaseInit == Init /\ holder = [j \in Jobs |-> NoHolder]

LeaseNext ==
    /\ Next
    /\ holder' = [j \in Jobs |->
         IF jobs'[j].status # "processing" THEN NoHolder
         ELSE IF \E s \in Slots : Claims(s, j) THEN CHOOSE s \in Slots : Claims(s, j)
         ELSE holder[j]]

LeaseSpec == LeaseInit /\ [][LeaseNext]_leaseVars

(* s writes the outcome of its Job.                                        *)
Finalizes(s, j) ==
    /\ slots[s].pc \in {"releasing", "completing", "failing"}
    /\ slots[s].job = j
    /\ slots'[s].pc = "idle"
    /\ jobs[j].status = "processing" /\ jobs'[j].status # "processing"

(* worker.test.ts: an execution "does not finalize a Job after its lease   *)
(* is lost", that is, once recovery has handed the Job to another claim.   *)
OnlyHolderFinalizes ==
    [][\A s \in Slots, j \in Jobs : Finalizes(s, j) => holder[j] = s]_leaseVars

-----------------------------------------------------------------------------
(* The Jobs as JobLease sees them.                                         *)
LeaseStatus(status) == IF status \in {"completed", "failed"} THEN status ELSE "active"
LeaseStatuses == [j \in Jobs |-> LeaseStatus(jobs[j].status)]

Lease == INSTANCE JobLease WITH
    status <- LeaseStatuses, Holders <- Slots, Nobody <- NoHolder

(* The queue and its workers keep that contract: what the components that  *)
(* run inside an execution take for granted of their leases.               *)
ImplementsLease == Lease!ContractSpec
=============================================================================
