------------------------------ MODULE JobLease ------------------------------
(***************************************************************************)
(* What the queue promises to the executions of its Jobs, and what the     *)
(* components that run inside an execution rely on: a lease is granted to  *)
(* one holder at a time and only while the Job is open; a Job completes    *)
(* only under a lease; and an end is final.  Statements, worker ids,       *)
(* attempts, delays and lock timeouts are left out.                        *)
(***************************************************************************)
CONSTANTS Jobs, Holders, Nobody

VARIABLES
    status,   \* of the Jobs: open ("active"), or how they ended
    holder    \* who has the lease of a Job

contractVars == <<status, holder>>

ContractInit ==
    /\ status = [j \in Jobs |-> "active"]
    /\ holder = [j \in Jobs |-> Nobody]

Grant(j, h) ==
    /\ status[j] = "active" /\ holder[j] = Nobody
    /\ holder' = [holder EXCEPT ![j] = h]
    /\ UNCHANGED status

Succeed(j) ==
    /\ holder[j] # Nobody
    /\ status' = [status EXCEPT ![j] = "completed"]
    /\ holder' = [holder EXCEPT ![j] = Nobody]

(* Leases end without a result, several at once when stale Jobs are        *)
(* recovered: the Jobs in lost may be granted again, those in given up are *)
(* not.                                                                    *)
Lapse(lost, givenUp) ==
    /\ \A j \in lost \cup givenUp : holder[j] # Nobody
    /\ status' = [j \in Jobs |-> IF j \in givenUp THEN "failed" ELSE status[j]]
    /\ holder' = [j \in Jobs |-> IF j \in lost \cup givenUp THEN Nobody ELSE holder[j]]

ContractNext ==
    \/ \E j \in Jobs, h \in Holders : Grant(j, h)
    \/ \E j \in Jobs : Succeed(j)
    \/ \E lost, givenUp \in SUBSET Jobs : Lapse(lost, givenUp)

ContractSpec == ContractInit /\ [][ContractNext]_contractVars
=============================================================================
