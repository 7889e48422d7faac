---------------------------- MODULE EventContract ----------------------------
(***************************************************************************)
(* What the executions of the Agent keep to about the calendar event of    *)
(* one e-mail, however many there are and whatever they are doing: the row *)
(* comes before the event; another Job takes the row over only from one    *)
(* that has failed; it is completed only when the event is there, and that *)
(* is for good.  Requests, their answers and those that are still under    *)
(* way, and what the executions know, are left out.                        *)
(***************************************************************************)
CONSTANTS Jobs, None

VARIABLES
    row,      \* the e-mail's row in job_calendar_events
    event,    \* what Calendar has under the id derived from the e-mail
    jobs      \* the status of the Jobs

contractVars == <<row, event, jobs>>

ContractInit ==
    /\ row = [status |-> "absent", job |-> None]
    /\ event \in {"absent", "foreign"}
    /\ jobs = [j \in Jobs |-> "active"]

Take(j) ==
    /\ \/ row.status = "absent"
       \/ row.status = "creating" /\ (row.job = j \/ jobs[row.job] = "failed")
    /\ row' = [status |-> "creating", job |-> j]
    /\ UNCHANGED <<event, jobs>>

Put ==
    /\ row.status = "creating" /\ event = "absent"
    /\ event' = "ours"
    /\ UNCHANGED <<row, jobs>>

Record ==
    /\ row.status = "creating" /\ event = "ours"
    /\ row' = [row EXCEPT !.status = "completed"]
    /\ UNCHANGED <<event, jobs>>

End(j, status) ==
    /\ jobs[j] = "active"
    /\ jobs' = [jobs EXCEPT ![j] = status]
    /\ UNCHANGED <<row, event>>

ContractNext ==
    \/ \E j \in Jobs : Take(j)
    \/ Put \/ Record
    \/ \E j \in Jobs, status \in {"completed", "failed"} : End(j, status)

ContractSpec == ContractInit /\ [][ContractNext]_contractVars
=============================================================================
