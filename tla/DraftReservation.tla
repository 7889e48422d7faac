-------------------------- MODULE DraftReservation --------------------------
(***************************************************************************)
(* How executions of the Job-search e-mail Agent write the Gmail draft of  *)
(* one e-mail: the row of job_email_drafts that reserves the write, the    *)
(* drafts in Gmail, and createDraft, which goes back and forth between     *)
(* them.  Several Jobs may be about the e-mail (a reset makes a new one),  *)
(* a Job is executed several times, and an execution that lost its lease,  *)
(* or whose tool loop timed out, goes on in the background.                *)
(*                                                                         *)
(* Every call (a statement, a Gmail request) is one atomic step; it may    *)
(* fail before it is applied, or be applied with its answer lost; a draft  *)
(* whose creation was given up may also appear at any later time.          *)
(***************************************************************************)
EXTENDS Naturals, FiniteSets

CONSTANTS
    Jobs,         \* the Jobs about the e-mail
    Executions,   \* the attempts the queue may grant them, over all Jobs
    Keys,         \* the idempotency keys: one per kind of draft
    None,
    MaxRemovals   \* how many drafts the user deletes or sends

ASSUME DraftAssumption ==
    /\ None \notin Jobs \cup Executions \cup Keys
    /\ IsFiniteSet(Executions)
    /\ MaxRemovals \in Nat

VARIABLES
    row,      \* the e-mail's row in job_email_drafts
    drafts,   \* the Gmail drafts, each named after the execution that created it
    leased,   \* the executions that asked for their draft while they held the lease
    late,     \* the executions whose given up request Gmail may still carry out
    overtaken, \* history: the drafts that came after another's search or creation
    exec,     \* the executions
    jobs,     \* the status of the Jobs
    holder    \* the execution that the lease of a Job belongs to

gmailVars == <<drafts, leased, late, overtaken>>
vars == <<row, gmailVars, exec, jobs, holder>>

Row == [status: {"absent", "creating", "completed"}, job: Jobs \cup {None},
        key: Keys \cup {None}, draft: Executions \cup {None}]

(* reserving, reading:     the two statements of drafts.reserve            *)
(* verifying, reopening:   the recorded draft is looked up, or replaced    *)
(* searching, creating:    the two requests to Gmail                       *)
(* recording, rechecking:  the two statements of drafts.complete           *)
(* done, failed, rejected: createDraft has returned, has thrown an error   *)
(*                         worth a retry, or one that is not               *)
ExecPc == {"idle", "reserving", "reading", "verifying", "reopening", "searching",
           "creating", "recording", "rechecking", "done", "failed", "rejected", "ended"}

Exec == [pc: ExecPc, job: Jobs \cup {None}, key: Keys \cup {None},
         draft: Executions \cup {None}]

Init ==
    /\ row = [status |-> "absent", job |-> None, key |-> None, draft |-> None]
    /\ drafts = [e \in Executions |-> "none"]
    /\ leased = {} /\ late = {} /\ overtaken = {}
    /\ exec = [e \in Executions |->
                  [pc |-> "idle", job |-> None, key |-> None, draft |-> None]]
    /\ jobs = [j \in Jobs |-> "active"]
    /\ holder = [j \in Jobs |-> None]

At(e, pc) == exec[e].pc = pc
Running(e) == exec[e].pc \notin {"idle", "ended"}
Holds(e) == exec[e].pc # "idle" /\ holder[exec[e].job] = e

GoTo(e, pc) == exec' = [exec EXCEPT ![e] = [exec[e] EXCEPT !.pc = pc]]
GoWith(e, pc, d) == exec' = [exec EXCEPT ![e] = [exec[e] EXCEPT !.pc = pc, !.draft = d]]

(* The step's call is applied, and its answer arrives or is lost.          *)
Proceed(e, pc) == GoTo(e, pc) \/ GoTo(e, "failed")

(* What findReplyDraft may answer: a draft that carries the Message-ID     *)
(* derived from the execution's key.                                       *)
Found(e) == {d \in Executions : drafts[d] = "present" /\ exec[d].key = exec[e].key}

-----------------------------------------------------------------------------
(* The queue starts an execution of an unfinished Job; the analysis by the *)
(* LLM decides the kind of draft, and may decide otherwise the next time.  *)
Begin(e, j, k) ==
    /\ At(e, "idle")
    /\ jobs[j] = "active" /\ holder[j] = None
    /\ exec' = [exec EXCEPT ![e] = [pc |-> "reserving", job |-> j, key |-> k,
                                    draft |-> None]]
    /\ holder' = [holder EXCEPT ![j] = e]
    /\ UNCHANGED <<row, gmailVars, jobs>>

(* The analysis asks for no draft: a review, or no reply at all.           *)
NoDraft(e) ==
    /\ At(e, "reserving")
    /\ GoTo(e, "done")
    /\ UNCHANGED <<row, gmailVars, jobs, holder>>

\* Mutant of Reservable: a reservation under way is no obstacle.
ReservableAlways(e) == row.status # "completed"

(* The WHERE clause of the upsert: no row yet, or one that its Job or a    *)
(* failed Job left unfinished.                                             *)
Reservable(e) ==
    \/ row.status = "absent"
    \/ /\ row.status = "creating"
       /\ row.job = exec[e].job \/ jobs[row.job] = "failed"

Reserved(e) == [status |-> "creating", job |-> exec[e].job, key |-> exec[e].key,
                draft |-> None]

Reserve(e) ==
    /\ At(e, "reserving")
    /\ IF Reservable(e)
       THEN row' = Reserved(e) /\ Proceed(e, "searching")
       ELSE UNCHANGED row /\ GoTo(e, "reading")
    /\ UNCHANGED <<gmailVars, jobs, holder>>

ReadReservation(e) ==
    /\ At(e, "reading")
    /\ GoTo(e, CASE row.status = "completed"  -> "verifying"
                 [] row.status = "creating" /\ row.job = exec[e].job -> "searching"
                 [] OTHER -> "failed")
    /\ UNCHANGED <<row, gmailVars, jobs, holder>>

(* A draft id in the database is reused only after Gmail confirms it.      *)
VerifyRecorded(e) ==
    /\ At(e, "verifying")
    /\ \/ /\ Found(e) = {}
          /\ GoTo(e, "reopening")
       \/ \E d \in Found(e) : GoWith(e, "done", d)
    /\ UNCHANGED <<row, gmailVars, jobs, holder>>

Reopenable(e) == row.status = "completed" /\ row.key = exec[e].key

Reopen(e) ==
    /\ At(e, "reopening")
    /\ Reopenable(e)
    /\ row' = Reserved(e)
    /\ Proceed(e, "searching")
    /\ UNCHANGED <<gmailVars, jobs, holder>>

ReopenRefused(e) ==
    /\ At(e, "reopening")
    /\ ~Reopenable(e)
    /\ GoTo(e, "failed")
    /\ UNCHANGED <<row, gmailVars, jobs, holder>>

\* Mutant of Search: an execution that holds the reservation creates at once.
SearchSkipped(e) ==
    /\ At(e, "searching")
    /\ GoTo(e, "creating")
    /\ UNCHANGED <<row, gmailVars, jobs, holder>>

Search(e) ==
    /\ At(e, "searching")
    /\ \/ /\ Found(e) = {}
          /\ GoTo(e, "creating")
       \/ \E d \in Found(e) : GoWith(e, "recording", d)
    /\ UNCHANGED <<row, gmailVars, jobs, holder>>

(* Gmail's answer may be lost (TEMPORARY_UNAVAILABLE) or unreadable        *)
(* (INVALID_RESPONSE, which is not retried).  A request that is given up   *)
(* by its timeout, or whose process dies, may still be carried out.        *)
CreateDraft(e) ==
    /\ At(e, "creating")
    /\ leased' = IF Holds(e) THEN leased \cup {e} ELSE leased
    /\ \/ /\ drafts' = [drafts EXCEPT ![e] = "present"]
          /\ \/ GoWith(e, "recording", e)
             \/ \E pc \in {"failed", "rejected"} : GoTo(e, pc)
          /\ UNCHANGED late
       \/ late' = late \cup {e} /\ GoTo(e, "failed") /\ UNCHANGED drafts
    /\ UNCHANGED <<row, overtaken, jobs, holder>>

(* Another execution has created a draft of this key meanwhile, or is      *)
(* about to: its search has found nothing.                                 *)
Overtaken(e) ==
    \E f \in Executions \ {e} :
        exec[f].key = exec[e].key /\ (drafts[f] = "present" \/ At(f, "creating"))

(* Gmail carries out a request after its sender has given it up.           *)
LateCreate(e) ==
    /\ e \in late /\ late' = late \ {e}
    /\ drafts' = [drafts EXCEPT ![e] = "present"]
    /\ overtaken' = IF Overtaken(e) THEN overtaken \cup {e} ELSE overtaken
    /\ UNCHANGED <<row, leased, exec, jobs, holder>>

OwnsRow(e) == row.status # "absent" /\ row.key = exec[e].key /\ row.job = exec[e].job

\* Mutant of Record: the WHERE clause forgets idempotency_key and job_id.
RecordAnyKey(e) ==
    /\ At(e, "recording")
    /\ IF row.status = "creating"
       THEN /\ row' = [row EXCEPT !.status = "completed", !.draft = exec[e].draft]
            /\ Proceed(e, "done")
       ELSE UNCHANGED row /\ GoTo(e, "rechecking")
    /\ UNCHANGED <<gmailVars, jobs, holder>>

Record(e) ==
    /\ At(e, "recording")
    /\ IF OwnsRow(e) /\ row.status = "creating"
       THEN /\ row' = [row EXCEPT !.status = "completed", !.draft = exec[e].draft]
            /\ Proceed(e, "done")
       ELSE UNCHANGED row /\ GoTo(e, "rechecking")
    /\ UNCHANGED <<gmailVars, jobs, holder>>

(* The same draft may have been recorded already; whether the hash of the  *)
(* body, which is composed anew by every execution, agrees is left open.   *)
RecheckRecorded(e) ==
    /\ At(e, "rechecking")
    /\ \/ /\ OwnsRow(e) /\ row.status = "completed" /\ row.draft = exec[e].draft
          /\ GoTo(e, "done")
       \/ GoTo(e, "rejected")
    /\ UNCHANGED <<row, gmailVars, jobs, holder>>

(* A call fails and is not applied; Gmail may refuse a request for good.   *)
CallFails(e) ==
    /\ Running(e) /\ exec[e].pc \notin {"done", "failed", "rejected"}
    /\ \/ GoTo(e, "failed")
       \/ exec[e].pc \in {"verifying", "searching", "creating"} /\ GoTo(e, "rejected")
    /\ UNCHANGED <<row, gmailVars, jobs, holder>>

-----------------------------------------------------------------------------
(* The execution and its Job. *)

\* Mutant of JobAfter: a retry is taken for a status of its own.
JobAfterWaiting(pc) == IF pc = "rejected" THEN {"failed"} ELSE {"retry_waiting"}

(* What the queue may make of an execution that ends with its lease: later *)
(* steps of the Agent can still fail, and attempts can run out.            *)
JobAfter(pc) ==
    CASE pc = "done"     -> {"completed", "active", "failed"}
      [] pc = "failed"   -> {"active", "failed"}
      [] pc = "rejected" -> {"failed"}

Settle(e) ==
    /\ exec[e].pc \in {"done", "failed", "rejected"}
    /\ GoTo(e, "ended")
    /\ IF Holds(e)
       THEN /\ \E status \in JobAfter(exec[e].pc) :
                  jobs' = [jobs EXCEPT ![exec[e].job] = status]
            /\ holder' = [holder EXCEPT ![exec[e].job] = None]
       ELSE UNCHANGED <<jobs, holder>>
    /\ UNCHANGED <<row, gmailVars>>

(* The Job's lease expires and is recovered, or the tool loop times out    *)
(* and the Job is failed, while createDraft still runs (or its process has *)
(* crashed).                                                               *)
Detach(j) ==
    /\ holder[j] # None
    /\ \E status \in {"active", "failed"} : jobs' = [jobs EXCEPT ![j] = status]
    /\ holder' = [holder EXCEPT ![j] = None]
    /\ UNCHANGED <<row, gmailVars, exec>>

Crash(e) ==
    /\ Running(e)
    /\ GoTo(e, "ended")
    /\ UNCHANGED <<row, gmailVars, jobs, holder>>

(* The user sends or deletes a draft. *)
Remove(d) ==
    /\ drafts[d] = "present"
    /\ Cardinality({e \in Executions : drafts[e] = "gone"}) < MaxRemovals
    /\ drafts' = [drafts EXCEPT ![d] = "gone"]
    /\ UNCHANGED <<row, leased, late, overtaken, exec, jobs, holder>>

Next ==
    \/ \E e \in Executions :
        \/ \E j \in Jobs, k \in Keys : Begin(e, j, k)
        \/ NoDraft(e) \/ Reserve(e) \/ ReadReservation(e)
        \/ VerifyRecorded(e) \/ Reopen(e) \/ ReopenRefused(e)
        \/ Search(e) \/ CreateDraft(e) \/ Record(e) \/ RecheckRecorded(e)
        \/ CallFails(e) \/ Settle(e) \/ Crash(e)
        \/ LateCreate(e) \/ Remove(e)
    \/ \E j \in Jobs : Detach(j)

Spec == Init /\ [][Next]_vars

-----------------------------------------------------------------------------
TypeOK ==
    /\ row \in Row
    /\ drafts \in [Executions -> {"none", "present", "gone"}]
    /\ leased \subseteq Executions
    /\ late \subseteq Executions /\ overtaken \subseteq Executions
    /\ exec \in [Executions -> Exec]
    /\ jobs \in [Jobs -> {"active", "completed", "failed"}]
    /\ holder \in [Jobs -> Executions \cup {None}]

(* A recorded draft was really created, and for the key of the row it is   *)
(* recorded in: neither a take-over of the row under a running execution   *)
(* nor a change of the key between attempts can mix them up.               *)
RecordedDraftIsReal ==
    row.status = "completed" =>
        /\ row.draft # None
        /\ drafts[row.draft] # "none"
        /\ exec[row.draft].key = row.key

Duplicates(d1, d2) == d1 # d2 /\ drafts[d1] = "present" /\ drafts[d2] = "present"

(* specification.md: reservation, idempotency key and the check in Gmail   *)
(* prevent duplicate side effects.                                         *)
OneDraft == \A d1, d2 \in Executions : ~Duplicates(d1, d2)

Untouched == \A d \in Executions : drafts[d] # "gone"
OneJob == \A e1, e2 \in Executions : exec[e1].job # None /\ exec[e2].job # None
                                        => exec[e1].job = exec[e2].job

(* The same, for drafts that were asked for under the lease and came in    *)
(* time: crashes, lost answers and retries alone make no second one, but a *)
(* request may be carried out after its sender has given it up and another *)
(* search has found nothing.  The user may remove drafts as long as only   *)
(* one Job is about the e-mail: a draft that is gone reopens the row,      *)
(* whichever Job works on it.                                              *)
OneLeasedDraft ==
    Untouched \/ OneJob => \A d1, d2 \in leased \ overtaken : ~Duplicates(d1, d2)

(* What the search in Gmail does give, also when the kind of draft changes *)
(* between attempts: no two of those drafts carry the same key.  A draft   *)
(* that came late, but before the search of any retry, is found like any   *)
(* other; one that came after it is a duplicate that nothing prevents.     *)
OneLeasedDraftOfKey ==
    Untouched \/ OneJob => \A d1, d2 \in leased \ overtaken :
                              Duplicates(d1, d2) => exec[d1].key # exec[d2].key

(* Executions of two Jobs that both hold their lease are never both        *)
(* between reservation and record.                                         *)
ExclusiveReservation ==
    Untouched \/ OneJob =>
      \A e1, e2 \in Executions :
        /\ Holds(e1) /\ exec[e1].pc \in {"searching", "creating", "recording"}
        /\ Holds(e2) /\ exec[e2].pc \in {"searching", "creating", "recording"}
        => e1 = e2

(* The leases of the executions, as JobLease sees them, keep the contract  *)
(* that the queue and its workers give.                                    *)
Lease == INSTANCE JobLease WITH status <- jobs, Holders <- Executions, Nobody <- None

RespectsLease == Lease!ContractSpec
=============================================================================
