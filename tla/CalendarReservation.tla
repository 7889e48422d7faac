------------------------- MODULE CalendarReservation -------------------------
(***************************************************************************)
(* How executions of the Job-search e-mail Agent look for, reserve, create *)
(* and record the calendar event of one e-mail.  The id of the event and   *)
(* the idempotency key are derived from the e-mail, so that they are the   *)
(* same for every execution.  Several Jobs may be about the e-mail, and    *)
(* executions that lost their lease go on.                                 *)
(*                                                                         *)
(* Every call (a statement, a Calendar request) is one atomic step; it may *)
(* fail before it is applied, or be applied with its answer lost.  A crash *)
(* is an execution that takes no further step.                             *)
(***************************************************************************)
EXTENDS JobEmailPolicy

CONSTANTS
    Jobs,         \* the Jobs about the e-mail
    Executions    \* the executions the queue grants them

ASSUME CalendarAssumption == None \notin Jobs

VARIABLES
    row,      \* the e-mail's row in job_calendar_events
    event,    \* what Calendar has under the id derived from the e-mail
    late,     \* a creation whose answer nobody waits for is still under way
    busy,     \* the user has another appointment at the time of the meeting
    cal,      \* where the executions are, and what they know
    jobs      \* the status of the Jobs

calendarVars == <<row, event, late, busy, cal, jobs>>

(* finding, comparing:    the two requests of a look at the calendar       *)
(* reserving, reading:    the two statements of calendarEvents.reserve     *)
(* creating, refinding:   the creation, and the look after a refusal       *)
(* recording, rechecking: the two statements of calendarEvents.complete    *)
CalPc == {"idle", "finding", "comparing", "reserving", "reading", "creating",
          "refinding", "recording", "rechecking", "returned", "failed", "rejected"}

LookReasons == {"calendar_conflict", "calendar_permission_missing"}

(* writing: in createCalendarEvent, not in prepareCalendarAction.          *)
Cal == [pc: CalPc, job: Jobs \cup {None}, writing: BOOLEAN, found: BOOLEAN,
        result: {"none", "ready", "completed"} \cup LookReasons]

NoCal == [pc |-> "idle", job |-> None, writing |-> FALSE, found |-> FALSE, result |-> "none"]

CalendarInit ==
    /\ row = [status |-> "absent", job |-> None]
    /\ event \in {"absent", "foreign"}
    /\ late = FALSE /\ busy = FALSE
    /\ cal = [e \in Executions |-> NoCal]
    /\ jobs = [j \in Jobs |-> "active"]

CalAt(e, pc) == cal[e].pc = pc
CalTo(e, pc) == cal' = [cal EXCEPT ![e] = [cal[e] EXCEPT !.pc = pc]]
Returns(e, result) ==
    cal' = [cal EXCEPT ![e] = [cal[e] EXCEPT !.pc = "returned", !.result = result]]
CalFails(e) == CalTo(e, "failed")

-----------------------------------------------------------------------------
Look(e, j, writing) ==
    /\ cal' = [cal EXCEPT ![e] = [NoCal EXCEPT !.pc = "finding", !.job = j,
                                               !.writing = writing]]
    /\ UNCHANGED <<row, event, late, busy, jobs>>

\* Mutant of Clear: the event is created before it is reserved.
ClearReservingLater(e, found) ==
    cal' = [cal EXCEPT ![e] =
              IF cal[e].writing
              THEN [cal[e] EXCEPT !.found = found,
                                  !.pc = IF found THEN "reserving" ELSE "creating"]
              ELSE [cal[e] EXCEPT !.pc = "returned", !.result = "ready"]]

(* Before the reservation, prepareCalendarAction is done.                  *)
Clear(e, found) ==
    cal' = [cal EXCEPT ![e] =
              IF cal[e].writing THEN [cal[e] EXCEPT !.found = found, !.pc = "reserving"]
              ELSE [cal[e] EXCEPT !.pc = "returned", !.result = "ready"]]

(* An event under the id that does not carry the key is somebody else's.   *)
FindEvent(e) ==
    /\ CalAt(e, "finding")
    /\ \/ event = "ours" /\ Clear(e, TRUE)
       \/ event = "foreign" /\ Returns(e, "calendar_conflict")
       \/ event = "absent" /\ CalTo(e, "comparing")
       \/ Returns(e, "calendar_permission_missing")
    /\ UNCHANGED <<row, event, late, busy, jobs>>

(* The list holds the event itself if it has appeared in the meantime.     *)
FindConflictingEvents(e) ==
    /\ CalAt(e, "comparing")
    /\ \/ (busy \/ event = "ours") /\ Returns(e, "calendar_conflict")
       \/ ~busy /\ event # "ours" /\ Clear(e, FALSE)
       \/ Returns(e, "calendar_permission_missing")
    /\ UNCHANGED <<row, event, late, busy, jobs>>

(* The WHERE clause of the upsert.                                         *)
Reservable(e) ==
    \/ row.status = "absent"
    \/ row.status = "creating" /\ (row.job = cal[e].job \/ jobs[row.job] = "failed")

AfterReserve(e) == CalTo(e, IF cal[e].found THEN "recording" ELSE "creating")

Reserve(e) ==
    /\ CalAt(e, "reserving")
    /\ IF Reservable(e)
       THEN /\ row' = [status |-> "creating", job |-> cal[e].job]
            /\ AfterReserve(e) \/ CalFails(e)
       ELSE UNCHANGED row /\ CalTo(e, "reading")
    /\ UNCHANGED <<event, late, busy, jobs>>

(* The event of a completed row is reported as it was recorded.            *)
ReadReservation(e) ==
    /\ CalAt(e, "reading")
    /\ \/ row.status = "completed" /\ Returns(e, "completed")
       \/ row.status = "creating" /\ row.job = cal[e].job /\ AfterReserve(e)
       \/ row.status = "creating" /\ row.job # cal[e].job /\ CalFails(e)
    /\ UNCHANGED <<row, event, late, busy, jobs>>

(* Calendar refuses a second event with the same id.  A request that is    *)
(* given up by its timeout may still be carried out; an answer may be lost *)
(* (TEMPORARY_UNAVAILABLE) or unreadable (INVALID_RESPONSE).               *)
CreateEvent(e) ==
    /\ CalAt(e, "creating")
    /\ \/ event # "absent" /\ CalTo(e, "refinding") /\ UNCHANGED <<event, late>>
       \/ /\ event = "absent" /\ event' = "ours"
          /\ CalTo(e, "recording") \/ CalFails(e) \/ CalTo(e, "rejected")
          /\ UNCHANGED late
       \/ late' = TRUE /\ CalFails(e) /\ UNCHANGED event
    /\ UNCHANGED <<row, busy, jobs>>

FindCreated(e) ==
    /\ CalAt(e, "refinding")
    /\ CalTo(e, IF event = "ours" THEN "recording" ELSE "rejected")
    /\ UNCHANGED <<row, event, late, busy, jobs>>

OwnsRow(e) == row.status # "absent" /\ row.job = cal[e].job

Record(e) ==
    /\ CalAt(e, "recording")
    /\ IF OwnsRow(e) /\ row.status = "creating"
       THEN /\ row' = [row EXCEPT !.status = "completed"]
            /\ Returns(e, "completed") \/ CalFails(e)
       ELSE UNCHANGED row /\ CalTo(e, "rechecking")
    /\ UNCHANGED <<event, late, busy, jobs>>

RecheckRecorded(e) ==
    /\ CalAt(e, "rechecking")
    /\ \/ OwnsRow(e) /\ row.status = "completed" /\ Returns(e, "completed")
       \/ ~(OwnsRow(e) /\ row.status = "completed") /\ CalTo(e, "rejected")
    /\ UNCHANGED <<row, event, late, busy, jobs>>

(* A call fails and is not applied.  Calendar may refuse one for good.     *)
CalendarCallFails(e) ==
    /\ cal[e].pc \notin {"idle", "returned", "failed", "rejected"}
    /\ \/ CalFails(e)
       \/ /\ cal[e].pc \in {"finding", "comparing", "creating", "refinding"}
          /\ CalTo(e, "rejected")
    /\ UNCHANGED <<row, event, late, busy, jobs>>

-----------------------------------------------------------------------------
(* Calendar, the user, and the queue, which may end a Job while an         *)
(* execution of it still runs; its end matters here once it has the row.   *)
LateCreate ==
    /\ late /\ late' = FALSE
    /\ event' = IF event = "absent" THEN "ours" ELSE event
    /\ UNCHANGED <<row, busy, cal, jobs>>

UserBooks ==
    /\ ~busy /\ busy' = TRUE
    /\ UNCHANGED <<row, event, late, cal, jobs>>

JobEnds(j, status) ==
    /\ jobs[j] = "active" /\ row.job = j
    /\ jobs' = [jobs EXCEPT ![j] = status]
    /\ UNCHANGED <<row, event, late, busy, cal>>

CalendarStep(e) ==
    \/ FindEvent(e) \/ FindConflictingEvents(e)
    \/ Reserve(e) \/ ReadReservation(e)
    \/ CreateEvent(e) \/ FindCreated(e)
    \/ Record(e) \/ RecheckRecorded(e)
    \/ CalendarCallFails(e)

Outside ==
    \/ LateCreate \/ UserBooks
    \/ \E j \in Jobs, status \in {"completed", "failed"} : JobEnds(j, status)

(* An execution of which nothing is known but that it wants the event.     *)
Unknown(e) ==
    \/ \E j \in Jobs : CalAt(e, "idle") /\ jobs[j] = "active" /\ Look(e, j, TRUE)
    \/ CalendarStep(e)

CalendarNext == Outside \/ \E e \in Executions : Unknown(e)

CalendarSpec == CalendarInit /\ [][CalendarNext]_calendarVars

-----------------------------------------------------------------------------
CalendarTypeOK ==
    /\ row \in [status: {"absent", "creating", "completed"}, job: Jobs \cup {None}]
    /\ event \in {"absent", "ours", "foreign"}
    /\ late \in BOOLEAN /\ busy \in BOOLEAN
    /\ cal \in [Executions -> Cal]
    /\ jobs \in [Jobs -> {"active", "completed", "failed"}]

(* README.md: the reservation is made before Calendar is written to, so    *)
(* that a retry finds it.  The event, or a creation still under way, has a *)
(* row from before it; an event that is recorded, or that an execution     *)
(* reports, is there and is ours: whatever was lost, late, refused as a    *)
(* duplicate, or taken over by another Job on the way.                     *)
RecordedEventIsReal ==
    /\ event = "ours" \/ late => row.status # "absent"
    /\ row.status = "completed" => event = "ours"
    /\ \A e \in Executions : cal[e].result = "completed" => row.status = "completed"

(* The executions that write the event keep to EventContract: no lost or   *)
(* late answer, and no execution whose Job has been given to another, puts *)
(* an event that has no row, or completes a row that has no event.         *)
Contract == INSTANCE EventContract

KeepsEventContract == Contract!ContractSpec
=============================================================================
