------------------------- MODULE JobEmailAgentProofs -------------------------
(***************************************************************************)
(* Proofs about JobEmailAgent for every number of Jobs and executions, and *)
(* every analysis, reply and row of settings.                              *)
(***************************************************************************)
EXTENDS JobEmailAgent, TLAPS

-----------------------------------------------------------------------------
(* The calendar event. *)

Reserving == {"reserving", "reading", "creating", "refinding", "recording", "rechecking"}

(* What one call knows of the row and the event is still so: neither goes  *)
(* back to what it was.                                                    *)
CallOK(c) ==
    /\ c.pc \in {"creating", "refinding", "recording", "rechecking"} => row.status # "absent"
    /\ c.found \/ c.pc \in {"recording", "rechecking"} => event = "ours"
    /\ c.result = "completed" => row.status = "completed"
    /\ c.pc \in Reserving => c.writing
    /\ c.result \in {"none", "completed"} \cup LookReasons \/ ~c.writing
    /\ c.result # "completed" \/ c.writing
    /\ c.pc = "returned" <=> c.result # "none"

CalendarInv ==
    /\ CalendarTypeOK
    /\ RecordedEventIsReal
    /\ \A e \in Executions : CallOK(cal[e])

-----------------------------------------------------------------------------
(* One execution: x is its record, t the steps of its run.                 *)

(* The trace: which step is open, and which may have failed.               *)
TraceOK(x, t) ==
    /\ \A s \in StepName :
          /\ t[s] = "pending" => s = x.step /\ x.phase \in {"working", "looking", "completing",
                                                            "failing", "threw"}
          /\ t[s] = "failed" => x.phase = "threw"
    /\ x.error = "permanent" => \/ x.phase = "failing"
                                \/ x.phase = "threw" /\ t[x.step] = "failed"
    /\ x.phase = "answered" => x.step = "COMPLETE" /\ t["COMPLETE"] = "succeeded"
    /\ x.hasEvent => \/ t["CREATE_CALENDAR_EVENT"] = "succeeded"
                     \/ /\ x.step = "CREATE_CALENDAR_EVENT"
                        /\ x.phase \in {"completing", "failing", "threw"}
    /\ x.hasDraft => \/ t["CREATE_DRAFT"] = "succeeded"
                     \/ /\ x.step = "CREATE_DRAFT"
                        /\ x.phase \in {"completing", "failing", "threw"}

Policies == {"CHECK_REPLY_POLICY", "CHECK_CALENDAR_POLICY"}
Writes == {"CREATE_CALENDAR_EVENT", "CREATE_DRAFT"}

(* The course: r is the request for a review of the run.                   *)
CourseOK(x, r) ==
    /\ x.step # "COMPLETE" /\ x.phase # "threw" => r = None
    /\ x.step = "COMPLETE" => r = x.review
    /\ x.step # "COMPLETE" /\ x.phase \in {"starting", "working", "looking", "saving"}
         => x.review = None
    /\ x.phase = "saving" => x.step = "ANALYZE_EMAIL" /\ x.analysis # None
    /\ x.phase = "reviewing" => x.review # None /\ x.step # "COMPLETE"
    /\ x.step = "ANALYZE_EMAIL" /\ x.phase = "completing" /\ x.review = None
         => x.analysis # None
    /\ x.step = "COMPLETE" /\ x.analysis = None => x.review # None
    /\ x.step \in Policies \cup Writes \/ x.hasEvent \/ x.hasDraft
         => x.analysis # None /\ x.analysis.isJobRelated
    /\ x.analysis # None => ValidAnalysis(x.analysis)

(* The writes: whether the call of Calendar writes, the analysis is saved, *)
(* and a draft was written.                                                *)
WritesOK(x, writing, saved, wrote) ==
    /\ x.phase = "idle" => x.step = "FETCH_EMAIL_THREAD"
    /\ x.step \in {"FETCH_EMAIL_THREAD", "ANALYZE_EMAIL"} \cup Policies => ~writing /\ ~x.hasEvent
    /\ x.step \notin {"CREATE_DRAFT", "COMPLETE"} => x.tool = "idle" /\ ~x.hasDraft
    /\ x.phase = "looking" => \/ x.step = "CHECK_CALENDAR_POLICY"
                              \/ (x.step = "CREATE_CALENDAR_EVENT" /\ writing)
    /\ x.step \in Policies \cup Writes => saved
    /\ x.step \in Writes \/ writing \/ x.tool # "idle" =>
          saved /\ {x.reply, x.calendar} \cap ReviewReasons = {}
    /\ x.step = "CREATE_DRAFT" \/ x.tool # "idle" => (x.calendar = "ready" => x.hasEvent)
    /\ x.step = "CREATE_CALENDAR_EVENT" /\ x.phase = "completing" /\ x.review = None
         => x.hasEvent
    /\ x.step = "CREATE_CALENDAR_EVENT" /\ x.phase \in {"starting", "working", "looking"}
         => ~x.hasEvent
    /\ x.step = "CREATE_DRAFT" /\ x.phase \in {"starting", "working"} => ~x.hasDraft
    /\ x.tool \in {"rereading", "writing", "threw"} => x.review = None
    /\ x.tool = "returned" => x.outcome # None /\ (x.outcome = "completed" => x.review = None)
    /\ wrote => x.tool = "threw" \/ (x.tool = "returned" /\ x.outcome = "completed")

ExecOK(e) ==
    /\ TraceOK(exec[e], steps[e])
    /\ CourseOK(exec[e], reviews[e])
    /\ WritesOK(exec[e], cal[e].writing, e \in analyses, e \in drafted)
    /\ exec[e].hasEvent => event = "ours"

AgentInv == TypeOK /\ CalendarInv /\ \A e \in Followed : ExecOK(e)

-----------------------------------------------------------------------------
(* The calendar: each step of a call keeps CalendarInv. *)

(* The row and the event do not go back.                                   *)
Onward ==
    /\ event = "ours" => event' = "ours"
    /\ row.status # "absent" => row'.status # "absent"
    /\ row.status = "completed" => row'.status = "completed"

RowOK(r) == r \in [status: {"absent", "creating", "completed"}, job: Jobs \cup {None}]

LEMMA CallStays ==
  ASSUME Onward, NEW c, CallOK(c)
  PROVE  CallOK(c)'
BY DEF Onward, CallOK

(* What is left to show of a step of call e.                               *)
LEMMA CallMoves ==
  ASSUME CalendarInv, Onward, NEW e \in Executions, NEW c \in Cal,
         cal' = [cal EXCEPT ![e] = c], CallOK(c)',
         RowOK(row'), event' \in {"absent", "ours", "foreign"}, late' \in BOOLEAN,
         busy' \in BOOLEAN, UNCHANGED jobs,
         event' = "ours" \/ late' => row'.status # "absent",
         row'.status = "completed" => event' = "ours"
  PROVE  CalendarInv' /\ \A f \in Executions : f # e => cal'[f] = cal[f]
<1>1. /\ cal'[e] = c
      /\ \A f \in Executions : f # e => cal'[f] = cal[f]
      /\ cal' \in [Executions -> Cal]
  BY DEF CalendarInv, CalendarTypeOK
<1>2. \A f \in Executions : CallOK(cal[f])'
  <2> TAKE f \in Executions
  <2>1. CASE f = e
    BY <1>1, <2>1 DEF CallOK
  <2>2. CASE f # e
    <3>1. CallOK(cal[f])
      BY DEF CalendarInv
    <3> QED BY <1>1, <2>2, <3>1 DEF CallOK, Onward
  <2> QED BY <2>1, <2>2
<1>3. CalendarTypeOK'
  BY <1>1 DEF CalendarInv, CalendarTypeOK, RowOK
<1>4. RecordedEventIsReal'
  BY <1>2 DEF RecordedEventIsReal, CallOK
<1> QED BY <1>1, <1>2, <1>3, <1>4 DEF CalendarInv

(* A step that only moves the call.                                        *)
LEMMA CallOnly ==
  ASSUME CalendarInv, NEW e \in Executions, NEW c \in Cal, cal' = [cal EXCEPT ![e] = c],
         CallOK(c), UNCHANGED <<row, event, late, busy, jobs>>
  PROVE  CalendarInv' /\ Onward /\ \A f \in Executions : f # e => cal'[f] = cal[f]
<1>1. Onward
  BY DEF Onward
<1>2. CallOK(c)'
  BY DEF CallOK
<1>3. RowOK(row') /\ event' \in {"absent", "ours", "foreign"} /\ late' \in BOOLEAN /\ busy' \in BOOLEAN
  BY DEF CalendarInv, CalendarTypeOK, RowOK
<1>4. /\ event' = "ours" \/ late' => row'.status # "absent"
      /\ row'.status = "completed" => event' = "ours"
  BY DEF CalendarInv, RecordedEventIsReal
<1> QED BY <1>1, <1>2, <1>3, <1>4, CallMoves

(* The fields of a call that goes to pc, and of one that returns.          *)
LEMMA CallFields ==
  ASSUME NEW c \in Cal, NEW pc \in CalPc
  PROVE  LET d == [c EXCEPT !.pc = pc]
         IN  /\ d \in Cal /\ d.pc = pc /\ d.job = c.job /\ d.writing = c.writing
             /\ d.found = c.found /\ d.result = c.result
BY DEF Cal

LEMMA ReturnFields ==
  ASSUME NEW c \in Cal, NEW r \in {"ready", "completed"} \cup LookReasons
  PROVE  LET d == [c EXCEPT !.pc = "returned", !.result = r]
         IN  /\ d \in Cal /\ d.pc = "returned" /\ d.job = c.job /\ d.writing = c.writing
             /\ d.found = c.found /\ d.result = r
BY DEF Cal, CalPc

(* An effect on the calendar that the Agent's records of others survive.   *)
CallEffect(e) ==
    /\ CalendarInv' /\ Onward
    /\ cal'[e].writing = cal[e].writing
    /\ \A f \in Executions : f # e => cal'[f] = cal[f]

LEMMA CallGoes ==
  ASSUME CalendarInv, NEW e \in Executions, NEW pc \in CalPc \ {"returned"}, CalTo(e, pc),
         cal[e].pc # "returned",
         pc \in {"creating", "refinding", "recording", "rechecking"} => row.status # "absent",
         pc \in {"recording", "rechecking"} => event = "ours",
         pc \in Reserving => cal[e].writing,
         UNCHANGED <<row, event, late, busy, jobs>>
  PROVE  CallEffect(e)
<1> DEFINE d == [cal[e] EXCEPT !.pc = pc]
<1>1. cal[e] \in Cal /\ CallOK(cal[e])
  BY DEF CalendarInv, CalendarTypeOK
<1>2. /\ d \in Cal /\ d.pc = pc /\ d.writing = cal[e].writing
      /\ d.found = cal[e].found /\ d.result = cal[e].result
  BY <1>1, CallFields
<1>3. cal' = [cal EXCEPT ![e] = d]
  BY DEF CalTo
<1>4. CallOK(d)
  BY <1>1, <1>2 DEF CallOK
<1>5. cal'[e] = d
  BY <1>3 DEF CalendarInv, CalendarTypeOK
<1> HIDE DEF d
<1> QED BY <1>2, <1>3, <1>4, <1>5, CallOnly DEF CallEffect

LEMMA CallReturns ==
  ASSUME CalendarInv, NEW e \in Executions, NEW r \in {"ready", "completed"} \cup LookReasons,
         Returns(e, r),
         r = "completed" => row.status = "completed" /\ cal[e].writing,
         r = "ready" => ~cal[e].writing,
         UNCHANGED <<row, event, late, busy, jobs>>
  PROVE  CallEffect(e)
<1> DEFINE d == [cal[e] EXCEPT !.pc = "returned", !.result = r]
<1>1. cal[e] \in Cal /\ CallOK(cal[e])
  BY DEF CalendarInv, CalendarTypeOK
<1>2. /\ d \in Cal /\ d.pc = "returned" /\ d.writing = cal[e].writing
      /\ d.found = cal[e].found /\ d.result = r
  BY <1>1, ReturnFields
<1>3. cal' = [cal EXCEPT ![e] = d]
  BY DEF Returns
<1>4. CallOK(d)
  BY <1>1, <1>2 DEF CallOK, Reserving, LookReasons
<1>5. cal'[e] = d
  BY <1>3 DEF CalendarInv, CalendarTypeOK
<1> HIDE DEF d
<1> QED BY <1>2, <1>3, <1>4, <1>5, CallOnly DEF CallEffect

(* After a look: to the reservation, with what was found, or back.         *)
LEMMA CallClears ==
  ASSUME CalendarInv, NEW e \in Executions, NEW found \in BOOLEAN, Clear(e, found),
         cal[e].pc # "returned", found => event = "ours",
         UNCHANGED <<row, event, late, busy, jobs>>
  PROVE  CallEffect(e)
<1>1. CASE ~cal[e].writing
  <2>1. Returns(e, "ready")
    BY <1>1 DEF Clear, Returns
  <2> QED BY <1>1, <2>1, CallReturns
<1>2. CASE cal[e].writing
  <2> DEFINE d == [cal[e] EXCEPT !.found = found, !.pc = "reserving"]
  <2>1. cal[e] \in Cal /\ CallOK(cal[e])
    BY DEF CalendarInv, CalendarTypeOK
  <2>2. /\ d \in Cal /\ d.pc = "reserving" /\ d.writing = cal[e].writing
        /\ d.found = found /\ d.result = cal[e].result
    BY <2>1 DEF Cal, CalPc
  <2>3. cal' = [cal EXCEPT ![e] = d]
    BY <1>2 DEF Clear
  <2>4. CallOK(d)
    BY <1>2, <2>1, <2>2 DEF CallOK
  <2>5. cal'[e] = d
    BY <2>3 DEF CalendarInv, CalendarTypeOK
  <2> HIDE DEF d
  <2> QED BY <2>2, <2>3, <2>4, <2>5, CallOnly DEF CallEffect
<1> QED BY <1>1, <1>2

LEMMA LookingSteps ==
  ASSUME CalendarInv, NEW e \in Executions, FindEvent(e) \/ FindConflictingEvents(e)
  PROVE  CallEffect(e)
<1>u. UNCHANGED <<row, event, late, busy, jobs>>
  BY DEF FindEvent, FindConflictingEvents
<1>p. cal[e].pc \in {"finding", "comparing"}
  BY DEF FindEvent, FindConflictingEvents, CalAt
<1>1. CASE \E r \in LookReasons : Returns(e, r)
  BY <1>u, <1>1, CallReturns DEF LookReasons
<1>2. CASE event = "ours" /\ Clear(e, TRUE)
  BY <1>u, <1>p, <1>2, CallClears
<1>3. CASE Clear(e, FALSE)
  BY <1>u, <1>p, <1>3, CallClears
<1>4. CASE CalTo(e, "comparing")
  BY <1>u, <1>p, <1>4, CallGoes DEF CalPc, Reserving
<1> QED BY <1>1, <1>2, <1>3, <1>4 DEF FindEvent, FindConflictingEvents, LookReasons

LEMMA ReadingSteps ==
  ASSUME CalendarInv, NEW e \in Executions,
         ReadReservation(e) \/ FindCreated(e) \/ RecheckRecorded(e) \/ CalendarCallFails(e)
  PROVE  CallEffect(e)
<1>u. UNCHANGED <<row, event, late, busy, jobs>>
  BY DEF ReadReservation, FindCreated, RecheckRecorded, CalendarCallFails
<1>c. CallOK(cal[e])
  BY DEF CalendarInv
<1>1. CASE \E pc \in {"failed", "rejected"} : CalTo(e, pc) /\ cal[e].pc # "returned"
  BY <1>u, <1>1, CallGoes DEF CalPc, Reserving
<1>2. CASE ReadReservation(e)
  <2>1. cal[e].writing /\ cal[e].pc = "reading"
    BY <1>c, <1>2 DEF ReadReservation, CalAt, CallOK, Reserving
  <2>2. CASE row.status = "completed" /\ Returns(e, "completed")
    BY <1>u, <2>1, <2>2, CallReturns
  <2>3. CASE row.status = "creating" /\ AfterReserve(e)
    <3>1. CASE cal[e].found
      BY <1>u, <1>c, <2>1, <2>3, <3>1, CallGoes DEF AfterReserve, CallOK, CalPc
    <3>2. CASE ~cal[e].found
      BY <1>u, <2>1, <2>3, <3>2, CallGoes DEF AfterReserve, CalPc
    <3> QED BY <3>1, <3>2
  <2>4. CASE CalFails(e)
    BY <1>1, <2>1, <2>4 DEF CalFails
  <2> QED BY <1>2, <2>2, <2>3, <2>4 DEF ReadReservation
<1>3. CASE FindCreated(e)
  <2>1. cal[e].writing /\ cal[e].pc = "refinding" /\ row.status # "absent"
    BY <1>c, <1>3 DEF FindCreated, CalAt, CallOK, Reserving
  <2>2. CASE event = "ours"
    BY <1>u, <1>3, <2>1, <2>2, CallGoes DEF FindCreated, CalPc
  <2>3. CASE event # "ours"
    BY <1>1, <1>3, <2>1, <2>3 DEF FindCreated
  <2> QED BY <2>2, <2>3
<1>4. CASE RecheckRecorded(e)
  <2>1. cal[e].writing /\ cal[e].pc = "rechecking"
    BY <1>c, <1>4 DEF RecheckRecorded, CalAt, CallOK, Reserving
  <2>2. CASE row.status = "completed" /\ Returns(e, "completed")
    BY <1>u, <2>1, <2>2, CallReturns
  <2> QED BY <1>1, <1>4, <2>1, <2>2 DEF RecheckRecorded, OwnsRow
<1>5. CASE CalendarCallFails(e)
  BY <1>1, <1>5 DEF CalendarCallFails, CalFails
<1> QED BY <1>2, <1>3, <1>4, <1>5

(* A statement or request that changes the row or the event.               *)
LEMMA CallWrites ==
  ASSUME CalendarInv, Onward, NEW e \in Executions, NEW pc \in CalPc \ {"returned"},
         CalTo(e, pc), cal[e].pc # "returned", cal[e].writing, row'.status # "absent",
         pc \in {"recording", "rechecking"} => event' = "ours",
         RowOK(row'), event' \in {"absent", "ours", "foreign"}, late' \in BOOLEAN,
         row'.status = "completed" => event' = "ours",
         UNCHANGED <<busy, jobs>>
  PROVE  CallEffect(e)
<1>1. cal[e] \in Cal /\ CallOK(cal[e])
  BY DEF CalendarInv, CalendarTypeOK
<1>2. PICK d \in Cal :
         /\ cal' = [cal EXCEPT ![e] = d]
         /\ d.pc = pc /\ d.writing = cal[e].writing
         /\ d.found = cal[e].found /\ d.result = cal[e].result
  BY <1>1, CallFields DEF CalTo
<1>3. CallOK(d)'
  BY <1>1, <1>2 DEF CallOK, Onward
<1>4. cal'[e] = d
  BY <1>2 DEF CalendarInv, CalendarTypeOK
<1>5. busy' \in BOOLEAN
  BY DEF CalendarInv, CalendarTypeOK
<1> QED BY <1>2, <1>3, <1>4, <1>5, CallMoves DEF CallEffect

LEMMA ReserveStep ==
  ASSUME CalendarInv, NEW e \in Executions, Reserve(e)
  PROVE  CallEffect(e)
<1>1. cal[e].pc = "reserving" /\ cal[e].writing /\ UNCHANGED <<event, late, busy, jobs>>
  BY DEF Reserve, CalAt, CalendarInv, CallOK, Reserving
<1>2. CASE Reservable(e)
  <2>1. row' = [status |-> "creating", job |-> cal[e].job]
    BY <1>2 DEF Reserve
  <2>j. cal[e].job \in Jobs \cup {None}
    BY DEF CalendarInv, CalendarTypeOK, Cal
  <2>2. RowOK(row') /\ row'.status = "creating" /\ Onward
    BY <1>1, <1>2, <2>j, <2>1 DEF RowOK, Onward, Reservable
  <2>3. event \in {"absent", "ours", "foreign"} /\ late \in BOOLEAN
    BY DEF CalendarInv, CalendarTypeOK
  <2>4. cal[e].found => event = "ours"
    BY DEF CalendarInv, CallOK
  <2>5. PICK pc \in {"recording", "creating", "failed"} :
           CalTo(e, pc) /\ (pc = "recording" => cal[e].found)
    BY <1>2 DEF Reserve, AfterReserve, CalFails
  <2> QED BY <1>1, <2>2, <2>3, <2>4, <2>5, CallWrites DEF CalPc
<1>3. CASE ~Reservable(e)
  BY <1>1, <1>3, CallGoes DEF Reserve, CalPc, Reserving
<1> QED BY <1>2, <1>3

LEMMA CreateStep ==
  ASSUME CalendarInv, NEW e \in Executions, CreateEvent(e)
  PROVE  CallEffect(e)
<1>1. /\ cal[e].pc = "creating" /\ cal[e].writing /\ row.status # "absent"
      /\ UNCHANGED <<row, busy, jobs>>
  BY DEF CreateEvent, CalAt, CalendarInv, CallOK, Reserving
<1>2. /\ RowOK(row') /\ event \in {"absent", "ours", "foreign"} /\ late \in BOOLEAN
      /\ row.status = "completed" => event = "ours"
  BY <1>1 DEF CalendarInv, CalendarTypeOK, RecordedEventIsReal, RowOK
<1>3. PICK pc \in {"refinding", "recording", "failed", "rejected"} :
         /\ CalTo(e, pc)
         /\ event' \in {event, "ours"} /\ (pc = "recording" => event' = "ours")
         /\ late' \in {late, TRUE}
  BY DEF CreateEvent, CalFails
<1>4. Onward
  BY <1>1, <1>3 DEF Onward
<1> QED BY <1>1, <1>2, <1>3, <1>4, CallWrites DEF CalPc

LEMMA RecordStep ==
  ASSUME CalendarInv, NEW e \in Executions, Record(e)
  PROVE  CallEffect(e)
<1>1. /\ cal[e].pc = "recording" /\ cal[e].writing /\ row.status # "absent" /\ event = "ours"
      /\ UNCHANGED <<event, late, busy, jobs>>
  BY DEF Record, CalAt, CalendarInv, CallOK, Reserving
<1>2. CASE row' = [row EXCEPT !.status = "completed"]
  <2>1. RowOK(row') /\ row'.status = "completed" /\ Onward
    BY <1>1, <1>2 DEF CalendarInv, CalendarTypeOK, RowOK, Onward
  <2>2. event' \in {"absent", "ours", "foreign"} /\ late' \in BOOLEAN /\ busy' \in BOOLEAN
    BY <1>1 DEF CalendarInv, CalendarTypeOK
  <2>3. CASE CalFails(e)
    BY <1>1, <2>1, <2>2, <2>3, CallWrites DEF CalFails, CalPc
  <2>4. CASE Returns(e, "completed")
    <3>1. cal[e] \in Cal /\ CallOK(cal[e])
      BY DEF CalendarInv, CalendarTypeOK
    <3>2. PICK d \in Cal :
             /\ cal' = [cal EXCEPT ![e] = d]
             /\ d.pc = "returned" /\ d.writing = cal[e].writing
             /\ d.found = cal[e].found /\ d.result = "completed"
      <4> DEFINE r == [cal[e] EXCEPT !.pc = "returned", !.result = "completed"]
      <4>1. /\ r \in Cal /\ r.pc = "returned" /\ r.writing = cal[e].writing
            /\ r.found = cal[e].found /\ r.result = "completed"
        BY <3>1, ReturnFields
      <4>2. cal' = [cal EXCEPT ![e] = r]
        BY <2>4 DEF Returns
      <4> HIDE DEF r
      <4> QED BY <4>1, <4>2
    <3>3. CallOK(d)'
      BY <1>1, <2>1, <3>1, <3>2 DEF CallOK, Reserving
    <3>4. cal'[e] = d
      BY <3>2 DEF CalendarInv, CalendarTypeOK
    <3>5. CalendarInv' /\ \A f \in Executions : f # e => cal'[f] = cal[f]
      BY <1>1, <2>1, <2>2, <3>2, <3>3, CallMoves
    <3> QED BY <2>1, <3>2, <3>4, <3>5 DEF CallEffect
  <2>5. CASE UNCHANGED row /\ CalTo(e, "rechecking")
    BY <1>1, <2>5, CallGoes DEF CalPc
  <2> QED BY <2>3, <2>4, <2>5 DEF Record
<1>3. CASE UNCHANGED row /\ CalTo(e, "rechecking")
  BY <1>1, <1>3, CallGoes DEF CalPc
<1> QED BY <1>2, <1>3 DEF Record

LEMMA CalendarStepEffect ==
  ASSUME CalendarInv, NEW e \in Executions, CalendarStep(e)
  PROVE  CallEffect(e)
BY LookingSteps, ReadingSteps, ReserveStep, CreateStep, RecordStep DEF CalendarStep

(* A new call.                                                             *)
LEMMA LookEffect ==
  ASSUME CalendarInv, NEW e \in Executions, NEW j \in Jobs \cup {None}, NEW writing \in BOOLEAN,
         Look(e, j, writing)
  PROVE  /\ CalendarInv' /\ Onward /\ UNCHANGED jobs
         /\ cal'[e].writing = writing
         /\ \A f \in Executions : f # e => cal'[f] = cal[f]
<1> DEFINE d == [NoCal EXCEPT !.pc = "finding", !.job = j, !.writing = writing]
<1>1. /\ d \in Cal /\ d.pc = "finding" /\ d.writing = writing
      /\ d.found = FALSE /\ d.result = "none"
  BY DEF NoCal, Cal, CalPc
<1>2. cal' = [cal EXCEPT ![e] = d] /\ UNCHANGED <<row, event, late, busy, jobs>>
  BY DEF Look
<1>3. CallOK(d)
  BY <1>1 DEF CallOK, Reserving, LookReasons
<1>4. cal'[e] = d
  BY <1>2 DEF CalendarInv, CalendarTypeOK
<1> HIDE DEF d
<1> QED BY <1>1, <1>2, <1>3, <1>4, CallOnly

LEMMA UnknownEffect ==
  ASSUME CalendarInv, NEW e \in Executions, Unknown(e)
  PROVE  CalendarInv' /\ Onward /\ \A f \in Executions : f # e => cal'[f] = cal[f]
BY CalendarStepEffect, LookEffect DEF Unknown, CallEffect

(* Calendar, the user and the queue.                                       *)
LEMMA OutsideEffect ==
  ASSUME CalendarInv, Outside
  PROVE  CalendarInv' /\ Onward /\ UNCHANGED cal
<1>1. /\ UNCHANGED <<row, cal>> /\ busy' \in BOOLEAN /\ late' \in BOOLEAN
      /\ jobs' \in [Jobs -> {"active", "completed", "failed"}]
  BY DEF Outside, LateCreate, UserBooks, JobEnds, CalendarInv, CalendarTypeOK
<1>2. /\ event' = event \/ (late /\ event' = "ours")
      /\ late' => late
  BY DEF Outside, LateCreate, UserBooks, JobEnds, CalendarInv, CalendarTypeOK
<1>3. Onward
  BY <1>1, <1>2 DEF Onward
<1>4. CalendarTypeOK'
  BY <1>1, <1>2 DEF CalendarInv, CalendarTypeOK
<1>5. RecordedEventIsReal'
  BY <1>1, <1>2 DEF CalendarInv, RecordedEventIsReal
<1>6. ASSUME NEW f \in Executions PROVE CallOK(cal[f])'
  <2>1. CallOK(cal[f])
    BY DEF CalendarInv
  <2> QED BY <1>1, <1>3, <2>1 DEF CallOK, Onward
<1> QED BY <1>1, <1>3, <1>4, <1>5, <1>6 DEF CalendarInv

LEMMA CalendarInitially == CalendarInit => CalendarInv
<1> SUFFICES ASSUME CalendarInit PROVE CalendarInv
  OBVIOUS
<1>1. /\ NoCal \in Cal /\ NoCal.pc = "idle" /\ ~NoCal.found /\ ~NoCal.writing
      /\ NoCal.result = "none"
  BY DEF NoCal, Cal, CalPc
<1>2. CalendarTypeOK
  BY <1>1 DEF CalendarInit, CalendarTypeOK
<1>3. \A e \in Executions : cal[e] = NoCal
  BY DEF CalendarInit
<1>4. RecordedEventIsReal
  BY <1>1, <1>3 DEF CalendarInit, RecordedEventIsReal
<1>5. \A e \in Executions : CallOK(cal[e])
  BY <1>1, <1>3 DEF CallOK, Reserving, LookReasons
<1> QED BY <1>2, <1>4, <1>5 DEF CalendarInv

-----------------------------------------------------------------------------
(* The Agent: what is left to show of a step of execution e. *)

Trace == [StepName -> {"none", "pending", "succeeded", "failed"}]

TablesOK ==
    /\ steps \in [Followed -> Trace]
    /\ analyses \subseteq Followed /\ drafted \subseteq Followed
    /\ reviews \in [Followed -> ReviewReasons \cup {None}]
    /\ settings \in SettingsRows \cup {None} /\ changes \in 0..MaxChanges
    /\ target \in {"latest", "superseded", "unsafe"}

(* The rows and the calls of the other executions.                         *)
OthersKept(e) ==
    \A f \in Followed : f # e =>
        /\ steps'[f] = steps[f] /\ reviews'[f] = reviews[f]
        /\ cal'[f].writing = cal[f].writing
        /\ (f \in analyses' <=> f \in analyses) /\ (f \in drafted' <=> f \in drafted)

LEMMA TypeParts ==
  TypeOK <=> CalendarTypeOK /\ exec \in [Followed -> Exec] /\ TablesOK
BY DEF TypeOK, TablesOK, Trace

LEMMA ExecMoves ==
  ASSUME AgentInv, NEW e \in Followed, NEW x \in Exec, Becomes(e, x),
         CalendarInv', Onward, TablesOK', OthersKept(e),
         TraceOK(x, steps'[e]), CourseOK(x, reviews'[e]),
         WritesOK(x, cal'[e].writing, e \in analyses', e \in drafted'),
         x.hasEvent => event' = "ours"
  PROVE  AgentInv'
<1>1. /\ exec'[e] = x
      /\ \A f \in Followed : f # e => exec'[f] = exec[f]
      /\ exec' \in [Followed -> Exec]
  BY DEF Becomes, AgentInv, TypeOK
<1>2. ASSUME NEW f \in Followed PROVE ExecOK(f)'
  <2>1. CASE f = e
    BY <1>1, <2>1 DEF ExecOK
  <2>2. CASE f # e
    <3>1. ExecOK(f)
      BY DEF AgentInv
    <3> QED BY <1>1, <2>2, <3>1 DEF ExecOK, OthersKept, Onward
  <2> QED BY <2>1, <2>2
<1>3. TypeOK'
  BY <1>1 DEF CalendarInv, TypeOK, TablesOK, Trace
<1> QED BY <1>1, <1>2, <1>3 DEF AgentInv

(* A step that leaves everything but the record of e alone.                *)
LEMMA ExecOnly ==
  ASSUME AgentInv, NEW e \in Followed, NEW x \in Exec, Becomes(e, x),
         UNCHANGED <<calendarVars, tables, user>>,
         TraceOK(x, steps[e]), CourseOK(x, reviews[e]),
         WritesOK(x, cal[e].writing, e \in analyses, e \in drafted),
         x.hasEvent => event = "ours"
  PROVE  AgentInv'
<1>1. CalendarInv' /\ Onward
  BY DEF AgentInv, CalendarInv, CalendarTypeOK, RecordedEventIsReal, CallOK, Onward, calendarVars
<1>2. TablesOK' /\ OthersKept(e)
  BY TypeParts DEF AgentInv, TablesOK, OthersKept, calendarVars, tables, user
<1> QED BY <1>1, <1>2, ExecMoves DEF calendarVars, tables, user

LEMMA ExecHas ==
  ASSUME AgentInv, NEW e \in Followed
  PROVE  /\ exec[e] \in Exec /\ steps[e] \in Trace
         /\ TraceOK(exec[e], steps[e]) /\ CourseOK(exec[e], reviews[e])
         /\ WritesOK(exec[e], cal[e].writing, e \in analyses, e \in drafted)
         /\ exec[e].hasEvent => event = "ours"
         /\ exec[e].step \in StepName /\ exec[e].phase \in Phase
BY TypeParts DEF AgentInv, ExecOK, TablesOK, Exec

Tool == {"idle", "rereading", "writing", "returned", "threw"}
Outcomes == {None, "completed"} \cup ReviewReasons

(* A field of a record is replaced.                                        *)
LEMMA ExecFields ==
  ASSUME NEW x \in Exec
  PROVE  /\ \A v \in Jobs : [x EXCEPT !.job = v] \in Exec
         /\ \A v \in StepName : [x EXCEPT !.step = v] \in Exec
         /\ \A v \in Phase : [x EXCEPT !.phase = v] \in Exec
         /\ \A v \in Analysis \cup {None} : [x EXCEPT !.analysis = v] \in Exec
         /\ \A v \in BOOLEAN : [x EXCEPT !.seen = v] \in Exec
         /\ \A v \in CalendarSettings \cup {None} : [x EXCEPT !.calendarSettings = v] \in Exec
         /\ \A v \in ReplySettings \cup {None} : [x EXCEPT !.replySettings = v] \in Exec
         /\ \A v \in Decision : [x EXCEPT !.reply = v] \in Exec
         /\ \A v \in Decision : [x EXCEPT !.calendar = v] \in Exec
         /\ \A v \in ReviewReasons \cup {None} : [x EXCEPT !.review = v] \in Exec
         /\ \A v \in BOOLEAN : [x EXCEPT !.hasEvent = v] \in Exec
         /\ \A v \in BOOLEAN : [x EXCEPT !.hasDraft = v] \in Exec
         /\ \A v \in Tool : [x EXCEPT !.tool = v] \in Exec
         /\ \A v \in Outcomes : [x EXCEPT !.outcome = v] \in Exec
         /\ \A v \in {"none", "temporary", "permanent"} : [x EXCEPT !.error = v] \in Exec
<1> USE DEF Exec, Tool, Outcomes
<1>1. \A v \in Jobs : [x EXCEPT !.job = v] \in Exec
  OBVIOUS
<1>2. \A v \in StepName : [x EXCEPT !.step = v] \in Exec
  OBVIOUS
<1>3. \A v \in Phase : [x EXCEPT !.phase = v] \in Exec
  OBVIOUS
<1>4. \A v \in Analysis \cup {None} : [x EXCEPT !.analysis = v] \in Exec
  OBVIOUS
<1>5. \A v \in BOOLEAN : [x EXCEPT !.seen = v] \in Exec
  OBVIOUS
<1>6. \A v \in CalendarSettings \cup {None} : [x EXCEPT !.calendarSettings = v] \in Exec
  OBVIOUS
<1>7. \A v \in ReplySettings \cup {None} : [x EXCEPT !.replySettings = v] \in Exec
  OBVIOUS
<1>8. \A v \in Decision : [x EXCEPT !.reply = v] \in Exec
  OBVIOUS
<1>9. \A v \in Decision : [x EXCEPT !.calendar = v] \in Exec
  OBVIOUS
<1>10. \A v \in ReviewReasons \cup {None} : [x EXCEPT !.review = v] \in Exec
  OBVIOUS
<1>11. \A v \in BOOLEAN : [x EXCEPT !.hasEvent = v] \in Exec
  OBVIOUS
<1>12. \A v \in BOOLEAN : [x EXCEPT !.hasDraft = v] \in Exec
  OBVIOUS
<1>13. \A v \in Tool : [x EXCEPT !.tool = v] \in Exec
  OBVIOUS
<1>14. \A v \in Outcomes : [x EXCEPT !.outcome = v] \in Exec
  OBVIOUS
<1>15. \A v \in {"none", "temporary", "permanent"} : [x EXCEPT !.error = v] \in Exec
  OBVIOUS
<1> HIDE DEF Exec
<1> QED BY <1>1, <1>2, <1>3, <1>4, <1>5, <1>6, <1>7, <1>8, <1>9, <1>10, <1>11, <1>12,
           <1>13, <1>14, <1>15

LEMMA PhaseOf ==
  {"idle", "starting", "working", "looking", "completing", "failing", "saving", "reviewing",
   "answered", "threw"} = Phase
BY DEF Phase

(* A failure leads to the statement that records it.                       *)
LEMMA FailKeeps ==
  ASSUME AgentInv, NEW e \in Followed, NEW error \in {"temporary", "permanent"},
         exec[e].phase \in {"working", "looking"},
         Fail(e, error), UNCHANGED <<calendarVars, tables, user>>
  PROVE  AgentInv'
<1> DEFINE x == [exec[e] EXCEPT !.phase = "failing", !.error = error]
<1>1. x \in Exec
  <2>1. exec[e] \in Exec
    BY ExecHas
  <2> QED BY <2>1, ExecFields, PhaseOf
<1>2. TraceOK(x, steps[e])
  BY ExecHas DEF TraceOK, Exec
<1>3. CourseOK(x, reviews[e])
  BY ExecHas DEF CourseOK, Exec
<1>4. WritesOK(x, cal[e].writing, e \in analyses, e \in drafted)
  BY ExecHas DEF WritesOK, Exec
<1>5. x.hasEvent => event = "ours"
  BY ExecHas DEF Exec
<1>6. Becomes(e, x)
  BY DEF Fail
<1> HIDE DEF x
<1> QED BY <1>1, <1>2, <1>3, <1>4, <1>5, <1>6, ExecOnly

-----------------------------------------------------------------------------
(* What the policies and the tables may say. *)

LEMMA NormalizeOK ==
  ASSUME NEW a \in Analysis, ValidAnalysis(a)
  PROVE  Normalize(a) \in Analysis /\ ValidAnalysis(Normalize(a))
<1>1. CASE a.category = "scheduling_request" /\ ~a.needsReply
  <2> DEFINE b == [a EXCEPT !.needsReply = TRUE, !.replyIntent = "submit_information"]
  <2>1. Normalize(a) = b
    BY <1>1 DEF Normalize
  <2>2. b \in Analysis
    BY DEF Analysis
  <2>3. ValidAnalysis(b)
    BY DEF ValidAnalysis, Analysis
  <2> QED BY <2>1, <2>2, <2>3
<1>2. CASE ~(a.category = "scheduling_request" /\ ~a.needsReply)
  BY <1>2 DEF Normalize
<1> QED BY <1>1, <1>2

LEMMA SettingsTypes ==
  ASSUME TablesOK
  PROVE  /\ ReplySettingsOf(settings) \in ReplySettings \cup {None}
         /\ CalendarSettingsOf(settings) \in CalendarSettings \cup {None}
<1>1. settings # None => settings \in SettingsRow
  BY AgentAssumption DEF TablesOK
<1>2. CASE settings = None
  BY <1>2 DEF ReplySettingsOf, CalendarSettingsOf
<1>3. CASE settings # None
  BY <1>1, <1>3 DEF ReplySettingsOf, CalendarSettingsOf, SettingsRow, ReplySettings, CalendarSettings
<1> QED BY <1>2, <1>3

LEMMA PolicyAnswers ==
  ASSUME NEW a, NEW s, NEW now, NEW kind, NEW reply, NEW latest, NEW safe
  PROVE  /\ ReplyPolicy(a, s, latest, safe) \in {"not_applicable"} \cup DraftKinds \cup ReviewReasons
         /\ GuardPolicy(a, kind, s, now, reply) \in {"ready"} \cup ReviewReasons
         /\ CalendarPolicy(a, s) \in {"not_applicable", "ready"} \cup ReviewReasons
         /\ CalendarRecheck(a, s) \in {"ready"} \cup ReviewReasons
<1>1. ReplyPolicy(a, s, latest, safe) \in {"not_applicable"} \cup DraftKinds \cup ReviewReasons
  BY DEF ReplyPolicy, DraftKinds, ReviewReasons, ReplyReasons
<1>2. GuardPolicy(a, kind, s, now, reply) \in {"ready"} \cup ReviewReasons
  BY DEF GuardPolicy, ReviewReasons, ReplyReasons
<1>3. CalendarPolicy(a, s) \in {"not_applicable", "ready"} \cup ReviewReasons
  BY DEF CalendarPolicy, ReviewReasons, CalendarReasons
<1>4. CalendarRecheck(a, s) \in {"ready"} \cup ReviewReasons
  BY DEF CalendarRecheck, ReviewReasons, CalendarReasons
<1> QED BY <1>1, <1>2, <1>3, <1>4

LEMMA NoReason ==
  /\ None \notin ReviewReasons /\ None # "completed" /\ None \notin Analysis
  /\ {"ready", "not_applicable", "completed"} \cap ReviewReasons = {}
  /\ DraftKinds \cap ReviewReasons = {} /\ LookReasons \subseteq ReviewReasons
  /\ LlmReasons \subseteq ReviewReasons /\ "analysis_not_grounded" \in ReviewReasons
  /\ {"reply_llm_refusal", "reply_llm_invalid_output", "reply_target_stale"} \subseteq ReviewReasons
BY AgentAssumption DEF ReviewReasons, LlmReasons, ReplyReasons, CalendarReasons, DraftKinds,
   LookReasons

-----------------------------------------------------------------------------
(* trackStep. *)

LEMMA StartTrace ==
  ASSUME NEW x \in Exec, NEW y \in Exec, NEW t \in Trace, NEW t2 \in Trace, TraceOK(x, t),
         x.phase \in {"completing", "saving", "reviewing"},
         \/ t2 = [t EXCEPT ![x.step] = "succeeded"]
         \/ x.phase # "completing" /\ t2 = t,
         y.phase \in {"starting", "saving", "reviewing"}, y.error = x.error,
         y.hasEvent = x.hasEvent, y.hasDraft = x.hasDraft
  PROVE  TraceOK(y, t2)
<1>1. x.step \in StepName
  BY DEF Exec
<1>2. \A s \in StepName : t2[s] # "pending" /\ t2[s] # "failed"
  BY <1>1 DEF TraceOK, Trace
<1>3. y.error # "permanent"
  BY DEF TraceOK
<1>4. /\ y.hasEvent => t2["CREATE_CALENDAR_EVENT"] = "succeeded"
      /\ y.hasDraft => t2["CREATE_DRAFT"] = "succeeded"
  BY <1>1 DEF TraceOK, Trace, StepName
<1> QED BY <1>2, <1>3, <1>4 DEF TraceOK

(* All that an execution's record is to agree with.                        *)
Agrees(x, t, r, writing, saved, wrote) ==
    x \in Exec /\ TraceOK(x, t) /\ CourseOK(x, r) /\ WritesOK(x, writing, saved, wrote)

LEMMA StartOfType ==
  ASSUME NEW x \in Exec, NEW s \in StepName
  PROVE  /\ StartOf(x, s) \in Exec
         /\ StartOf(x, s).error = x.error /\ StartOf(x, s).phase = "starting"
         /\ StartOf(x, s).hasEvent = x.hasEvent /\ StartOf(x, s).hasDraft = x.hasDraft
<1>1. [x EXCEPT !.step = s] \in Exec
  BY ExecFields
<1>2. StartOf(x, s) \in Exec
  BY <1>1, ExecFields, PhaseOf DEF StartOf
<1> QED BY <1>2 DEF StartOf, Exec

LEMMA ReviewType ==
  ASSUME NEW x \in Exec, NEW reason \in ReviewReasons
  PROVE  /\ Review(x, reason) \in Exec
         /\ Review(x, reason).error = x.error /\ Review(x, reason).phase = "reviewing"
         /\ Review(x, reason).hasEvent = x.hasEvent /\ Review(x, reason).hasDraft = x.hasDraft
<1>1. [x EXCEPT !.review = reason] \in Exec
  BY ExecFields
<1>2. Review(x, reason) \in Exec
  BY <1>1, ExecFields, PhaseOf DEF Review
<1> QED BY <1>2 DEF Review, Exec

(* The step that follows a completed one.                                  *)
LEMMA StartKeeps ==
  ASSUME NEW x, NEW t \in Trace, NEW r, NEW writing \in BOOLEAN, NEW saved \in BOOLEAN,
         NEW wrote \in BOOLEAN, Agrees(x, t, r, writing, saved, wrote),
         x.phase = "completing", x.review = None, NEW s \in StepName,
         \/ x.step = "FETCH_EMAIL_THREAD" /\ s = "ANALYZE_EMAIL"
         \/ x.step = "CHECK_REPLY_POLICY" /\ s = "CHECK_CALENDAR_POLICY"
         \/ x.step = "CREATE_DRAFT" /\ s = "COMPLETE"
         \/ /\ x.step = "CHECK_CALENDAR_POLICY" \/ x.step = "CREATE_CALENDAR_EVENT"
            /\ {x.reply, x.calendar} \cap ReviewReasons = {}
            /\ \/ s = "CREATE_CALENDAR_EVENT" /\ x.step = "CHECK_CALENDAR_POLICY"
               \/ s = "CREATE_DRAFT" /\ (x.calendar = "ready" => x.step = "CREATE_CALENDAR_EVENT")
               \/ s = "COMPLETE"
  PROVE  Agrees(StartOf(x, s), [t EXCEPT ![x.step] = "succeeded"], r, writing, saved, wrote)
<1> DEFINE y == StartOf(x, s)
           t2 == [t EXCEPT ![x.step] = "succeeded"]
<1>0. x \in Exec /\ TraceOK(x, t) /\ CourseOK(x, r) /\ WritesOK(x, writing, saved, wrote)
  BY DEF Agrees
<1>1. y \in Exec /\ t2 \in Trace
  BY <1>0, StartOfType DEF Exec, Trace
<1>2. TraceOK(y, t2)
  BY <1>0, <1>1, StartTrace, StartOfType
<1>3. /\ y.step = s /\ y.phase = "starting" /\ y.review = x.review /\ y.analysis = x.analysis
      /\ y.hasEvent = x.hasEvent /\ y.hasDraft = x.hasDraft /\ y.tool = x.tool
      /\ y.outcome = x.outcome /\ y.reply = x.reply /\ y.calendar = x.calendar
  BY <1>0 DEF StartOf, Exec
<1> HIDE DEF y
<1>4. CourseOK(y, r)
  BY <1>0, <1>3 DEF CourseOK, Policies, Writes
<1>5. WritesOK(y, writing, saved, wrote)
  BY <1>0, <1>3 DEF WritesOK, CourseOK, Policies, Writes
<1> QED BY <1>1, <1>2, <1>4, <1>5 DEF Agrees, y

LEMMA ReviewKeeps ==
  ASSUME NEW x, NEW t \in Trace, NEW r, NEW writing \in BOOLEAN, NEW saved \in BOOLEAN,
         NEW wrote \in BOOLEAN, Agrees(x, t, r, writing, saved, wrote),
         x.phase = "completing", x.step # "COMPLETE", NEW reason \in ReviewReasons,
         x.review = reason \/ (x.review = None /\ x.step = "CHECK_CALENDAR_POLICY")
  PROVE  Agrees(Review(x, reason), [t EXCEPT ![x.step] = "succeeded"], r, writing, saved, wrote)
<1> DEFINE y == Review(x, reason)
           t2 == [t EXCEPT ![x.step] = "succeeded"]
<1>0. x \in Exec /\ TraceOK(x, t) /\ CourseOK(x, r) /\ WritesOK(x, writing, saved, wrote)
  BY DEF Agrees
<1>1. y \in Exec /\ t2 \in Trace
  BY <1>0, ReviewType DEF Exec, Trace
<1>2. TraceOK(y, t2)
  BY <1>0, <1>1, StartTrace, ReviewType
<1>3. /\ y.step = x.step /\ y.phase = "reviewing" /\ y.review = reason /\ y.analysis = x.analysis
      /\ y.hasEvent = x.hasEvent /\ y.hasDraft = x.hasDraft /\ y.tool = x.tool
      /\ y.outcome = x.outcome /\ y.reply = x.reply /\ y.calendar = x.calendar
  BY <1>0 DEF Review, Exec
<1> HIDE DEF y
<1>4. CourseOK(y, r)
  BY <1>0, <1>3, NoReason DEF CourseOK, Policies, Writes
<1>5. WritesOK(y, writing, saved, wrote)
  BY <1>0, <1>3 DEF WritesOK, Policies, Writes
<1> QED BY <1>1, <1>2, <1>4, <1>5 DEF Agrees, y

LEMMA AfterKeeps ==
  ASSUME NEW x, NEW t \in Trace, NEW r, NEW writing \in BOOLEAN, NEW saved \in BOOLEAN,
         NEW wrote \in BOOLEAN, Agrees(x, t, r, writing, saved, wrote), x.phase = "completing"
  PROVE  /\ Agrees(After(x), [t EXCEPT ![x.step] = "succeeded"], r, writing, saved, wrote)
         /\ After(x).hasEvent = x.hasEvent
<1> DEFINE t2 == [t EXCEPT ![x.step] = "succeeded"]
<1>0. x \in Exec /\ TraceOK(x, t) /\ CourseOK(x, r) /\ WritesOK(x, writing, saved, wrote)
  BY DEF Agrees
<1>s. /\ x.step \in StepName /\ x.review \in ReviewReasons \cup {None}
      /\ x.reply \in Decision /\ x.calendar \in Decision
  BY <1>0 DEF Exec
<1>1. CASE x.step = "COMPLETE" \/ (x.step = "ANALYZE_EMAIL" /\ x.review = None)
  <2> DEFINE p == IF x.step = "COMPLETE" THEN "answered" ELSE "saving"
             y == [x EXCEPT !.phase = p]
  <2>1. After(x) = y
    BY <1>1 DEF After
  <2>2. y \in Exec /\ t2 \in Trace
    BY <1>0, ExecFields, PhaseOf DEF Trace
  <2>3. /\ y.step = x.step /\ y.phase = p /\ y.review = x.review /\ y.analysis = x.analysis
        /\ y.hasEvent = x.hasEvent /\ y.hasDraft = x.hasDraft /\ y.tool = x.tool
        /\ y.outcome = x.outcome /\ y.reply = x.reply /\ y.calendar = x.calendar
        /\ y.error = x.error
    BY <1>0 DEF Exec
  <2>4. p \in {"answered", "saving"} /\ (p = "answered" <=> x.step = "COMPLETE")
    OBVIOUS
  <2> HIDE DEF y, p
  <2>5. \A s \in StepName : t2[s] # "pending" /\ t2[s] # "failed"
    BY <1>0, <1>s DEF TraceOK, Trace
  <2>6. /\ t2[x.step] = "succeeded"
        /\ x.hasEvent => t2["CREATE_CALENDAR_EVENT"] = "succeeded"
        /\ x.hasDraft => t2["CREATE_DRAFT"] = "succeeded"
    BY <1>0, <1>s DEF TraceOK, Trace, StepName
  <2>7. x.error # "permanent"
    BY <1>0 DEF TraceOK
  <2>8. TraceOK(y, t2)
    BY <2>3, <2>4, <2>5, <2>6, <2>7 DEF TraceOK
  <2>9. CourseOK(y, r)
    BY <1>0, <1>1, <2>3, <2>4 DEF CourseOK
  <2>10. WritesOK(y, writing, saved, wrote)
    BY <1>0, <1>1, <2>3, <2>4 DEF WritesOK
  <2> QED BY <2>1, <2>2, <2>3, <2>8, <2>9, <2>10 DEF Agrees
<1>2. CASE x.step # "COMPLETE" /\ x.review # None
  <2>1. After(x) = Review(x, x.review)
    BY <1>2 DEF After
  <2> QED BY <1>0, <1>2, <1>s, <2>1, ReviewKeeps, ReviewType
<1>3. CASE x.review = None /\ x.step \in {"FETCH_EMAIL_THREAD", "CHECK_REPLY_POLICY",
                                          "CREATE_CALENDAR_EVENT", "CREATE_DRAFT"}
  <2>1. PICK s \in StepName :
           /\ After(x) = StartOf(x, s)
           /\ \/ x.step = "FETCH_EMAIL_THREAD" /\ s = "ANALYZE_EMAIL"
              \/ x.step = "CHECK_REPLY_POLICY" /\ s = "CHECK_CALENDAR_POLICY"
              \/ x.step = "CREATE_DRAFT" /\ s = "COMPLETE"
              \/ x.step = "CREATE_CALENDAR_EVENT" /\ s \in {"CREATE_DRAFT", "COMPLETE"}
    BY <1>3 DEF After, AfterCalendar, StepName
  <2>2. x.step = "CREATE_CALENDAR_EVENT" => {x.reply, x.calendar} \cap ReviewReasons = {}
    BY <1>0 DEF WritesOK, Writes
  <2> QED BY <1>0, <1>3, <2>1, <2>2, StartKeeps, StartOfType
<1>4. CASE x.review = None /\ x.step = "CHECK_CALENDAR_POLICY"
  <2>1. After(x) = AfterChecks(x)
    BY <1>4 DEF After
  <2>2. CASE x.calendar \in ReviewReasons \/ x.reply \in ReviewReasons
    <3>1. PICK reason \in ReviewReasons : After(x) = Review(x, reason)
      BY <2>1, <2>2 DEF AfterChecks
    <3> QED BY <1>0, <1>4, <3>1, ReviewKeeps, ReviewType
  <2>3. CASE x.calendar \notin ReviewReasons /\ x.reply \notin ReviewReasons
    <3>1. PICK s \in StepName :
             /\ After(x) = StartOf(x, s)
             /\ s \in {"CREATE_CALENDAR_EVENT", "CREATE_DRAFT", "COMPLETE"}
             /\ s = "CREATE_DRAFT" => x.calendar # "ready"
      BY <2>1, <2>3 DEF AfterChecks, AfterCalendar, StepName
    <3> QED BY <1>0, <1>4, <2>3, <3>1, StartKeeps, StartOfType
  <2> QED BY <2>2, <2>3
<1> QED BY <1>1, <1>2, <1>3, <1>4, <1>s DEF StepName

-----------------------------------------------------------------------------
(* The actions of an execution. *)

LEMMA AgreesHas ==
  ASSUME AgentInv, NEW e \in Followed
  PROVE  /\ Agrees(exec[e], steps[e], reviews[e], cal[e].writing, e \in analyses, e \in drafted)
         /\ steps[e] \in Trace /\ exec[e].step \in StepName
         /\ reviews[e] \in ReviewReasons \cup {None}
         /\ cal[e].writing \in BOOLEAN /\ e \in Executions
         /\ (exec[e].hasEvent => event = "ours")
         /\ (e \in analyses) \in BOOLEAN /\ (e \in drafted) \in BOOLEAN
<1>1. e \in Executions
  BY AgentAssumption
<1>2. cal[e] \in Cal
  BY <1>1 DEF AgentInv, CalendarInv, CalendarTypeOK
<1> QED BY <1>1, <1>2, ExecHas, TypeParts DEF Agrees, Cal, AgentInv, TablesOK

(* A statement of trackStep: the record and the trace of e.                *)
LEMMA StepMoves ==
  ASSUME AgentInv, NEW e \in Followed, NEW x, NEW t2 \in Trace, Becomes(e, x),
         steps' = [steps EXCEPT ![e] = t2],
         UNCHANGED <<calendarVars, analyses, reviews, drafted, user>>,
         Agrees(x, t2, reviews[e], cal[e].writing, e \in analyses, e \in drafted),
         x.hasEvent => event = "ours"
  PROVE  AgentInv'
<1>1. CalendarInv' /\ Onward
  BY DEF AgentInv, CalendarInv, CalendarTypeOK, RecordedEventIsReal, CallOK, Onward, calendarVars
<1>2. TablesOK
  BY TypeParts DEF AgentInv
<1>3. TablesOK' /\ OthersKept(e) /\ steps'[e] = t2
  BY <1>2 DEF TablesOK, OthersKept, calendarVars, user
<1> QED BY <1>1, <1>3, ExecMoves DEF Agrees, calendarVars

LEMMA OnlyMoves ==
  ASSUME AgentInv, NEW e \in Followed, NEW x, Becomes(e, x),
         UNCHANGED <<calendarVars, tables, user>>,
         Agrees(x, steps[e], reviews[e], cal[e].writing, e \in analyses, e \in drafted),
         x.hasEvent => event = "ours"
  PROVE  AgentInv'
BY ExecOnly DEF Agrees

LEMMA ThrowFields ==
  ASSUME NEW x \in Exec, NEW error \in {"none", "temporary", "permanent"}
  PROVE  LET y == [x EXCEPT !.phase = "threw", !.error = error]
         IN  /\ y \in Exec /\ y.phase = "threw" /\ y.error = error
             /\ y.step = x.step /\ y.review = x.review /\ y.analysis = x.analysis
             /\ y.hasEvent = x.hasEvent /\ y.hasDraft = x.hasDraft /\ y.tool = x.tool
             /\ y.outcome = x.outcome /\ y.reply = x.reply /\ y.calendar = x.calendar
<1>1. [x EXCEPT !.phase = "threw"] \in Exec
  BY ExecFields, PhaseOf
<1>2. [x EXCEPT !.phase = "threw", !.error = error] \in Exec
  BY <1>1, ExecFields
<1> QED BY <1>2 DEF Exec

(* The execution throws: what its tables then hold is the end of the run.  *)
LEMMA ThrowKeeps ==
  ASSUME AgentInv, NEW e \in Followed, NEW error \in {"none", "temporary", "permanent"},
         Throw(e, error), UNCHANGED <<calendarVars, drafted>>, TablesOK', OthersKept(e),
         \A s \in StepName : steps'[e][s] = "pending" => s = exec[e].step,
         exec[e].hasEvent => \/ steps'[e]["CREATE_CALENDAR_EVENT"] = "succeeded"
                            \/ exec[e].step = "CREATE_CALENDAR_EVENT",
         exec[e].hasDraft => \/ steps'[e]["CREATE_DRAFT"] = "succeeded"
                            \/ exec[e].step = "CREATE_DRAFT",
         error = "permanent" => steps'[e][exec[e].step] = "failed",
         exec[e].step = "COMPLETE" => reviews'[e] = reviews[e],
         e \in analyses => e \in analyses'
  PROVE  AgentInv'
<1> DEFINE x == exec[e]
           y == [x EXCEPT !.phase = "threw", !.error = error]
<1>0. /\ x \in Exec /\ TraceOK(x, steps[e]) /\ CourseOK(x, reviews[e])
      /\ WritesOK(x, cal[e].writing, e \in analyses, e \in drafted)
      /\ x.hasEvent => event = "ours"
  BY ExecHas
<1>1. /\ y \in Exec /\ y.phase = "threw" /\ y.error = error
      /\ y.step = x.step /\ y.review = x.review /\ y.analysis = x.analysis
      /\ y.hasEvent = x.hasEvent /\ y.hasDraft = x.hasDraft /\ y.tool = x.tool
      /\ y.outcome = x.outcome /\ y.reply = x.reply /\ y.calendar = x.calendar
  BY <1>0, ThrowFields
<1>2. Becomes(e, y)
  BY DEF Throw
<1> HIDE DEF y
<1>3. TraceOK(y, steps'[e])
  BY <1>1 DEF TraceOK
<1>4. CourseOK(y, reviews'[e])
  BY <1>0, <1>1 DEF CourseOK
<1>5. WritesOK(y, cal[e].writing, e \in analyses', e \in drafted)
  BY <1>0, <1>1 DEF WritesOK
<1>6. CalendarInv' /\ Onward /\ cal' = cal /\ event' = event /\ drafted' = drafted
  BY DEF AgentInv, CalendarInv, CalendarTypeOK, RecordedEventIsReal, CallOK, Onward, calendarVars
<1> QED BY <1>0, <1>1, <1>2, <1>3, <1>4, <1>5, <1>6, ExecMoves

(* The statement that completes a step fails.                              *)
LEMMA CompletingFails ==
  ASSUME AgentInv, NEW e \in Followed, NEW t2 \in Trace, exec[e].phase = "completing",
         steps' = [steps EXCEPT ![e] = t2],
         t2 \in {steps[e], [steps[e] EXCEPT ![exec[e].step] = "succeeded"]},
         Fail(e, "temporary"), UNCHANGED <<calendarVars, analyses, reviews, drafted, user>>
  PROVE  AgentInv'
<1> DEFINE x == exec[e]
           y == [x EXCEPT !.phase = "failing", !.error = "temporary"]
<1>0. /\ x \in Exec /\ TraceOK(x, steps[e]) /\ CourseOK(x, reviews[e])
      /\ WritesOK(x, cal[e].writing, e \in analyses, e \in drafted)
      /\ x.hasEvent => event = "ours"
      /\ x.step \in StepName /\ steps[e] \in Trace
  BY ExecHas
<1>1. /\ y \in Exec /\ y.phase = "failing" /\ y.error = "temporary"
      /\ y.step = x.step /\ y.review = x.review /\ y.analysis = x.analysis
      /\ y.hasEvent = x.hasEvent /\ y.hasDraft = x.hasDraft /\ y.tool = x.tool
      /\ y.outcome = x.outcome /\ y.reply = x.reply /\ y.calendar = x.calendar
  <2>1. [x EXCEPT !.phase = "failing"] \in Exec
    BY <1>0, ExecFields, PhaseOf
  <2>2. y \in Exec
    BY <2>1, ExecFields
  <2> QED BY <1>0, <2>2 DEF Exec
<1>2. Becomes(e, y)
  BY DEF Fail
<1>3. /\ \A s \in StepName : t2[s] = "pending" => s = x.step
      /\ \A s \in StepName : t2[s] # "failed"
      /\ x.hasEvent => t2["CREATE_CALENDAR_EVENT"] = "succeeded" \/ x.step = "CREATE_CALENDAR_EVENT"
      /\ x.hasDraft => t2["CREATE_DRAFT"] = "succeeded" \/ x.step = "CREATE_DRAFT"
  BY <1>0 DEF TraceOK, Trace, StepName
<1> HIDE DEF y
<1>4. TraceOK(y, t2)
  BY <1>1, <1>3 DEF TraceOK
<1>5. CourseOK(y, reviews[e])
  BY <1>0, <1>1 DEF CourseOK
<1>6. WritesOK(y, cal[e].writing, e \in analyses, e \in drafted)
  BY <1>0, <1>1 DEF WritesOK
<1> QED BY <1>0, <1>1, <1>2, <1>4, <1>5, <1>6, StepMoves DEF Agrees

LEMMA BeginKeeps ==
  ASSUME AgentInv, NEW e \in Followed, NEW j \in Jobs, Begin(e, j)
  PROVE  AgentInv'
<1> DEFINE y == [NoExec EXCEPT !.job = j, !.phase = "starting"]
<1>0. /\ exec[e] \in Exec /\ TraceOK(exec[e], steps[e]) /\ CourseOK(exec[e], reviews[e])
      /\ WritesOK(exec[e], cal[e].writing, e \in analyses, e \in drafted)
  BY ExecHas
<1>1. /\ y \in Exec /\ y.step = "FETCH_EMAIL_THREAD" /\ y.phase = "starting"
      /\ y.review = None /\ y.analysis = None /\ ~y.hasEvent /\ ~y.hasDraft
      /\ y.tool = "idle" /\ y.error = "none"
  <2>1. NoExec \in Exec
    BY PhaseOf DEF NoExec, Exec, StepName, Decision
  <2>2. [NoExec EXCEPT !.job = j] \in Exec
    BY <2>1, ExecFields
  <2>3. y \in Exec
    BY <2>2, ExecFields, PhaseOf
  <2> QED BY <2>3 DEF NoExec
<1>2. exec[e].phase = "idle" /\ Becomes(e, y) /\ UNCHANGED <<calendarVars, tables, user>>
  BY DEF Begin
<1> HIDE DEF y
<1>3. TraceOK(y, steps[e])
  BY <1>0, <1>1, <1>2 DEF TraceOK
<1>4. CourseOK(y, reviews[e])
  BY <1>0, <1>1, <1>2 DEF CourseOK, WritesOK, Policies, Writes
<1>5. WritesOK(y, cal[e].writing, e \in analyses, e \in drafted)
  BY <1>0, <1>1, <1>2 DEF WritesOK, Policies, Writes
<1> QED BY <1>1, <1>2, <1>3, <1>4, <1>5, ExecOnly

LEMMA StartStepKeeps ==
  ASSUME AgentInv, NEW e \in Followed, StartStep(e)
  PROVE  AgentInv'
<1> DEFINE x == exec[e]
           t2 == [steps[e] EXCEPT ![x.step] = "pending"]
<1>0. /\ Agrees(x, steps[e], reviews[e], cal[e].writing, e \in analyses, e \in drafted)
      /\ steps[e] \in Trace /\ x.step \in StepName /\ cal[e].writing \in BOOLEAN
      /\ (x.hasEvent => event = "ours")
      /\ (e \in analyses) \in BOOLEAN /\ (e \in drafted) \in BOOLEAN
  BY AgreesHas
<1>1. /\ x.phase = "starting" /\ UNCHANGED <<calendarVars, analyses, reviews, drafted, user>>
      /\ x \in Exec /\ TraceOK(x, steps[e]) /\ CourseOK(x, reviews[e])
      /\ WritesOK(x, cal[e].writing, e \in analyses, e \in drafted)
  BY <1>0 DEF StartStep, Agrees
<1>2. /\ t2 \in Trace
      /\ \A s \in StepName : t2[s] = "pending" => s = x.step
      /\ \A s \in StepName : t2[s] # "failed"
      /\ x.hasEvent => t2["CREATE_CALENDAR_EVENT"] = "succeeded" \/ x.step = "CREATE_CALENDAR_EVENT"
      /\ x.hasDraft => t2["CREATE_DRAFT"] = "succeeded" \/ x.step = "CREATE_DRAFT"
  BY <1>0, <1>1 DEF Trace, TraceOK, StepName
<1>3. CASE steps' = [steps EXCEPT ![e][x.step] = "pending"] /\ GoTo(e, "working")
  <2> DEFINE y == [x EXCEPT !.phase = "working"]
  <2>1. /\ y \in Exec /\ y.phase = "working" /\ y.error = x.error
        /\ y.step = x.step /\ y.review = x.review /\ y.analysis = x.analysis
        /\ y.hasEvent = x.hasEvent /\ y.hasDraft = x.hasDraft /\ y.tool = x.tool
        /\ y.outcome = x.outcome /\ y.reply = x.reply /\ y.calendar = x.calendar
    <3>1. y \in Exec
      BY <1>1, ExecFields, PhaseOf
    <3> QED BY <1>1, <3>1 DEF Exec
  <2> HIDE DEF y
  <2>2. TraceOK(y, t2)
    BY <1>1, <1>2, <2>1 DEF TraceOK, WritesOK
  <2>3. CourseOK(y, reviews[e])
    BY <1>1, <2>1 DEF CourseOK
  <2>4. WritesOK(y, cal[e].writing, e \in analyses, e \in drafted)
    BY <1>1, <2>1 DEF WritesOK
  <2>5. Becomes(e, y) /\ steps' = [steps EXCEPT ![e] = t2]
    BY <1>3 DEF GoTo, y
  <2> QED BY <1>0, <1>1, <1>2, <2>1, <2>2, <2>3, <2>4, <2>5, StepMoves DEF Agrees
<1>t. TablesOK
  BY TypeParts DEF AgentInv
<1>4. CASE steps' = [steps EXCEPT ![e][x.step] = "pending"] /\ Throw(e, "temporary")
  <2>1. steps' = [steps EXCEPT ![e] = t2]
    BY <1>4
  <2> HIDE DEF t2
  <2>2. TablesOK' /\ OthersKept(e) /\ steps'[e] = t2
    BY <1>1, <1>2, <1>t, <2>1 DEF TablesOK, OthersKept, calendarVars, user
  <2> QED BY <1>1, <1>2, <1>4, <2>2, ThrowKeeps
<1>5. CASE UNCHANGED steps /\ Throw(e, "temporary")
  <2>1. TablesOK' /\ OthersKept(e)
    BY <1>1, <1>5, <1>t DEF TablesOK, OthersKept, calendarVars, user
  <2>2. /\ \A s \in StepName : steps'[e][s] = "pending" => s = x.step
        /\ x.hasEvent => steps'[e]["CREATE_CALENDAR_EVENT"] = "succeeded"
        /\ x.hasDraft => steps'[e]["CREATE_DRAFT"] = "succeeded"
    BY <1>1, <1>5 DEF TraceOK
  <2> QED BY <1>1, <1>5, <2>1, <2>2, ThrowKeeps
<1> QED BY <1>3, <1>4, <1>5 DEF StartStep

LEMMA CompleteStepKeeps ==
  ASSUME AgentInv, NEW e \in Followed, CompleteStep(e)
  PROVE  AgentInv'
<1> DEFINE t2 == [steps[e] EXCEPT ![exec[e].step] = "succeeded"]
<1>0. /\ Agrees(exec[e], steps[e], reviews[e], cal[e].writing, e \in analyses, e \in drafted)
      /\ steps[e] \in Trace /\ exec[e].step \in StepName /\ cal[e].writing \in BOOLEAN
      /\ exec[e].hasEvent => event = "ours"
  BY AgreesHas
<1>1. /\ exec[e].phase = "completing"
      /\ UNCHANGED <<calendarVars, analyses, reviews, drafted, user>>
  BY DEF CompleteStep
<1>2. t2 \in Trace
  BY <1>0 DEF Trace
<1>3. CASE steps' = [steps EXCEPT ![e][exec[e].step] = "succeeded"] /\ Becomes(e, After(exec[e]))
  <2>1. /\ Agrees(After(exec[e]), t2, reviews[e], cal[e].writing, e \in analyses, e \in drafted)
        /\ After(exec[e]).hasEvent = exec[e].hasEvent
    <3>1. PICK saved \in BOOLEAN, wrote \in BOOLEAN :
             saved = (e \in analyses) /\ wrote = (e \in drafted)
      <4> WITNESS (e \in analyses) \in BOOLEAN, (e \in drafted) \in BOOLEAN
      <4> QED OBVIOUS
    <3>2. Agrees(exec[e], steps[e], reviews[e], cal[e].writing, saved, wrote)
      BY <1>0, <3>1
    <3> HIDE DEF t2
    <3>3. /\ Agrees(After(exec[e]), t2, reviews[e], cal[e].writing, saved, wrote)
          /\ After(exec[e]).hasEvent = exec[e].hasEvent
      BY <1>0, <1>1, <3>2, AfterKeeps DEF t2
    <3> QED BY <3>1, <3>3
  <2>2. steps' = [steps EXCEPT ![e] = t2]
    BY <1>3
  <2> HIDE DEF t2
  <2> QED BY <1>0, <1>1, <1>2, <1>3, <2>1, <2>2, StepMoves
<1>4. CASE steps' = [steps EXCEPT ![e][exec[e].step] = "succeeded"] /\ Fail(e, "temporary")
  <2>1. steps' = [steps EXCEPT ![e] = t2]
    BY <1>4
  <2> QED BY <1>1, <1>2, <1>4, <2>1, CompletingFails
<1>5. CASE UNCHANGED steps /\ Fail(e, "temporary")
  <2>1. steps' = [steps EXCEPT ![e] = steps[e]]
    BY <1>5, TypeParts DEF AgentInv, TablesOK
  <2> QED BY <1>0, <1>1, <1>5, <2>1, CompletingFails
<1> QED BY <1>3, <1>4, <1>5 DEF CompleteStep

LEMMA FailStepKeeps ==
  ASSUME AgentInv, NEW e \in Followed, FailStep(e)
  PROVE  AgentInv'
<1> DEFINE x == exec[e]
           t2 == [steps[e] EXCEPT ![x.step] = "failed"]
<1>0. /\ x \in Exec /\ TraceOK(x, steps[e]) /\ CourseOK(x, reviews[e])
      /\ x.step \in StepName /\ steps[e] \in Trace
  BY ExecHas
<1>1. x.phase = "failing" /\ UNCHANGED <<calendarVars, analyses, reviews, drafted, user>>
  BY DEF FailStep
<1>t. TablesOK
  BY TypeParts DEF AgentInv
<1>2. /\ \A s \in StepName : steps[e][s] = "pending" => s = x.step
      /\ x.hasEvent => steps[e]["CREATE_CALENDAR_EVENT"] = "succeeded" \/ x.step = "CREATE_CALENDAR_EVENT"
      /\ x.hasDraft => steps[e]["CREATE_DRAFT"] = "succeeded" \/ x.step = "CREATE_DRAFT"
  BY <1>0 DEF TraceOK
<1>3. ASSUME steps' = [steps EXCEPT ![e][x.step] = "failed"],
             NEW error \in {"none", "temporary", "permanent"}, Throw(e, error)
      PROVE  AgentInv'
  <2>1. steps' = [steps EXCEPT ![e] = t2]
    BY <1>3
  <2>2. /\ t2 \in Trace /\ t2[x.step] = "failed"
        /\ \A s \in StepName : t2[s] = "pending" => s = x.step
        /\ x.hasEvent => t2["CREATE_CALENDAR_EVENT"] = "succeeded" \/ x.step = "CREATE_CALENDAR_EVENT"
        /\ x.hasDraft => t2["CREATE_DRAFT"] = "succeeded" \/ x.step = "CREATE_DRAFT"
    BY <1>0, <1>2 DEF Trace, StepName
  <2> HIDE DEF t2
  <2>3. TablesOK' /\ OthersKept(e) /\ steps'[e] = t2
    BY <1>1, <1>t, <2>1, <2>2 DEF TablesOK, OthersKept, calendarVars, user
  <2> QED BY <1>1, <1>3, <2>2, <2>3, ThrowKeeps
<1>4. CASE UNCHANGED steps /\ Throw(e, "temporary")
  <2>1. TablesOK' /\ OthersKept(e)
    BY <1>1, <1>4, <1>t DEF TablesOK, OthersKept, calendarVars, user
  <2> QED BY <1>1, <1>2, <1>4, <2>1, ThrowKeeps
<1>5. x.error \in {"none", "temporary", "permanent"}
  BY <1>0 DEF Exec
<1> QED BY <1>3, <1>4, <1>5 DEF FailStep

(* The operation of a step is done: y is what the record has become.       *)
LEMMA DoneKeeps ==
  ASSUME AgentInv, NEW e \in Followed, NEW y \in Exec, Becomes(e, y),
         UNCHANGED <<calendarVars, tables, user>>,
         exec[e].phase \in {"working", "looking"}, y.phase = "completing",
         y.error = exec[e].error, y.step = exec[e].step,
         y.hasEvent => exec[e].hasEvent \/ (y.step = "CREATE_CALENDAR_EVENT" /\ event = "ours"),
         y.hasDraft => exec[e].hasDraft \/ y.step = "CREATE_DRAFT",
         CourseOK(y, reviews[e]),
         WritesOK(y, cal[e].writing, e \in analyses, e \in drafted)
  PROVE  AgentInv'
<1>0. TraceOK(exec[e], steps[e]) /\ (exec[e].hasEvent => event = "ours")
  BY ExecHas
<1>1. TraceOK(y, steps[e])
  BY <1>0 DEF TraceOK
<1>2. y.hasEvent => event = "ours"
  BY <1>0
<1> QED BY <1>1, <1>2, ExecOnly

LEMMA FetchKeeps ==
  ASSUME AgentInv, NEW e \in Followed, Fetch(e)
  PROVE  AgentInv'
<1> DEFINE x == exec[e]
           y == [x EXCEPT !.seen = target # "superseded", !.phase = "completing"]
<1>0. /\ x \in Exec /\ CourseOK(x, reviews[e])
      /\ WritesOK(x, cal[e].writing, e \in analyses, e \in drafted)
  BY ExecHas
<1>1. /\ x.step = "FETCH_EMAIL_THREAD" /\ x.phase = "working"
      /\ UNCHANGED <<calendarVars, tables, user>>
  BY DEF Fetch, At
<1>2. CASE Becomes(e, y)
  <2>1. /\ y \in Exec /\ y.phase = "completing" /\ y.error = x.error
        /\ y.step = x.step /\ y.review = x.review /\ y.analysis = x.analysis
        /\ y.hasEvent = x.hasEvent /\ y.hasDraft = x.hasDraft /\ y.tool = x.tool
        /\ y.outcome = x.outcome /\ y.reply = x.reply /\ y.calendar = x.calendar
    <3>1. [x EXCEPT !.seen = target # "superseded"] \in Exec
      BY <1>0, ExecFields
    <3>2. y \in Exec
      BY <3>1, ExecFields, PhaseOf
    <3> QED BY <1>0, <3>2 DEF Exec
  <2> HIDE DEF y
  <2>2. CourseOK(y, reviews[e])
    BY <1>0, <1>1, <2>1 DEF CourseOK
  <2>3. WritesOK(y, cal[e].writing, e \in analyses, e \in drafted)
    BY <1>0, <1>1, <2>1 DEF WritesOK
  <2> QED BY <1>1, <1>2, <2>1, <2>2, <2>3, DoneKeeps
<1>3. CASE Fail(e, "permanent")
  BY <1>1, <1>3, FailKeeps
<1> QED BY <1>2, <1>3 DEF Fetch

LEMMA AnalyzedKeeps ==
  ASSUME AgentInv, NEW e \in Followed, At(e, "ANALYZE_EMAIL", "working"),
         NEW review \in ReviewReasons \cup {None}, NEW analysis \in Analysis \cup {None},
         review = None => analysis # None, analysis # None => ValidAnalysis(analysis),
         Analyzed(e, review, analysis), UNCHANGED <<calendarVars, tables, user>>
  PROVE  AgentInv'
<1> DEFINE x == exec[e]
           c == CalendarSettingsOf(settings)
           y == [x EXCEPT !.calendarSettings = c, !.review = review, !.analysis = analysis,
                          !.phase = "completing"]
<1>0. /\ x \in Exec /\ CourseOK(x, reviews[e])
      /\ WritesOK(x, cal[e].writing, e \in analyses, e \in drafted)
  BY ExecHas
<1>1. x.step = "ANALYZE_EMAIL" /\ x.phase = "working"
  BY DEF At
<1>2. c \in CalendarSettings \cup {None}
  BY SettingsTypes, TypeParts DEF AgentInv
<1>3. Becomes(e, y)
  BY DEF Analyzed
<1> HIDE DEF c
<1>4. /\ y \in Exec /\ y.phase = "completing" /\ y.error = x.error
      /\ y.step = x.step /\ y.review = review /\ y.analysis = analysis
      /\ y.hasEvent = x.hasEvent /\ y.hasDraft = x.hasDraft /\ y.tool = x.tool
      /\ y.outcome = x.outcome /\ y.reply = x.reply /\ y.calendar = x.calendar
  <2>1. [x EXCEPT !.calendarSettings = c] \in Exec
    BY <1>0, <1>2, ExecFields
  <2>2. [x EXCEPT !.calendarSettings = c, !.review = review] \in Exec
    BY <2>1, ExecFields
  <2>3. [x EXCEPT !.calendarSettings = c, !.review = review, !.analysis = analysis] \in Exec
    BY <2>2, ExecFields
  <2>4. y \in Exec
    BY <2>3, ExecFields, PhaseOf
  <2> QED BY <1>0, <2>4 DEF Exec
<1> HIDE DEF y
<1>5. CourseOK(y, reviews[e])
  BY <1>0, <1>1, <1>4 DEF CourseOK, Policies, Writes, WritesOK
<1>6. WritesOK(y, cal[e].writing, e \in analyses, e \in drafted)
  BY <1>0, <1>1, <1>4 DEF WritesOK
<1> QED BY <1>1, <1>3, <1>4, <1>5, <1>6, DoneKeeps

LEMMA AnalyzeKeeps ==
  ASSUME AgentInv, NEW e \in Followed, Analyze(e)
  PROVE  AgentInv'
<1>1. At(e, "ANALYZE_EMAIL", "working") /\ UNCHANGED <<calendarVars, tables, user>>
  BY DEF Analyze
<1>2. ASSUME NEW reason \in LlmReasons \cup {"analysis_not_grounded"}, Analyzed(e, reason, None)
      PROVE  AgentInv'
  BY <1>1, <1>2, NoReason, AnalyzedKeeps
<1>3. ASSUME NEW a \in Analyses, ValidAnalysis(a), Analyzed(e, None, Normalize(a))
      PROVE  AgentInv'
  <2>1. a \in Analysis
    BY AgentAssumption
  <2>2. Normalize(a) \in Analysis /\ ValidAnalysis(Normalize(a))
    BY <1>3, <2>1, NormalizeOK
  <2> QED BY <1>1, <1>3, <2>2, NoReason, AnalyzedKeeps
<1> QED BY <1>2, <1>3 DEF Analyze, LlmReasons

LEMMA CompleteKeeps ==
  ASSUME AgentInv, NEW e \in Followed, Complete(e)
  PROVE  AgentInv'
<1> DEFINE x == exec[e]
           y == [x EXCEPT !.phase = "completing"]
<1>0. /\ x \in Exec /\ CourseOK(x, reviews[e])
      /\ WritesOK(x, cal[e].writing, e \in analyses, e \in drafted)
  BY ExecHas
<1>1. /\ x.step = "COMPLETE" /\ x.phase = "working" /\ Becomes(e, y)
      /\ UNCHANGED <<calendarVars, tables, user>>
  BY DEF Complete, At, GoTo
<1>2. /\ y \in Exec /\ y.phase = "completing" /\ y.error = x.error
      /\ y.step = x.step /\ y.review = x.review /\ y.analysis = x.analysis
      /\ y.hasEvent = x.hasEvent /\ y.hasDraft = x.hasDraft /\ y.tool = x.tool
      /\ y.outcome = x.outcome /\ y.reply = x.reply /\ y.calendar = x.calendar
  <2>1. y \in Exec
    BY <1>0, ExecFields, PhaseOf
  <2> QED BY <1>0, <2>1 DEF Exec
<1> HIDE DEF y
<1>3. CourseOK(y, reviews[e])
  BY <1>0, <1>1, <1>2 DEF CourseOK
<1>4. WritesOK(y, cal[e].writing, e \in analyses, e \in drafted)
  BY <1>0, <1>1, <1>2 DEF WritesOK
<1> QED BY <1>1, <1>2, <1>3, <1>4, DoneKeeps

LEMMA CheckReplyKeeps ==
  ASSUME AgentInv, NEW e \in Followed, CheckReply(e)
  PROVE  AgentInv'
<1> DEFINE x == exec[e]
           s == ReplySettingsOf(settings)
           d == ReplyPolicy(x.analysis, s, x.seen, target # "unsafe")
           y == [x EXCEPT !.reply = d, !.replySettings = s, !.phase = "completing"]
<1>0. /\ x \in Exec /\ CourseOK(x, reviews[e])
      /\ WritesOK(x, cal[e].writing, e \in analyses, e \in drafted)
  BY ExecHas
<1>1. /\ x.step = "CHECK_REPLY_POLICY" /\ x.phase = "working" /\ Becomes(e, y)
      /\ UNCHANGED <<calendarVars, tables, user>>
  BY DEF CheckReply, At
<1>2. s \in ReplySettings \cup {None}
  BY SettingsTypes, TypeParts DEF AgentInv
<1>3. d \in Decision
  BY PolicyAnswers DEF Decision
<1> HIDE DEF s, d
<1>4. /\ y \in Exec /\ y.phase = "completing" /\ y.error = x.error
      /\ y.step = x.step /\ y.review = x.review /\ y.analysis = x.analysis
      /\ y.hasEvent = x.hasEvent /\ y.hasDraft = x.hasDraft /\ y.tool = x.tool
      /\ y.outcome = x.outcome /\ y.calendar = x.calendar
  <2>1. [x EXCEPT !.reply = d] \in Exec
    BY <1>0, <1>3, ExecFields
  <2>2. [x EXCEPT !.reply = d, !.replySettings = s] \in Exec
    BY <1>2, <2>1, ExecFields
  <2>3. y \in Exec
    BY <2>2, ExecFields, PhaseOf
  <2> QED BY <1>0, <2>3 DEF Exec
<1> HIDE DEF y
<1>5. CourseOK(y, reviews[e])
  BY <1>0, <1>1, <1>4 DEF CourseOK
<1>6. WritesOK(y, cal[e].writing, e \in analyses, e \in drafted)
  BY <1>0, <1>1, <1>4 DEF WritesOK, Policies, Writes
<1> QED BY <1>1, <1>4, <1>5, <1>6, DoneKeeps

LEMMA SaveAnalysisKeeps ==
  ASSUME AgentInv, NEW e \in Followed, SaveAnalysis(e)
  PROVE  AgentInv'
<1> DEFINE x == exec[e]
           s == IF x.analysis.isJobRelated THEN "CHECK_REPLY_POLICY" ELSE "COMPLETE"
           y == StartOf(x, s)
<1>0. /\ x \in Exec /\ TraceOK(x, steps[e]) /\ CourseOK(x, reviews[e])
      /\ WritesOK(x, cal[e].writing, e \in analyses, e \in drafted)
      /\ steps[e] \in Trace /\ x.step \in StepName
  BY ExecHas
<1>h. x.hasEvent => event = "ours"
  BY ExecHas
<1>1. x.phase = "saving" /\ UNCHANGED <<calendarVars, steps, reviews, drafted, user>>
  BY DEF SaveAnalysis
<1>2. analyses' \in {analyses, analyses \cup {e}}
  BY DEF SaveAnalysis
<1>t. TablesOK
  BY TypeParts DEF AgentInv
<1>3. TablesOK' /\ OthersKept(e)
  BY <1>1, <1>2, <1>t DEF TablesOK, OthersKept, calendarVars, user
<1>4. CASE analyses' = analyses \cup {e} /\ Becomes(e, y)
  <2>1. s \in StepName
    BY DEF StepName
  <2>2. /\ y \in Exec /\ y.error = x.error /\ y.hasEvent = x.hasEvent /\ y.hasDraft = x.hasDraft
        /\ y.phase = "starting"
    BY <1>0, <2>1, StartOfType
  <2>3. /\ y.step = s /\ y.review = x.review /\ y.analysis = x.analysis /\ y.tool = x.tool
        /\ y.outcome = x.outcome /\ y.reply = x.reply /\ y.calendar = x.calendar
    BY <1>0 DEF StartOf, Exec
  <2>4. TraceOK(y, steps[e])
    BY <1>0, <1>1, <2>2, StartTrace
  <2>5. (s = "CHECK_REPLY_POLICY" /\ x.analysis.isJobRelated) \/ s = "COMPLETE"
    OBVIOUS
  <2> HIDE DEF y, s
  <2>6. CourseOK(y, reviews[e])
    BY <1>0, <1>1, <2>2, <2>3, <2>5 DEF CourseOK, Policies, Writes, WritesOK
  <2>7. WritesOK(y, cal[e].writing, e \in analyses', e \in drafted)
    BY <1>0, <1>1, <1>4, <2>2, <2>3, <2>5 DEF WritesOK, CourseOK, Policies, Writes
  <2>8. CalendarInv' /\ Onward /\ cal' = cal /\ event' = event
    BY <1>1 DEF AgentInv, CalendarInv, CalendarTypeOK, RecordedEventIsReal, CallOK, Onward, calendarVars
  <2> QED BY <1>1, <1>3, <1>4, <1>h, <2>2, <2>4, <2>6, <2>7, <2>8, ExecMoves
<1>5. CASE Throw(e, "temporary")
  <2>1. /\ \A n \in StepName : steps[e][n] = "pending" => n = x.step
        /\ x.hasEvent => steps[e]["CREATE_CALENDAR_EVENT"] = "succeeded"
        /\ x.hasDraft => steps[e]["CREATE_DRAFT"] = "succeeded"
    BY <1>0, <1>1 DEF TraceOK
  <2>2. steps' = steps /\ reviews' = reviews /\ (e \in analyses => e \in analyses')
        /\ UNCHANGED <<calendarVars, drafted>>
    BY <1>1, <1>2
  <2> HIDE DEF s, y
  <2> QED BY <1>3, <1>5, <2>1, <2>2, ThrowKeeps
<1> QED BY <1>4, <1>5 DEF SaveAnalysis

LEMMA SaveReviewKeeps ==
  ASSUME AgentInv, NEW e \in Followed, SaveReview(e)
  PROVE  AgentInv'
<1> DEFINE x == exec[e]
           y == StartOf(x, "COMPLETE")
<1>0. /\ x \in Exec /\ TraceOK(x, steps[e]) /\ CourseOK(x, reviews[e])
      /\ WritesOK(x, cal[e].writing, e \in analyses, e \in drafted)
      /\ steps[e] \in Trace /\ x.step \in StepName
  BY ExecHas
<1>h. x.hasEvent => event = "ours"
  BY ExecHas
<1>1. /\ x.phase = "reviewing" /\ x.step # "COMPLETE"
      /\ UNCHANGED <<calendarVars, steps, analyses, drafted, user>>
  BY <1>0 DEF SaveReview, CourseOK
<1>2. reviews' = reviews \/ reviews' = [reviews EXCEPT ![e] = x.review]
  BY DEF SaveReview
<1>t. TablesOK
  BY TypeParts DEF AgentInv
<1>r. x.review \in ReviewReasons \cup {None}
  BY <1>0 DEF Exec
<1>3. TablesOK' /\ OthersKept(e)
  BY <1>1, <1>2, <1>r, <1>t DEF TablesOK, OthersKept, calendarVars, user
<1>4. CASE reviews' = [reviews EXCEPT ![e] = x.review] /\ Becomes(e, y)
  <2>1. "COMPLETE" \in StepName
    BY DEF StepName
  <2>2. /\ y \in Exec /\ y.error = x.error /\ y.hasEvent = x.hasEvent /\ y.hasDraft = x.hasDraft
        /\ y.phase = "starting"
    BY <1>0, <2>1, StartOfType
  <2>3. /\ y.step = "COMPLETE" /\ y.review = x.review /\ y.analysis = x.analysis /\ y.tool = x.tool
        /\ y.outcome = x.outcome /\ y.reply = x.reply /\ y.calendar = x.calendar
    BY <1>0 DEF StartOf, Exec
  <2>4. TraceOK(y, steps[e])
    BY <1>0, <1>1, <2>2, StartTrace
  <2> HIDE DEF y
  <2>5. reviews'[e] = x.review
    BY <1>4, <1>t DEF TablesOK
  <2>6. CourseOK(y, reviews'[e])
    BY <1>0, <1>1, <2>2, <2>3, <2>5 DEF CourseOK, Policies, Writes
  <2>7. WritesOK(y, cal[e].writing, e \in analyses, e \in drafted)
    BY <1>0, <1>1, <2>2, <2>3 DEF WritesOK, Policies, Writes
  <2>8. CalendarInv' /\ Onward /\ cal' = cal /\ event' = event /\ analyses' = analyses
    BY <1>1 DEF AgentInv, CalendarInv, CalendarTypeOK, RecordedEventIsReal, CallOK, Onward, calendarVars
  <2> QED BY <1>1, <1>3, <1>4, <1>h, <2>2, <2>4, <2>6, <2>7, <2>8, ExecMoves
<1>5. CASE Throw(e, "temporary")
  <2>1. /\ \A n \in StepName : steps[e][n] = "pending" => n = x.step
        /\ x.hasEvent => steps[e]["CREATE_CALENDAR_EVENT"] = "succeeded"
        /\ x.hasDraft => steps[e]["CREATE_DRAFT"] = "succeeded"
    BY <1>0, <1>1 DEF TraceOK
  <2>2. steps' = steps /\ analyses' = analyses /\ UNCHANGED <<calendarVars, drafted>>
    BY <1>1
  <2> HIDE DEF y
  <2> QED BY <1>1, <1>3, <1>5, <2>1, <2>2, ThrowKeeps
<1> QED BY <1>4, <1>5 DEF SaveReview

(* The look of an execution at the calendar: the record only waits.        *)
LEMMA LookKeeps ==
  ASSUME AgentInv, NEW e \in Followed, NEW writing \in BOOLEAN, exec[e].phase = "working",
         \/ exec[e].step = "CHECK_CALENDAR_POLICY" /\ ~writing
         \/ exec[e].step = "CREATE_CALENDAR_EVENT" /\ writing,
         GoTo(e, "looking"), Look(e, exec[e].job, writing), UNCHANGED <<tables, user>>
  PROVE  AgentInv'
<1> DEFINE x == exec[e]
           y == [x EXCEPT !.phase = "looking"]
<1>0. /\ x \in Exec /\ TraceOK(x, steps[e]) /\ CourseOK(x, reviews[e])
      /\ WritesOK(x, cal[e].writing, e \in analyses, e \in drafted)
  BY ExecHas
<1>h. (x.hasEvent => event = "ours") /\ e \in Executions /\ Followed \subseteq Executions
  BY ExecHas, AgentAssumption
<1>j. x.job \in Jobs \cup {None}
  BY <1>0 DEF Exec
<1>1. /\ CalendarInv' /\ Onward /\ cal'[e].writing = writing
      /\ \A f \in Executions : f # e => cal'[f] = cal[f]
  BY <1>h, <1>j, LookEffect DEF AgentInv
<1>2. /\ y \in Exec /\ y.phase = "looking" /\ y.error = x.error
      /\ y.step = x.step /\ y.review = x.review /\ y.analysis = x.analysis
      /\ y.hasEvent = x.hasEvent /\ y.hasDraft = x.hasDraft /\ y.tool = x.tool
      /\ y.outcome = x.outcome /\ y.reply = x.reply /\ y.calendar = x.calendar
  <2>1. y \in Exec
    BY <1>0, ExecFields, PhaseOf
  <2> QED BY <1>0, <2>1 DEF Exec
<1>3. Becomes(e, y)
  BY DEF GoTo
<1> HIDE DEF y
<1>4. TraceOK(y, steps[e])
  BY <1>0, <1>2 DEF TraceOK
<1>5. CourseOK(y, reviews[e])
  BY <1>0, <1>2 DEF CourseOK
<1>6. WritesOK(y, writing, e \in analyses, e \in drafted)
  BY <1>0, <1>2 DEF WritesOK, Policies, Writes
<1>7. TablesOK' /\ OthersKept(e)
  BY <1>1, <1>h, TypeParts DEF AgentInv, TablesOK, OthersKept, tables, user
<1>8. y.hasEvent => event' = "ours"
  BY <1>1, <1>2, <1>h DEF Onward
<1>9. /\ steps' = steps /\ reviews' = reviews /\ analyses' = analyses /\ drafted' = drafted
  BY DEF tables
<1> QED BY <1>1, <1>2, <1>3, <1>4, <1>5, <1>6, <1>7, <1>8, <1>9, ExecMoves

(* A step that writes ends with a reason for a review.                     *)
LEMMA DecidedKeeps ==
  ASSUME AgentInv, NEW e \in Followed, NEW reason \in ReviewReasons,
         exec[e].step \in Writes, exec[e].phase \in {"working", "looking"},
         exec[e].tool = "idle" \/ (exec[e].tool = "returned" /\ exec[e].outcome # "completed"),
         Decided(e, reason), UNCHANGED <<calendarVars, tables, user>>
  PROVE  AgentInv'
<1> DEFINE x == exec[e]
           y == [x EXCEPT !.review = reason, !.phase = "completing"]
<1>0. /\ x \in Exec /\ CourseOK(x, reviews[e])
      /\ WritesOK(x, cal[e].writing, e \in analyses, e \in drafted)
  BY ExecHas
<1>1. Becomes(e, y)
  BY DEF Decided
<1>2. /\ y \in Exec /\ y.phase = "completing" /\ y.error = x.error
      /\ y.step = x.step /\ y.review = reason /\ y.analysis = x.analysis
      /\ y.hasEvent = x.hasEvent /\ y.hasDraft = x.hasDraft /\ y.tool = x.tool
      /\ y.outcome = x.outcome /\ y.reply = x.reply /\ y.calendar = x.calendar
  <2>1. [x EXCEPT !.review = reason] \in Exec
    BY <1>0, ExecFields
  <2>2. y \in Exec
    BY <2>1, ExecFields, PhaseOf
  <2> QED BY <1>0, <2>2 DEF Exec
<1> HIDE DEF y
<1>3. CourseOK(y, reviews[e])
  BY <1>0, <1>2, NoReason DEF CourseOK, Writes
<1>4. WritesOK(y, cal[e].writing, e \in analyses, e \in drafted)
  BY <1>0, <1>2, NoReason DEF WritesOK, Writes, Policies
<1>5. (y.hasEvent => x.hasEvent) /\ (y.hasDraft => x.hasDraft)
  BY <1>2
<1> QED BY <1>1, <1>2, <1>3, <1>4, <1>5, DoneKeeps

(* prepareCalendarAction has decided.                                      *)
LEMMA CalendarDecided ==
  ASSUME AgentInv, NEW e \in Followed, NEW d \in Decision,
         exec[e].step = "CHECK_CALENDAR_POLICY", exec[e].phase \in {"working", "looking"},
         Becomes(e, [exec[e] EXCEPT !.calendar = d, !.phase = "completing"]),
         UNCHANGED <<calendarVars, tables, user>>
  PROVE  AgentInv'
<1> DEFINE x == exec[e]
           y == [x EXCEPT !.calendar = d, !.phase = "completing"]
<1>0. /\ x \in Exec /\ CourseOK(x, reviews[e])
      /\ WritesOK(x, cal[e].writing, e \in analyses, e \in drafted)
  BY ExecHas
<1>1. Becomes(e, y)
  OBVIOUS
<1>2. /\ y \in Exec /\ y.phase = "completing" /\ y.error = x.error
      /\ y.step = x.step /\ y.review = x.review /\ y.analysis = x.analysis
      /\ y.hasEvent = x.hasEvent /\ y.hasDraft = x.hasDraft /\ y.tool = x.tool
      /\ y.outcome = x.outcome /\ y.reply = x.reply
  <2>1. [x EXCEPT !.calendar = d] \in Exec
    BY <1>0, ExecFields
  <2>2. y \in Exec
    BY <2>1, ExecFields, PhaseOf
  <2> QED BY <1>0, <2>2 DEF Exec
<1> HIDE DEF y
<1>3. CourseOK(y, reviews[e])
  BY <1>0, <1>2 DEF CourseOK
<1>4. WritesOK(y, cal[e].writing, e \in analyses, e \in drafted)
  BY <1>0, <1>2 DEF WritesOK, Policies, Writes
<1>5. (y.hasEvent => x.hasEvent) /\ (y.hasDraft => x.hasDraft)
  BY <1>2
<1> QED BY <1>1, <1>2, <1>3, <1>4, <1>5, DoneKeeps

LEMMA CheckCalendarKeeps ==
  ASSUME AgentInv, NEW e \in Followed, CheckCalendar(e)
  PROVE  AgentInv'
<1> DEFINE d == CalendarPolicy(exec[e].analysis, exec[e].calendarSettings)
<1>1. /\ exec[e].step = "CHECK_CALENDAR_POLICY" /\ exec[e].phase = "working"
      /\ UNCHANGED <<tables, user>>
  BY DEF CheckCalendar, At
<1>2. d \in Decision
  BY PolicyAnswers DEF Decision
<1>3. CASE d = "ready"
  <2>1. GoTo(e, "looking") /\ Look(e, exec[e].job, FALSE)
    BY <1>3 DEF CheckCalendar
  <2> HIDE DEF d
  <2> QED BY <1>1, <2>1, LookKeeps
<1>4. CASE d # "ready"
  <2>1. /\ Becomes(e, [exec[e] EXCEPT !.calendar = d, !.phase = "completing"])
        /\ UNCHANGED calendarVars
    BY <1>4 DEF CheckCalendar
  <2> HIDE DEF d
  <2> QED BY <1>1, <1>2, <2>1, CalendarDecided
<1> QED BY <1>3, <1>4

LEMMA RevalidateKeeps ==
  ASSUME AgentInv, NEW e \in Followed, Revalidate(e)
  PROVE  AgentInv'
<1> DEFINE d == CalendarRecheck(exec[e].analysis, CalendarSettingsOf(settings))
<1>1. /\ exec[e].step = "CREATE_CALENDAR_EVENT" /\ exec[e].phase = "working"
      /\ UNCHANGED <<tables, user>>
  BY DEF Revalidate, At
<1>2. d \in {"ready"} \cup ReviewReasons
  BY PolicyAnswers
<1>3. CASE d = "ready"
  <2>1. GoTo(e, "looking") /\ Look(e, exec[e].job, TRUE)
    BY <1>3 DEF Revalidate
  <2> HIDE DEF d
  <2> QED BY <1>1, <2>1, LookKeeps
<1>4. CASE d # "ready"
  <2>1. Decided(e, d) /\ UNCHANGED calendarVars
    BY <1>4 DEF Revalidate
  <2>2. exec[e].tool = "idle"
    BY <1>1, ExecHas DEF WritesOK
  <2> HIDE DEF d
  <2> QED BY <1>1, <1>2, <1>4, <2>1, <2>2, DecidedKeeps DEF Writes
<1> QED BY <1>3, <1>4

LEMMA LookedKeeps ==
  ASSUME AgentInv, NEW e \in Followed, Looked(e)
  PROVE  AgentInv'
<1> DEFINE x == exec[e]
           result == cal[e].result
<1>0. /\ x \in Exec /\ CourseOK(x, reviews[e])
      /\ WritesOK(x, cal[e].writing, e \in analyses, e \in drafted)
  BY ExecHas
<1>1. x.phase = "looking" /\ UNCHANGED <<calendarVars, tables, user>>
  BY DEF Looked
<1>e. e \in Executions
  BY AgentAssumption
<1>2. CallOK(cal[e]) /\ RecordedEventIsReal /\ cal[e] \in Cal
  BY <1>e DEF AgentInv, CalendarInv, CalendarTypeOK
<1>3. CASE CalAt(e, "returned") /\ At(e, "CHECK_CALENDAR_POLICY", "looking")
           /\ Becomes(e, [x EXCEPT !.calendar = result, !.phase = "completing"])
  <2>1. x.step = "CHECK_CALENDAR_POLICY" /\ ~cal[e].writing
    BY <1>0, <1>3 DEF At, WritesOK, Policies
  <2>2. result \in {"ready"} \cup LookReasons
    BY <1>2, <1>3, <2>1 DEF CallOK, CalAt, Cal
  <2>3. result \in Decision
    BY <2>2, NoReason DEF Decision
  <2> HIDE DEF result
  <2> QED BY <1>1, <1>3, <2>1, <2>3, CalendarDecided
<1>4. CASE /\ CalAt(e, "returned") /\ At(e, "CREATE_CALENDAR_EVENT", "looking")
           /\ result # "completed" /\ Decided(e, result)
  <2>1. x.step = "CREATE_CALENDAR_EVENT" /\ cal[e].writing /\ x.tool = "idle"
    BY <1>0, <1>4 DEF At, WritesOK
  <2>2. result \in LookReasons
    BY <1>2, <1>4, <2>1 DEF CallOK, CalAt
  <2> HIDE DEF result
  <2> QED BY <1>1, <1>4, <2>1, <2>2, NoReason, DecidedKeeps DEF Writes
<1>5. CASE /\ At(e, "CREATE_CALENDAR_EVENT", "looking") /\ result = "completed"
           /\ Becomes(e, [x EXCEPT !.hasEvent = TRUE, !.phase = "completing"])
  <2> DEFINE y == [x EXCEPT !.hasEvent = TRUE, !.phase = "completing"]
  <2>1. x.step = "CREATE_CALENDAR_EVENT" /\ event = "ours"
    <3>1. row.status = "completed"
      BY <1>2, <1>5 DEF CallOK
    <3> QED BY <1>2, <1>5, <3>1 DEF At, RecordedEventIsReal
  <2>2. /\ y \in Exec /\ y.phase = "completing" /\ y.error = x.error
        /\ y.step = x.step /\ y.review = x.review /\ y.analysis = x.analysis
        /\ y.hasEvent /\ y.hasDraft = x.hasDraft /\ y.tool = x.tool
        /\ y.outcome = x.outcome /\ y.reply = x.reply /\ y.calendar = x.calendar
    <3>1. [x EXCEPT !.hasEvent = TRUE] \in Exec
      BY <1>0, ExecFields
    <3>2. y \in Exec
      BY <3>1, ExecFields, PhaseOf
    <3> QED BY <1>0, <3>2 DEF Exec
  <2>3. Becomes(e, y)
    BY <1>5
  <2> HIDE DEF y
  <2>4. CourseOK(y, reviews[e])
    BY <1>0, <1>1, <2>1, <2>2 DEF CourseOK, Policies, Writes
  <2>5. WritesOK(y, cal[e].writing, e \in analyses, e \in drafted)
    BY <1>0, <1>1, <2>1, <2>2 DEF WritesOK, Policies, Writes
  <2>6. y.hasDraft => x.hasDraft
    BY <2>2
  <2> QED BY <1>1, <2>1, <2>2, <2>3, <2>4, <2>5, <2>6, DoneKeeps
<1>6. CASE Fail(e, "temporary") \/ Fail(e, "permanent")
  BY <1>1, <1>6, FailKeeps
<1> QED BY <1>3, <1>4, <1>5, <1>6 DEF Looked

(* The draft tool: y differs from x in what belongs to the tool only.      *)
ToolOnly(x, y) ==
    /\ y \in Exec /\ y.phase = x.phase /\ y.error = x.error
    /\ y.step = x.step /\ y.review = x.review /\ y.analysis = x.analysis
    /\ y.hasEvent = x.hasEvent /\ y.hasDraft = x.hasDraft
    /\ y.reply = x.reply /\ y.calendar = x.calendar

LEMMA ToolFields ==
  ASSUME NEW x \in Exec
  PROVE  /\ \A tool \in Tool : /\ ToolOnly(x, [x EXCEPT !.tool = tool])
                               /\ [x EXCEPT !.tool = tool].tool = tool
         /\ \A outcome \in Outcomes : /\ ToolOnly(x, Returned(x, outcome))
                                      /\ Returned(x, outcome).tool = "returned"
                                      /\ Returned(x, outcome).outcome = outcome
<1>1. ASSUME NEW tool \in Tool
      PROVE  ToolOnly(x, [x EXCEPT !.tool = tool]) /\ [x EXCEPT !.tool = tool].tool = tool
  <2>1. [x EXCEPT !.tool = tool] \in Exec
    BY ExecFields
  <2> QED BY <2>1 DEF ToolOnly, Exec
<1>2. ASSUME NEW outcome \in Outcomes
      PROVE  /\ ToolOnly(x, Returned(x, outcome))
             /\ Returned(x, outcome).tool = "returned"
             /\ Returned(x, outcome).outcome = outcome
  <2>1. [x EXCEPT !.tool = "returned"] \in Exec
    BY ExecFields DEF Tool
  <2>2. Returned(x, outcome) \in Exec
    BY <2>1, ExecFields DEF Returned
  <2> QED BY <2>2 DEF ToolOnly, Returned, Exec
<1> QED BY <1>1, <1>2

LEMMA ToolKeeps ==
  ASSUME AgentInv, NEW e \in Followed, NEW y, ToolOnly(exec[e], y), Becomes(e, y),
         UNCHANGED <<calendarVars, steps, analyses, reviews, user>>,
         drafted' \in {drafted, drafted \cup {e}},
         \/ exec[e].tool = "idle" /\ At(e, "CREATE_DRAFT", "working")
         \/ exec[e].tool \in {"rereading", "writing"},
         y.tool \in Tool \ {"idle"}, y.tool = "returned" => y.outcome # None,
         drafted' # drafted => y.tool = "threw" \/ (y.tool = "returned" /\ y.outcome = "completed")
  PROVE  AgentInv'
<1> DEFINE x == exec[e]
<1>0. /\ TraceOK(x, steps[e]) /\ CourseOK(x, reviews[e])
      /\ WritesOK(x, cal[e].writing, e \in analyses, e \in drafted)
  BY ExecHas
<1>h. x.hasEvent => event = "ours"
  BY ExecHas
<1>1. TraceOK(y, steps[e])
  BY <1>0 DEF TraceOK, ToolOnly
<1>2. CourseOK(y, reviews[e])
  BY <1>0 DEF CourseOK, ToolOnly
<1>3. e \notin drafted
  BY <1>0 DEF WritesOK
<1>4. /\ x.review = None /\ e \in analyses /\ {x.reply, x.calendar} \cap ReviewReasons = {}
      /\ x.step \in {"CREATE_DRAFT", "COMPLETE"}
      /\ x.calendar = "ready" => x.hasEvent
  BY <1>0 DEF WritesOK, CourseOK, At, Writes
<1>5. e \in drafted' => y.tool = "threw" \/ (y.tool = "returned" /\ y.outcome = "completed")
  BY <1>3
<1>6. WritesOK(y, cal[e].writing, e \in analyses, e \in drafted')
  BY <1>0, <1>4, <1>5 DEF WritesOK, ToolOnly, Tool, Policies, Writes
<1>7. CalendarInv' /\ Onward /\ cal' = cal /\ event' = event
  BY DEF AgentInv, CalendarInv, CalendarTypeOK, RecordedEventIsReal, CallOK, Onward, calendarVars
<1>8. TablesOK' /\ OthersKept(e)
  BY TypeParts DEF AgentInv, TablesOK, OthersKept, calendarVars, user
<1>9. steps' = steps /\ reviews' = reviews /\ analyses' = analyses
  OBVIOUS
<1>10. y \in Exec /\ (y.hasEvent => x.hasEvent)
  BY DEF ToolOnly
<1> QED BY <1>h, <1>1, <1>2, <1>6, <1>7, <1>8, <1>9, <1>10, ExecMoves

LEMMA ToolSteps ==
  ASSUME AgentInv, NEW e \in Followed,
         \/ \E reply \in Replies : CallTool(e, reply)
         \/ RereadThread(e) \/ WriteDraft(e) \/ ToolFails(e)
  PROVE  AgentInv'
<1> DEFINE x == exec[e]
<1>0. x \in Exec
  BY ExecHas
<1>1. /\ \/ x.tool = "idle" /\ At(e, "CREATE_DRAFT", "working")
         \/ x.tool \in {"rereading", "writing"}
      /\ UNCHANGED <<calendarVars, steps, analyses, reviews, user>>
      /\ drafted' \in {drafted, drafted \cup {e}}
  BY DEF CallTool, RereadThread, WriteDraft, ToolFails, tables
<1>2. \/ \E tool \in {"rereading", "writing", "threw"} :
           /\ Becomes(e, [x EXCEPT !.tool = tool])
           /\ drafted' # drafted => tool = "threw"
      \/ \E outcome \in {"completed"} \cup ReviewReasons :
           /\ Becomes(e, Returned(x, outcome))
           /\ drafted' # drafted => outcome = "completed"
  <2>1. CASE \E reply \in Replies : CallTool(e, reply)
    <3>1. PICK reply \in Replies : CallTool(e, reply)
      BY <2>1
    <3> DEFINE d == GuardPolicy(x.analysis, x.reply, x.replySettings,
                                ReplySettingsOf(settings), reply)
    <3>2. d \in {"ready"} \cup ReviewReasons
      BY PolicyAnswers
    <3>3. /\ Becomes(e, IF d = "ready" THEN [x EXCEPT !.tool = "rereading"] ELSE Returned(x, d))
          /\ drafted' = drafted
      BY <3>1 DEF CallTool, tables
    <3> HIDE DEF d
    <3>4. CASE d = "ready"
      BY <3>3, <3>4
    <3>5. CASE d # "ready"
      BY <3>2, <3>3, <3>5
    <3> QED BY <3>4, <3>5
  <2>2. CASE RereadThread(e)
    <3>1. drafted' = drafted
      BY <2>2 DEF RereadThread, tables
    <3>2. CASE target = "latest"
      BY <2>2, <3>1, <3>2 DEF RereadThread
    <3>3. CASE target # "latest"
      BY <2>2, <3>1, <3>3, NoReason DEF RereadThread
    <3> QED BY <3>2, <3>3
  <2>3. CASE WriteDraft(e)
    BY <2>3 DEF WriteDraft
  <2>4. CASE ToolFails(e)
    BY <2>4 DEF ToolFails, tables
  <2> QED BY <2>1, <2>2, <2>3, <2>4
<1>3. ASSUME NEW tool \in {"rereading", "writing", "threw"},
             Becomes(e, [x EXCEPT !.tool = tool]), drafted' # drafted => tool = "threw"
      PROVE  AgentInv'
  <2> DEFINE y == [x EXCEPT !.tool = tool]
  <2>0. tool \in Tool
    BY DEF Tool
  <2>1. ToolOnly(x, y) /\ y.tool = tool
    BY <1>0, <2>0, ToolFields
  <2>2. Becomes(e, y)
    BY <1>3
  <2> HIDE DEF y
  <2> QED BY <1>1, <1>3, <2>1, <2>2, ToolKeeps DEF Tool
<1>4. ASSUME NEW outcome \in {"completed"} \cup ReviewReasons, Becomes(e, Returned(x, outcome)),
             drafted' # drafted => outcome = "completed"
      PROVE  AgentInv'
  <2>1. /\ ToolOnly(x, Returned(x, outcome)) /\ Returned(x, outcome).tool = "returned"
        /\ Returned(x, outcome).outcome = outcome
    BY <1>0, ToolFields DEF Outcomes
  <2> QED BY <1>1, <1>4, <2>1, NoReason, ToolKeeps DEF Tool
<1> QED BY <1>2, <1>3, <1>4

LEMMA LoopAnswersKeeps ==
  ASSUME AgentInv, NEW e \in Followed, LoopAnswers(e)
  PROVE  AgentInv'
<1> DEFINE x == exec[e]
           y == [x EXCEPT !.hasDraft = TRUE, !.phase = "completing"]
<1>0. /\ x \in Exec /\ CourseOK(x, reviews[e])
      /\ WritesOK(x, cal[e].writing, e \in analyses, e \in drafted)
      /\ x.outcome \in Outcomes
  BY ExecHas DEF Exec, Outcomes
<1>1. /\ x.step = "CREATE_DRAFT" /\ x.phase = "working" /\ UNCHANGED <<calendarVars, tables, user>>
  BY DEF LoopAnswers, At
<1>2. CASE x.tool = "idle" /\ \E reason \in {"reply_llm_refusal", "reply_llm_invalid_output"} :
                                 Decided(e, reason)
  BY <1>1, <1>2, NoReason, DecidedKeeps DEF Writes
<1>3. CASE x.tool = "returned" /\ x.outcome = "completed" /\ Becomes(e, y)
  <2>1. /\ y \in Exec /\ y.phase = "completing" /\ y.error = x.error
        /\ y.step = x.step /\ y.review = x.review /\ y.analysis = x.analysis
        /\ y.hasEvent = x.hasEvent /\ y.tool = x.tool
        /\ y.outcome = x.outcome /\ y.reply = x.reply /\ y.calendar = x.calendar
    <3>1. [x EXCEPT !.hasDraft = TRUE] \in Exec
      BY <1>0, ExecFields
    <3>2. y \in Exec
      BY <3>1, ExecFields, PhaseOf
    <3> QED BY <1>0, <3>2 DEF Exec
  <2> HIDE DEF y
  <2>2. CourseOK(y, reviews[e])
    BY <1>0, <1>1, <2>1 DEF CourseOK, Writes
  <2>3. WritesOK(y, cal[e].writing, e \in analyses, e \in drafted)
    BY <1>0, <1>1, <2>1 DEF WritesOK, Writes, Policies
  <2>4. y.hasEvent => x.hasEvent
    BY <2>1
  <2> QED BY <1>1, <1>3, <2>1, <2>2, <2>3, <2>4, DoneKeeps
<1>4. CASE x.tool = "returned" /\ x.outcome # "completed" /\ Decided(e, x.outcome)
  <2>1. x.outcome \in ReviewReasons
    BY <1>0, <1>4 DEF Outcomes, WritesOK
  <2> QED BY <1>1, <1>4, <2>1, DecidedKeeps DEF Writes
<1> QED BY <1>2, <1>3, <1>4 DEF LoopAnswers

LEMMA CallFailsKeeps ==
  ASSUME AgentInv, NEW e \in Followed, LoopFails(e) \/ CallFails(e)
  PROVE  AgentInv'
BY FailKeeps DEF LoopFails, CallFails, At

-----------------------------------------------------------------------------
(* The calendar and the user move: the records do not.                     *)

LEMMA SurroundingsKeep ==
  ASSUME AgentInv, CalendarInv', Onward, TablesOK', UNCHANGED <<exec, tables>>,
         \A f \in Followed : cal'[f].writing = cal[f].writing
  PROVE  AgentInv'
<1>1. ASSUME NEW f \in Followed PROVE ExecOK(f)'
  <2>1. ExecOK(f)
    BY DEF AgentInv
  <2>2. /\ exec' = exec /\ steps' = steps /\ reviews' = reviews /\ analyses' = analyses
        /\ drafted' = drafted /\ cal'[f].writing = cal[f].writing
    BY DEF tables
  <2> QED BY <2>1, <2>2 DEF ExecOK, Onward
<1>2. TypeOK'
  BY DEF AgentInv, CalendarInv, TypeOK, TablesOK, Trace
<1> QED BY <1>1, <1>2 DEF AgentInv

LEMMA CalendarKeeps ==
  ASSUME AgentInv, UNCHANGED <<exec, tables, user>>,
         \/ \E e \in Followed : CalendarStep(e)
         \/ \E e \in Executions \ Followed : Unknown(e)
         \/ Outside
  PROVE  AgentInv'
<1>0. CalendarInv /\ Followed \subseteq Executions
  BY AgentAssumption DEF AgentInv
<1>1. CalendarInv' /\ Onward /\ \A f \in Followed : cal'[f].writing = cal[f].writing
  <2>1. ASSUME NEW e \in Followed, CalendarStep(e)
        PROVE  CalendarInv' /\ Onward /\ \A f \in Followed : cal'[f].writing = cal[f].writing
    <3>1. CallEffect(e)
      BY <1>0, <2>1, CalendarStepEffect
    <3> QED BY <1>0, <3>1 DEF CallEffect
  <2>2. ASSUME NEW e \in Executions \ Followed, Unknown(e)
        PROVE  CalendarInv' /\ Onward /\ \A f \in Followed : cal'[f].writing = cal[f].writing
    <3>1. CalendarInv' /\ Onward /\ \A f \in Executions : f # e => cal'[f] = cal[f]
      BY <1>0, <2>2, UnknownEffect
    <3> QED BY <1>0, <3>1
  <2>3. CASE Outside
    BY <1>0, <2>3, OutsideEffect
  <2> QED BY <2>1, <2>2, <2>3
<1>2. TablesOK'
  BY TypeParts DEF AgentInv, TablesOK, tables, user
<1> QED BY <1>1, <1>2, SurroundingsKeep

LEMMA UserKeeps ==
  ASSUME AgentInv, NewMail \/ ChangeSettings \/ UNCHANGED vars
  PROVE  AgentInv'
<1>1. UNCHANGED <<calendarVars, exec, tables>>
  BY DEF NewMail, ChangeSettings, vars
<1>2. CalendarInv' /\ Onward
  BY <1>1 DEF AgentInv, CalendarInv, CalendarTypeOK, RecordedEventIsReal, CallOK, Onward, calendarVars
<1>3. /\ settings' \in SettingsRows \cup {None} /\ changes' \in 0..MaxChanges
      /\ target' \in {"latest", "superseded", "unsafe"}
  BY TypeParts, AgentAssumption DEF AgentInv, TablesOK, NewMail, ChangeSettings, vars, user
<1>4. TablesOK'
  BY <1>1, <1>3, TypeParts DEF AgentInv, TablesOK, tables
<1>5. \A f \in Followed : cal'[f].writing = cal[f].writing
  BY <1>1 DEF calendarVars
<1> QED BY <1>1, <1>2, <1>4, <1>5, SurroundingsKeep

LEMMA AgentInitially == Init => AgentInv
<1> SUFFICES ASSUME Init PROVE AgentInv
  OBVIOUS
<1>1. CalendarInv
  BY CalendarInitially DEF Init
<1>2. /\ NoExec \in Exec /\ NoExec.phase = "idle" /\ NoExec.step = "FETCH_EMAIL_THREAD"
      /\ NoExec.review = None /\ NoExec.analysis = None /\ ~NoExec.hasEvent /\ ~NoExec.hasDraft
      /\ NoExec.tool = "idle" /\ NoExec.error = "none"
  BY PhaseOf DEF NoExec, Exec, StepName, Decision
<1>3. TypeOK
  BY <1>1, <1>2, AgentAssumption DEF Init, TypeOK, CalendarInv
<1>4. ASSUME NEW e \in Followed PROVE ExecOK(e)
  <2>1. /\ exec[e] = NoExec /\ \A s \in StepName : steps[e][s] = "none"
        /\ reviews[e] = None /\ e \notin drafted /\ e \in Executions
    BY AgentAssumption DEF Init
  <2>2. cal[e].writing = FALSE
    BY <2>1 DEF Init, CalendarInit, NoCal
  <2>3. TraceOK(exec[e], steps[e])
    BY <1>2, <2>1 DEF TraceOK
  <2>4. CourseOK(exec[e], reviews[e])
    BY <1>2, <2>1 DEF CourseOK, Policies, Writes
  <2>5. WritesOK(exec[e], cal[e].writing, e \in analyses, e \in drafted)
    BY <1>2, <2>1, <2>2 DEF WritesOK, Policies, Writes
  <2> QED BY <1>2, <2>1, <2>3, <2>4, <2>5 DEF ExecOK
<1> QED BY <1>1, <1>3, <1>4 DEF AgentInv

LEMMA AgentSteps == AgentInv /\ [Next]_vars => AgentInv'
<1> SUFFICES ASSUME AgentInv, [Next]_vars PROVE AgentInv'
  OBVIOUS
<1>1. ASSUME NEW e \in Followed, AgentStep(e) PROVE AgentInv'
  <2>1. CASE \E j \in Jobs : Begin(e, j)
    BY <2>1, BeginKeeps
  <2>2. CASE StartStep(e) \/ CompleteStep(e) \/ FailStep(e)
    BY <2>2, StartStepKeeps, CompleteStepKeeps, FailStepKeeps
  <2>3. CASE Fetch(e) \/ Analyze(e) \/ SaveAnalysis(e) \/ SaveReview(e)
    BY <2>3, FetchKeeps, AnalyzeKeeps, SaveAnalysisKeeps, SaveReviewKeeps
  <2>4. CASE CheckReply(e) \/ CheckCalendar(e) \/ Revalidate(e) \/ Looked(e) \/ Complete(e)
    BY <2>4, CheckReplyKeeps, CheckCalendarKeeps, RevalidateKeeps, LookedKeeps, CompleteKeeps
  <2>5. CASE \/ \E reply \in Replies : CallTool(e, reply)
             \/ RereadThread(e) \/ WriteDraft(e) \/ ToolFails(e)
    BY <2>5, ToolSteps
  <2>6. CASE LoopAnswers(e) \/ LoopFails(e) \/ CallFails(e)
    BY <2>6, LoopAnswersKeeps, CallFailsKeeps
  <2> QED BY <1>1, <2>1, <2>2, <2>3, <2>4, <2>5, <2>6 DEF AgentStep
<1>2. CASE /\ \/ \E e \in Followed : CalendarStep(e)
              \/ \E e \in Executions \ Followed : Unknown(e)
              \/ Outside
           /\ UNCHANGED <<exec, tables, user>>
  BY <1>2, CalendarKeeps
<1>3. CASE NewMail \/ ChangeSettings \/ UNCHANGED vars
  BY <1>3, UserKeeps
<1> QED BY <1>1, <1>2, <1>3 DEF Next

LEMMA AgentAlways == Spec => []AgentInv
BY AgentInitially, AgentSteps, PTL DEF Spec

-----------------------------------------------------------------------------
(* An execution's record and the rows it leaves have their types, for any  *)
(* number of executions, Jobs, analyses and rows of settings.              *)
THEOREM AgentTypes == Spec => []TypeOK
<1>1. AgentInv => TypeOK
  BY DEF AgentInv
<1> QED BY <1>1, AgentAlways, PTL

(* A calendar event that is recorded, or that an execution reports, is in  *)
(* Calendar and is ours, and was reserved before it was created: however   *)
(* many executions and Jobs are about the e-mail, and whichever answers    *)
(* are lost or late.                                                       *)
THEOREM EventsAreReal == Spec => []RecordedEventIsReal
<1>1. AgentInv => RecordedEventIsReal
  BY DEF AgentInv, CalendarInv
<1> QED BY <1>1, AgentAlways, PTL

(* The trace of a run and its request for a review tell what the execution *)
(* answered or threw, and the runner accepts what it answered.             *)
THEOREM TraceIsTrue == Spec => []TraceTellsOutcome
<1>1. AgentInv => TraceTellsOutcome
  <2> SUFFICES ASSUME AgentInv, NEW e \in Followed
               PROVE  /\ \A s \in StepName :
                           /\ steps[e][s] = "pending" => s = exec[e].step
                           /\ steps[e][s] = "failed" => exec[e].phase = "threw"
                      /\ exec[e].phase = "answered" =>
                           /\ steps[e]["COMPLETE"] = "succeeded"
                           /\ exec[e].hasEvent => steps[e]["CREATE_CALENDAR_EVENT"] = "succeeded"
                           /\ exec[e].hasDraft => steps[e]["CREATE_DRAFT"] = "succeeded"
                           /\ reviews[e] = exec[e].review
                           /\ OutputAccepted(exec[e])
                      /\ exec[e].phase = "threw" /\ exec[e].error = "permanent" =>
                           steps[e][exec[e].step] = "failed"
    BY DEF TraceTellsOutcome
  <2>1. TraceOK(exec[e], steps[e]) /\ CourseOK(exec[e], reviews[e])
    BY ExecHas
  <2>2. ASSUME exec[e].phase = "answered"
        PROVE  OutputAccepted(exec[e])
    <3>1. exec[e].step = "COMPLETE"
      BY <2>1, <2>2 DEF TraceOK
    <3> QED BY <2>1, <3>1 DEF CourseOK, OutputAccepted, ResultOf
  <2> QED BY <2>1, <2>2 DEF TraceOK, CourseOK
<1> QED BY <1>1, AgentAlways, PTL

-----------------------------------------------------------------------------
(* What an execution knows: most steps only move it on. *)

Knowledge(x) ==
    <<x.job, x.seen, x.analysis, x.calendarSettings, x.replySettings, x.reply, x.calendar>>
ToolState(x) == <<x.tool, x.outcome>>
SameKnowledge(x, y) == Knowledge(y) = Knowledge(x) /\ ToolState(y) = ToolState(x)

LEMMA KnowledgeKept ==
  ASSUME NEW x \in Exec, NEW step, NEW phase, NEW review, NEW error, NEW v
  PROVE  /\ SameKnowledge(x, x)
         /\ SameKnowledge(x, [x EXCEPT !.phase = phase])
         /\ SameKnowledge(x, [x EXCEPT !.phase = phase, !.error = error])
         /\ SameKnowledge(x, [x EXCEPT !.review = review, !.phase = phase])
         /\ SameKnowledge(x, [x EXCEPT !.step = step, !.phase = phase])
         /\ SameKnowledge(x, [x EXCEPT !.hasEvent = v, !.phase = phase])
         /\ SameKnowledge(x, [x EXCEPT !.hasDraft = v, !.phase = phase])
<1> USE DEF SameKnowledge, Knowledge, ToolState, Exec
<1>1. SameKnowledge(x, x)
  OBVIOUS
<1>2. SameKnowledge(x, [x EXCEPT !.phase = phase])
  OBVIOUS
<1>3. SameKnowledge(x, [x EXCEPT !.phase = phase, !.error = error])
  OBVIOUS
<1>4. SameKnowledge(x, [x EXCEPT !.review = review, !.phase = phase])
  OBVIOUS
<1>5. SameKnowledge(x, [x EXCEPT !.step = step, !.phase = phase])
  OBVIOUS
<1>6. SameKnowledge(x, [x EXCEPT !.hasEvent = v, !.phase = phase])
  OBVIOUS
<1>7. SameKnowledge(x, [x EXCEPT !.hasDraft = v, !.phase = phase])
  OBVIOUS
<1> HIDE DEF SameKnowledge
<1> QED BY <1>1, <1>2, <1>3, <1>4, <1>5, <1>6, <1>7

(* What follows a completed step, and a saved analysis.                    *)
LEMMA AfterKnows ==
  ASSUME NEW x \in Exec
  PROVE  SameKnowledge(x, After(x))
<1>1. ASSUME NEW step PROVE SameKnowledge(x, StartOf(x, step))
  BY KnowledgeKept DEF StartOf
<1>2. ASSUME NEW reason PROVE SameKnowledge(x, Review(x, reason))
  BY KnowledgeKept DEF Review
<1>3. SameKnowledge(x, AfterCalendar(x)) /\ SameKnowledge(x, AfterChecks(x))
  BY <1>1, <1>2 DEF AfterCalendar, AfterChecks
<1>4. ASSUME NEW phase PROVE SameKnowledge(x, [x EXCEPT !.phase = phase])
  BY KnowledgeKept
<1>5. x.step \in StepName
  BY DEF Exec
<1> HIDE DEF SameKnowledge
<1> QED BY <1>1, <1>2, <1>3, <1>4, <1>5 DEF After, StepName

(* The record of e becomes x.                                              *)
LEMMA BecomesIt ==
  ASSUME AgentInv, NEW e \in Followed, NEW x, Becomes(e, x)
  PROVE  exec'[e] = x /\ \A f \in Followed : f # e => exec'[f] = exec[f]
BY DEF AgentInv, TypeOK, Becomes

-----------------------------------------------------------------------------
(* What the checks promise, and what the second ones add.                  *)

LEMMA NormalizeSettles ==
  ASSUME NEW a \in Analysis, ValidAnalysis(a)
  PROVE  LET b == Normalize(a)
         IN  /\ b \in Analysis /\ ValidAnalysis(b)
             /\ b.category = "scheduling_request" => b.needsReply
             /\ Normalize(b) = b
<1>1. Normalize(a) \in Analysis /\ ValidAnalysis(Normalize(a))
  BY NormalizeOK
<1>2. Normalize(a).category = "scheduling_request" => Normalize(a).needsReply
  BY DEF Normalize, Analysis
<1> QED BY <1>1, <1>2 DEF Normalize

LEMMA ReadyMeeting ==
  ASSUME NEW a \in Analysis, ValidAnalysis(a), NEW s \in CalendarSettings \cup {None},
         CalendarPolicy(a, s) = "ready"
  PROVE  /\ WholeMeeting(a)
         /\ s # None /\ a.confidence >= s.threshold
         /\ CalendarRecheck(a, s) = "ready"
<1>1. /\ s # None /\ s.createCalendarEvents /\ s.validZone /\ ~(a.confidence < s.threshold)
      /\ a.isConfirmed /\ a.companyName /\ a.endAt # 0 /\ a.urlType = "web_meeting"
      /\ a.timezone # "invalid"
  BY DEF CalendarPolicy
<1>2. /\ a.confidence \in Nat /\ s.threshold \in Nat /\ a.startAt \in Nat /\ a.endAt \in Nat
      /\ a.url \in BOOLEAN /\ a.timezone \in {"null", "valid", "invalid"}
  BY <1>1 DEF Analysis, CalendarSettings
<1>3. a.startAt # 0 /\ a.url /\ a.endAt > a.startAt /\ a.timezone # "null"
  BY <1>1, <1>2 DEF ValidAnalysis
<1> QED BY <1>1, <1>2, <1>3 DEF WholeMeeting, CalendarRecheck

LEMMA CheckedReply ==
  ASSUME NEW a \in Analysis, NEW s, NEW latest \in BOOLEAN, NEW safe \in BOOLEAN,
         NEW kind \in DraftKinds, ReplyPolicy(a, s, latest, safe) = kind
  PROVE  /\ latest /\ safe
         /\ a.needsReply \/ a.category = "scheduling_request"
         /\ ReplyPolicy(a, s, latest, TRUE) = kind
BY DEF ReplyPolicy, DraftKinds

(* The guard finds the same in the same settings.                          *)
LEMMA GuardAgrees ==
  ASSUME NEW a, NEW s, NEW latest, NEW kind \in DraftKinds, NEW reply,
         ReplyPolicy(a, s, latest, TRUE) = kind
  PROVE  GuardPolicy(a, kind, s, s, reply) \notin
           {"reply_settings_missing", "reply_analysis_low_confidence"}
<1>1. /\ s # None /\ s.createDrafts /\ s.identity # 0
      /\ ~(a.confidence < s.threshold)
  BY DEF ReplyPolicy, DraftKinds
<1> QED BY <1>1 DEF GuardPolicy

-----------------------------------------------------------------------------
(* What an execution goes by.  *)

EarlySteps == {"FETCH_EMAIL_THREAD", "ANALYZE_EMAIL"}

(* Its decisions are what the checks say of what it has read.              *)
DecisionsOK(x) ==
    /\ x.calendar = "ready" \/ (x.step = "CHECK_CALENDAR_POLICY" /\ x.phase = "looking") =>
         x.analysis # None /\ CalendarPolicy(x.analysis, x.calendarSettings) = "ready"
    /\ x.reply \in DraftKinds =>
         x.analysis # None /\ ReplyPolicy(x.analysis, x.replySettings, x.seen, TRUE) = x.reply

(* How far it has come; writing: its call of Calendar writes.              *)
StageOK(x, writing) ==
    /\ x.phase # "idle" => x.job \in Jobs
    /\ x.step = "FETCH_EMAIL_THREAD" => x.analysis = None
    /\ x.step \in EarlySteps => x.reply = "not_applicable" /\ x.calendar = "not_applicable"
    /\ x.analysis # None => Grounded(x.analysis)
    /\ x.analysis # None => x.analysis.category # "scheduling_request" \/ x.analysis.needsReply
    /\ x.step = "CREATE_CALENDAR_EVENT" \/ writing => x.calendar = "ready"
    /\ x.step = "CREATE_DRAFT" \/ x.tool # "idle" => x.reply \in DraftKinds

Changed == "calendar_policy_changed"
ChangedReply == {"reply_settings_missing", "reply_analysis_low_confidence"}

(* What it has read is still so if nobody has changed it.                  *)
FreshOK(x) ==
    /\ changes = 0 /\ x.analysis # None => x.calendarSettings = CalendarSettingsOf(settings)
    /\ changes = 0 /\ x.reply \in DraftKinds => x.replySettings = ReplySettingsOf(settings)
    /\ x.reply \in DraftKinds => target # "unsafe"
    /\ Changed \notin {x.calendar, x.reply, x.outcome}
    /\ changes = 0 => x.review # Changed
    /\ changes = 0 => x.outcome \notin ChangedReply
    /\ x.outcome = "reply_target_stale" => target = "superseded"

Goes(x, writing) == DecisionsOK(x) /\ StageOK(x, writing) /\ FreshOK(x)
GoesInv == \A e \in Followed : Goes(exec[e], cal[e].writing)
CallsKnown == \A e \in Executions : cal[e].pc # "idle" => cal[e].job \in Jobs
KnowInv == AgentInv /\ GoesInv /\ CallsKnown

(* Where an execution may go from x.                                       *)
Course(x, y) ==
    /\ \/ y.step = x.step
       \/ y.step = "ANALYZE_EMAIL" /\ x.step = "FETCH_EMAIL_THREAD"
       \/ y.step \notin EarlySteps
    /\ y.step = "CREATE_CALENDAR_EVENT" => y.step = x.step \/ x.calendar = "ready"
    /\ y.step = "CREATE_DRAFT" => y.step = x.step \/ x.reply \in DraftKinds
    /\ y.step = "CHECK_CALENDAR_POLICY" /\ y.phase = "looking" =>
         x.calendar = "ready" \/ (x.step = y.step /\ x.phase = "looking")
    /\ changes = 0 => y.review \in {x.review, x.calendar, x.reply} \/ y.review # Changed

LEMMA GoesOn ==
  ASSUME NEW x \in Exec, NEW y, NEW w, Goes(x, w), SameKnowledge(x, y),
         x.phase # "idle", Course(x, y)
  PROVE  Goes(y, w)
<1> USE DEF Course
<1>1. /\ y.job = x.job /\ y.seen = x.seen /\ y.analysis = x.analysis
      /\ y.calendarSettings = x.calendarSettings /\ y.replySettings = x.replySettings
      /\ y.reply = x.reply /\ y.calendar = x.calendar /\ y.tool = x.tool /\ y.outcome = x.outcome
  BY DEF SameKnowledge, Knowledge, ToolState
<1>2. DecisionsOK(y)
  BY <1>1 DEF Goes, DecisionsOK
<1>3. StageOK(y, w)
  BY <1>1 DEF Goes, StageOK, EarlySteps
<1>4. FreshOK(y)
  BY <1>1 DEF Goes, FreshOK
<1> QED BY <1>2, <1>3, <1>4 DEF Goes

(* A step of e that changes nothing the others go by.                      *)
LEMMA GoesMoves ==
  ASSUME AgentInv, GoesInv, NEW e \in Followed,
         \A f \in Followed : f # e => exec'[f] = exec[f] /\ cal'[f].writing = cal[f].writing,
         UNCHANGED user, Goes(exec'[e], cal'[e].writing)
  PROVE  GoesInv'
<1>1. settings' = settings /\ changes' = changes /\ target' = target
  BY DEF user
<1>2. ASSUME NEW f \in Followed PROVE Goes(exec'[f], cal'[f].writing)
  BY <1>2 DEF GoesInv
<1>3. ASSUME NEW x, NEW w, Goes(x, w)
      PROVE  DecisionsOK(x) /\ StageOK(x, w) /\ FreshOK(x)'
  BY <1>1, <1>3 DEF Goes, FreshOK
<1> QED BY <1>1, <1>2, <1>3 DEF GoesInv, Goes, DecisionsOK, StageOK, FreshOK

LEMMA CourseKept ==
  ASSUME NEW x \in Exec, NEW phase \in Phase \ {"looking"}, NEW error, NEW v
  PROVE  /\ Course(x, [x EXCEPT !.phase = phase])
         /\ Course(x, [x EXCEPT !.phase = phase, !.error = error])
         /\ Course(x, [x EXCEPT !.hasDraft = v, !.phase = phase])
         /\ Course(x, [x EXCEPT !.hasEvent = v, !.phase = phase])
         /\ v # Changed \/ v \in {x.review, x.calendar, x.reply} \/ changes # 0 =>
              Course(x, [x EXCEPT !.review = v, !.phase = phase])
<1> USE DEF Course, Exec
<1>1. Course(x, [x EXCEPT !.phase = phase])
  OBVIOUS
<1>2. Course(x, [x EXCEPT !.phase = phase, !.error = error])
  OBVIOUS
<1>3. Course(x, [x EXCEPT !.hasDraft = v, !.phase = phase])
  OBVIOUS
<1>4. Course(x, [x EXCEPT !.hasEvent = v, !.phase = phase])
  OBVIOUS
<1>5. v # Changed \/ v \in {x.review, x.calendar, x.reply} \/ changes # 0 =>
        Course(x, [x EXCEPT !.review = v, !.phase = phase])
  OBVIOUS
<1> HIDE DEF Course
<1> QED BY <1>1, <1>2, <1>3, <1>4, <1>5

LEMMA CourseStarts ==
  ASSUME NEW x \in Exec, NEW step \in StepName,
         step \in EarlySteps => step = "ANALYZE_EMAIL" /\ x.step = "FETCH_EMAIL_THREAD",
         step = "CREATE_CALENDAR_EVENT" => x.calendar = "ready",
         step = "CREATE_DRAFT" => x.reply \in DraftKinds
  PROVE  Course(x, StartOf(x, step))
<1>1. /\ StartOf(x, step).step = step /\ StartOf(x, step).phase = "starting"
      /\ StartOf(x, step).review = x.review
  BY DEF StartOf, Exec
<1> QED BY <1>1 DEF Course

LEMMA CourseAfter ==
  ASSUME NEW x \in Exec
  PROVE  Course(x, After(x))
<1>1. ASSUME NEW r \in {x.review, x.calendar, x.reply} PROVE Course(x, Review(x, r))
  BY CourseKept, PhaseOf DEF Review
<1>2. Course(x, AfterCalendar(x))
  BY CourseStarts DEF AfterCalendar, StepName, EarlySteps
<1>3. CASE x.step = "COMPLETE" \/ (x.step = "ANALYZE_EMAIL" /\ x.review = None)
  BY <1>3, CourseKept, PhaseOf DEF After
<1>4. CASE x.step # "COMPLETE" /\ x.review # None
  BY <1>1, <1>4 DEF After
<1>5. CASE x.review = None /\ x.step = "CHECK_CALENDAR_POLICY"
  <2>1. After(x) = AfterChecks(x)
    BY <1>5 DEF After
  <2>2. CASE x.calendar \in ReviewReasons \/ x.reply \in ReviewReasons
    BY <1>1, <2>1, <2>2 DEF AfterChecks
  <2>3. CASE x.calendar \notin ReviewReasons /\ x.reply \notin ReviewReasons
    BY <1>2, <2>1, <2>3, CourseStarts DEF AfterChecks, StepName, EarlySteps
  <2> QED BY <2>2, <2>3
<1>6. CASE x.review = None /\ x.step \in {"FETCH_EMAIL_THREAD", "CHECK_REPLY_POLICY",
                                          "CREATE_CALENDAR_EVENT", "CREATE_DRAFT"}
  BY <1>2, <1>6, CourseStarts DEF After, StepName, EarlySteps
<1> QED BY <1>3, <1>4, <1>5, <1>6 DEF StepName, Exec

(* The steps that read nothing.                                            *)
LEMMA MovedOn ==
  ASSUME AgentInv, GoesInv, NEW e \in Followed, exec[e].phase # "idle",
         NEW x, Becomes(e, x), SameKnowledge(exec[e], x), Course(exec[e], x),
         UNCHANGED <<calendarVars, user>>
  PROVE  GoesInv'
<1>1. exec'[e] = x /\ \A f \in Followed : f # e => exec'[f] = exec[f]
  BY BecomesIt
<1>2. exec[e] \in Exec /\ Goes(exec[e], cal[e].writing)
  BY ExecHas DEF GoesInv
<1>3. Goes(x, cal[e].writing)
  BY <1>2, GoesOn
<1>4. cal' = cal
  BY DEF calendarVars
<1> QED BY <1>1, <1>3, <1>4, GoesMoves

LEMMA PlainGoes ==
  ASSUME AgentInv, GoesInv, NEW e \in Followed,
         \/ StartStep(e) \/ CompleteStep(e) \/ FailStep(e)
         \/ SaveAnalysis(e) \/ SaveReview(e) \/ Complete(e)
         \/ LoopAnswers(e) \/ LoopFails(e) \/ CallFails(e)
  PROVE  GoesInv'
<1> DEFINE x == exec[e]
<1>x. x \in Exec /\ Goes(x, cal[e].writing)
  BY ExecHas DEF GoesInv
<1>u. UNCHANGED <<calendarVars, user>>
  BY DEF StartStep, CompleteStep, FailStep, SaveAnalysis, SaveReview, Complete, LoopAnswers,
         LoopFails, CallFails
<1>1. ASSUME x.phase # "idle", GoTo(e, "working") \/ GoTo(e, "completing") PROVE GoesInv'
  BY <1>1, <1>x, <1>u, MovedOn, KnowledgeKept, CourseKept, PhaseOf DEF GoTo
<1>2. ASSUME x.phase # "idle", NEW error, Fail(e, error) \/ Throw(e, error) PROVE GoesInv'
  BY <1>2, <1>x, <1>u, MovedOn, KnowledgeKept, CourseKept, PhaseOf DEF Fail, Throw
<1>3. ASSUME x.phase # "idle", NEW reason, Decided(e, reason), reason # Changed PROVE GoesInv'
  BY <1>3, <1>x, <1>u, MovedOn, KnowledgeKept, CourseKept, PhaseOf DEF Decided
<1>4. ASSUME x.phase # "idle", NEW step \in StepName \ (EarlySteps \cup Writes),
             Becomes(e, StartOf(x, step))
      PROVE  GoesInv'
  <2>1. SameKnowledge(x, StartOf(x, step))
    BY <1>x, KnowledgeKept DEF StartOf
  <2>2. Course(x, StartOf(x, step))
    BY <1>x, <1>4, CourseStarts DEF Writes
  <2> QED BY <1>4, <1>u, <2>1, <2>2, MovedOn
<1> HIDE DEF x
<1>5. CASE StartStep(e)
  BY <1>1, <1>2, <1>5 DEF StartStep, x
<1>6. CASE CompleteStep(e)
  <2>1. ASSUME Becomes(e, After(x)) PROVE GoesInv'
    BY <1>x, <1>6, <1>u, <2>1, MovedOn, AfterKnows, CourseAfter DEF CompleteStep, x
  <2> QED BY <1>2, <1>6, <2>1 DEF CompleteStep, x
<1>7. CASE FailStep(e)
  BY <1>2, <1>7 DEF FailStep, x
<1>8. CASE SaveAnalysis(e) \/ SaveReview(e)
  BY <1>2, <1>4, <1>8 DEF SaveAnalysis, SaveReview, x, StepName, EarlySteps, Writes
<1>9. CASE Complete(e)
  BY <1>1, <1>9 DEF Complete, At, x
<1>10. CASE LoopAnswers(e)
  <2>1. ASSUME Becomes(e, [x EXCEPT !.hasDraft = TRUE, !.phase = "completing"]) PROVE GoesInv'
    BY <1>x, <1>10, <1>u, <2>1, MovedOn, KnowledgeKept, CourseKept, PhaseOf
       DEF LoopAnswers, At, x
  <2>2. Changed \notin {x.outcome, "reply_llm_refusal", "reply_llm_invalid_output"}
    BY <1>x DEF Goes, FreshOK, Changed
  <2> QED BY <1>3, <1>10, <2>1, <2>2 DEF LoopAnswers, At, x
<1>11. CASE LoopFails(e) \/ CallFails(e)
  BY <1>2, <1>11 DEF LoopFails, CallFails, At, x
<1> QED BY <1>5, <1>6, <1>7, <1>8, <1>9, <1>10, <1>11

-----------------------------------------------------------------------------
(* The steps that read or decide something.                                *)

LEMMA DecidesMoves ==
  ASSUME AgentInv, GoesInv, NEW e \in Followed, NEW x, Becomes(e, x),
         UNCHANGED <<calendarVars, user>>, Goes(x, cal[e].writing)
  PROVE  GoesInv'
<1>1. exec'[e] = x /\ \A f \in Followed : f # e => exec'[f] = exec[f]
  BY BecomesIt
<1>2. cal' = cal
  BY DEF calendarVars
<1> QED BY <1>1, <1>2, GoesMoves

LEMMA BeginGoes ==
  ASSUME AgentInv, GoesInv, NEW e \in Followed, NEW j \in Jobs, Begin(e, j)
  PROVE  GoesInv'
<1> DEFINE y == [NoExec EXCEPT !.job = j, !.phase = "starting"]
<1>1. /\ y.job = j /\ y.step = "FETCH_EMAIL_THREAD" /\ y.phase = "starting"
      /\ y.review = None /\ y.analysis = None /\ y.outcome = None /\ y.tool = "idle"
      /\ y.reply = "not_applicable" /\ y.calendar = "not_applicable"
  BY DEF NoExec
<1>2. ~cal[e].writing
  <2>1. exec[e].phase = "idle" /\ cal[e].writing \in BOOLEAN
    BY AgreesHas DEF Begin
  <2> QED BY <2>1, ExecHas DEF WritesOK
<1>3. Becomes(e, y) /\ UNCHANGED <<calendarVars, user>>
  BY DEF Begin
<1> HIDE DEF y
<1>4. DecisionsOK(y) /\ StageOK(y, cal[e].writing)
  BY <1>1, <1>2 DEF DecisionsOK, StageOK, DraftKinds, EarlySteps
<1>5. FreshOK(y)
  BY <1>1, NoReason DEF FreshOK, DraftKinds, Changed, ChangedReply, ReviewReasons,
     ReplyReasons, CalendarReasons
<1> QED BY <1>3, <1>4, <1>5, DecidesMoves DEF Goes

LEMMA FetchGoes ==
  ASSUME AgentInv, GoesInv, NEW e \in Followed, Fetch(e)
  PROVE  GoesInv'
<1> DEFINE x == exec[e]
           y == [x EXCEPT !.seen = target # "superseded", !.phase = "completing"]
<1>x. x \in Exec /\ Goes(x, cal[e].writing)
  BY ExecHas DEF GoesInv
<1>u. UNCHANGED <<calendarVars, user>> /\ x.step = "FETCH_EMAIL_THREAD" /\ x.phase = "working"
  BY DEF Fetch, At
<1>1. CASE Becomes(e, y)
  <2>1. /\ y.job = x.job /\ y.step = x.step /\ y.phase = "completing" /\ y.review = x.review
        /\ y.analysis = x.analysis /\ y.outcome = x.outcome /\ y.tool = x.tool
        /\ y.reply = x.reply /\ y.calendar = x.calendar
    BY <1>x DEF Exec
  <2> HIDE DEF y
  <2>2. x.reply = "not_applicable" /\ x.calendar = "not_applicable" /\ x.analysis = None
    BY <1>x, <1>u DEF Goes, StageOK, EarlySteps
  <2>3. DecisionsOK(y) /\ StageOK(y, cal[e].writing)
    BY <1>x, <1>u, <2>1, <2>2 DEF Goes, DecisionsOK, StageOK, DraftKinds, EarlySteps
  <2>4. FreshOK(y)
    BY <1>x, <2>1, <2>2 DEF Goes, FreshOK, DraftKinds
  <2> QED BY <1>1, <1>u, <2>3, <2>4, DecidesMoves DEF Goes
<1>2. CASE Fail(e, "permanent")
  BY <1>2, <1>x, <1>u, MovedOn, KnowledgeKept, CourseKept, PhaseOf DEF Fail
<1> QED BY <1>1, <1>2 DEF Fetch

(* What has been read, and what an accepted analysis is like.              *)
LEMMA AnalyzedGoes ==
  ASSUME AgentInv, GoesInv, NEW e \in Followed, At(e, "ANALYZE_EMAIL", "working"),
         NEW review, review # Changed, NEW a,
         a # None => Grounded(a) /\ (a.category # "scheduling_request" \/ a.needsReply),
         Analyzed(e, review, a), UNCHANGED <<calendarVars, user>>
  PROVE  GoesInv'
<1> DEFINE x == exec[e]
           s == CalendarSettingsOf(settings)
           y == [x EXCEPT !.calendarSettings = s, !.review = review, !.analysis = a,
                          !.phase = "completing"]
<1>x. x \in Exec /\ Goes(x, cal[e].writing) /\ x.step = "ANALYZE_EMAIL" /\ x.phase = "working"
  BY ExecHas DEF GoesInv, At
<1>1. /\ y.job = x.job /\ y.step = x.step /\ y.phase = "completing" /\ y.review = review
      /\ y.analysis = a /\ y.outcome = x.outcome /\ y.tool = x.tool /\ y.calendarSettings = s
      /\ y.reply = x.reply /\ y.calendar = x.calendar
  BY <1>x DEF Exec
<1>2. Becomes(e, y)
  BY DEF Analyzed
<1> HIDE DEF x, y, s
<1>3. x.reply = "not_applicable" /\ x.calendar = "not_applicable"
  BY <1>x DEF Goes, StageOK, EarlySteps
<1>4. DecisionsOK(y) /\ StageOK(y, cal[e].writing)
  BY <1>x, <1>1, <1>3 DEF Goes, DecisionsOK, StageOK, DraftKinds, EarlySteps
<1>5. FreshOK(y)
  BY <1>x, <1>1, <1>3 DEF Goes, FreshOK, DraftKinds, s
<1> QED BY <1>2, <1>4, <1>5, DecidesMoves DEF Goes

LEMMA AnalyzeGoes ==
  ASSUME AgentInv, GoesInv, NEW e \in Followed, Analyze(e)
  PROVE  GoesInv'
<1>u. UNCHANGED <<calendarVars, user>> /\ At(e, "ANALYZE_EMAIL", "working")
  BY DEF Analyze
<1>1. ASSUME NEW reason \in LlmReasons \cup {"analysis_not_grounded"}, Analyzed(e, reason, None)
      PROVE  GoesInv'
  BY <1>u, <1>1, AnalyzedGoes DEF LlmReasons, Changed
<1>2. ASSUME NEW a \in Analyses, ValidAnalysis(a), Grounded(Normalize(a)),
             Analyzed(e, None, Normalize(a))
      PROVE  GoesInv'
  <2>1. a \in Analysis
    BY AgentAssumption
  <2>2. Normalize(a).category = "scheduling_request" => Normalize(a).needsReply
    BY <1>2, <2>1, NormalizeSettles
  <2>3. None # Changed
    BY NoReason DEF Changed, ReviewReasons, CalendarReasons
  <2> QED BY <1>u, <1>2, <2>2, <2>3, AnalyzedGoes
<1> QED BY <1>1, <1>2 DEF Analyze, LlmReasons

LEMMA CheckReplyGoes ==
  ASSUME AgentInv, GoesInv, NEW e \in Followed, CheckReply(e)
  PROVE  GoesInv'
<1> DEFINE x == exec[e]
           s == ReplySettingsOf(settings)
           kind == ReplyPolicy(x.analysis, s, x.seen, target # "unsafe")
           y == [x EXCEPT !.reply = kind, !.replySettings = s, !.phase = "completing"]
<1>x. /\ x \in Exec /\ Goes(x, cal[e].writing) /\ x.step = "CHECK_REPLY_POLICY"
      /\ x.phase = "working" /\ UNCHANGED <<calendarVars, user>>
  BY ExecHas DEF GoesInv, CheckReply, At
<1>a. x.analysis # None /\ x.analysis \in Analysis /\ x.seen \in BOOLEAN /\ x.tool = "idle"
  BY <1>x, ExecHas DEF CourseOK, WritesOK, Policies, Exec
<1>1. /\ y.job = x.job /\ y.step = x.step /\ y.phase = "completing" /\ y.review = x.review
      /\ y.analysis = x.analysis /\ y.outcome = x.outcome /\ y.tool = x.tool /\ y.seen = x.seen
      /\ y.calendarSettings = x.calendarSettings /\ y.replySettings = s
      /\ y.reply = kind /\ y.calendar = x.calendar
  BY <1>x DEF Exec
<1>2. Becomes(e, y)
  BY DEF CheckReply
<1>3. kind \in DraftKinds =>
        /\ target # "unsafe"
        /\ ReplyPolicy(x.analysis, s, x.seen, TRUE) = kind
  BY <1>a, CheckedReply
<1>4. kind # Changed
  BY DEF ReplyPolicy, Changed
<1> HIDE DEF x, y, s, kind
<1>5. DecisionsOK(y) /\ StageOK(y, cal[e].writing)
  BY <1>x, <1>a, <1>1, <1>3 DEF Goes, DecisionsOK, StageOK, EarlySteps
<1>6. FreshOK(y)
  BY <1>x, <1>1, <1>3, <1>4 DEF Goes, FreshOK, s
<1> QED BY <1>x, <1>2, <1>5, <1>6, DecidesMoves DEF Goes

(* A look at the calendar.                                                 *)
LEMMA LookGoes ==
  ASSUME AgentInv, GoesInv, NEW e \in Followed, exec[e].phase = "working",
         NEW writing \in BOOLEAN, NEW y, Becomes(e, y), Look(e, exec[e].job, writing),
         UNCHANGED user, Goes(y, writing)
  PROVE  GoesInv'
<1>1. exec'[e] = y /\ \A f \in Followed : f # e => exec'[f] = exec[f]
  BY BecomesIt
<1>2. Followed \subseteq Executions /\ e \in Executions /\ exec[e].job \in Jobs \cup {None}
  BY AgentAssumption, ExecHas DEF Exec
<1>3. /\ cal'[e].writing = writing
      /\ \A f \in Executions : f # e => cal'[f] = cal[f]
  BY <1>2, LookEffect DEF AgentInv
<1> QED BY <1>1, <1>2, <1>3, GoesMoves

LEMMA WaitsFor ==
  ASSUME NEW x \in Exec
  PROVE  LET y == [x EXCEPT !.phase = "looking"]
         IN  /\ SameKnowledge(x, y) /\ y.step = x.step /\ y.review = x.review
             /\ y.phase = "looking" /\ y.job = x.job /\ y.analysis = x.analysis
             /\ y.calendarSettings = x.calendarSettings /\ y.replySettings = x.replySettings
             /\ y.seen = x.seen /\ y.reply = x.reply /\ y.calendar = x.calendar
             /\ y.tool = x.tool /\ y.outcome = x.outcome
<1>1. SameKnowledge(x, [x EXCEPT !.phase = "looking"])
  BY KnowledgeKept
<1> QED BY <1>1 DEF Exec

LEMMA CheckCalendarGoes ==
  ASSUME AgentInv, GoesInv, NEW e \in Followed, CheckCalendar(e)
  PROVE  GoesInv'
<1> DEFINE x == exec[e]
           decision == CalendarPolicy(x.analysis, x.calendarSettings)
<1>x. /\ x \in Exec /\ Goes(x, cal[e].writing) /\ x.step = "CHECK_CALENDAR_POLICY"
      /\ x.phase = "working" /\ UNCHANGED user
  BY ExecHas DEF GoesInv, CheckCalendar, At
<1>a. x.analysis # None /\ x.tool = "idle" /\ ~cal[e].writing
  BY <1>x, ExecHas DEF CourseOK, WritesOK, Policies
<1>1. CASE decision = "ready"
  <2> DEFINE y == [x EXCEPT !.phase = "looking"]
  <2>1. Becomes(e, y) /\ Look(e, x.job, FALSE)
    BY <1>1 DEF CheckCalendar, GoTo
  <2>2. /\ y.step = x.step /\ y.review = x.review
        /\ y.phase = "looking" /\ y.job = x.job /\ y.analysis = x.analysis
        /\ y.calendarSettings = x.calendarSettings /\ y.replySettings = x.replySettings
        /\ y.seen = x.seen /\ y.reply = x.reply /\ y.calendar = x.calendar
        /\ y.tool = x.tool /\ y.outcome = x.outcome
    BY <1>x, WaitsFor
  <2> HIDE DEF y
  <2>3. DecisionsOK(y) /\ StageOK(y, FALSE) /\ FreshOK(y)
    BY <1>x, <1>a, <1>1, <2>2 DEF Goes, DecisionsOK, StageOK, FreshOK
  <2> QED BY <1>x, <2>1, <2>3, LookGoes DEF Goes
<1>2. CASE decision # "ready"
  <2> DEFINE y == [x EXCEPT !.calendar = decision, !.phase = "completing"]
  <2>1. Becomes(e, y) /\ UNCHANGED calendarVars
    BY <1>2 DEF CheckCalendar
  <2>2. /\ y.step = x.step /\ y.review = x.review
        /\ y.phase = "completing" /\ y.job = x.job /\ y.analysis = x.analysis
        /\ y.calendarSettings = x.calendarSettings /\ y.replySettings = x.replySettings
        /\ y.seen = x.seen /\ y.reply = x.reply /\ y.calendar = decision
        /\ y.tool = x.tool /\ y.outcome = x.outcome
    BY <1>x DEF Exec
  <2>3. decision # Changed
    BY DEF CalendarPolicy, Changed
  <2> HIDE DEF y, decision
  <2>4. DecisionsOK(y) /\ StageOK(y, cal[e].writing) /\ FreshOK(y)
    BY <1>x, <1>a, <1>2, <2>2, <2>3 DEF Goes, DecisionsOK, StageOK, FreshOK, EarlySteps
  <2> QED BY <1>x, <2>1, <2>4, DecidesMoves DEF Goes
<1> QED BY <1>1, <1>2

(* An analysis that was ready for the settings of then is ready for those  *)
(* of now, unless they have been changed.                                  *)
LEMMA RevalidateGoes ==
  ASSUME AgentInv, GoesInv, NEW e \in Followed, Revalidate(e)
  PROVE  GoesInv'
<1> DEFINE x == exec[e]
           decision == CalendarRecheck(x.analysis, CalendarSettingsOf(settings))
<1>x. /\ x \in Exec /\ Goes(x, cal[e].writing) /\ x.step = "CREATE_CALENDAR_EVENT"
      /\ x.phase = "working" /\ UNCHANGED user
  BY ExecHas DEF GoesInv, Revalidate, At
<1>1. CASE decision = "ready"
  <2> DEFINE y == [x EXCEPT !.phase = "looking"]
  <2>1. Becomes(e, y) /\ Look(e, x.job, TRUE)
    BY <1>1 DEF Revalidate, GoTo
  <2>2. /\ y.step = x.step /\ y.review = x.review
        /\ y.phase = "looking" /\ y.job = x.job /\ y.analysis = x.analysis
        /\ y.calendarSettings = x.calendarSettings /\ y.replySettings = x.replySettings
        /\ y.seen = x.seen /\ y.reply = x.reply /\ y.calendar = x.calendar
        /\ y.tool = x.tool /\ y.outcome = x.outcome
    BY <1>x, WaitsFor
  <2> HIDE DEF y
  <2>3. DecisionsOK(y) /\ StageOK(y, TRUE) /\ FreshOK(y)
    BY <1>x, <2>2 DEF Goes, DecisionsOK, StageOK, FreshOK
  <2> QED BY <1>x, <2>1, <2>3, LookGoes DEF Goes
<1>2. CASE decision # "ready"
  <2>1. Decided(e, decision) /\ UNCHANGED calendarVars
    BY <1>2 DEF Revalidate
  <2>2. ASSUME changes = 0 PROVE FALSE
    <3>1. /\ x.analysis # None /\ CalendarPolicy(x.analysis, x.calendarSettings) = "ready"
          /\ x.calendarSettings = CalendarSettingsOf(settings)
      BY <1>x, <2>2 DEF Goes, StageOK, DecisionsOK, FreshOK
    <3>2. /\ x.analysis \in Analysis /\ ValidAnalysis(x.analysis)
          /\ x.calendarSettings \in CalendarSettings \cup {None}
      BY <1>x, <3>1, ExecHas DEF CourseOK, Exec
    <3> QED BY <1>2, <3>1, <3>2, ReadyMeeting
  <2>3. LET y == [x EXCEPT !.review = decision, !.phase = "completing"]
        IN  SameKnowledge(x, y) /\ Course(x, y)
    BY <1>x, <2>2, KnowledgeKept, CourseKept, PhaseOf
  <2> QED BY <1>x, <2>1, <2>3, MovedOn DEF Decided
<1> QED BY <1>1, <1>2

LEMMA LookedGoes ==
  ASSUME AgentInv, GoesInv, NEW e \in Followed, Looked(e)
  PROVE  GoesInv'
<1> DEFINE x == exec[e]
           r == cal[e].result
<1>x. /\ x \in Exec /\ Goes(x, cal[e].writing) /\ x.phase = "looking"
      /\ UNCHANGED <<calendarVars, user>>
  BY ExecHas DEF GoesInv, Looked
<1>r. /\ r \in {"none", "ready", "completed"} \cup LookReasons
      /\ r # "completed" \/ cal[e].writing
      /\ cal[e].pc = "returned" => r # "none"
  <2>1. e \in Executions
    BY AgentAssumption
  <2> QED BY <2>1 DEF AgentInv, CalendarInv, CalendarTypeOK, Cal, CallOK
<1>1. CASE Fail(e, "temporary") \/ Fail(e, "permanent")
  BY <1>1, <1>x, MovedOn, KnowledgeKept, CourseKept, PhaseOf DEF Fail
<1>2. CASE Becomes(e, [x EXCEPT !.hasEvent = TRUE, !.phase = "completing"])
  BY <1>2, <1>x, MovedOn, KnowledgeKept, CourseKept, PhaseOf
<1>3. CASE Decided(e, r)
  BY <1>3, <1>x, <1>r, MovedOn, KnowledgeKept, CourseKept, PhaseOf
     DEF Decided, Changed, LookReasons
<1>4. CASE /\ CalAt(e, "returned") /\ At(e, "CHECK_CALENDAR_POLICY", "looking")
           /\ Becomes(e, [x EXCEPT !.calendar = r, !.phase = "completing"])
  <2> DEFINE y == [x EXCEPT !.calendar = r, !.phase = "completing"]
  <2>0. x.step = "CHECK_CALENDAR_POLICY" /\ cal[e].pc = "returned"
    BY <1>4 DEF At, CalAt
  <2>1. x.tool = "idle" /\ ~cal[e].writing
    BY <1>x, <2>0, ExecHas DEF WritesOK, Policies
  <2>2. /\ y.step = x.step /\ y.review = x.review
        /\ y.phase = "completing" /\ y.job = x.job /\ y.analysis = x.analysis
        /\ y.calendarSettings = x.calendarSettings /\ y.replySettings = x.replySettings
        /\ y.seen = x.seen /\ y.reply = x.reply /\ y.calendar = r
        /\ y.tool = x.tool /\ y.outcome = x.outcome
    BY <1>x DEF Exec
  <2>3. r # Changed
    BY <1>r DEF LookReasons, Changed
  <2> HIDE DEF y
  <2>4. DecisionsOK(y) /\ StageOK(y, cal[e].writing) /\ FreshOK(y)
    BY <1>x, <2>0, <2>1, <2>2, <2>3 DEF Goes, DecisionsOK, StageOK, FreshOK, EarlySteps
  <2> QED BY <1>4, <1>x, <2>4, DecidesMoves DEF Goes, y
<1> QED BY <1>1, <1>2, <1>3, <1>4 DEF Looked

-----------------------------------------------------------------------------
(* The draft tool.                                                         *)

LEMMA ToolGoes ==
  ASSUME AgentInv, GoesInv, NEW e \in Followed,
         NEW tool, NEW outcome, Becomes(e, [exec[e] EXCEPT !.tool = tool, !.outcome = outcome]),
         UNCHANGED <<calendarVars, user>>,
         exec[e].reply \in DraftKinds,
         outcome # Changed, changes = 0 => outcome \notin ChangedReply,
         outcome = "reply_target_stale" => target = "superseded"
  PROVE  GoesInv'
<1> DEFINE x == exec[e]
           y == [x EXCEPT !.tool = tool, !.outcome = outcome]
<1>1. x \in Exec /\ Goes(x, cal[e].writing)
  BY ExecHas DEF GoesInv
<1>2. /\ y.step = x.step /\ y.review = x.review
      /\ y.phase = x.phase /\ y.job = x.job /\ y.analysis = x.analysis
      /\ y.calendarSettings = x.calendarSettings /\ y.replySettings = x.replySettings
      /\ y.seen = x.seen /\ y.reply = x.reply /\ y.calendar = x.calendar
      /\ y.tool = tool /\ y.outcome = outcome
  BY <1>1 DEF Exec
<1>3. Becomes(e, y)
  OBVIOUS
<1> HIDE DEF y, x
<1>4. DecisionsOK(y) /\ StageOK(y, cal[e].writing) /\ FreshOK(y)
  BY <1>1, <1>2 DEF Goes, DecisionsOK, StageOK, FreshOK, EarlySteps, x
<1> QED BY <1>3, <1>4, DecidesMoves DEF Goes

LEMMA ToolStepsGo ==
  ASSUME AgentInv, GoesInv, NEW e \in Followed,
         \/ \E reply \in Replies : CallTool(e, reply)
         \/ RereadThread(e) \/ WriteDraft(e) \/ ToolFails(e)
  PROVE  GoesInv'
<1> DEFINE x == exec[e]
<1>x. /\ x \in Exec /\ Goes(x, cal[e].writing) /\ UNCHANGED <<calendarVars, user>>
  BY ExecHas DEF GoesInv, CallTool, RereadThread, WriteDraft, ToolFails
<1>k. x.reply \in DraftKinds
  BY <1>x DEF CallTool, RereadThread, WriteDraft, ToolFails, At, Goes, StageOK
<1>o. /\ x.outcome # Changed /\ (changes = 0 => x.outcome \notin ChangedReply)
      /\ x.outcome = "reply_target_stale" => target = "superseded"
  BY <1>x DEF Goes, FreshOK
<1>1. ASSUME NEW tool, Becomes(e, [x EXCEPT !.tool = tool]) PROVE GoesInv'
  <2>1. [x EXCEPT !.tool = tool] = [x EXCEPT !.tool = tool, !.outcome = x.outcome]
    BY <1>x DEF Exec
  <2> QED BY <1>x, <1>k, <1>o, <1>1, <2>1, ToolGoes
<1>2. ASSUME NEW outcome, Becomes(e, Returned(x, outcome)), outcome # Changed,
             changes = 0 => outcome \notin ChangedReply,
             outcome = "reply_target_stale" => target = "superseded"
      PROVE  GoesInv'
  BY <1>x, <1>k, <1>2, ToolGoes DEF Returned
<1>3. ASSUME NEW reply \in Replies, CallTool(e, reply) PROVE GoesInv'
  <2> DEFINE s == ReplySettingsOf(settings)
             decision == GuardPolicy(x.analysis, x.reply, x.replySettings, s, reply)
  <2>1. Becomes(e, IF decision = "ready" THEN [x EXCEPT !.tool = "rereading"]
                   ELSE Returned(x, decision))
    BY <1>3 DEF CallTool
  <2>2. decision \notin {Changed, "reply_target_stale"}
    BY DEF GuardPolicy, Changed
  <2>3. changes = 0 => decision \notin ChangedReply
    <3> SUFFICES ASSUME changes = 0 PROVE decision \notin ChangedReply
      OBVIOUS
    <3>1. /\ x.analysis # None /\ x.replySettings = s
          /\ ReplyPolicy(x.analysis, x.replySettings, x.seen, TRUE) = x.reply
      BY <1>x, <1>k DEF Goes, DecisionsOK, FreshOK
    <3>2. GuardPolicy(x.analysis, x.reply, x.replySettings, x.replySettings, reply) \notin
            {"reply_settings_missing", "reply_analysis_low_confidence"}
      <4> HIDE DEF x, s
      <4> QED BY <1>k, <3>1, GuardAgrees
    <3> QED BY <3>1, <3>2 DEF ChangedReply
  <2> HIDE DEF decision
  <2> QED BY <1>1, <1>2, <2>1, <2>2, <2>3
<1>4. CASE RereadThread(e)
  <2>1. target # "latest" => target = "superseded"
    <3>1. target \in {"latest", "superseded", "unsafe"} /\ target # "unsafe"
      BY <1>x, <1>k, TypeParts DEF AgentInv, TablesOK, Goes, FreshOK
    <3> QED BY <3>1
  <2> QED BY <1>1, <1>2, <1>4, <2>1 DEF RereadThread, Changed, ChangedReply
<1>5. CASE WriteDraft(e) \/ ToolFails(e)
  BY <1>1, <1>2, <1>5 DEF WriteDraft, ToolFails, Changed, ChangedReply
<1> QED BY <1>3, <1>4, <1>5

-----------------------------------------------------------------------------
(* The others: the calls of Calendar, Calendar itself, the queue, the user. *)

LEMMA UserGoes ==
  ASSUME AgentInv, GoesInv, NewMail \/ ChangeSettings \/ UNCHANGED vars
  PROVE  GoesInv'
<1> SUFFICES ASSUME NEW f \in Followed PROVE Goes(exec[f], cal[f].writing)'
  BY DEF GoesInv
<1>1. Goes(exec[f], cal[f].writing) /\ UNCHANGED <<exec, cal>>
  BY DEF GoesInv, NewMail, ChangeSettings, calendarVars, vars
<1>2. DecisionsOK(exec[f])' /\ StageOK(exec[f], cal[f].writing)'
  BY <1>1 DEF Goes, DecisionsOK, StageOK
<1>3. changes \in Nat /\ settings' # settings => changes' = changes + 1
  <2>1. changes \in Nat
    BY TypeParts, AgentAssumption DEF AgentInv, TablesOK
  <2> QED BY <2>1 DEF NewMail, ChangeSettings, vars, user
<1>4. /\ changes' = 0 => changes = 0 /\ settings' = settings
      /\ target # "unsafe" => target' # "unsafe"
      /\ target = "superseded" => target' = "superseded"
  <2>1. changes \in Nat
    BY TypeParts, AgentAssumption DEF AgentInv, TablesOK
  <2> QED BY <2>1 DEF NewMail, ChangeSettings, vars, user
<1>5. FreshOK(exec[f])'
  BY <1>1, <1>4 DEF Goes, FreshOK
<1> QED BY <1>2, <1>5 DEF Goes

LEMMA CalendarGoes ==
  ASSUME AgentInv, GoesInv, UNCHANGED <<exec, user>>,
         \A f \in Followed : cal'[f].writing = cal[f].writing
  PROVE  GoesInv'
<1> SUFFICES ASSUME NEW f \in Followed PROVE Goes(exec[f], cal[f].writing)'
  BY DEF GoesInv
<1>1. Goes(exec[f], cal[f].writing)
  BY DEF GoesInv
<1> QED BY <1>1 DEF Goes, DecisionsOK, StageOK, FreshOK, user

(* A call is about the Job of its execution.                               *)
LEMMA CallKnown ==
  ASSUME CalendarInv, CallsKnown, NEW e \in Executions, CalendarStep(e)
  PROVE  CallsKnown' /\ cal[e].pc # "idle" /\ cal'[e].job = cal[e].job
<1>1. cal \in [Executions -> Cal] /\ cal[e] \in Cal
  BY DEF CalendarInv, CalendarTypeOK
<1>2. cal[e].pc # "idle"
  BY DEF CalendarStep, FindEvent, FindConflictingEvents, Reserve, ReadReservation, CreateEvent,
         FindCreated, Record, RecheckRecorded, CalendarCallFails, CalAt
<1>3. ASSUME NEW pc, CalTo(e, pc)
      PROVE  cal'[e].job = cal[e].job /\ \A f \in Executions : f # e => cal'[f] = cal[f]
  BY <1>1, <1>3 DEF CalTo, Cal
<1>4. ASSUME NEW r, Returns(e, r)
      PROVE  cal'[e].job = cal[e].job /\ \A f \in Executions : f # e => cal'[f] = cal[f]
  BY <1>1, <1>4 DEF Returns, Cal
<1>5. ASSUME NEW found, Clear(e, found)
      PROVE  cal'[e].job = cal[e].job /\ \A f \in Executions : f # e => cal'[f] = cal[f]
  BY <1>1, <1>5 DEF Clear, Cal
<1>6. \/ \E pc : CalTo(e, pc)
      \/ \E r : Returns(e, r)
      \/ \E found : Clear(e, found)
  BY DEF CalendarStep, FindEvent, FindConflictingEvents, Reserve, ReadReservation, CreateEvent,
         FindCreated, Record, RecheckRecorded, CalendarCallFails, AfterReserve, CalFails
<1> QED BY <1>2, <1>3, <1>4, <1>5, <1>6 DEF CallsKnown

LEMMA LookKnown ==
  ASSUME CalendarInv, CallsKnown, NEW e \in Executions, NEW j \in Jobs, NEW writing \in BOOLEAN,
         Look(e, j, writing)
  PROVE  CallsKnown'
<1> DEFINE d == [NoCal EXCEPT !.pc = "finding", !.job = j, !.writing = writing]
<1>1. d.job = j
  BY DEF NoCal
<1>2. cal' = [cal EXCEPT ![e] = d]
  BY DEF Look
<1> HIDE DEF d
<1> QED BY <1>1, <1>2 DEF CallsKnown, CalendarInv, CalendarTypeOK

LEMMA AgentStepKnown ==
  ASSUME AgentInv, GoesInv, CallsKnown, NEW e \in Followed, AgentStep(e)
  PROVE  CallsKnown'
<1>1. CASE UNCHANGED calendarVars
  BY <1>1 DEF calendarVars, CallsKnown
<1>2. CASE CheckCalendar(e) \/ Revalidate(e)
  <2>1. e \in Executions
    BY AgentAssumption
  <2>2. exec[e].job \in Jobs
    BY <1>2 DEF CheckCalendar, Revalidate, At, GoesInv, Goes, StageOK
  <2>3. \/ UNCHANGED calendarVars
        \/ \E writing \in BOOLEAN : Look(e, exec[e].job, writing)
    BY <1>2 DEF CheckCalendar, Revalidate
  <2> QED BY <1>1, <2>1, <2>2, <2>3, LookKnown DEF AgentInv
<1>3. CASE ~(CheckCalendar(e) \/ Revalidate(e))
  <2>1. UNCHANGED calendarVars
    BY <1>3 DEF AgentStep, Begin, StartStep, CompleteStep, FailStep, Fetch, Analyze,
       SaveAnalysis, SaveReview, CheckReply, Looked, Complete, CallTool, RereadThread,
       WriteDraft, ToolFails, LoopAnswers, LoopFails, CallFails
  <2> QED BY <1>1, <2>1
<1> QED BY <1>2, <1>3

LEMMA KnowInitially == Init => KnowInv
<1> SUFFICES ASSUME Init PROVE KnowInv
  OBVIOUS
<1>1. AgentInv
  BY AgentInitially
<1>2. Followed \subseteq Executions /\ \A e \in Executions : cal[e] = NoCal
  BY AgentAssumption DEF Init, CalendarInit
<1>3. CallsKnown
  BY <1>2 DEF CallsKnown, NoCal
<1>4. /\ NoExec.phase = "idle" /\ NoExec.step = "FETCH_EMAIL_THREAD" /\ NoExec.outcome = None
      /\ NoExec.review = None /\ NoExec.analysis = None /\ NoExec.tool = "idle"
      /\ NoExec.reply = "not_applicable" /\ NoExec.calendar = "not_applicable"
  BY DEF NoExec
<1>5. ASSUME NEW e \in Followed PROVE Goes(exec[e], cal[e].writing)
  <2>1. exec[e] = NoExec /\ cal[e].writing = FALSE
    BY <1>2 DEF Init, NoCal
  <2>2. DecisionsOK(NoExec) /\ StageOK(NoExec, FALSE)
    BY <1>4 DEF DecisionsOK, StageOK, DraftKinds, EarlySteps
  <2>3. FreshOK(NoExec)
    BY <1>4, NoReason DEF FreshOK, DraftKinds, Changed, ChangedReply, ReviewReasons,
       ReplyReasons, CalendarReasons
  <2> QED BY <2>1, <2>2, <2>3 DEF Goes
<1> QED BY <1>1, <1>3, <1>5 DEF KnowInv, GoesInv

LEMMA KnowSteps == KnowInv /\ [Next]_vars => KnowInv'
<1> SUFFICES ASSUME KnowInv, [Next]_vars PROVE KnowInv'
  OBVIOUS
<1>0. AgentInv /\ GoesInv /\ CallsKnown /\ AgentInv' /\ CalendarInv /\ Followed \subseteq Executions
  BY AgentSteps, AgentAssumption DEF KnowInv, AgentInv
<1>1. ASSUME NEW e \in Followed, AgentStep(e) PROVE GoesInv'
  <2>1. CASE \E j \in Jobs : Begin(e, j)
    BY <1>0, <2>1, BeginGoes
  <2>2. CASE \/ StartStep(e) \/ CompleteStep(e) \/ FailStep(e)
             \/ SaveAnalysis(e) \/ SaveReview(e) \/ Complete(e)
             \/ LoopAnswers(e) \/ LoopFails(e) \/ CallFails(e)
    BY <1>0, <2>2, PlainGoes
  <2>3. CASE Fetch(e) \/ Analyze(e) \/ CheckReply(e) \/ CheckCalendar(e) \/ Revalidate(e) \/ Looked(e)
    BY <1>0, <2>3, FetchGoes, AnalyzeGoes, CheckReplyGoes, CheckCalendarGoes, RevalidateGoes,
       LookedGoes
  <2>4. CASE \/ \E reply \in Replies : CallTool(e, reply)
             \/ RereadThread(e) \/ WriteDraft(e) \/ ToolFails(e)
    BY <1>0, <2>4, ToolStepsGo
  <2> QED BY <1>1, <2>1, <2>2, <2>3, <2>4 DEF AgentStep
<1>2. ASSUME NEW e \in Followed, AgentStep(e) PROVE CallsKnown'
  BY <1>0, <1>2, AgentStepKnown
<1>3. CASE /\ \/ \E e \in Followed : CalendarStep(e)
              \/ \E e \in Executions \ Followed : Unknown(e)
              \/ Outside
           /\ UNCHANGED <<exec, tables, user>>
  <2>1. CASE \E e \in Executions : CalendarStep(e)
    <3>1. \A f \in Executions : cal'[f].writing = cal[f].writing
      BY <1>0, <2>1, CalendarStepEffect DEF CallEffect
    <3>2. CallsKnown'
      BY <1>0, <2>1, CallKnown
    <3> QED BY <1>0, <1>3, <3>1, <3>2, CalendarGoes DEF KnowInv
  <2>2. ASSUME NEW e \in Executions \ Followed, NEW j \in Jobs, Look(e, j, TRUE)
        PROVE  KnowInv'
    <3>1. \A f \in Executions : f # e => cal'[f] = cal[f]
      BY <1>0, <2>2, LookEffect
    <3>2. CallsKnown'
      BY <1>0, <2>2, LookKnown
    <3> QED BY <1>0, <1>3, <3>1, <3>2, CalendarGoes DEF KnowInv
  <2>3. CASE Outside
    <3>1. UNCHANGED cal
      BY <1>0, <2>3, OutsideEffect
    <3>2. CallsKnown'
      BY <1>0, <3>1 DEF CallsKnown
    <3> QED BY <1>0, <1>3, <3>1, <3>2, CalendarGoes DEF KnowInv
  <2> QED BY <1>0, <1>3, <2>1, <2>2, <2>3 DEF Unknown
<1>4. CASE NewMail \/ ChangeSettings \/ UNCHANGED vars
  <2>1. UNCHANGED cal
    BY <1>4 DEF NewMail, ChangeSettings, vars, calendarVars
  <2>2. CallsKnown'
    BY <1>0, <2>1 DEF CallsKnown
  <2> QED BY <1>0, <1>4, <2>2, UserGoes DEF KnowInv
<1> QED BY <1>0, <1>1, <1>2, <1>3, <1>4 DEF Next, KnowInv

LEMMA KnowAlways == Spec => []KnowInv
BY KnowInitially, KnowSteps, PTL DEF Spec

-----------------------------------------------------------------------------
(* The event and its row: every step is one that EventContract allows.     *)

LEMMA CalendarStepContract ==
  ASSUME CalendarInv, CallsKnown, NEW e \in Executions, CalendarStep(e)
  PROVE  Contract!ContractNext \/ UNCHANGED <<row, event, jobs>>
<1>c. /\ cal[e].pc # "idle" => cal[e].job \in Jobs
      /\ CallOK(cal[e])
      /\ row.status \in {"absent", "creating", "completed"}
      /\ row.status = "completed" => event = "ours"
  BY DEF CallsKnown, CalendarInv, CalendarTypeOK, RecordedEventIsReal
<1>1. CASE Reserve(e)
  <2>1. cal[e].job \in Jobs /\ UNCHANGED <<event, jobs>>
    BY <1>c, <1>1 DEF Reserve, CalAt
  <2>2. CASE UNCHANGED row
    BY <2>1, <2>2
  <2>3. CASE Reservable(e) /\ row' = [status |-> "creating", job |-> cal[e].job]
    <3>1. Contract!Take(cal[e].job)
      BY <2>1, <2>3 DEF Reservable, Contract!Take
    <3> QED BY <2>1, <3>1 DEF Contract!ContractNext
  <2> QED BY <1>1, <2>2, <2>3 DEF Reserve
<1>2. CASE CreateEvent(e)
  <2>1. row.status # "absent" /\ UNCHANGED <<row, jobs>>
    BY <1>c, <1>2 DEF CreateEvent, CalAt, CallOK
  <2>2. event' = event \/ (event = "absent" /\ event' = "ours")
    BY <1>2 DEF CreateEvent
  <2>3. CASE event = "absent" /\ event' = "ours"
    <3>1. Contract!Put
      BY <1>c, <2>1, <2>3 DEF Contract!Put
    <3> QED BY <3>1 DEF Contract!ContractNext
  <2> QED BY <2>1, <2>2, <2>3
<1>3. CASE Record(e)
  <2>1. event = "ours" /\ UNCHANGED <<event, jobs>>
    BY <1>c, <1>3 DEF Record, CalAt, CallOK
  <2>2. CASE row.status = "creating" /\ row' = [row EXCEPT !.status = "completed"]
    <3>1. Contract!Record
      BY <2>1, <2>2 DEF Contract!Record
    <3> QED BY <3>1 DEF Contract!ContractNext
  <2> QED BY <1>3, <2>1, <2>2 DEF Record
<1>4. CASE \/ FindEvent(e) \/ FindConflictingEvents(e) \/ ReadReservation(e) \/ FindCreated(e)
           \/ RecheckRecorded(e) \/ CalendarCallFails(e)
  BY <1>4 DEF FindEvent, FindConflictingEvents, ReadReservation, FindCreated, RecheckRecorded,
              CalendarCallFails
<1> QED BY <1>1, <1>2, <1>3, <1>4 DEF CalendarStep

(* A creation that arrives late finds a row from before it.                *)
LEMMA OutsideContract ==
  ASSUME CalendarInv, Outside
  PROVE  Contract!ContractNext \/ UNCHANGED <<row, event, jobs>>
<1>1. CASE LateCreate
  <2>1. /\ row.status \in {"absent", "creating", "completed"} /\ row.status # "absent"
        /\ row.status = "completed" => event = "ours"
    BY <1>1 DEF LateCreate, CalendarInv, CalendarTypeOK, RecordedEventIsReal
  <2>2. CASE event = "absent"
    <3>1. Contract!Put
      BY <1>1, <2>1, <2>2 DEF LateCreate, Contract!Put
    <3> QED BY <3>1 DEF Contract!ContractNext
  <2> QED BY <1>1, <2>2 DEF LateCreate
<1>2. CASE UserBooks
  BY <1>2 DEF UserBooks
<1>3. ASSUME NEW j \in Jobs, NEW status \in {"completed", "failed"}, JobEnds(j, status)
      PROVE  Contract!ContractNext
  <2>1. Contract!End(j, status)
    BY <1>3 DEF JobEnds, Contract!End
  <2> QED BY <2>1 DEF Contract!ContractNext
<1> QED BY <1>1, <1>2, <1>3 DEF Outside

LEMMA ContractInitially == CalendarInit => Contract!ContractInit
BY DEF CalendarInit, Contract!ContractInit

LEMMA CalendarContractSteps ==
  CalendarInv /\ CallsKnown /\ [CalendarNext]_calendarVars =>
    CalendarInv' /\ CallsKnown' /\ [Contract!ContractNext]_(Contract!contractVars)
<1> SUFFICES ASSUME CalendarInv, CallsKnown, [CalendarNext]_calendarVars
             PROVE  /\ CalendarInv' /\ CallsKnown'
                    /\ [Contract!ContractNext]_(Contract!contractVars)
  OBVIOUS
<1> USE DEF Contract!contractVars
<1>1. CASE Outside
  <2>1. CalendarInv' /\ UNCHANGED cal
    BY <1>1, OutsideEffect
  <2> QED BY <1>1, <2>1, OutsideContract DEF CallsKnown
<1>2. ASSUME NEW e \in Executions, CalendarStep(e)
      PROVE  /\ CalendarInv' /\ CallsKnown'
             /\ [Contract!ContractNext]_(Contract!contractVars)
  BY <1>2, CalendarStepEffect, CallKnown, CalendarStepContract DEF CallEffect
<1>3. ASSUME NEW e \in Executions, NEW j \in Jobs, Look(e, j, TRUE)
      PROVE  /\ CalendarInv' /\ CallsKnown'
             /\ [Contract!ContractNext]_(Contract!contractVars)
  <2>1. UNCHANGED <<row, event, jobs>>
    BY <1>3 DEF Look
  <2> QED BY <1>3, <2>1, LookEffect, LookKnown
<1>4. CASE UNCHANGED calendarVars
  BY <1>4 DEF calendarVars, CalendarInv, CalendarTypeOK, RecordedEventIsReal, CallOK, CallsKnown
<1> QED BY <1>1, <1>2, <1>3, <1>4 DEF CalendarNext, Unknown

(* Any number of executions that only want the event keep to the contract, *)
(* whichever answers are lost or late and whichever Jobs fail meanwhile.   *)
THEOREM CalendarKeepsContract == CalendarSpec => KeepsEventContract
<1>1. CalendarInit => CallsKnown
  BY DEF CalendarInit, CallsKnown, NoCal
<1> QED BY <1>1, CalendarInitially, ContractInitially, CalendarContractSteps, PTL
        DEF CalendarSpec, KeepsEventContract, Contract!ContractSpec

LEMMA AgentContractSteps ==
  KnowInv /\ [Next]_vars => [Contract!ContractNext]_(Contract!contractVars)
<1> SUFFICES ASSUME KnowInv, [Next]_vars
             PROVE  Contract!ContractNext \/ UNCHANGED <<row, event, jobs>>
  BY DEF Contract!contractVars
<1>0. CalendarInv /\ CallsKnown /\ Followed \subseteq Executions
  BY AgentAssumption DEF KnowInv, AgentInv
<1>1. ASSUME NEW e \in Followed, AgentStep(e) PROVE UNCHANGED <<row, event, jobs>>
  <2>1. CASE CheckCalendar(e) \/ Revalidate(e)
    BY <2>1 DEF CheckCalendar, Revalidate, Look, calendarVars
  <2>2. CASE ~(CheckCalendar(e) \/ Revalidate(e))
    <3>1. UNCHANGED calendarVars
      BY <1>1, <2>2 DEF AgentStep, Begin, StartStep, CompleteStep, FailStep, Fetch, Analyze,
         SaveAnalysis, SaveReview, CheckReply, Looked, Complete, CallTool, RereadThread,
         WriteDraft, ToolFails, LoopAnswers, LoopFails, CallFails
    <3> QED BY <3>1 DEF calendarVars
  <2> QED BY <2>1, <2>2
<1>2. ASSUME NEW e \in Executions, CalendarStep(e)
      PROVE  Contract!ContractNext \/ UNCHANGED <<row, event, jobs>>
  BY <1>0, <1>2, CalendarStepContract
<1>3. ASSUME NEW e \in Executions, NEW j \in Jobs, Look(e, j, TRUE)
      PROVE  UNCHANGED <<row, event, jobs>>
  BY <1>3 DEF Look
<1>4. CASE Outside
  BY <1>0, <1>4, OutsideContract
<1>5. CASE NewMail \/ ChangeSettings \/ UNCHANGED vars
  BY <1>5 DEF NewMail, ChangeSettings, vars, calendarVars
<1> QED BY <1>0, <1>1, <1>2, <1>3, <1>4, <1>5 DEF Next, Unknown

(* So do they beside executions of the whole Agent.                        *)
THEOREM AgentKeepsContract == Spec => KeepsEventContract
<1>1. Init => Contract!ContractInit
  BY ContractInitially DEF Init
<1> QED BY <1>1, KnowAlways, AgentContractSteps, PTL
        DEF Spec, KeepsEventContract, Contract!ContractSpec

-----------------------------------------------------------------------------
(* A run that sets out to write has passed every check, has its analysis   *)
(* saved and nothing in it made up; an event is whole; a draft is due, has *)
(* the event its analysis calls for, and is not left to a person.          *)
THEOREM ChecksComeFirst == Spec => []WritesAfterChecks
<1>1. KnowInv => WritesAfterChecks
  <2> SUFFICES ASSUME KnowInv, NEW e \in Followed
               PROVE  /\ cal[e].writing \/ e \in drafted =>
                           /\ e \in analyses
                           /\ {exec[e].reply, exec[e].calendar} \cap ReviewReasons = {}
                           /\ ValidAnalysis(exec[e].analysis) /\ Grounded(exec[e].analysis)
                      /\ cal[e].writing =>
                           /\ WholeMeeting(exec[e].analysis)
                           /\ exec[e].analysis.confidence >= exec[e].calendarSettings.threshold
                      /\ e \in drafted =>
                           /\ exec[e].analysis.needsReply /\ exec[e].seen
                           /\ exec[e].review = None
                           /\ exec[e].calendar = "ready" => exec[e].hasEvent /\ event = "ours"
    BY DEF WritesAfterChecks
  <2> DEFINE x == exec[e]
  <2>1. /\ WritesOK(x, cal[e].writing, e \in analyses, e \in drafted)
        /\ CourseOK(x, reviews[e]) /\ (x.hasEvent => event = "ours") /\ x \in Exec
    BY ExecHas DEF KnowInv
  <2>2. DecisionsOK(x) /\ StageOK(x, cal[e].writing)
    BY DEF KnowInv, GoesInv, Goes
  <2>3. e \in drafted => x.tool # "idle"
    BY <2>1 DEF WritesOK
  <2>4. cal[e].writing \/ e \in drafted =>
          x.analysis # None /\ ValidAnalysis(x.analysis) /\ Grounded(x.analysis)
    BY <2>1, <2>2, <2>3 DEF DecisionsOK, StageOK, CourseOK
  <2>5. ASSUME cal[e].writing
        PROVE  WholeMeeting(x.analysis) /\ x.analysis.confidence >= x.calendarSettings.threshold
    <3>1. CalendarPolicy(x.analysis, x.calendarSettings) = "ready"
      BY <2>2, <2>5 DEF DecisionsOK, StageOK
    <3>2. x.analysis \in Analysis /\ x.calendarSettings \in CalendarSettings \cup {None}
      BY <2>1, <2>4, <2>5 DEF Exec
    <3> QED BY <2>4, <2>5, <3>1, <3>2, ReadyMeeting
  <2>6. ASSUME e \in drafted PROVE x.analysis.needsReply /\ x.seen
    <3>1. /\ x.reply \in DraftKinds
          /\ ReplyPolicy(x.analysis, x.replySettings, x.seen, TRUE) = x.reply
      BY <2>2, <2>3, <2>6 DEF DecisionsOK, StageOK
    <3>2. x.analysis \in Analysis /\ x.seen \in BOOLEAN
      BY <2>1, <2>4, <2>6 DEF Exec
    <3>3. x.seen /\ (x.analysis.needsReply \/ x.analysis.category = "scheduling_request")
      BY <3>1 DEF ReplyPolicy, DraftKinds
    <3> QED BY <2>2, <2>4, <2>6, <3>3 DEF StageOK
  <2>7. /\ cal[e].writing \/ e \in drafted =>
             e \in analyses /\ {x.reply, x.calendar} \cap ReviewReasons = {}
        /\ e \in drafted => x.review = None /\ (x.calendar = "ready" => x.hasEvent /\ event = "ours")
    BY <2>1, <2>3 DEF WritesOK
  <2> QED BY <2>4, <2>5, <2>6, <2>7
<1> QED BY <1>1, KnowAlways, PTL

(* The two checks before a write agree: a person is told that the settings *)
(* or the thread have changed only if they have, for every analysis, reply *)
(* and row of settings.                                                    *)
THEOREM ChecksAgree == Spec => []ChangesAreReal
<1>1. KnowInv => ChangesAreReal
  BY DEF KnowInv, GoesInv, Goes, FreshOK, Changed, ChangedReply, ChangesAreReal
<1> QED BY <1>1, KnowAlways, PTL
=============================================================================
