---------------------------- MODULE JobEmailAgent ----------------------------
(***************************************************************************)
(* The Job-search e-mail Agent about one e-mail: the tracked steps of an   *)
(* execution, from the fetching of the thread to the output, with the rows *)
(* they leave in agent_run_steps, job_email_analyses and review_requests,  *)
(* over CalendarReservation, in which executions that are not followed     *)
(* here write the same calendar event.  A draft tool goes on after its     *)
(* loop has failed.  An execution may stop for ever anywhere (a crash).    *)
(*                                                                         *)
(* Every call (a statement, a request) is one step; it fails before it is  *)
(* applied, or is applied and its answer may be lost.                      *)
(***************************************************************************)
EXTENDS CalendarReservation

CONSTANTS
    Followed,      \* the executions modelled in full; each has a run of its own
    Analyses,      \* the analyses the LLM may give
    Replies,       \* what it may say of the reply it has written
    SettingsRows,  \* the rows agent_settings may hold
    MaxChanges     \* how often the user changes them

ASSUME AgentAssumption ==
    /\ Followed \subseteq Executions
    /\ \A a \in Analyses : a \in Analysis
    /\ \A r \in Replies : r.confidence \in Nat /\ r.warnings \in BOOLEAN
    /\ \A s \in SettingsRows : s \in SettingsRow
    /\ None \notin SettingsRows \cup Analysis \cup ReviewReasons \cup {"completed"}
    /\ MaxChanges \in Nat

VARIABLES
    exec,       \* the executions
    steps,      \* agent_run_steps: a row per run and step
    analyses,   \* job_email_analyses: the runs that have one
    reviews,    \* review_requests: the reason, per run
    drafted,    \* the executions that wrote a draft
    settings, changes,
    target      \* the e-mail: the latest of its thread or not; unsafe headers

tables == <<steps, analyses, reviews, drafted>>
user == <<settings, changes, target>>
vars == <<calendarVars, exec, tables, user>>

StepName == {"FETCH_EMAIL_THREAD", "ANALYZE_EMAIL", "CHECK_REPLY_POLICY",
             "CHECK_CALENDAR_POLICY", "CREATE_CALENDAR_EVENT", "CREATE_DRAFT", "COMPLETE"}

(* starting, completing, failing: the statements of trackStep              *)
(* working, looking: its operation; while looking, CalendarReservation has *)
(*   the next step                                                         *)
(* saving, reviewing: saveAnalysis and createReviewRequest, between steps  *)
Phase == {"idle", "starting", "working", "looking", "completing", "failing",
          "saving", "reviewing", "answered", "threw"}

Decision == {"not_applicable", "ready"} \cup DraftKinds \cup ReviewReasons

(* seen, calendarSettings, replySettings: what an earlier step has read.   *)
(* tool and outcome belong to the draft tool, which runs beside the loop.  *)
Exec ==
    [job: Jobs \cup {None}, step: StepName, phase: Phase, analysis: Analysis \cup {None},
     seen: BOOLEAN, calendarSettings: CalendarSettings \cup {None},
     replySettings: ReplySettings \cup {None}, reply: Decision, calendar: Decision,
     review: ReviewReasons \cup {None}, hasEvent: BOOLEAN, hasDraft: BOOLEAN,
     tool: {"idle", "rereading", "writing", "returned", "threw"},
     outcome: {None, "completed"} \cup ReviewReasons,
     error: {"none", "temporary", "permanent"}]

NoExec ==
    [job |-> None, step |-> "FETCH_EMAIL_THREAD", phase |-> "idle", analysis |-> None,
     seen |-> FALSE, calendarSettings |-> None, replySettings |-> None,
     reply |-> "not_applicable", calendar |-> "not_applicable", review |-> None,
     hasEvent |-> FALSE, hasDraft |-> FALSE, tool |-> "idle", outcome |-> None,
     error |-> "none"]

Init ==
    /\ CalendarInit
    /\ exec = [e \in Followed |-> NoExec]
    /\ steps = [e \in Followed |-> [s \in StepName |-> "none"]]
    /\ analyses = {} /\ reviews = [e \in Followed |-> None] /\ drafted = {}
    /\ settings \in SettingsRows \cup {None} /\ changes = 0
    /\ target \in {"latest", "superseded", "unsafe"}

At(e, step, phase) == exec[e].step = step /\ exec[e].phase = phase

(* The execution goes on: x is what it has become.                         *)
Becomes(e, x) == exec' = [exec EXCEPT ![e] = x]
GoTo(e, phase) == Becomes(e, [exec[e] EXCEPT !.phase = phase])
Fail(e, error) == Becomes(e, [exec[e] EXCEPT !.phase = "failing", !.error = error])
Throw(e, error) == Becomes(e, [exec[e] EXCEPT !.phase = "threw", !.error = error])
Decided(e, reason) == Becomes(e, [exec[e] EXCEPT !.review = reason, !.phase = "completing"])
StartOf(x, step) == [x EXCEPT !.step = step, !.phase = "starting"]
Review(x, reason) == [x EXCEPT !.review = reason, !.phase = "reviewing"]

-----------------------------------------------------------------------------
Begin(e, j) ==
    /\ exec[e].phase = "idle"
    /\ jobs[j] = "active"
    /\ Becomes(e, [NoExec EXCEPT !.job = j, !.phase = "starting"])
    /\ UNCHANGED <<calendarVars, tables, user>>

(* trackStep.  The start of a step is outside its try block: if it fails,  *)
(* the step is not marked as failed.                                       *)
StartStep(e) ==
    /\ exec[e].phase = "starting"
    /\ \/ /\ steps' = [steps EXCEPT ![e][exec[e].step] = "pending"]
          /\ GoTo(e, "working") \/ Throw(e, "temporary")
       \/ UNCHANGED steps /\ Throw(e, "temporary")
    /\ UNCHANGED <<calendarVars, analyses, reviews, drafted, user>>

AfterCalendar(x) == StartOf(x, IF x.reply \in DraftKinds THEN "CREATE_DRAFT" ELSE "COMPLETE")

\* Mutant of AfterChecks: the draft does not wait for the calendar.
AfterChecksDraftFirst(x) ==
    IF x.reply \in DraftKinds THEN StartOf(x, "CREATE_DRAFT")
    ELSE IF x.calendar \in ReviewReasons THEN Review(x, x.calendar)
    ELSE StartOf(x, IF x.calendar = "ready" THEN "CREATE_CALENDAR_EVENT" ELSE "COMPLETE")

AfterChecks(x) ==
    IF x.calendar \in ReviewReasons   THEN Review(x, x.calendar)
    ELSE IF x.reply \in ReviewReasons THEN Review(x, x.reply)
    ELSE IF x.calendar = "ready"      THEN StartOf(x, "CREATE_CALENDAR_EVENT")
    ELSE AfterCalendar(x)

(* What follows a step that has been completed.                            *)
After(x) ==
    IF x.step = "COMPLETE"    THEN [x EXCEPT !.phase = "answered"]
    ELSE IF x.review # None   THEN Review(x, x.review)
    ELSE CASE x.step = "FETCH_EMAIL_THREAD"    -> StartOf(x, "ANALYZE_EMAIL")
           [] x.step = "ANALYZE_EMAIL"         -> [x EXCEPT !.phase = "saving"]
           [] x.step = "CHECK_REPLY_POLICY"    -> StartOf(x, "CHECK_CALENDAR_POLICY")
           [] x.step = "CHECK_CALENDAR_POLICY" -> AfterChecks(x)
           [] x.step = "CREATE_CALENDAR_EVENT" -> AfterCalendar(x)
           [] x.step = "CREATE_DRAFT"          -> StartOf(x, "COMPLETE")

CompleteStep(e) ==
    /\ exec[e].phase = "completing"
    /\ \/ /\ steps' = [steps EXCEPT ![e][exec[e].step] = "succeeded"]
          /\ Becomes(e, After(exec[e])) \/ Fail(e, "temporary")
       \/ UNCHANGED steps /\ Fail(e, "temporary")
    /\ UNCHANGED <<calendarVars, analyses, reviews, drafted, user>>

(* A step that is not pending any more cannot be failed; that error, or a  *)
(* lost answer, takes the place of the error of the step.                  *)
FailStep(e) ==
    /\ exec[e].phase = "failing"
    /\ \/ /\ steps[e][exec[e].step] = "pending"
          /\ steps' = [steps EXCEPT ![e][exec[e].step] = "failed"]
          /\ Throw(e, exec[e].error) \/ Throw(e, "temporary")
       \/ UNCHANGED steps /\ Throw(e, "temporary")
    /\ UNCHANGED <<calendarVars, analyses, reviews, drafted, user>>

-----------------------------------------------------------------------------
(* The message and its thread are fetched, and must agree.                 *)
Fetch(e) ==
    /\ At(e, "FETCH_EMAIL_THREAD", "working")
    /\ \/ Becomes(e, [exec[e] EXCEPT !.seen = target # "superseded", !.phase = "completing"])
       \/ Fail(e, "permanent")
    /\ UNCHANGED <<calendarVars, tables, user>>

Analyzed(e, review, analysis) ==
    Becomes(e, [exec[e] EXCEPT !.calendarSettings = CalendarSettingsOf(settings),
                               !.review = review, !.analysis = analysis,
                               !.phase = "completing"])

(* The settings are read, and the LLM refuses, gives up, or answers.       *)
Analyze(e) ==
    /\ At(e, "ANALYZE_EMAIL", "working")
    /\ \/ \E reason \in LlmReasons : Analyzed(e, reason, None)
       \/ \E a \in Analyses :
            IF ~ValidAnalysis(a)            THEN Analyzed(e, "llm_invalid_output", None)
            ELSE IF ~Grounded(Normalize(a)) THEN Analyzed(e, "analysis_not_grounded", None)
            ELSE Analyzed(e, None, Normalize(a))
    /\ UNCHANGED <<calendarVars, tables, user>>

(* The run is new, so that the INSERT of its analysis meets no other row.  *)
SaveAnalysis(e) ==
    /\ exec[e].phase = "saving"
    /\ \/ /\ analyses' = analyses \cup {e}
          /\ \/ Becomes(e, StartOf(exec[e], IF exec[e].analysis.isJobRelated
                                            THEN "CHECK_REPLY_POLICY" ELSE "COMPLETE"))
             \/ Throw(e, "temporary")
       \/ UNCHANGED analyses /\ Throw(e, "temporary")
    /\ UNCHANGED <<calendarVars, steps, reviews, drafted, user>>

SaveReview(e) ==
    /\ exec[e].phase = "reviewing"
    /\ \/ /\ reviews' = [reviews EXCEPT ![e] = exec[e].review]
          /\ Becomes(e, StartOf(exec[e], "COMPLETE")) \/ Throw(e, "temporary")
       \/ UNCHANGED reviews /\ Throw(e, "temporary")
    /\ UNCHANGED <<calendarVars, steps, analyses, drafted, user>>

CheckReply(e) ==
    /\ At(e, "CHECK_REPLY_POLICY", "working")
    /\ LET s == ReplySettingsOf(settings)
       IN  Becomes(e, [exec[e] EXCEPT
              !.reply = ReplyPolicy(exec[e].analysis, s, exec[e].seen, target # "unsafe"),
              !.replySettings = s, !.phase = "completing"])
    /\ UNCHANGED <<calendarVars, tables, user>>

(* prepareCalendarAction and createCalendarEvent, up to their calls of     *)
(* Calendar; the second reads the settings again.                          *)
CheckCalendar(e) ==
    /\ At(e, "CHECK_CALENDAR_POLICY", "working")
    /\ LET decision == CalendarPolicy(exec[e].analysis, exec[e].calendarSettings)
       IN  IF decision = "ready"
           THEN GoTo(e, "looking") /\ Look(e, exec[e].job, FALSE)
           ELSE /\ Becomes(e, [exec[e] EXCEPT !.calendar = decision, !.phase = "completing"])
                /\ UNCHANGED calendarVars
    /\ UNCHANGED <<tables, user>>

Revalidate(e) ==
    /\ At(e, "CREATE_CALENDAR_EVENT", "working")
    /\ LET decision == CalendarRecheck(exec[e].analysis, CalendarSettingsOf(settings))
       IN  IF decision = "ready"
           THEN GoTo(e, "looking") /\ Look(e, exec[e].job, TRUE)
           ELSE Decided(e, decision) /\ UNCHANGED calendarVars
    /\ UNCHANGED <<tables, user>>

(* Their answers, and their errors.                                        *)
Looked(e) ==
    /\ exec[e].phase = "looking"
    /\ \/ CalAt(e, "returned") /\ At(e, "CHECK_CALENDAR_POLICY", "looking")
          /\ Becomes(e, [exec[e] EXCEPT !.calendar = cal[e].result, !.phase = "completing"])
       \/ CalAt(e, "returned") /\ At(e, "CREATE_CALENDAR_EVENT", "looking")
          /\ IF cal[e].result = "completed"
             THEN Becomes(e, [exec[e] EXCEPT !.hasEvent = TRUE, !.phase = "completing"])
             ELSE Decided(e, cal[e].result)
       \/ CalAt(e, "failed") /\ Fail(e, "temporary")
       \/ CalAt(e, "rejected") /\ Fail(e, "permanent")
    /\ UNCHANGED <<calendarVars, tables, user>>

(* The output of the step COMPLETE is known already.                       *)
Complete(e) ==
    /\ At(e, "COMPLETE", "working")
    /\ GoTo(e, "completing")
    /\ UNCHANGED <<calendarVars, tables, user>>

-----------------------------------------------------------------------------
(* runReplyDraftToolLoop.  The tool checks everything again; createDraft   *)
(* (DraftReservation) writes a draft or finds the one there is.            *)
Returned(x, outcome) == [x EXCEPT !.tool = "returned", !.outcome = outcome]

CallTool(e, reply) ==
    /\ At(e, "CREATE_DRAFT", "working") /\ exec[e].tool = "idle"
    /\ LET decision == GuardPolicy(exec[e].analysis, exec[e].reply, exec[e].replySettings,
                                   ReplySettingsOf(settings), reply)
       IN  Becomes(e, IF decision = "ready" THEN [exec[e] EXCEPT !.tool = "rereading"]
                      ELSE Returned(exec[e], decision))
    /\ UNCHANGED <<calendarVars, tables, user>>

RereadThread(e) ==
    /\ exec[e].tool = "rereading"
    /\ Becomes(e, IF target = "latest" THEN [exec[e] EXCEPT !.tool = "writing"]
                  ELSE Returned(exec[e], "reply_target_stale"))
    /\ UNCHANGED <<calendarVars, tables, user>>

WriteDraft(e) ==
    /\ exec[e].tool = "writing"
    /\ \/ /\ drafted' = drafted \cup {e}
          /\ \/ Becomes(e, Returned(exec[e], "completed"))
             \/ Becomes(e, [exec[e] EXCEPT !.tool = "threw"])
       \/ UNCHANGED drafted /\ Becomes(e, Returned(exec[e], "completed"))
    /\ UNCHANGED <<calendarVars, steps, analyses, reviews, user>>

ToolFails(e) ==
    /\ \/ At(e, "CREATE_DRAFT", "working") /\ exec[e].tool = "idle"
       \/ exec[e].tool \in {"rereading", "writing"}
    /\ Becomes(e, [exec[e] EXCEPT !.tool = "threw"])
    /\ UNCHANGED <<calendarVars, tables, user>>

(* What the tool has returned counts, whatever the LLM says afterwards.    *)
LoopAnswers(e) ==
    /\ At(e, "CREATE_DRAFT", "working")
    /\ \/ /\ exec[e].tool = "idle"
          /\ \E reason \in {"reply_llm_refusal", "reply_llm_invalid_output"} :
                Decided(e, reason)
       \/ /\ exec[e].tool = "returned"
          /\ IF exec[e].outcome = "completed"
             THEN Becomes(e, [exec[e] EXCEPT !.hasDraft = TRUE, !.phase = "completing"])
             ELSE Decided(e, exec[e].outcome)
    /\ UNCHANGED <<calendarVars, tables, user>>

(* The tool has thrown, OpenAI fails, or the loop times out; then the tool *)
(* goes on.                                                                *)
LoopFails(e) ==
    /\ At(e, "CREATE_DRAFT", "working")
    /\ Fail(e, "temporary") \/ Fail(e, "permanent")
    /\ UNCHANGED <<calendarVars, tables, user>>

(* Gmail, the LLM or the settings table fails the operation.               *)
CallFails(e) ==
    /\ \/ /\ At(e, "FETCH_EMAIL_THREAD", "working") \/ At(e, "ANALYZE_EMAIL", "working")
          /\ Fail(e, "temporary") \/ Fail(e, "permanent")
       \/ /\ \/ At(e, "CHECK_REPLY_POLICY", "working") /\ exec[e].analysis.needsReply
             \/ At(e, "CREATE_CALENDAR_EVENT", "working")
          /\ Fail(e, "temporary")
    /\ UNCHANGED <<calendarVars, tables, user>>

-----------------------------------------------------------------------------
NewMail ==
    /\ target = "latest" /\ target' = "superseded"
    /\ UNCHANGED <<calendarVars, exec, tables, settings, changes>>

ChangeSettings ==
    /\ changes < MaxChanges /\ changes' = changes + 1
    /\ settings' \in SettingsRows \ {settings}
    /\ UNCHANGED <<calendarVars, exec, tables, target>>

AgentStep(e) ==
    \/ \E j \in Jobs : Begin(e, j)
    \/ StartStep(e) \/ CompleteStep(e) \/ FailStep(e)
    \/ Fetch(e) \/ Analyze(e) \/ SaveAnalysis(e) \/ SaveReview(e)
    \/ CheckReply(e) \/ CheckCalendar(e) \/ Revalidate(e) \/ Looked(e) \/ Complete(e)
    \/ \E reply \in Replies : CallTool(e, reply)
    \/ RereadThread(e) \/ WriteDraft(e) \/ ToolFails(e)
    \/ LoopAnswers(e) \/ LoopFails(e) \/ CallFails(e)

Next ==
    \/ \E e \in Followed : AgentStep(e)
    \/ /\ \/ \E e \in Followed : CalendarStep(e)
          \/ \E e \in Executions \ Followed : Unknown(e)
          \/ Outside
       /\ UNCHANGED <<exec, tables, user>>
    \/ NewMail \/ ChangeSettings

Spec == Init /\ [][Next]_vars

-----------------------------------------------------------------------------
ResultOf(x) == IF x.review # None THEN "needs_review"
               ELSE IF x.analysis.isJobRelated THEN "completed" ELSE "skipped"

(* jobSearchEmailOutputSchema, which the runner applies to the output.     *)
OutputAccepted(x) ==
    /\ x.analysis = None => ResultOf(x) = "needs_review"
    /\ x.analysis # None => ValidAnalysis(x.analysis)
    /\ ResultOf(x) = "skipped" => ~x.hasDraft /\ ~x.hasEvent /\ ~x.analysis.isJobRelated
    /\ ResultOf(x) = "completed" => x.analysis.isJobRelated

TypeOK ==
    /\ CalendarTypeOK
    /\ exec \in [Followed -> Exec]
    /\ steps \in [Followed -> [StepName -> {"none", "pending", "succeeded", "failed"}]]
    /\ analyses \subseteq Followed /\ drafted \subseteq Followed
    /\ reviews \in [Followed -> ReviewReasons \cup {None}]
    /\ settings \in SettingsRows \cup {None} /\ changes \in 0..MaxChanges
    /\ target \in {"latest", "superseded", "unsafe"}

(* What the event is made of; the second check of createCalendarEvent does *)
(* not look at it again.                                                   *)
WholeMeeting(a) ==
    /\ a.isConfirmed /\ a.companyName /\ a.url /\ a.timezone = "valid"
    /\ 0 < a.startAt /\ a.startAt < a.endAt

(* index.ts: "Complete every deterministic preflight before allowing the   *)
(* Draft tool to write externally"; "A conflict still prevents any Draft   *)
(* write."  A run that sets out to write the event, or wrote a draft, has  *)
(* passed every check, and nothing in its analysis was made up; an event   *)
(* is whole; a draft is due, has the event its analysis calls for, and     *)
(* belongs to a run that is not left to a person.                          *)
WritesAfterChecks ==
    \A e \in Followed :
        /\ cal[e].writing \/ e \in drafted =>
             /\ e \in analyses
             /\ {exec[e].reply, exec[e].calendar} \cap ReviewReasons = {}
             /\ ValidAnalysis(exec[e].analysis) /\ Grounded(exec[e].analysis)
        /\ cal[e].writing =>
             /\ WholeMeeting(exec[e].analysis)
             /\ exec[e].analysis.confidence >= exec[e].calendarSettings.threshold
        /\ e \in drafted =>
             /\ exec[e].analysis.needsReply /\ exec[e].seen
             /\ exec[e].review = None
             /\ exec[e].calendar = "ready" => exec[e].hasEvent /\ event = "ours"

(* The checks before a write are made twice, in functions that share no    *)
(* code.  Where the second finds something else than the first, the user   *)
(* has changed the settings or a newer message has come: nobody is sent to *)
(* look for a change that was not made.                                    *)
ChangesAreReal ==
    \A e \in Followed :
        /\ changes = 0 =>
             /\ exec[e].review # "calendar_policy_changed"
             /\ exec[e].outcome \notin {"reply_settings_missing",
                                        "reply_analysis_low_confidence"}
        /\ exec[e].outcome = "reply_target_stale" => target = "superseded"

(* What an execution ends with, the trace of its run and the request for   *)
(* a review tell the same story.  An answer leaves no step open or failed, *)
(* a person is asked exactly if it says so, and the runner accepts it; an  *)
(* error that is not retried is recorded at the step that met it.          *)
TraceTellsOutcome ==
    \A e \in Followed :
        /\ \A s \in StepName : /\ steps[e][s] = "pending" => s = exec[e].step
                              /\ steps[e][s] = "failed" => exec[e].phase = "threw"
        /\ exec[e].phase = "answered" =>
             /\ steps[e]["COMPLETE"] = "succeeded"
             /\ exec[e].hasEvent => steps[e]["CREATE_CALENDAR_EVENT"] = "succeeded"
             /\ exec[e].hasDraft => steps[e]["CREATE_DRAFT"] = "succeeded"
             /\ reviews[e] = exec[e].review
             /\ OutputAccepted(exec[e])
        /\ exec[e].phase = "threw" /\ exec[e].error = "permanent" =>
             steps[e][exec[e].step] = "failed"
=============================================================================
