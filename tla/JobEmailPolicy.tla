--------------------------- MODULE JobEmailPolicy ---------------------------
(***************************************************************************)
(* What the Job-search e-mail Agent decides without asking anybody: which  *)
(* analyses of the LLM it accepts, and whether an accepted one leads to a  *)
(* reply draft, a calendar event, a review, or nothing.                    *)
(*                                                                         *)
(* Texts are abstracted to what the code tests: a name is present or null, *)
(* a time is a number (0: null), a confidence and a threshold are numbers, *)
(* and "unfounded" lists the facts that the thread does not contain.       *)
(***************************************************************************)
EXTENDS Naturals

CONSTANT None

Facts == {"company", "contact", "url", "time", "evidence"}

Analysis ==
    [isJobRelated: BOOLEAN,
     category: {"meeting_confirmed", "scheduling_request", "not_job_related", "general"},
     companyName: BOOLEAN, contactName: BOOLEAN, missing: BOOLEAN,
     needsReply: BOOLEAN, replyIntent: {"none", "submit_information", "accept"},
     isConfirmed: BOOLEAN, startAt: Nat, endAt: Nat,
     timezone: {"null", "valid", "invalid"},
     urlType: {"none", "web_meeting", "scheduling_page", "other"}, url: BOOLEAN,
     confidence: Nat, unfounded: SUBSET Facts]

ReplySettings == [createDrafts: BOOLEAN, threshold: Nat, identity: Nat]
CalendarSettings == [createCalendarEvents: BOOLEAN, threshold: Nat, validZone: BOOLEAN]

(* A row of agent_settings.  identity stands for the Google address, the   *)
(* signature and the name of the user; 0: no name.                         *)
SettingsRow ==
    [enabled: BOOLEAN, createDrafts: BOOLEAN, draftThreshold: Nat, identity: Nat,
     createCalendarEvents: BOOLEAN, calendarThreshold: Nat, validZone: BOOLEAN]

LlmReasons == {"llm_refusal", "llm_invalid_output"}
ReplyReasons ==
    {"reply_settings_missing", "reply_analysis_low_confidence", "reply_target_stale",
     "reply_headers_invalid", "reply_information_missing", "reply_low_confidence",
     "reply_warnings", "reply_llm_refusal", "reply_llm_invalid_output"}
CalendarReasons ==
    {"calendar_settings_missing", "calendar_datetime_invalid",
     "calendar_information_missing", "calendar_low_confidence", "calendar_conflict",
     "calendar_permission_missing", "calendar_policy_changed"}
ReviewReasons == LlmReasons \cup {"analysis_not_grounded"} \cup ReplyReasons \cup CalendarReasons

DraftKinds == {"generated", "scheduling_placeholder"}

-----------------------------------------------------------------------------
(* jobEmailAnalysisSchema. *)
ValidAnalysis(a) ==
    /\ a.isJobRelated <=> a.category # "not_job_related"
    /\ a.needsReply <=> a.replyIntent # "none"
    /\ a.isConfirmed <=> a.category = "meeting_confirmed"
    /\ a.isConfirmed => a.startAt # 0
    /\ a.url <=> a.urlType # "none"
    /\ a.isConfirmed => a.urlType # "scheduling_page"
    /\ a.startAt # 0 /\ a.endAt # 0 => a.endAt > a.startAt
    /\ a.startAt = 0 => a.endAt = 0
    /\ a.startAt # 0 <=> a.timezone # "null"
    /\ ~a.isJobRelated => /\ ~a.companyName /\ ~a.contactName /\ ~a.missing
                          /\ a.startAt = 0 /\ ~a.url

\* Mutant of Normalize: the intent of the reply is left as it is.
NormalizeReplyOnly(a) ==
    IF a.category = "scheduling_request" THEN [a EXCEPT !.needsReply = TRUE] ELSE a

(* A scheduling request needs a reply, whatever the LLM says.              *)
Normalize(a) ==
    IF a.category = "scheduling_request" /\ ~a.needsReply
    THEN [a EXCEPT !.needsReply = TRUE, !.replyIntent = "submit_information"]
    ELSE a

(* validateAnalysisGrounding: the facts that must be found in the thread.  *)
Claims(a) ==
    {"evidence"}
    \cup (IF a.companyName THEN {"company"} ELSE {})
    \cup (IF a.contactName THEN {"contact"} ELSE {})
    \cup (IF a.url THEN {"url"} ELSE {})
    \cup (IF a.isConfirmed /\ a.startAt # 0 /\ a.endAt # 0 THEN {"time"} ELSE {})

Grounded(a) == Claims(a) \cap a.unfounded = {}

-----------------------------------------------------------------------------
(* getReplySettings and getCalendarSettings read the same row.             *)
ReplySettingsOf(row) ==
    IF row = None THEN None
    ELSE [createDrafts |-> row.enabled /\ row.createDrafts,
          threshold |-> row.draftThreshold, identity |-> row.identity]

CalendarSettingsOf(row) ==
    IF row = None THEN None
    ELSE [createCalendarEvents |-> row.enabled /\ row.createCalendarEvents,
          threshold |-> row.calendarThreshold, validZone |-> row.validZone]

(* prepareReplyAction answers the kind of draft, "not_applicable", or why  *)
(* a person has to look.                                                   *)
ReplyPolicy(a, s, latest, safeHeaders) ==
    IF ~a.needsReply /\ a.category # "scheduling_request" THEN "not_applicable"
    ELSE IF s = None                    THEN "reply_settings_missing"
    ELSE IF ~s.createDrafts             THEN "not_applicable"
    ELSE IF s.identity = 0              THEN "reply_settings_missing"
    ELSE IF a.confidence < s.threshold  THEN "reply_analysis_low_confidence"
    ELSE IF ~latest                     THEN "reply_target_stale"
    ELSE IF ~safeHeaders                THEN "reply_headers_invalid"
    ELSE IF a.category = "scheduling_request" THEN "scheduling_placeholder"
    ELSE IF a.missing                   THEN "reply_information_missing"
    ELSE "generated"

(* executeGuardedDraft, up to its second look at the thread: the settings  *)
(* it acts on, those of now, and what the LLM says of its own reply.       *)
GuardPolicy(a, kind, s, now, reply) ==
    IF now = None THEN "reply_settings_missing"
    ELSE IF ~now.createDrafts \/ now.identity = 0 \/ now.identity # s.identity
                                       THEN "reply_settings_missing"
    ELSE IF a.confidence < now.threshold THEN "reply_analysis_low_confidence"
    ELSE IF kind = "generated" /\ reply.confidence < now.threshold
                                       THEN "reply_low_confidence"
    ELSE IF kind = "generated" /\ reply.warnings THEN "reply_warnings"
    ELSE "ready"

(* prepareCalendarAction, before it looks at the calendar.                 *)
CalendarPolicy(a, s) ==
    IF ~a.isConfirmed                 THEN "not_applicable"
    ELSE IF s = None                  THEN "calendar_settings_missing"
    ELSE IF ~s.createCalendarEvents   THEN "not_applicable"
    ELSE IF ~s.validZone              THEN "calendar_datetime_invalid"
    ELSE IF ~a.companyName \/ a.endAt = 0 \/ a.urlType # "web_meeting"
                                      THEN "calendar_information_missing"
    ELSE IF a.confidence < s.threshold THEN "calendar_low_confidence"
    ELSE IF a.timezone = "invalid"    THEN "calendar_datetime_invalid"
    ELSE "ready"

\* Mutant of CalendarRecheck: it answers like prepareCalendarAction.
CalendarRecheckAsPolicy(a, s) ==
    IF s = None THEN "calendar_settings_missing"
    ELSE IF s.createCalendarEvents /\ s.validZone /\ a.confidence >= s.threshold THEN "ready"
    ELSE "not_applicable"

\* Mutant of CalendarRecheck: a confidence at the threshold is refused.
CalendarRecheckStrict(a, s) ==
    IF s = None THEN "calendar_settings_missing"
    ELSE IF s.createCalendarEvents /\ s.validZone /\ a.confidence > s.threshold THEN "ready"
    ELSE "calendar_policy_changed"

(* revalidateCalendarAction, before it looks at the calendar.              *)
CalendarRecheck(a, s) ==
    IF s = None THEN "calendar_settings_missing"
    ELSE IF s.createCalendarEvents /\ s.validZone /\ a.confidence >= s.threshold THEN "ready"
    ELSE "calendar_policy_changed"
=============================================================================
