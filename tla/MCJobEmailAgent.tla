-------------------------- MODULE MCJobEmailAgent --------------------------
(* Model-checking instance of JobEmailAgent: what the LLM and the user do. *)
EXTENDS JobEmailAgent, TLC

\* A confirmed web meeting that asks for no reply.
Meeting ==
    [isJobRelated |-> TRUE, category |-> "meeting_confirmed", companyName |-> TRUE,
     contactName |-> FALSE, missing |-> FALSE, needsReply |-> FALSE, replyIntent |-> "none",
     isConfirmed |-> TRUE, startAt |-> 1, endAt |-> 2, timezone |-> "valid",
     urlType |-> "web_meeting", url |-> TRUE, confidence |-> 1, unfounded |-> {}]

MeetingWithReply == [Meeting EXCEPT !.needsReply = TRUE, !.replyIntent = "accept"]

\* The meeting lacks its end, and the reply lacks something too.
MeetingIncomplete == [MeetingWithReply EXCEPT !.endAt = 0, !.missing = TRUE]

\* A question about dates that the LLM takes for information.
Scheduling ==
    [Meeting EXCEPT !.category = "scheduling_request", !.isConfirmed = FALSE, !.startAt = 0,
                    !.endAt = 0, !.timezone = "null", !.urlType = "none", !.url = FALSE]

Unrelated ==
    [Scheduling EXCEPT !.isJobRelated = FALSE, !.category = "not_job_related",
                       !.companyName = FALSE]

Invalid == [Meeting EXCEPT !.startAt = 3]
Invented == [Scheduling EXCEPT !.unfounded = {"company"}]

MCAnalyses ==
    {Meeting, MeetingWithReply, MeetingIncomplete, Scheduling, Unrelated, Invalid, Invented}

MCReplies == {[confidence |-> 1, warnings |-> FALSE], [confidence |-> 0, warnings |-> FALSE]}

On == [enabled |-> TRUE, createDrafts |-> TRUE, draftThreshold |-> 1, identity |-> 1,
       createCalendarEvents |-> TRUE, calendarThreshold |-> 1, validZone |-> TRUE]
\* Neither the event nor the reply of any of the analyses is confident enough.
Strict == [On EXCEPT !.calendarThreshold = 2, !.draftThreshold = 2]

MCSettingsRows == {On, Strict}

Symmetry == Permutations(Jobs) \cup Permutations(Executions \ Followed)
=============================================================================
