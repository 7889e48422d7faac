----------------------------- MODULE LlmProvider -----------------------------
(***************************************************************************)
(* One call of OpenAiLlmProvider: generateStructured, with its second      *)
(* attempt after an invalid output, or runToolLoop, in which the model asks *)
(* for tools over several turns.  The answer of the model, the end of a    *)
(* tool, the timeout and the caller's cancellation race one another; a     *)
(* tool that loses the race is not stopped.  Every attempt is recorded in  *)
(* llm_invocations before the call answers.                                *)
(***************************************************************************)
EXTENDS Naturals, Sequences, FiniteSets

CONSTANTS
    Tools,      \* the names of the tools
    None,
    CallIds,    \* the ids the model may give to its calls
    Requests,   \* the requests of the callers
    MaxBatch    \* how many calls one response may contain

(* toolChoice: a tool by name, or one of these.                            *)
Choice == Tools \cup {"auto", "required", "unset"}

Request ==
    [kind: {"structured", "tools"}, tools: SUBSET Tools, required: SUBSET Tools,
     maxCalls: [Tools -> Nat], maxToolCalls: Nat, maxTurns: Nat, initialChoice: Choice]

ASSUME LlmAssumption ==
    /\ IsFiniteSet(Tools) /\ None \notin Tools
    /\ {"auto", "required", "unset"} \cap Tools = {}
    /\ Requests \subseteq Request
    /\ MaxBatch \in Nat

VARIABLES
    request,    \* what is asked for
    aborted,    \* the caller's AbortSignal
    pc, attempt, result,
    turn, batch, next,         \* the batch being executed, the call that is
    counts, toolCalls, seen,   \* completed calls: per tool, in total, their ids
    begun, started, running,   \* executions begun: per tool, in total; the one under way
    usage, aggregate, spent,   \* responses counted: this attempt, earlier ones, all there were
    records,    \* llm_invocations, one entry per attempt
    answer      \* what the caller gets

loopVars == <<turn, batch, next, counts, toolCalls, seen>>
toolVars == <<begun, started, running>>
logVars == <<aggregate, records, answer>>
vars == <<request, aborted, pc, attempt, result, loopVars, toolVars, usage, spent, logVars>>

(* A call with tool None has no name, names no tool of the request, or has *)
(* arguments its schema refuses.                                           *)
Call == [tool: Tools \cup {None}, id: CallIds]
Batches == UNION {[1..n -> Call] : n \in 1..MaxBatch}

Attempts == {1, 2}
Outcome == {"none", "completed", "needs_review", "invalid_output", "failed"}
Reviewed == {"refusal", "invalid_output"}
Errors == {"temporary", "permanent"}    \* AgentDependencyError, by its retryability
Result == {"none", "data"} \cup Reviewed \cup Errors

Init ==
    /\ request \in Requests
    /\ aborted \in BOOLEAN
    /\ pc = "called" /\ attempt = 1 /\ result = "none"
    /\ turn = 0 /\ batch = <<>> /\ next = 1
    /\ counts = [t \in Tools |-> 0] /\ toolCalls = 0 /\ seen = {}
    /\ begun = [t \in Tools |-> 0] /\ started = 0 /\ running = None
    /\ usage = 0 /\ aggregate = 0 /\ spent = 0
    /\ records = [a \in Attempts |-> [outcome |-> "none", usage |-> 0]]
    /\ answer = [status |-> "none", usage |-> 0]

-----------------------------------------------------------------------------
(* validateToolLoopRequest; the names of a set of tools are distinct.      *)
ValidRequest ==
    request.kind = "tools" =>
        /\ request.tools # {}
        /\ \A t \in request.tools : request.maxCalls[t] > 0
        /\ request.required \subseteq request.tools
        /\ request.initialChoice \in Tools => request.initialChoice \in request.tools
        /\ request.maxToolCalls > 0 /\ request.maxTurns > 0

\* Mutant of Remaining: tools that were called are asked for again.
RemainingAll == request.required

Remaining == {t \in request.required : counts[t] = 0}

ToolChoice ==
    IF turn = 0 /\ request.initialChoice # "unset" THEN request.initialChoice
    ELSE CASE Cardinality(Remaining) = 1 -> CHOOSE t \in Remaining : TRUE
           [] Cardinality(Remaining) > 1 -> "required"
           [] OTHER                      -> "auto"

CallsOf(b, from, t) == Cardinality({i \in from..Len(b) : b[i].tool = t})

\* Mutant of Acceptable: the calls of a batch are compared with the limits one by one.
AcceptableOneByOne(b) ==
    /\ toolCalls < request.maxToolCalls
    /\ \A i \in DOMAIN b : /\ b[i].tool \in request.tools /\ b[i].id \notin seen
                           /\ counts[b[i].tool] < request.maxCalls[b[i].tool]
    /\ \A i, k \in DOMAIN b : b[i].id = b[k].id => i = k

(* A batch is validated as a whole before any of its calls is executed.    *)
Acceptable(b) ==
    /\ toolCalls + Len(b) <= request.maxToolCalls
    /\ \A i \in DOMAIN b : b[i].tool \in request.tools /\ b[i].id \notin seen
    /\ \A i, k \in DOMAIN b : b[i].id = b[k].id => i = k
    /\ \A t \in request.tools : counts[t] + CallsOf(b, 1, t) <= request.maxCalls[t]

EndAttempt(r) == pc' = "recording" /\ result' = r

BeginCall(t) ==
    /\ begun' = [begun EXCEPT ![t] = begun[t] + 1]
    /\ started' = started + 1
    /\ running' = t

NextTurn ==
    /\ turn' = turn + 1
    /\ IF turn + 1 < request.maxTurns
       THEN pc' = "asking" /\ UNCHANGED result
       ELSE EndAttempt("invalid_output")

(* A signal that is already aborted ends the attempt before it asks.       *)
BeginAttempt ==
    IF aborted THEN EndAttempt("temporary") ELSE pc' = "asking" /\ result' = "none"

-----------------------------------------------------------------------------
(* An invalid request, or no API key: nothing is asked, nothing recorded.  *)
Reject(configured) ==
    /\ pc = "called"
    /\ ~ValidRequest \/ ~configured
    /\ pc' = "done"
    /\ answer' = [status |-> "permanent", usage |-> 0]
    /\ UNCHANGED <<request, aborted, attempt, result, loopVars, toolVars, usage, spent,
                   aggregate, records>>

Begin ==
    /\ pc = "called"
    /\ ValidRequest
    /\ BeginAttempt
    /\ UNCHANGED <<request, aborted, attempt, loopVars, toolVars, usage, spent, logVars>>

(* Every response that arrives is counted, whatever it says.               *)
Responds ==
    /\ pc = "asking"
    /\ usage' = usage + 1 /\ spent' = spent + 1
    /\ UNCHANGED <<request, aborted, attempt, logVars>>

(* The status is not "completed", or a refusal.                            *)
RespondUnusable(r) ==
    /\ Responds
    /\ EndAttempt(r)
    /\ UNCHANGED <<loopVars, toolVars>>

EveryRequiredTool == \A t \in request.required : counts[t] > 0

RespondMessage(parses) ==
    /\ Responds
    /\ EndAttempt(IF parses /\ (request.kind = "tools" => EveryRequiredTool)
                  THEN "data" ELSE "invalid_output")
    /\ UNCHANGED <<loopVars, toolVars>>

(* Neither a call nor a message (reasoning only) uses up a turn.           *)
RespondSilent ==
    /\ Responds
    /\ request.kind = "tools"
    /\ NextTurn
    /\ UNCHANGED <<batch, next, counts, toolCalls, seen, toolVars>>

RespondCalls(b) ==
    /\ Responds
    /\ request.kind = "tools"
    /\ IF Acceptable(b)
       THEN /\ pc' = "executing"
            /\ batch' = b /\ next' = 1
            /\ BeginCall(b[1].tool)
            /\ UNCHANGED <<turn, counts, toolCalls, seen, result>>
       ELSE EndAttempt("invalid_output") /\ UNCHANGED <<loopVars, toolVars>>

(* toOpenAiDependencyError, by HTTP status; 0 is a lost connection.        *)
Statuses == {0, 400, 401, 403, 404, 408, 409, 418, 422, 429, 500}
OpenAiError(status) ==
    IF status \in {0, 408, 409, 429} \/ status >= 500 THEN "temporary" ELSE "permanent"

OpenAiFails(status) ==
    /\ pc = "asking"
    /\ EndAttempt(OpenAiError(status))
    /\ UNCHANGED <<request, aborted, attempt, loopVars, toolVars, usage, spent, logVars>>

\* Mutant of GoOn: a call that was not the last of its batch ends it.
GoOnNever ==
    /\ NextTurn
    /\ running' = None
    /\ UNCHANGED <<batch, next, begun, started>>

(* After a call: the next one of the batch, or the next turn.              *)
GoOn ==
    IF next < Len(batch)
    THEN /\ next' = next + 1
         /\ BeginCall(batch[next + 1].tool)
         /\ UNCHANGED <<turn, batch, pc, result>>
    ELSE /\ NextTurn
         /\ running' = None
         /\ UNCHANGED <<batch, next, begun, started>>

(* The output of a tool may be too large, or no JSON: a permanent error.   *)
ToolReturns(serializable) ==
    /\ pc = "executing"
    /\ counts' = [counts EXCEPT ![running] = counts[running] + 1]
    /\ toolCalls' = toolCalls + 1
    /\ seen' = seen \cup {batch[next].id}
    /\ IF serializable
       THEN GoOn
       ELSE /\ EndAttempt("permanent")
            /\ running' = None
            /\ UNCHANGED <<turn, batch, next, begun, started>>
    /\ UNCHANGED <<request, aborted, attempt, usage, spent, logVars>>

ToolThrows(error) ==
    /\ pc = "executing"
    /\ EndAttempt(error)
    /\ running' = None
    /\ UNCHANGED <<request, aborted, attempt, loopVars, begun, started, usage, spent, logVars>>

\* Mutant of Racing: a tool is awaited for as long as it takes.
RacingModelOnly == pc = "asking"

(* What is raced against the timeout and the cancellation.                 *)
Racing == pc \in {"asking", "executing"}

Timeout ==
    /\ Racing
    /\ EndAttempt("temporary")
    /\ UNCHANGED <<request, aborted, attempt, loopVars, toolVars, usage, spent, logVars>>

(* The Job loses its lease, or the worker shuts down.                      *)
Abort ==
    /\ ~aborted
    /\ aborted' = TRUE
    /\ IF Racing THEN EndAttempt("temporary") ELSE UNCHANGED <<pc, result>>
    /\ UNCHANGED <<request, attempt, loopVars, toolVars, usage, spent, logVars>>

(* A tool that outlived its loop returns or throws; nobody is told.        *)
BackgroundToolEnds ==
    /\ pc # "executing" /\ running # None
    /\ running' = None
    /\ UNCHANGED <<request, aborted, pc, attempt, result, loopVars, begun, started,
                   usage, spent, logVars>>

-----------------------------------------------------------------------------
(* The first invalid output of generateStructured has a second attempt.    *)
Retried == request.kind = "structured" /\ result = "invalid_output" /\ attempt = 1

\* Mutant of OutcomeOf: the attempt that is retried has an outcome of its own.
OutcomeOfWaiting ==
    CASE result = "data"     -> "completed"
      [] result \in Errors   -> "failed"
      [] Retried             -> "retry_waiting"
      [] OTHER               -> "needs_review"

OutcomeOf ==
    CASE result = "data"     -> "completed"
      [] result \in Errors   -> "failed"
      [] Retried             -> "invalid_output"
      [] OTHER               -> "needs_review"

\* Mutant of RecordedUsage: the retried attempt is recorded as if it had cost nothing.
RecordedUsageOfLast == IF result \in Errors \/ Retried THEN 0 ELSE usage

(* A failed attempt is recorded with no usage at all.                      *)
RecordedUsage == IF result \in Errors THEN 0 ELSE usage

Recorded ==
    records' = [records EXCEPT ![attempt] = [outcome |-> OutcomeOf, usage |-> RecordedUsage]]

Record ==
    /\ pc = "recording"
    /\ Recorded
    /\ IF Retried
       THEN /\ attempt' = 2
            /\ aggregate' = aggregate + usage /\ usage' = 0
            /\ BeginAttempt
            /\ UNCHANGED answer
       ELSE /\ pc' = "done"
            /\ answer' = [status |-> result,
                          usage |-> IF result \in Errors THEN 0 ELSE aggregate + usage]
            /\ UNCHANGED <<attempt, result, aggregate, usage>>
    /\ UNCHANGED <<request, aborted, loopVars, toolVars, spent>>

(* The INSERT fails, or its answer is lost: a temporary error, whatever    *)
(* the attempt had come to.                                                *)
RecordFails ==
    /\ pc = "recording"
    /\ Recorded \/ UNCHANGED records
    /\ pc' = "done"
    /\ answer' = [status |-> "temporary", usage |-> 0]
    /\ UNCHANGED <<request, aborted, attempt, result, loopVars, toolVars, usage, spent, aggregate>>

Model ==
    \/ \E r \in Reviewed : RespondUnusable(r)
    \/ \E b \in BOOLEAN : RespondMessage(b)
    \/ RespondSilent
    \/ \E b \in Batches : RespondCalls(b)
    \/ \E status \in Statuses : OpenAiFails(status)

Tool ==
    \/ \E b \in BOOLEAN : ToolReturns(b)
    \/ \E error \in Errors : ToolThrows(error)
    \/ BackgroundToolEnds

Provider ==
    \/ \E b \in BOOLEAN : Reject(b)
    \/ Begin \/ Timeout \/ Record \/ RecordFails

Next == Model \/ Tool \/ Provider \/ Abort

Spec == Init /\ [][Next]_vars

(* Timers fire, and the database answers or fails; neither the model nor   *)
(* a tool owes an answer.                                                  *)
FairSpec == Spec /\ WF_vars(Provider)

-----------------------------------------------------------------------------
TypeOK ==
    /\ request \in Requests
    /\ aborted \in BOOLEAN
    /\ pc \in {"called", "asking", "executing", "recording", "done"}
    /\ attempt \in Attempts
    /\ result \in Result
    /\ turn \in Nat
    /\ batch \in Seq(Call)
    /\ next \in Nat
    /\ counts \in [Tools -> Nat] /\ toolCalls \in Nat /\ seen \subseteq CallIds
    /\ begun \in [Tools -> Nat] /\ started \in Nat /\ running \in Tools \cup {None}
    /\ usage \in Nat /\ aggregate \in Nat /\ spent \in Nat
    /\ records \in [Attempts -> [outcome: Outcome, usage: Nat]]
    /\ answer \in [status: Result, usage: Nat]

(* README.md: calls beyond the limits are refused.  No tool is executed    *)
(* more often than its maxCalls, and all of them not more often than       *)
(* maxToolCalls, although a call is counted only when it has returned and  *)
(* an execution whose loop was abandoned is never counted.                 *)
WithinLimits ==
    /\ \A t \in Tools : begun[t] > 0 => begun[t] <= request.maxCalls[t]
    /\ started > 0 => started <= request.maxToolCalls

(* A batch is executed as a whole or not at all: an attempt that the model *)
(* ended (with data, for a review, or by running out of turns) has no tool *)
(* under way, and every call it began is counted.  Only errors abandon one.*)
ModelEndsLeaveNothingRunning ==
    result \in {"data"} \cup Reviewed =>
        /\ running = None
        /\ begun = counts /\ started = toolCalls
        /\ next >= Len(batch)

(* technical-stack.md: token usage is kept in the history.  What the       *)
(* caller is told was recorded before, and all responses of all attempts   *)
(* are accounted for, in the answer and in the records; data is returned   *)
(* only after each required tool has returned.                             *)
AnswerIsAccountedFor ==
    answer.status \in {"data"} \cup Reviewed =>
        /\ records[attempt].outcome = (IF answer.status = "data" THEN "completed"
                                                                 ELSE "needs_review")
        /\ answer.usage = spent
        /\ records[1].usage + records[2].usage = spent
        /\ answer.status = "data" /\ request.kind = "tools" =>
             \A t \in request.required : begun[t] > 0

(* Room for every tool once, as both of the Agent's loops give it.         *)
Roomy == request.kind = "tools" /\ request.maxToolCalls >= Cardinality(request.tools)
            /\ \A t \in request.tools : request.maxCalls[t] = 1

(* The loop never forces the model into a call it would refuse: the tool   *)
(* the choice names, or one of those it may choose from, is within limits. *)
ChoiceCanBeHonoured ==
    pc = "asking" /\ Roomy =>
        /\ ToolChoice \in Tools => /\ counts[ToolChoice] < request.maxCalls[ToolChoice]
                                   /\ toolCalls < request.maxToolCalls
        /\ ToolChoice = "required" => \E t \in request.tools : counts[t] = 0

(* Only a first response that was invalid is worth a second attempt.       *)
SecondHasReason ==
    attempt = 2 => /\ request.kind = "structured"
                   /\ records[1].outcome = "invalid_output" /\ records[1].usage = 1

(* The responses that have to be paid for.  A loop asks at most maxTurns   *)
(* times, whether its turns end in tools or in silence; a structured       *)
(* request is asked twice at most.  No error, timeout or abort buys        *)
(* another response.                                                       *)
CostIsBounded ==
    /\ request.kind = "tools" => spent = 0 \/ spent <= request.maxTurns
    /\ request.kind = "structured" => spent <= attempt
    /\ SecondHasReason

(* README.md: model and tools are within one timeout.  The call answers,   *)
(* even if the model or a tool never does.                                 *)
CallAnswers == <>(pc = "done")
=============================================================================
