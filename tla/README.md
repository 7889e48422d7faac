# Verification of the AI Agents runtime

TLA+ models, TLC runs and TLAPS proofs for the runtime of this repository: the
PostgreSQL job queue, the worker processes that execute Agents, the poller that
turns e-mail into Jobs, the LLM client, the job-search e-mail Agent with the
drafts and calendar events it writes, and the Google connection whose access
tokens it uses. The models are translated from the
TypeScript source; the line ranges behind each definition are in `PROJECT.json`
(`map`).

## 1. The system

An API process and one or more worker processes share a
PostgreSQL database. A Job is enqueued by the API (on demand) or by the Gmail
poller of a worker; a worker claims it, runs an Agent through the
`AgentRunner`, and writes the outcome back. The one real Agent,
`job-search-email`, reads an e-mail, asks an LLM for an analysis and for tool
calls, and creates Gmail drafts and Calendar events.

| Component | Where | State | Operations | Interacts with |
|---|---|---|---|---|
| Job queue | `packages/database/src/postgres-job-queue.ts` | `agent_jobs` (status, attempts, available_at, locked_by, locked_at, error) | enqueue, claimNext (recoverStaleJobs + claim), complete, extendLease, release, fail, recoverStaleJobs | API, poller, workers (SQL) |
| Run table | `packages/database/src/postgres-agent-run.ts` | `agent_runs`, `agent_run_steps` | startRun, completeRun, failRun, startStep, completeStep, failStep | Agent runner; the queue closes runs of Jobs that lose their lease |
| Agent runner | `packages/agent-core/src/agent-runner.ts` | none of its own | run: validate, startRun, execute, completeRun or failRun | called by the worker |
| Worker | `apps/worker/src/worker.ts` | worker id, active polls, first poll failure; per execution: abort signal, lease timer, heartbeat, leaseLost | poll, processNextJob, heartbeat, lease expiry, stop | queue, runner |
| Reply draft | `agents/job-search-email/src/reply-action.ts`, `postgres-job-email-draft.ts` | `job_email_drafts` row per e-mail; drafts in Gmail | reserve, verify, reopen, search, create, record | Gmail, queue (status of the owning Job) |
| Calendar event | `calendar-action.ts`, `postgres-job-email-calendar.ts` | `job_calendar_events` row per e-mail, events in Calendar | prepare, reserve, re-check, create, record | Calendar, queue (status of the owning Job) |
| Agent pipeline | `agents/job-search-email/src/index.ts`, `run-step-tracker.ts` | steps of a run (`agent_run_steps`), analysis, review requests | run, trackStep, the policies and checks before each write | LLM, settings, the two above |
| LLM client | `packages/llm/src/index.ts` | turn and call counters, `llm_invocations` | generateStructured, runToolLoop | OpenAI, tools |
| Tokens and OAuth | `packages/google-oauth/src/index.ts`, `postgres-google-oauth.ts`, `apps/api/src/routes/oauth.ts` | connection row, OAuth states, per-process token cache and refreshes in flight | getAccessToken, invalidateAccessToken, begin, complete, cancel | Google, connectors |
| Connectors | `packages/connector-google/src/index.ts` | none | Gmail and Calendar requests, retry after 401 | Google |
| Gmail poller | `apps/worker/src/gmail-poller.ts`, `scheduled-gmail-poll.ts` | per process: current poll, stopping flag; per poll: page, threads seen | interval, pollNow, stop, one poll of every connection | Gmail, settings, queue.enqueue; the set-up page runs the same poll |
| Retention | `apps/worker/src/data-retention.ts`, `postgres-data-retention.ts` | none | deleteExpired | deletes ended Jobs without a pending review (cascading), OAuth states, errors |
| API and pages | `apps/api/src/*` | none | enqueue, render | queue, OAuth |
| Registry, config, prompts | `packages/agent-core/src/agent-registry.ts`, `packages/config`, ... | filled at start-up | - | - |

What is hard about it: executions of one Job overlap, because a lease that
expires does not stop the execution that held it; a connection can break after a
statement was applied; a process can crash anywhere; two systems (PostgreSQL and
Google) are written without a common transaction; the LLM may decide differently
each time; timers, heartbeats, polls and `stop()` interleave in one process.

What makes each part correct:

- **Queue**: attempts never exceed `maxAttempts`, an ended Job stays ended
  unless it is requeued after a transient failure.
- **Worker and runner**: the Agent runs at most `maxAttempts` times per Job; a
  Job is completed only after a run was; only the execution that holds the lease
  ends the Job; every Job ends; a clean stop leaves no lock and `stop()` returns.
- **Reply draft**: one draft of a kind per e-mail as far as the search in Gmail can see to
  it, and the recorded draft is the one that exists; **Calendar event**: reserved before it is created, and what is recorded
  or reported is in the calendar.
- **Agent pipeline**: every check comes before the first write; what the run is
  reported to have ended with agrees with its steps and its review request.
- **LLM client**: the limits on tools hold although tools are counted only when
  they return; all usage is accounted for; a call answers whatever hangs.
- **Tokens**: a connection is marked for re-authorization only when Google
  rejected what it holds; an OAuth state is used once.
- **Poller, retention**: each message becomes one Job, whoever polls and whatever
  is deleted; no message is missed within the limits of a poll; polls of one
  process do not overlap.

## 2. Modules

| Module | Models | Extends |
|---|---|---|
| `JobQueue` | every statement on `agent_jobs` and `agent_runs` | |
| `Worker` | worker processes, slots, runner, heartbeat, timers, stop, crash, over `JobQueue` | `JobQueue` |
| `JobService` | abstract promise of queue and workers to a client | |
| `WorkerLease` | `Worker` plus a history variable: who made the claim | `Worker` |
| `JobLease` | abstract contract of a lease, between the workers and what runs inside an execution | |
| `DraftReservation` | the draft row, Gmail, and `createDraft` by overlapping executions | |
| `GoogleConnection` | the OAuth flows, the connection row, and the token service of every process with its callers | |
| `LlmProvider` | one call of the LLM client: structured output or a loop with tools | |
| `JobEmailPolicy` | the pure decisions of the Agent: schema, normalization, grounding, policies | |
| `CalendarReservation` | the calendar row, the event in Calendar, and overlapping executions that write it | `JobEmailPolicy` |
| `EventContract` | abstract contract of the executions about the event of one e-mail | |
| `JobEmailAgent` | one execution of the Agent step by step, over `CalendarReservation` | `CalendarReservation` |
| `GmailIntake` | pollers, submissions of the set-up page, `enqueue` by key, retention | |
| `MC*` | symmetry sets, requests and analyses for TLC | the module they check |
| `JobQueueProofs`, `WorkerProofs`, `WorkerServiceProofs`, `DraftReservationProofs`, `GoogleConnectionProofs`, `LlmProviderProofs`, `GmailIntakeProofs`, `JobEmailAgentProofs` | theorems and proofs | the module they prove about |

### JobQueue

One action per statement: `Enqueue`, `Requeue`, `Claim`, `Complete`,
`ExtendLease`, `Release`, `Fail`, `RecoverStaleJobs`, `StartRun`, `CompleteRun`,
`FailRun`. `fail` and `recoverStaleJobs` also close the running runs of the Jobs
they touch (`WithRunsFailed`), as the code does in the same transaction or
statement. Time is reduced to the two comparisons the SQL makes: `available`
(`available_at <= NOW()`) and `expired` (`locked_at` older than the lock
timeout), turned on by `BecomeAvailable` and `LeaseExpires`. `FOR UPDATE SKIP
LOCKED` is the parameter `skipped` of `Claim`: the rows that concurrent claims
hold. Error codes are reduced to whether they allow a requeue. Nothing restricts
who calls a statement; every worker id may try each at any time.

`Requeue` (enqueue with `retryFailed`) exists here only: no caller under
`apps/` passes `retryFailed: true` (`scheduled-gmail-poll.ts:95` passes
`false`), so the workers' composition leaves it out.

### Worker

`slots[<<w, i>>]` is one call of `processNextJob`, with a program counter:

```
idle -> recovering -> claiming -> claimed -> starting -> executing -> ran
                                     |                                |-> completing -> idle
                                     '-> releasing -> idle            |-> failing    -> idle
                                                                      '-> idle (lease lost)
```

Each `await` of a database call is a step of its own, so anything may happen
between two of them. A call has up to three outcomes: applied and answered,
applied with the answer lost, not applied. `leaseLost` is set by a refused
heartbeat or by the local timer, independently of what the database thinks; no
order between the local timer and the lock timeout is assumed, because the timer
is armed when the answer arrives and the lock counts from the statement's
`NOW()`. `stop()` may come between a claim's recovery and its claim, or before
its answer. A process that restarts takes a fresh id (`worker.ts:57`), so an id is
used once: `unborn`, `polling`, `stopping`, then `exited` or `crashed`. A
statement in flight when its process crashes is covered by the crash being
ordered after it. `pollFailure` is the error `stop()` throws on; `lostLease` is a
history flag, used only in the hypothesis of `CleanExitLeavesNoLock`.

### JobService

Per Job: an outcome (`none`, `pending`, `completed`, `failed`), how many runs
started, whether one completed. The refinement (`Service` in `Worker`) maps the
three waiting statuses to `pending`, and counts the rows of `agent_runs`.

### WorkerLease

`holder[j]` is the slot that made the claim `j` is processing under. The code
cannot see this: a row has only the id of the whole process.

### JobLease

The common ground of `Worker` and `DraftReservation`: a lease goes to one holder, while
its Job is open; a Job completes only under a lease; leases lapse, several at once when
stale Jobs are recovered, with or without the end of their Job. `WorkerLease` maps the
holder to the slot that made the claim and every status that is not an end to
`active`; `DraftReservation` maps its own `jobs` and `holder`. That both implement it
is what justifies the reduction of the queue in `DraftReservation`.

### DraftReservation

One e-mail. `row` is its `job_email_drafts` row, `drafts` what is in Gmail, and
`exec[e]` one execution of `createDraft`, whose program counter has one value per
call: two statements of `reserve`, the look-up of a recorded draft, the
reopening, the search, the creation, two statements of `complete`. A key stands
for the kind of draft the LLM's analysis asked for (`reply-action.ts:73-92`); each
attempt may choose another. Jobs and leases are reduced to what `createDraft` can
tell: the status of a Job, and who holds its lease. `Detach` covers a lease that
is recovered and a tool loop that times out; in both cases `createDraft` goes on
in the background. `leased` records, for the properties, which drafts were
asked for by an execution that held its lease.

A request to create a draft that is given up by the connector's timeout
(`connector-google/src/index.ts:588`), or whose process dies, may still be carried out:
then, later, or never. `late` holds the requests that may still be; `LateCreate` carries one
out. `overtaken` is a history variable: the drafts that came when another execution had a
draft of the same key or had searched for one in vain. No step reads it.

### GoogleConnection

One Google account. An authorization `a` of `Auths` stands for an OAuth state, the
code Google answers it with and the refresh token the code may bring; `grants[a]`
is that refresh token as Google (`valid`, `revoked`) and the cipher (`unreadable`
after a change of key) see it. A callback (`handlers[h]`) consumes the state,
exchanges the code and saves the connection in three steps that can overlap with
those of another delivery of the same callback, and can fail after each.

`refreshes[<<p, scope>>]` is the promise in `#inFlightRefreshes` of process `p`:

```
idle -> loading -> exchanging -> settling -> idle
           |           '-> marking -^
           '-> marking -^     (and settling from anywhere, when a call fails)
```

`settling` is the time between Google's answer, or the answer of the last
statement, and its arrival; `Settle` then fills the cache, removes the promise and
resumes every call that waits for it. No other code than the continuations of the
promise runs between these three in the process, so they are one step. `calls[c]`
is one `withAccessToken` of a connector, with its one retry after a 401. What a
token carries (`tokens[t]`) is the grant and the scopes it was refreshed with; it
stops being `live` when it expires or its grant is revoked. Each refresh is answered
with a token of its own, as Google does. A state that `deleteExpired` has removed
is `expired`.

### LlmProvider

One call, for one of `Requests` (its kind, its tools and their limits). An attempt
is `asking` (a response is awaited) or `executing` (a tool is); then `recording`,
the statement that writes `llm_invocations`; the first attempt of a structured
call that came to an invalid output is followed by a second. In a loop, a response
with calls is validated as a whole (`Acceptable`), its calls are executed one after
the other, and counted as they return (`counts`, `toolCalls`, `seen`, the code's
own counters). `Timeout` and `Abort` end the attempt while either is awaited; the
tool goes on (`BackgroundToolEnds`). History variables: `begun` and `started` count
executions as they begin, and `spent` counts responses; no step reads them. Token
counts are reduced to the number of responses. Error codes are reduced to whether
they are retryable (`OpenAiError`).

### JobEmailPolicy

Operators only: the schema of an analysis, `Normalize`, `Grounded`, and the
decisions `ReplyPolicy`, `GuardPolicy`, `CalendarPolicy` and `CalendarRecheck`, each
in the order of the early returns of its function. An analysis is a record of the
facts these ask for: a confidence is a number that is compared with a threshold, a
date a number that is compared with another, a text is there or not, and
`unfounded` says what of it cannot be found in the thread.

### CalendarReservation

One e-mail, whose event id and key are derived from it, so they never change.
`cal[e]` is one call of `prepareCalendarAction` (`writing` false) or
`createCalendarEvent` (true); its program counter has one value per request or
statement:

```
finding --(there is none)--> comparing --> returned     prepareCalendarAction
finding --(it is there)----> reserving --> recording    createCalendarEvent
comparing ------------------> reserving --> creating --> recording --> returned
creating --(refused: the id exists)--> refinding --> recording
```

`late` is a creation that the caller has given up and Calendar carries out later.
A Job fails or completes while its executions may still run (`JobEnds`), which
matters to the upsert of the row.

### EventContract

What the calendar row, the event and the Jobs show of all this from outside: `Take`,
`Put`, `Record` and the end of a Job. Requests and their answers, and what an execution
knows, are not in it. `CalendarReservation` implements it (`KeepsEventContract`), and
so does `JobEmailAgent`, in which some of the executions are followed in full.

### JobEmailAgent

`exec[e]` is one execution: its step, the phase of that step, and what earlier
steps have found out. `trackStep` is three phases: `starting`, its operation, and
`completing` or `failing`; each is a statement that may fail, or be applied and its
answer lost, in which case the code records the failure of a step that has
succeeded, or throws another error than the one it met. While an operation calls
Calendar its phase is `looking`, and `CalendarReservation` takes the steps. The
draft tool (`tool`, `outcome`) runs beside the loop that called it: `LoopFails` (a
timeout, or OpenAI) ends the loop while the tool writes. Executions outside
`Followed` only write the event of the same e-mail, as another Job or an earlier
attempt would. The user may change the settings, and a new message may arrive in
the thread, between any two steps.

### GmailIntake

`pollers[p]` is `startGmailPoller` of a process (`current` is `currentPoll`);
`polls[q]` is one execution of `enqueueScheduledGmailPoll`, by a poller or by a
submission of the set-up page. It waits for the settings of a connection, for a
page of messages, or for one `enqueue`. Messages of an account are numbered as they
arrive and have a thread; `oldest` is how many the search (one day) no longer
finds, so a page is an interval of numbers. `jobs` holds the idempotency keys that
have a row, `made` counts the rows each key has had. `enqueue` is one step here: what
the poll relies on is the unique key, and that either answer means the request is
accepted. Each way a call can fail is an action of its own (`...Fails`) counted by
`MaxMishaps`, as is each change of a connection or a setting. `DeleteExpired`
removes any rows that may be removed, in one statement. `Expired` says when: as long after
the end of the Job as the retention is set to, and by then neither the search nor a page that
a poll still has in hand contains its message. That is an assumption about the settings: it
holds by default (90 days, `newer_than:1d`), but `OPERATIONAL_DATA_RETENTION_DAYS` and
`GMAIL_LOOKBACK_QUERY` can both be set and nothing compares them
(`packages/config/src/index.ts:29-78`). `OneJobPerMessage` is checked and proved under it;
with a search that reaches further back than the retention, a message becomes a second Job.

## 3. What the runs check

| Run | Instance | States | Checks |
|---|---|---|---|
| `queue` | 2 Jobs, 2 worker ids, 2 runs, 2 attempts | 11,307 | `QueueTypeOK`, `AttemptsBounded`, `OutcomeIsFinal` |
| `worker` | 2 processes of 1 slot, 1 Job, 3 runs, 2 attempts | 275,932 | `TypeOK`, `RunsPaidFor`, `AtMostMaxAttemptsRuns`, `CleanExitLeavesNoLock`, `ImplementsService`, `OnlyHolderFinalizes`, `ImplementsLease` |
| `worker_live` | 2 processes of 1 slot, 1 attempt, fairness | 30,503 | `EveryJobEnds` |
| `worker_stop` | 1 process of 2 slots, 2 attempts, fairness | 98,424 | `CompletedJobHasCompletedRun`, `EveryJobEnds`, `StopTerminates` |
| `worker_lease_shared` | 1 process of 2 slots | violation | `OnlyHolderFinalizes` |
| `draft` | 2 Jobs, 3 executions, 2 keys, 1 removal | 2,478,583 | `TypeOK`, `RecordedDraftIsReal`, `OneLeasedDraftOfKey`, `ExclusiveReservation` |
| `draft_overlap` | 1 Job, 2 executions, 1 key | violation | `OneDraft` |
| `draft_rekey` | 1 Job, 2 executions, 2 keys | violation | `OneLeasedDraft` |
| `google` | 2 authorizations, 2 callbacks, 1 process, 2 calls, 2 tokens, 2 scopes | 542,293 | `TypeOK`, `CodeExchangedOnce`, `ReauthOnlyIfRejected`, `ScopesServed`, `RetryUsesNewToken`, `RefusedOnlyIfUnusable` |
| `llm` | 5 requests, 2 tools, 3 call ids, batches of 2, fairness | 25,110 | `TypeOK`, `WithinLimits`, `ModelEndsLeaveNothingRunning`, `AnswerIsAccountedFor`, `ChoiceCanBeHonoured`, `CallAnswers` |
| `agent` | 2 Jobs, 1 execution in full and 1 other, 7 analyses, 2 settings rows, 1 change | 2,743,059 | `TypeOK`, `RecordedEventIsReal`, `WritesAfterChecks`, `ChangesAreReal`, `TraceTellsOutcome` |
| `intake` | 2 accounts, 1 poller with 2 polls, 1 submission, pages of 1, 2 messages, 1 mishap, fairness | 401,863 | `TypeOK`, `OneJobPerMessage`, `OnePollPerPoller`, `PollMissesNothing`, `NoMessageWaitsForEver` |

Why these sizes. Jobs do not influence each other except through the order of
claims (`queue` has two); what is hard happens between executions of one Job, so
the worker runs have one Job and two concurrent executions, in different
processes (`worker`) or in the same one (`worker_stop`), with an attempt to
retry. `worker` has one run more than the attempts: `AtMostMaxAttemptsRuns` could
be violated if the code allowed it.
Drafts need three executions: one that is interrupted, one that overlaps, one
that comes after. The bounds are `NumJobs`, `Runs`, `MaxAttempts`, `Workers`
(each id is used once, so it also bounds restarts), `Executions`, `MaxRemovals`. In
`google`, two authorizations are the one that is being refreshed and the one that
replaces it; two callbacks deliver one of them twice, or both at once; two scopes
make two refreshes of one process overlap and overwrite each other's cache entry;
two tokens are the rejected one and its replacement. Processes share nothing but
the row, to which the second authorization already writes behind the back of a
refresh; the proofs are for any number of them.

`llm` has the two loops of the Agent (both tools required with a forced first
choice; one tool and two turns), a loop whose total limit is below the sum of those
of its tools and whose turns run out, a choice that names an unknown tool, and a
structured output. Batches of two calls and three ids are enough for a repeated id,
within a batch and across two, and for a batch that passes a limit only as a whole.

`agent` follows one execution in every detail; what another does to it goes through
the calendar and the row (the other execution, of the same Job or of the other), and
what the user does through settings, thread and calendar. The analyses are one of
each kind the policies tell apart: a meeting with and without a reply, one that lacks
its end, a scheduling request the LLM took for information, an unrelated e-mail that
still asks for a reply, one the schema refuses and one that is not grounded. The two
settings rows differ in both thresholds, so a change makes the second check of the event
and that of the reply refuse what the first has accepted.

`intake` lets the poller of a process and a submission poll two accounts at once,
with one thing that goes wrong. One message per page and two pages make a thread
span pages and a message arrive or grow old between them. Three things do not bite at
this size: the reset button (`Resets` is empty), a limit of pages and a limit of
threads below the number of messages. `OneJobPerMessage`, `OnePollPerPoller` and
`PollMissesNothing` are proved for all sizes, with resets and limits.

`CHECK_DEADLOCK FALSE` is stated where all Jobs may have ended and all processes
may be gone, or where all executions have been used up, or where no authorization
and no token is left, or where the call has been answered, or where all pollers are
gone and no more messages arrive: the system may really stop there. `queue` checks
for deadlock.

`OneLeasedDraftOfKey` and `ExclusiveReservation` have the hypothesis that no draft was
removed, or that only one Job is about the e-mail. Without it they do not hold:
with two Jobs, a removed draft reopens the row, an execution that lost its lease
can complete the row late, and two executions that hold their leases both create.
`OneLeasedDraftOfKey` and `OneLeasedDraft` except the drafts that are `overtaken` (section
"Where the code disagrees"); a late draft that came before the search of a retry is not
excepted, the retry must find it.

### Fairness

`FairSpec` of `Worker` assumes:

- weak fairness of each slot's own steps: the poll runs on an interval
  (`worker.ts:203`), and every request of the Agent to Google or the LLM has a
  timeout, so an execution that can go on does;
- strong fairness of "some recovery" and "some claim" over all slots: the
  database does not fail for ever, and a claim skips the last row (`SKIP LOCKED`)
  only because another claim holds it;
- weak fairness of the clock (a delay passes, a lease expires) and of the exit of
  a process whose executions are over.

Nothing is assumed of heartbeats, timers, stops, crashes or starts.
`EveryJobEnds` therefore has the hypothesis that some worker eventually stays up
(in deployment, `restart: unless-stopped`).

`FairSpec` of `LlmProvider` is weak fairness of the provider's own steps: the timeout
fires, and the statement that records an attempt returns or fails. Neither the model
nor a tool has to answer.

`Fairness` of `GmailIntake` is weak fairness of the steps of each poll of a poller
and of its `finally` handler, of the interval and of the end of `stop()`: every
request to Gmail has a timeout and every statement returns. A poll whose calls may fail
for ever would settle and be started again for ever; failures are therefore bounded by
`MaxMishaps`, which is the assumption that connection problems end. Nothing is assumed of
submissions of the set-up page, stops, crashes, messages or the retention.
`NoMessageWaitsForEver` speaks of a message only while some poller stays on and the
message is within the limits of a poll (`Wanted`); one that is not is never promised
anything: polls begin at the newest message, so while more than `maxMessages` threads
are new, older ones are not reached, and after a day the search does not find them.

### Where the code disagrees with its documents

1. `worker_lease_shared`: a statement of an execution that lost its lease still
   matches when another slot of the same process has claimed the Job since, because
   `locked_by` is the id of the process (`postgres-job-queue.ts:187`). With one slot
   per process the property holds (`worker`).
2. `draft_overlap`: search and creation are two requests, and the abort signal is
   not looked at in between (`reply-action.ts:387-405`); an execution that lost its
   lease creates a second draft. `specification.md:310` promises the opposite.
3. `draft_rekey`: the search goes by a Message-ID derived from the key, and the key
   contains the kind of draft; a retry with another analysis does not find the
   draft of the interrupted attempt.

Met while translating, and not made a run of (the first makes the same promise fail as
`draft_overlap`, the second has the same cause as `draft_rekey`, the others are about one
step or about wording):

- A creation that the connector gives up after its timeout
  (`connector-google/src/index.ts:588-617`, called at `reply-action.ts:395`) may be carried
  out by Gmail after the search of the retry has found nothing; the thread then has two
  drafts of one key although every execution held its lease. `specification.md:310` promises
  the opposite. `DraftReservation` contains it: `CreateDraft` that is given up, `Settle`,
  then `Begin`, `Reserve`, `Search` of the retry, `LateCreate`, `CreateDraft`. An event
  cannot be doubled that way, since Calendar refuses a second one with the same id.
- A completed row is looked up with the present key and reopened only under its own,
  so with another kind of draft a Job fails on every retry
  (`postgres-job-email-draft.ts:131`), where `README.md:90` says a draft that is gone is
  created again. `DraftReservation` contains it.
- A run that created the event and is then left to a person because of its reply
  answers `needs_review` with a `calendarEventId` (`index.ts:316-323`);
  `specification.md:137` allows an id only with `completed`. `JobEmailAgent` contains it.
- `analysis` is also null for `analysis_not_grounded` (`index.ts:182-185`);
  `specification.md:136` names only a refusal and an invalid output of the LLM.
- The event is written before the draft; `specification.md:316-324` lists the steps
  in the opposite order.
- If the retention deletes the row between the INSERT and the SELECT of `enqueue`, the
  caller is told of a conflict that does not exist (`postgres-job-queue.ts:122`;
  `implementation-plan.md:968` gives 409 for a different input only). It takes a request
  older than the retention period, which `Expired` excludes.

## 4. What is proved

The theorems hold for every value of the constants under the named assumptions
`QueueAssumption`, `WorkerAssumption`, `DraftAssumption`, `ConnectionAssumption`,
`LlmAssumption`, `CalendarAssumption`, `AgentAssumption` and `IntakeAssumption`:
numbers are numbers, limits and slots are at least one, `None` values are none of
the others, and executions, tools and accounts are finitely many. TLC evaluates each
of them on every run.

- `QueueTypeCorrect`, `QueueAttemptsBounded`, `QueueOutcomeIsFinal`
  (`JobQueueProofs`). `AttemptsBounded` is inductive as it stands: its second
  conjunct (a waiting Job has an attempt left) is the reason `claimNext` need not
  compare, and its third (a processing Job has used one) the reason `release` may
  subtract.
- `TypeCorrect` (`WorkerProofs`), from the invariant `Core`: types, `SlotsOK` (what
  a slot remembers is in the tables: its Job exists, its run belongs to its Job, an
  execution with an output has a completed run), `RunsOK` and `AbsentOK` (a row that
  is absent is empty).
- `WorkersUseTheQueue`: every behaviour of `Worker` is one of `JobQueue`, which
  carries the queue's theorems over.
- `RunsArePaidFor`, `RunsAreBounded`. The invariant is `AllPaid`: runs plus claims
  that may still create one are at most `attempts`. It needs the claims: without
  them the step that creates a run is not inductive, and `release` would be free to
  give back an attempt that a run was paid with. `RunsAreBounded` adds
  `AttemptsBounded`.
- `CleanExit` (`WorkerServiceProofs`), from `ExitInv`: as long as a process has met no
  error and lost no lease, each of its leases is held by one of its slots
  (`LeasesHeld`), and only a process that runs has busy slots (`ActiveOK`). When it
  exits, none of its slots is busy, so it has no lease.
- `WorkersImplementService`, `CompletedJobsHaveResults` (`WorkerServiceProofs`):
  the refinement of `JobService`, each action of `Worker` being one step of the
  service or none that a client sees, under `Core`, `AllPaid` and
  `AttemptsBounded`; and, from the service, that a completed Job has a completed
  run.
- `StopsOnlyDrain` (`WorkerProofs`), the safety half of `StopTerminates`: in a process
  that is stopping, no slot is taken again, a claim that is answered late goes back
  instead of starting the Agent, and every step of an execution lowers `StepsLeft`,
  which is at most four. What is left to TLC is that the steps are taken (fairness).
- `HoldersFinalize`, `FinalizersShareTheProcess` (`WorkerServiceProofs`), about
  `WorkerLease`. The invariant is `HolderIsLocker`: a
  processing Job has a holder, and the row is locked by the process of that holder.
  As statements compare `locked_by`, an outcome is written only by an execution of the
  process that made the claim, for any concurrency; that it is the very execution
  needs the hypothesis `Concurrency = 1` (the default of `startWorker`,
  `worker.ts:39`; the worker process itself is started with the configured
  concurrency, and the run `worker_lease_shared` shows that with 2 it does not hold).
  Every step of `WorkerLease` is one of `Worker` (`LeaseStepIsStep`), so what is proved of
  `Worker` may be used. That the history variable also takes no behaviour away is not a
  theorem; it is seen from the form of `LeaseNext`, which is `Next` and a value for
  `holder'` that exists in every step, without a guard.
- `WorkersImplementLease`, from the same invariant: queue and workers implement
  `JobLease`. Recovery ends any number of leases in one statement; it is one `Lapse`.
  `DraftsRespectLease` (`DraftReservationProofs`): the claims, lapses and ends that
  `DraftReservation` contains are such steps too, and nothing else of it touches a lease.
- `DraftTypeCorrect`, `RecordedDraftsAreReal` (`DraftReservationProofs`), from
  `DraftInv`: a draft belongs to an execution that has begun, so its key is settled
  (`CreatedByBegun`); what an execution is about to record is a draft with its own
  key (`CarriesReal`); the row is true (`RowReal`). The statement that records
  compares key and Job, which makes the last one inductive even when the row was
  taken over.
- `WritersAreExclusive`, `LeasedDraftsDiffer` (`DraftReservationProofs`), from
  `WriteInv`. Its parts: only an active Job is leased (`JobsOK`); an execution that
  has not passed its creation has no draft and none to come, and one to come is not there
  yet (`CreatedOnce`); a completed row is not
  reopened by whoever looks it up (`CompletedStays`); who writes with its lease has the
  row for its Job (`WritersReserved`); and a search that found nothing is still right
  about drafts of its own key but for those that have overtaken it (`NothingFound`), since
  nobody else could reserve in between. The last three are what the hypothesis (nothing
  removed, or one Job) is for. A late draft that has overtaken nobody is the only one of its
  key, by the definition of `Overtaken`, and nobody is about to create another.
- `ConnectionTypeCorrect`, `CodesAreExchangedOnce`, `ReauthIsJustified`,
  `RefusalIsJustified`, `TokensServeTheirScopes`, `RetriesUseNewTokens`
  (`GoogleConnectionProofs`), every property of the run. The invariant has three
  layers. `FlowInv`: only a consumed state has handlers or a grant behind it, hence
  a refresh token, once it exists, is never replaced, and once useless stays so
  (`Declines`). `RowInv`: a refresh marks the row only with a token it found useless
  (`RefreshOK`); as the update compares the tokens, the row's own is the useless one,
  and the refusal is justified. `TokenInv`: a token that a refresh brings has been
  seen by nobody (`Unseen`), no other refresh brings the same one, and caches and
  calls hold issued tokens with the scopes they were issued with. Most steps bring
  nobody a token (`QuietStep`); issuing, settling and a call that the cache answers
  are the three that matter.
- `LlmTypeCorrect`, `ToolsWithinLimits`, `ModelEndsAreQuiet`, `AnswersAreAccountedFor`
  (`LlmProviderProofs`), from `LlmInv`: while a response is awaited every tool that was
  begun has returned and was counted (`Quiet`); while a batch is executed, what is
  counted plus what is left of it is within the limits, because the batch was accepted
  as a whole (`Budget`); what the responses have cost is in the usage of
  the attempt or in the sum of the earlier ones, which is in the records (`Accounts`).
- `ForcedCallsAreAllowed`, from `ChoiceInv`: with one call per tool, the number of
  calls is the number of tools called, so a total limit that admits all tools is not
  used up while one is missing, and the choice the loop forces can be followed.
- `CallsCostWhatIsAllowed` (`CostIsBounded`), from `CostInv`: a loop asks with `turn`
  responses behind it and executes with one more, so the turns bound what it costs,
  whether they end in tools or in silence; a structured request asks with one response
  behind it for each earlier attempt. No error, timeout or abort buys another response,
  and the second attempt is preceded by an invalid first one that is on record.
- `IntakeTypes`, `OneJob`, `OnePoll` (`GmailIntakeProofs`), from `IntakeInv`: a poll
  works inside the page it read (`PollsPlaced`); a key without a row had none yet, or
  is of a message that no search and no page in hand contains any more
  (`RowsCounted`, `Gone`), and `Gone` is stable; a poller that is not running has no
  poll (`PollersIdle`).
- `NothingIsMissed`, from `PollsDiligent` on top of it: what lies behind a poll is an
  interval of messages from the newest one down; its threads are exactly
  `seenThreadIds`, and the newest message of each has a row unless the connection has
  failed (`Read`). Pages follow each other without a gap because a page token is the
  end of the page before, whatever arrives or grows old (`ListDiligent`); a poll that
  ends on its last page has passed the oldest message in the window, one that ends on
  the limit of threads has seen as many threads as the limit (`SelectDiligent`), and one
  that ends on the limit of pages counts as failed.
- `AgentTypes`, `EventsAreReal`, `TraceIsTrue` (`JobEmailAgentProofs`), from `AgentInv`. `CalendarInv`: what a call has learnt of
  the row and the event stays true, because neither goes back (`CallOK`); this is why
  re-reading after a refused creation is enough. For each execution: which step is open
  or failed (`TraceOK`), which review request and which analysis it can have at its
  step (`CourseOK`), and which checks lie behind it before anything is written
  (`WritesOK`). The trace and the outcome agree only because a step is closed before
  the next is opened and an error closes the step it came from, which is `TraceOK`.

- `ChecksComeFirst`, `ChecksAgree` (`JobEmailAgentProofs`), from `KnowInv`, which adds
  to `AgentInv` what an execution knows. `DecisionsOK`: its decisions are what the
  policies say of the analysis and settings it has read. `StageOK`: which of
  them it can have at its step, and that an analysis beyond normalization and
  grounding is normalized and grounded. `FreshOK`: while nobody has changed the
  settings, what it has read of them is what they are. From this follows
  `ChecksAgree`: `CalendarRecheck` and `GuardPolicy`, which share no code with
  `CalendarPolicy` and `ReplyPolicy`, refuse nothing that those have accepted unless
  something has changed since. `GuardAgrees` and `ReadyMeeting` are the lemmas
  that compare the operators, for every analysis and settings.
- `CalendarKeepsContract`, `AgentKeepsContract` (`JobEmailAgentProofs`): both
  specifications implement `EventContract`. The interesting steps are the creation
  that Calendar carries out late (the row was reserved before and a completed row has
  its event, so the row is still in creation), and the record of an execution whose
  row another Job has taken over (the statement compares the Job).

Only model-checked: the liveness properties `EveryJobEnds`, `StopTerminates`,
`CallAnswers` and `NoMessageWaitsForEver` (liveness under fairness is out of the
prover's reach, as are `ENABLED` and induction over data). Every other property of a
passing run is a theorem. The other way round, `StopDrains`, `CostIsBounded`,
`KeepsEventContract` and `RespectsLease` are stated by theorems only; no run of the
table has them.

## 5. What is abstracted or not modelled

- Payloads: inputs, outputs, prompts, e-mail texts, MIME, hashes. Where a decision
  depends on one (the kind of draft, whether a hash agrees), it is a
  nondeterministic choice.
- Time, except for the order of events. That the retention outlasts the search of the poller
  is an assumption on the settings (`Expired`).
- The deletion of the calendar event by the user: its id stays taken in Calendar.
- The timer of the retention and `agent_errors`: the timer has the shape of the
  poller's, and nothing reads the table but a page. What `deleteExpired` deletes is
  modelled.
- Other e-mails next to the one of `DraftReservation` and `CalendarReservation`, and
  other Google accounts next to the one of `GoogleConnection`: they share no row with it.
- Of Google's answers to a token refresh, only those that change what the code does
  next: a token, `invalid_grant`, any other error.
- Two authorizations of one account may save their scopes in the opposite order of
  their grants (`postgres-google-oauth.ts:167`): in the model, without a property.
- Rendering of pages, configuration, prompts, registration of Agents: no state that
  changes after start-up, or pure text.
- A row of `job_email_drafts` left in `creating` by a Job that then completed refuses
  every later Job about the e-mail (`postgres-job-email-draft.ts:58`). The model
  contains it; no document says when such a row is freed, so no property does.

## 6. Plan

Done: `JobQueue`, `Worker`, `JobService`, `WorkerLease`, `DraftReservation`,
`GoogleConnection`, `LlmProvider`, `JobEmailPolicy`, `CalendarReservation`,
`JobEmailAgent`, `GmailIntake`, their runs, the contracts `JobLease` and
`EventContract`, and the proofs of every safety property of the runs.

Left, in this order:

1. A contract of the draft row like `EventContract`, and both writes of one e-mail over
   `JobLease` and the two contracts, so that an execution that lost its lease can write
   either.
2. `enqueue` in its three statements, with a row that is deleted in between.
3. The timer of the retention, next to that of the poller.
