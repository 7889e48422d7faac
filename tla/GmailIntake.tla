----------------------------- MODULE GmailIntake -----------------------------
(***************************************************************************)
(* How new e-mail becomes Jobs: enqueueScheduledGmailPoll, run by the      *)
(* poller of every worker process and by the two buttons of the set-up     *)
(* page, and the retention that deletes the rows of Jobs that have ended.  *)
(* Polls share nothing but the table agent_jobs, so they interleave at     *)
(* every request to Gmail and every statement.                             *)
(*                                                                         *)
(* The messages of an account are numbered as they arrive.  The search     *)
(* (GMAIL_LOOKBACK_QUERY) finds those that have not grown too old, newest  *)
(* first, so a page is an interval of numbers and a page token is the      *)
(* lower end of the page before.                                           *)
(***************************************************************************)
EXTENDS Naturals, Sequences, FiniteSets

CONSTANTS
    Accounts,     \* the rows of google_connections
    Pollers,      \* worker processes; a restart is a new one
    Polls,        \* executions of the pollers' polls
    Requests,     \* submissions of the set-up page; each executes one poll
    Resets,       \* those that are to do everything again
    Schedule,     \* the idempotency key prefix gmail-poll
    None,
    PageSize,     \* maxResults
    MaxPages,     \* maximumPagesPerConnection
    MaxMessages,  \* maxMessages: threads per account and poll
    MaxArrivals,  \* how many messages arrive, over all accounts
    MaxMishaps    \* how many calls fail, and how often the user changes a
                  \* connection or a setting, taken together

ASSUME IntakeAssumption ==
    /\ None \notin Accounts \cup Polls \cup Pollers
    /\ Schedule \notin Requests /\ Resets \subseteq Requests
    /\ Polls \cap Requests = {}
    /\ Pollers \cap Requests = {}
    /\ IsFiniteSet(Accounts)
    /\ {PageSize, MaxPages, MaxMessages} \subseteq Nat \ {0}
    /\ {MaxArrivals, MaxMishaps} \subseteq Nat

VARIABLES
    mail,       \* the threads of the messages of an account, oldest first
    oldest,     \* how many of them the search no longer finds
    connected,  \* the accounts with status connected and both Gmail scopes
    drafting,   \* the accounts with createDrafts and a user name
    jobs,       \* the idempotency keys of the rows of agent_jobs
    made,       \* how many rows each key has had
    pollers,    \* the pollers: [mode, current], current being currentPoll
    polls,      \* the polls
    mishaps     \* how many of those have happened

mailVars == <<mail, oldest>>
settingVars == <<connected, drafting>>
jobVars == <<jobs, made>>
vars == <<mail, oldest, connected, drafting, jobs, made, pollers, polls, mishaps>>

Origins == {Schedule} \cup Resets
AllPolls == Polls \cup Requests
Messages == 1..MaxArrivals
Threads == 1..MaxArrivals   \* of each account, numbered by their first message
Keys == Origins \X Accounts \X Messages

Mode == {"new", "on", "stopping", "stopped", "crashed"}

(* What a poll waits for: getReplySettings, listMessages, enqueue, and its *)
(* caller.  A request of the set-up page is then answered.                 *)
Pc == {"idle", "settings", "listing", "enqueueing", "done", "answered"}

(* out: not connected;  todo: still to be polled;  off: drafts are off;    *)
(* ok, failed: polled, without and with a failed call                      *)
Verdict == {"out", "todo", "off", "ok", "failed"}

Poll == [pc: Pc,
         owner: Pollers \cup Requests \cup {None},
         origin: Origins,                   \* idempotencyKeyPrefix
         verdict: [Accounts -> Verdict],
         account: Accounts \cup {None},
         upto: [Accounts -> Nat],           \* the newest message of the first page
         next: Nat, low: Nat,               \* the rest of the page is low+1..next
         more: BOOLEAN,                     \* nextPageToken
         pages: Nat,                        \* pageNumber
         seen: SUBSET Threads]              \* seenThreadIds; its size is selectedMessages

IdlePoll == [pc |-> "idle", owner |-> None, origin |-> Schedule,
             verdict |-> [a \in Accounts |-> "out"], account |-> None,
             upto |-> [a \in Accounts |-> 0], next |-> 0, low |-> 0,
             more |-> FALSE, pages |-> 0, seen |-> {}]

Init ==
    /\ mail = [a \in Accounts |-> <<>>]
    /\ oldest = [a \in Accounts |-> 0]
    /\ connected = Accounts
    /\ drafting = Accounts
    /\ jobs = {}
    /\ made = [k \in Keys |-> 0]
    /\ pollers = [p \in Pollers |-> [mode |-> "new", current |-> None]]
    /\ polls = [q \in AllPolls |-> IdlePoll]
    /\ mishaps = 0
-----------------------------------------------------------------------------
(* One poll: enqueueScheduledGmailPoll. *)

At(q, pc) == polls[q].pc = pc
Key(q) == <<polls[q].origin, polls[q].account, polls[q].next>>

Become(q, poll) == polls' = [polls EXCEPT ![q] = poll]

Mishap ==
    /\ mishaps < MaxMishaps
    /\ mishaps' = mishaps + 1

(* The next connection, if any. *)
Forward(poll) ==
    IF \E a \in Accounts : poll.verdict[a] = "todo"
    THEN [poll EXCEPT !.pc = "settings"]
    ELSE [poll EXCEPT !.pc = "done"]

(* A connection is dealt with; what was local to it is gone.               *)
Judged(poll, a, verdict) ==
    Forward([IdlePoll EXCEPT !.owner = poll.owner, !.origin = poll.origin,
                             !.verdict = [poll.verdict EXCEPT ![a] = verdict],
                             !.upto = poll.upto])

(* The poll begins with listConnections, which may fail: it then returns.  *)
Begin(q, owner, origin) ==
    LET poll == [IdlePoll EXCEPT !.owner = owner, !.origin = origin]
        listed == [a \in Accounts |-> IF a \in connected THEN "todo" ELSE "out"]
    IN  /\ At(q, "idle")
        /\ \/ /\ Become(q, Forward([poll EXCEPT !.verdict = listed]))
              /\ UNCHANGED mishaps
           \/ /\ Mishap
              /\ Become(q, [poll EXCEPT !.pc = "done"])

(* The connections are taken one after the other, in the order listed.     *)
NextAccount(q) == CHOOSE a \in Accounts : polls[q].verdict[a] = "todo"

GetSettings(q) ==
    LET a == NextAccount(q)
    IN
    /\ At(q, "settings")
    /\ Become(q, IF a \in drafting
                 THEN [polls[q] EXCEPT !.pc = "listing", !.verdict[a] = "ok", !.account = a]
                 ELSE Judged(polls[q], a, "off"))
    /\ UNCHANGED <<mailVars, settingVars, jobVars, pollers, mishaps>>

GetSettingsFails(q) ==
    /\ At(q, "settings")
    /\ Mishap
    /\ Become(q, Judged(polls[q], NextAccount(q), "failed"))
    /\ UNCHANGED <<mailVars, settingVars, jobVars, pollers>>

(* The messages of the page whose thread is not in seenThreadIds.          *)
Unseen(poll) == {i \in poll.low + 1 .. poll.next : mail[poll.account][i] \notin poll.seen}

(* The next message to select on the page, or else the next page, or else  *)
(* the next connection.                                                    *)
Advance(q, poll) ==
    \/ \E i \in Unseen(poll) :
          /\ \A j \in Unseen(poll) : j <= i
          /\ Become(q, [poll EXCEPT !.pc = "enqueueing", !.next = i])
    \/ /\ Unseen(poll) = {} /\ poll.more /\ poll.pages < MaxPages
       /\ Become(q, [poll EXCEPT !.pc = "listing", !.next = poll.low])
    \/ /\ Unseen(poll) = {} /\ (poll.more => poll.pages >= MaxPages)
       /\ Become(q, Judged(poll, poll.account,
                           IF poll.more THEN "failed" ELSE poll.verdict[poll.account]))

Larger(m, n) == IF m > n THEN m ELSE n
Minus(m, n) == IF m > n THEN m - n ELSE 0

(* What listMessages answers: without a page token the newest messages,    *)
(* and with one those that follow the page before.                         *)
Page(poll) ==
    LET a == poll.account
        first == poll.pages = 0
        top == IF first THEN Len(mail[a]) ELSE poll.low
        bottom == IF top <= oldest[a] THEN top ELSE Larger(oldest[a], Minus(top, PageSize))
    IN  [poll EXCEPT !.pages = @ + 1, !.next = top, !.low = bottom,
                     !.more = bottom > oldest[a],
                     !.upto = IF first THEN [@ EXCEPT ![a] = top] ELSE @]

ListMessages(q) ==
    /\ At(q, "listing")
    /\ Advance(q, Page(polls[q]))
    /\ UNCHANGED <<mailVars, settingVars, jobVars, pollers, mishaps>>

\* Mutant of ListMessagesFails: the failure is not caught per connection.
ListMessagesFailsPoll(q) ==
    /\ At(q, "listing")
    /\ Mishap
    /\ Become(q, [Judged(polls[q], polls[q].account, "failed") EXCEPT !.pc = "done"])
    /\ UNCHANGED <<mailVars, settingVars, jobVars, pollers>>

(* The request fails, or the account has meanwhile been disconnected.      *)
ListMessagesFails(q) ==
    /\ At(q, "listing")
    /\ IF polls[q].account \in connected THEN Mishap ELSE UNCHANGED mishaps
    /\ Become(q, Judged(polls[q], polls[q].account, "failed"))
    /\ UNCHANGED <<mailVars, settingVars, jobVars, pollers>>

(* After an enqueue, failed or not: the next message or, at maxMessages,   *)
(* the next connection.                                                    *)
Select(q, verdict) ==
    LET poll == polls[q]
        seen == poll.seen \cup {mail[poll.account][poll.next]}
    IN  IF Cardinality(seen) >= MaxMessages
        THEN Become(q, Judged(poll, poll.account, verdict))
        ELSE Advance(q, [poll EXCEPT !.seen = seen, !.verdict[poll.account] = verdict])

(* INSERT ... ON CONFLICT DO NOTHING, and the SELECT that finds the row of *)
(* an earlier poll: either way the request is accepted.                    *)
Inserted(k) ==
    IF k \notin jobs
    THEN /\ jobs' = jobs \cup {k}
         /\ made' = [made EXCEPT ![k] = @ + 1]
    ELSE UNCHANGED jobVars

EnqueueMessage(q) ==
    /\ At(q, "enqueueing")
    /\ Inserted(Key(q))
    /\ Select(q, polls[q].verdict[polls[q].account])
    /\ UNCHANGED <<mailVars, settingVars, pollers, mishaps>>

\* Mutant of EnqueueFails: a verdict of its own.
EnqueueFailsApart(q) ==
    /\ At(q, "enqueueing")
    /\ Mishap
    /\ Inserted(Key(q)) \/ UNCHANGED jobVars
    /\ Select(q, "enqueue_failed")
    /\ UNCHANGED <<mailVars, settingVars, pollers>>

(* The statement is not applied, or its answer is lost.                    *)
EnqueueFails(q) ==
    /\ At(q, "enqueueing")
    /\ Mishap
    /\ Inserted(Key(q)) \/ UNCHANGED jobVars
    /\ Select(q, "failed")
    /\ UNCHANGED <<mailVars, settingVars, pollers>>

PollStep(q) ==
    \/ GetSettings(q) \/ ListMessages(q) \/ EnqueueMessage(q)

PollStepFails(q) ==
    \/ GetSettingsFails(q) \/ ListMessagesFails(q) \/ EnqueueFails(q)

-----------------------------------------------------------------------------
(* The pollers: startGmailPoller. *)

(* pollNow starts a poll unless one is under way.                          *)
FreePolls == {q \in Polls : At(q, "idle")}

PollNow(p) ==
    /\ FreePolls # {}
    /\ LET q == CHOOSE q \in FreePolls : TRUE
       IN  /\ Begin(q, p, Schedule)
           /\ pollers' = [pollers EXCEPT ![p] = [mode |-> "on", current |-> q]]
    /\ UNCHANGED <<mailVars, settingVars, jobVars>>

(* runImmediately *)
StartPoller(p) ==
    /\ pollers[p].mode = "new"
    /\ PollNow(p)

Tick(p) ==
    /\ pollers[p].mode = "on" /\ pollers[p].current = None
    /\ PollNow(p)

\* Mutant of Settle: then() instead of finally() leaves currentPoll set.
SettleKeepingCurrent(q) ==
    /\ At(q, "done")
    /\ Become(q, IF q \in Polls THEN IdlePoll ELSE [IdlePoll EXCEPT !.pc = "answered"])
    /\ UNCHANGED <<mailVars, settingVars, jobVars, pollers, mishaps>>

(* The finally handler of pollNow; a request is answered, once.            *)
Settle(q) ==
    /\ At(q, "done")
    /\ Become(q, IF q \in Polls THEN IdlePoll ELSE [IdlePoll EXCEPT !.pc = "answered"])
    /\ pollers' = [p \in Pollers |-> IF pollers[p].current = q
                                     THEN [pollers[p] EXCEPT !.current = None]
                                     ELSE pollers[p]]
    /\ UNCHANGED <<mailVars, settingVars, jobVars, mishaps>>

Stop(p) ==
    /\ pollers[p].mode = "on"
    /\ pollers' = [pollers EXCEPT ![p].mode = "stopping"]
    /\ UNCHANGED <<mailVars, settingVars, jobVars, polls, mishaps>>

\* Mutant of Stopped: stop() does not wait for the poll under way.
StoppedAtOnce(p) ==
    /\ pollers[p].mode = "stopping"
    /\ pollers' = [pollers EXCEPT ![p].mode = "stopped"]
    /\ UNCHANGED <<mailVars, settingVars, jobVars, polls, mishaps>>

Stopped(p) ==
    /\ pollers[p].mode = "stopping" /\ pollers[p].current = None
    /\ pollers' = [pollers EXCEPT ![p].mode = "stopped"]
    /\ UNCHANGED <<mailVars, settingVars, jobVars, polls, mishaps>>

Crash(p) ==
    /\ pollers[p].mode \in {"on", "stopping"}
    /\ pollers' = [pollers EXCEPT ![p] = [mode |-> "crashed", current |-> None]]
    /\ polls' = [q \in AllPolls |-> IF polls[q].owner = p THEN IdlePoll ELSE polls[q]]
    /\ UNCHANGED <<mailVars, settingVars, jobVars, mishaps>>

(* The buttons of the set-up page: the same poll, or one whose prefix is   *)
(* new (a random UUID), which makes a second Job of every message.         *)
Submit(r) ==
    /\ Begin(r, r, IF r \in Resets THEN r ELSE Schedule)
    /\ UNCHANGED <<mailVars, settingVars, jobVars, pollers>>

-----------------------------------------------------------------------------
(* The mailbox, the user, the queue and the retention. *)

Arrived == {m \in Accounts \X Messages : m[2] <= Len(mail[m[1]])}

\* A message of a thread there is, or of a new one.
Arrive(a, t) ==
    /\ Cardinality(Arrived) < MaxArrivals
    /\ \A u \in 1..(t - 1) : \E i \in 1..Len(mail[a]) : mail[a][i] = u
    /\ mail' = [mail EXCEPT ![a] = Append(@, t)]
    /\ UNCHANGED <<oldest, settingVars, jobVars, pollers, polls, mishaps>>

GrowOld(a) ==
    /\ oldest[a] < Len(mail[a])
    /\ oldest' = [oldest EXCEPT ![a] = @ + 1]
    /\ UNCHANGED <<mail, settingVars, jobVars, pollers, polls, mishaps>>

(* Consent is given or lost; the settings form is saved.                   *)
ChangeConnection(a) ==
    /\ Mishap
    /\ connected' = IF a \in connected THEN connected \ {a} ELSE connected \cup {a}
    /\ UNCHANGED <<mailVars, drafting, jobVars, pollers, polls>>

SaveSettings(a) ==
    /\ Mishap
    /\ a \in connected
    /\ drafting' = IF a \in drafting THEN drafting \ {a} ELSE drafting \cup {a}
    /\ UNCHANGED <<mailVars, connected, jobVars, pollers, polls>>

\* Mutant of Expired: the retention forgets to compare completed_at.
ExpiredAtOnce(k) == k \in jobs

(* The Job has ended, its review is not pending, and completed_at is older *)
(* than the retention.  By then the search no longer finds the message,    *)
(* and no poll still works on a page that did: this supposes settings in   *)
(* which the retention is longer than the window of the search, as by      *)
(* default (90 days, newer_than:1d).  Both can be configured, and nothing  *)
(* compares them.                                                          *)
Expired(k) ==
    /\ k \in jobs
    /\ k[3] <= oldest[k[2]]
    /\ \A q \in AllPolls : ~(polls[q].account = k[2] /\ k[3] \in polls[q].low + 1 .. polls[q].next)

(* deleteExpired, for the Jobs it is time for.                             *)
DeleteExpired(S) ==
    /\ S # {} /\ \A k \in S : Expired(k)
    /\ jobs' = jobs \ S
    /\ UNCHANGED <<mailVars, settingVars, made, pollers, polls, mishaps>>

Next ==
    \/ \E q \in AllPolls : PollStep(q) \/ PollStepFails(q) \/ Settle(q)
    \/ \E p \in Pollers : \/ Stop(p) \/ Stopped(p) \/ Crash(p)
                          \/ StartPoller(p) \/ Tick(p)
    \/ \E r \in Requests : Submit(r)
    \/ \E a \in Accounts : \/ GrowOld(a) \/ ChangeConnection(a) \/ SaveSettings(a)
                           \/ \E t \in Threads : Arrive(a, t)
    \/ \E S \in SUBSET jobs : DeleteExpired(S)

Spec == Init /\ [][Next]_vars

(* The interval fires, requests are answered or time out, and a process    *)
(* that is asked to stop does.                                             *)
Fairness ==
    /\ \A q \in Polls : WF_vars(PollStep(q)) /\ WF_vars(Settle(q))
    /\ \A p \in Pollers : WF_vars(Tick(p)) /\ WF_vars(Stopped(p))

FairSpec == Spec /\ Fairness

-----------------------------------------------------------------------------
TypeOK ==
    /\ mail \in [Accounts -> Seq(Threads)]
    /\ oldest \in [Accounts -> Nat]
    /\ \A a \in Accounts : oldest[a] <= Len(mail[a]) /\ Len(mail[a]) <= MaxArrivals
    /\ connected \subseteq Accounts /\ drafting \subseteq Accounts
    /\ jobs \subseteq Keys
    /\ made \in [Keys -> Nat]
    /\ pollers \in [Pollers -> [mode: Mode, current: Polls \cup {None}]]
    /\ polls \in [AllPolls -> Poll]
    /\ mishaps \in 0..MaxMishaps

(* implementation-plan.md: the same e-mail is not registered as a Job more *)
(* than once, also when polls of several processes and of the set-up page  *)
(* overlap, an answer is lost, a process restarts, or the retention, which *)
(* outlasts the search (Expired), has deleted the Job.                     *)
OneJobPerMessage == \A k \in Keys : made[k] <= 1

(* A poller has one poll at a time, and none once stop() has returned: a   *)
(* worker that shuts down closes the database under no poll of its own.    *)
OnePollPerPoller ==
    /\ \A q \in Polls : polls[q].pc # "idle" =>
          polls[q].owner \in Pollers /\ pollers[polls[q].owner].current = q
    /\ \A p \in Pollers : pollers[p].mode = "stopped" => pollers[p].current = None

(* What a poll of account a that began when n messages had arrived is to   *)
(* select: the newest message of each of the first maxMessages threads, on *)
(* the pages it may read.                                                  *)
Newer(i, n) == (i + 1)..n

Wanted(a, n) ==
    {i \in (oldest[a] + 1)..n :
        /\ \A j \in Newer(i, n) : mail[a][j] # mail[a][i]
        /\ Cardinality({mail[a][j] : j \in Newer(i, n)}) < MaxMessages
        /\ n - i < PageSize * MaxPages}

(* A poll that returns has dealt with every connection it was given, and   *)
(* no connection that it counts as a success has a message without a Job:  *)
(* neither the failure of another connection, nor messages that arrive or  *)
(* age between two pages, nor threads that span pages hide one.            *)
PollMissesNothing ==
    \A q \in AllPolls : At(q, "done") => \A a \in Accounts :
        /\ polls[q].verdict[a] # "todo"
        /\ polls[q].verdict[a] = "ok" =>
             \A i \in Wanted(a, polls[q].upto[a]) : made[<<polls[q].origin, a, i>>] >= 1

Due(a, i) ==
    /\ a \in connected \cap drafting
    /\ i \in Wanted(a, Len(mail[a]))
    /\ made[<<Schedule, a, i>>] = 0

(* While some worker stays up, no message the search finds within the      *)
(* limits of a poll waits for ever: calls that fail, polls that crash with *)
(* their process and messages that keep arriving only delay it.            *)
NoMessageWaitsForEver ==
    \A a \in Accounts, i \in Messages :
        []<>~(Due(a, i) /\ \E p \in Pollers : pollers[p].mode = "on")
=============================================================================
