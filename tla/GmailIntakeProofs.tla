-------------------------- MODULE GmailIntakeProofs --------------------------
(***************************************************************************)
(* Proofs about GmailIntake for every number of accounts, messages, worker *)
(* processes, polls and submissions, every page size and every limit.      *)
(***************************************************************************)
EXTENDS GmailIntake, FiniteSetTheorems, TLAPS

(* Where a poll is, and what of the mailbox it has in hand.                *)
Placed(poll) ==
    /\ poll.pc \in {"listing", "enqueueing"} =>
         /\ poll.account \in Accounts
         /\ poll.low <= Len(mail[poll.account])
         /\ poll.next <= Len(mail[poll.account])
    /\ poll.pc = "listing" => poll.next <= poll.low
    /\ poll.pc = "enqueueing" => poll.low < poll.next
    /\ poll.pc \notin {"listing", "enqueueing"} =>
         poll.account = None /\ poll.low = 0 /\ poll.next = 0
    /\ poll.pc = "settings" => \E a \in Accounts : poll.verdict[a] = "todo"

(* The rest of the page holds message i of account a.                      *)
Holds(poll, a, i) == poll.account = a /\ i \in poll.low + 1 .. poll.next

(* The search will not find the message of k again, and no poll has it.    *)
Gone(k) ==
    /\ k[3] <= oldest[k[2]]
    /\ \A q \in AllPolls : ~Holds(polls[q], k[2], k[3])

PollsPlaced == \A q \in AllPolls : Placed(polls[q])

(* A key without a row never had one, or its message is gone.              *)
RowsCounted ==
    \A k \in Keys :
        \/ k \in jobs /\ made[k] = 1
        \/ k \notin jobs /\ made[k] = 0
        \/ k \notin jobs /\ made[k] = 1 /\ Gone(k)

PollersIdle ==
    \A p \in Pollers : pollers[p].mode \in {"new", "stopped", "crashed"}
                         => pollers[p].current = None

IntakeInv == TypeOK /\ PollsPlaced /\ RowsCounted /\ PollersIdle /\ OnePollPerPoller

-----------------------------------------------------------------------------
(* What every step of a poll makes of its record: it stays a poll of its   *)
(* owner, and the messages it has in hand are fewer, or in the window.     *)
Continues(q, poll) ==
    /\ polls' = [polls EXCEPT ![q] = poll]
    /\ poll \in Poll /\ Placed(poll)
    /\ poll.pc \in {"settings", "listing", "enqueueing", "done"}
    /\ poll.owner = polls[q].owner
    /\ \A a \in Accounts, i \in Nat :
          Holds(poll, a, i) => Holds(polls[q], a, i) \/ i > oldest[a]

LEMMA IdlePollOK == IdlePoll \in Poll /\ Placed(IdlePoll) /\ IdlePoll.account = None
BY DEF IdlePoll, Poll, Pc, Origins, Verdict, Placed

LEMMA ForwardOK ==
  ASSUME NEW poll \in Poll, poll.account = None, poll.low = 0, poll.next = 0
  PROVE  /\ Forward(poll) \in Poll /\ Placed(Forward(poll))
         /\ Forward(poll).pc \in {"settings", "done"}
         /\ Forward(poll).owner = poll.owner
         /\ Forward(poll).account = None
<1>1. CASE \E a \in Accounts : poll.verdict[a] = "todo"
  <2>1. Forward(poll) = [poll EXCEPT !.pc = "settings"]
    BY <1>1 DEF Forward
  <2> QED BY <1>1, <2>1 DEF Poll, Pc, Placed
<1>2. CASE ~ \E a \in Accounts : poll.verdict[a] = "todo"
  <2>1. Forward(poll) = [poll EXCEPT !.pc = "done"]
    BY <1>2 DEF Forward
  <2> QED BY <2>1 DEF Poll, Pc, Placed
<1> QED BY <1>1, <1>2

LEMMA JudgedOK ==
  ASSUME NEW poll \in Poll, NEW a \in Accounts, NEW verdict \in Verdict
  PROVE  LET judged == Judged(poll, a, verdict)
         IN  /\ judged \in Poll /\ Placed(judged)
             /\ judged.pc \in {"settings", "done"}
             /\ judged.owner = poll.owner
             /\ judged.account = None
<1> DEFINE bare == [IdlePoll EXCEPT !.owner = poll.owner, !.origin = poll.origin,
                                    !.verdict = [poll.verdict EXCEPT ![a] = verdict],
                                    !.upto = poll.upto]
<1>1. [poll.verdict EXCEPT ![a] = verdict] \in [Accounts -> Verdict]
  BY DEF Poll
<1>2. bare \in Poll /\ bare.account = None /\ bare.owner = poll.owner
      /\ bare.low = 0 /\ bare.next = 0
  BY <1>1, IdlePollOK DEF Poll, IdlePoll
<1>3. Judged(poll, a, verdict) = Forward(bare)
  BY DEF Judged
<1> QED BY <1>2, <1>3, ForwardOK

LEMMA JudgedContinues ==
  ASSUME TypeOK, IntakeAssumption, NEW q \in AllPolls, NEW poll \in Poll, poll.owner = polls[q].owner,
         NEW a \in Accounts, NEW verdict \in Verdict,
         Become(q, Judged(poll, a, verdict))
  PROVE  Continues(q, Judged(poll, a, verdict))
<1>1. None \notin Accounts
  BY DEF IntakeAssumption
<1> QED BY <1>1, JudgedOK DEF Continues, Become, Holds

(* Within a page a poll only goes forward.                                 *)
LEMMA AdvanceContinues ==
  ASSUME TypeOK, IntakeAssumption, NEW q \in AllPolls, NEW poll \in Poll,
         poll.owner = polls[q].owner,
         poll.account \in Accounts,
         poll.low <= Len(mail[poll.account]),
         poll.next <= Len(mail[poll.account]),
         \A i \in Nat : Holds(poll, poll.account, i) =>
             Holds(polls[q], poll.account, i) \/ i > oldest[poll.account],
         Advance(q, poll)
  PROVE  \E next \in Poll : Continues(q, next)
<1>1. CASE \E i \in Unseen(poll) :
              /\ \A j \in Unseen(poll) : j <= i
              /\ Become(q, [poll EXCEPT !.pc = "enqueueing", !.next = i])
  <2>1. PICK i \in Unseen(poll) : Become(q, [poll EXCEPT !.pc = "enqueueing", !.next = i])
    BY <1>1
  <2> DEFINE next == [poll EXCEPT !.pc = "enqueueing", !.next = i]
  <2>2. i \in Nat /\ poll.low < i /\ i <= poll.next
    BY <2>1 DEF Unseen, Poll
  <2>3. next \in Poll /\ next.low = poll.low /\ next.next = i /\ next.account = poll.account
        /\ next.pc = "enqueueing" /\ next.owner = poll.owner
    BY <2>2 DEF Poll, Pc
  <2>4. Placed(next)
    BY <2>2, <2>3 DEF Placed, Poll
  <2>5. \A a \in Accounts, j \in Nat :
           Holds(next, a, j) => Holds(polls[q], a, j) \/ j > oldest[a]
    BY <2>2, <2>3 DEF Holds, Poll
  <2>6. Continues(q, next)
    BY <2>1, <2>3, <2>4, <2>5 DEF Continues, Become
  <2> QED BY <2>3, <2>6
<1>2. CASE Become(q, [poll EXCEPT !.pc = "listing", !.next = poll.low])
  <2> DEFINE next == [poll EXCEPT !.pc = "listing", !.next = poll.low]
  <2>1. next \in Poll /\ next.low = poll.low /\ next.next = poll.low
        /\ next.account = poll.account /\ next.pc = "listing" /\ next.owner = poll.owner
    BY DEF Poll, Pc
  <2>2. Placed(next)
    BY <2>1 DEF Placed, Poll
  <2>3. \A a \in Accounts, j \in Nat : ~Holds(next, a, j)
    BY <2>1 DEF Holds, Poll
  <2>4. Continues(q, next)
    BY <1>2, <2>1, <2>2, <2>3 DEF Continues, Become
  <2> QED BY <2>1, <2>4
<1>3. CASE Become(q, Judged(poll, poll.account,
                     IF poll.more THEN "failed" ELSE poll.verdict[poll.account]))
  <2> DEFINE verdict == IF poll.more THEN "failed" ELSE poll.verdict[poll.account]
  <2>1. verdict \in Verdict
    BY DEF Verdict, Poll
  <2> HIDE DEF verdict
  <2>2. Continues(q, Judged(poll, poll.account, verdict))
    BY <1>3, <2>1, JudgedContinues DEF verdict
  <2> QED BY <2>2 DEF Continues
<1>4. \/ \E i \in Unseen(poll) :
            /\ \A j \in Unseen(poll) : j <= i
            /\ Become(q, [poll EXCEPT !.pc = "enqueueing", !.next = i])
      \/ Become(q, [poll EXCEPT !.pc = "listing", !.next = poll.low])
      \/ Become(q, Judged(poll, poll.account,
                      IF poll.more THEN "failed" ELSE poll.verdict[poll.account]))
  BY Zenon DEF Advance
<1> QED BY <1>1, <1>2, <1>3, <1>4, Zenon

(* A page holds messages in the window only.                               *)
LEMMA PageOK ==
  ASSUME TypeOK, IntakeAssumption, NEW poll \in Poll, poll.account \in Accounts,
         poll.low <= Len(mail[poll.account])
  PROVE  /\ Page(poll) \in Poll
         /\ Page(poll).owner = poll.owner /\ Page(poll).account = poll.account
         /\ Page(poll).low <= Len(mail[poll.account])
         /\ Page(poll).next <= Len(mail[poll.account])
         /\ \A i \in Nat : Holds(Page(poll), poll.account, i) => i > oldest[poll.account]
<1> DEFINE a == poll.account
           first == poll.pages = 0
           top == IF first THEN Len(mail[a]) ELSE poll.low
           bottom == IF top <= oldest[a] THEN top ELSE Larger(oldest[a], Minus(top, PageSize))
<1>1. Len(mail[a]) \in Nat /\ oldest[a] \in Nat /\ PageSize \in Nat \ {0}
  BY DEF TypeOK, IntakeAssumption
<1>2. top \in Nat /\ top <= Len(mail[a])
  BY <1>1 DEF Poll
<1> HIDE DEF top
<1>3. Minus(top, PageSize) \in Nat /\ Minus(top, PageSize) <= top
  BY <1>1, <1>2 DEF Minus
<1>4. bottom \in Nat /\ bottom <= top /\ (bottom < top => bottom >= oldest[a])
  BY <1>1, <1>2, <1>3 DEF Larger
<1> HIDE DEF bottom
<1> DEFINE more == bottom > oldest[a]
           upto == IF first THEN [poll.upto EXCEPT ![a] = top] ELSE poll.upto
<1>5. Page(poll) = [poll EXCEPT !.pages = @ + 1, !.next = top, !.low = bottom,
                                !.more = more, !.upto = upto]
  <2> DEFINE turned == [poll EXCEPT !.pages = @ + 1, !.next = top, !.low = bottom, !.more = more]
  <2>1. turned.upto = poll.upto
    BY DEF Poll
  <2>2. Page(poll) = [turned EXCEPT !.upto = IF first THEN [@ EXCEPT ![a] = top] ELSE @]
    BY Zenon DEF Page, top, bottom, more
  <2> HIDE DEF turned
  <2>3. Page(poll) = [turned EXCEPT !.upto = upto]
    BY <2>1, <2>2, Zenon DEF upto
  <2> QED BY <2>3, Zenon DEF turned
<1>6. more \in BOOLEAN
  OBVIOUS
<1>7. upto \in [Accounts -> Nat]
  BY <1>2 DEF Poll
<1> HIDE DEF more, upto
<1>8. Page(poll) \in Poll
  <2> DEFINE pages == poll.pages + 1
             turned == [poll EXCEPT !.pages = pages, !.next = top, !.low = bottom]
  <2>0. pages \in Nat
    BY DEF Poll
  <2>2. Page(poll) = [turned EXCEPT !.more = more, !.upto = upto]
    BY <1>5, Zenon
  <2> HIDE DEF pages
  <2>1. turned \in Poll
    BY <1>2, <1>4, <2>0 DEF Poll
  <2> HIDE DEF turned
  <2>3. CASE more = TRUE
    BY <1>7, <2>1, <2>2, <2>3 DEF Poll
  <2>4. CASE more = FALSE
    BY <1>7, <2>1, <2>2, <2>4 DEF Poll
  <2> QED BY <1>6, <2>3, <2>4
<1>9. Page(poll).low = bottom /\ Page(poll).next = top /\ Page(poll).account = a
      /\ Page(poll).owner = poll.owner
  BY <1>5 DEF Poll
<1> QED BY <1>1, <1>2, <1>4, <1>8, <1>9 DEF Holds

LEMMA SelectContinues ==
  ASSUME TypeOK, IntakeAssumption, NEW q \in AllPolls, Placed(polls[q]), At(q, "enqueueing"),
         NEW verdict \in Verdict, Select(q, verdict)
  PROVE  \E next \in Poll : Continues(q, next)
<1> DEFINE poll == polls[q]
           a == poll.account
           seen == poll.seen \cup {mail[a][poll.next]}
           later == [poll EXCEPT !.seen = seen, !.verdict[a] = verdict]
<1>1. poll \in Poll /\ a \in Accounts /\ mail[a] \in Seq(Threads)
  BY DEF TypeOK, Placed, At
<1>2. poll.next \in 1..Len(mail[a]) /\ poll.low <= Len(mail[a])
  BY <1>1 DEF Placed, At, Poll
<1>3. seen \in SUBSET Threads
  BY <1>1, <1>2 DEF Poll
<1>4. CASE Become(q, Judged(poll, a, verdict))
  BY <1>1, <1>4, JudgedContinues DEF Continues
<1>5. CASE Advance(q, later)
  <2>1. [poll.verdict EXCEPT ![a] = verdict] \in [Accounts -> Verdict]
    BY <1>1 DEF Poll
  <2>2. later \in Poll /\ later.owner = poll.owner /\ later.account = a
        /\ later.low = poll.low /\ later.next = poll.next
    BY <1>1, <1>3, <2>1 DEF Poll
  <2>3. \A i \in Nat : Holds(later, a, i) => Holds(poll, a, i)
    BY <2>2 DEF Holds
  <2> HIDE DEF later
  <2> QED BY <1>1, <1>2, <1>5, <2>2, <2>3, AdvanceContinues
<1> QED BY <1>4, <1>5 DEF Select

LEMMA PollStepContinues ==
  ASSUME TypeOK, PollsPlaced, IntakeAssumption, NEW q \in AllPolls,
         PollStep(q) \/ PollStepFails(q)
  PROVE  \E next \in Poll : Continues(q, next)
<1> DEFINE poll == polls[q]
<1>1. poll \in Poll /\ Placed(poll) /\ None \notin Accounts
  BY DEF TypeOK, PollsPlaced, IntakeAssumption
<1>2. ASSUME At(q, "settings") PROVE NextAccount(q) \in Accounts
  BY <1>1, <1>2 DEF Placed, At, NextAccount
<1>3. ASSUME GetSettings(q) PROVE \E next \in Poll : Continues(q, next)
  <2> DEFINE a == NextAccount(q)
             next == [poll EXCEPT !.pc = "listing", !.verdict[a] = "ok", !.account = a]
  <2>1. At(q, "settings") /\ a \in Accounts /\ poll.low = 0 /\ poll.next = 0
    BY <1>1, <1>2, <1>3 DEF GetSettings, Placed, At
  <2>2. CASE Become(q, Judged(poll, a, "off"))
    BY <1>1, <2>1, <2>2, JudgedContinues DEF Continues, Verdict
  <2>3. CASE Become(q, next)
    <3>1. [poll.verdict EXCEPT ![a] = "ok"] \in [Accounts -> Verdict]
      BY <1>1, <2>1 DEF Poll, Verdict
    <3>2. next \in Poll /\ next.owner = poll.owner /\ next.account = a
          /\ next.low = 0 /\ next.next = 0 /\ next.pc = "listing"
      BY <1>1, <2>1, <2>3, <3>1 DEF Poll, Pc
    <3>3. Placed(next)
      BY <2>1, <3>2 DEF Placed, TypeOK
    <3>4. \A b \in Accounts, i \in Nat : ~Holds(next, b, i)
      BY <3>2 DEF Holds
    <3>5. Continues(q, next)
      BY <2>3, <3>2, <3>3, <3>4 DEF Continues, Become
    <3> QED BY <3>2, <3>5
  <2> QED BY <1>3, <2>2, <2>3 DEF GetSettings
<1>4. ASSUME GetSettingsFails(q) PROVE \E next \in Poll : Continues(q, next)
  <2>1. NextAccount(q) \in Accounts /\ Become(q, Judged(poll, NextAccount(q), "failed"))
    BY <1>2, <1>4 DEF GetSettingsFails
  <2> QED BY <1>1, <2>1, JudgedContinues DEF Continues, Verdict
<1>5. ASSUME ListMessages(q) PROVE \E next \in Poll : Continues(q, next)
  <2>1. poll.account \in Accounts /\ poll.low <= Len(mail[poll.account])
    BY <1>1, <1>5 DEF ListMessages, Placed, At
  <2>2. Advance(q, Page(poll))
    BY <1>5 DEF ListMessages
  <2> QED BY <1>1, <2>1, <2>2, PageOK, AdvanceContinues
<1>6. ASSUME ListMessagesFails(q) PROVE \E next \in Poll : Continues(q, next)
  <2>1. poll.account \in Accounts /\ Become(q, Judged(poll, poll.account, "failed"))
    BY <1>1, <1>6 DEF ListMessagesFails, Placed, At
  <2> QED BY <1>1, <2>1, JudgedContinues DEF Continues, Verdict
<1>7. ASSUME EnqueueMessage(q) PROVE \E next \in Poll : Continues(q, next)
  <2>1. poll.verdict[poll.account] \in Verdict
    BY <1>1, <1>7 DEF EnqueueMessage, Placed, At, Poll
  <2> QED BY <1>1, <1>7, <2>1, SelectContinues DEF EnqueueMessage
<1>8. ASSUME EnqueueFails(q) PROVE \E next \in Poll : Continues(q, next)
  BY <1>1, <1>8, SelectContinues DEF EnqueueFails, Verdict
<1> QED BY <1>3, <1>4, <1>5, <1>6, <1>7, <1>8 DEF PollStep, PollStepFails

-----------------------------------------------------------------------------
(* The parts of the invariant, step by step. *)

(* A message that is gone stays gone under every step of a poll.           *)
LEMMA GoneStays ==
  ASSUME TypeOK, TypeOK', NEW k \in Keys, Gone(k),
         \A a \in Accounts : oldest[a] <= oldest'[a],
         \A q \in AllPolls, a \in Accounts, i \in Nat :
            Holds(polls'[q], a, i) => Holds(polls[q], a, i) \/ i > oldest[a]
  PROVE  Gone(k)'
<1>1. k[2] \in Accounts /\ k[3] \in Nat
  BY DEF Keys, Messages
<1>2. oldest[k[2]] \in Nat /\ oldest'[k[2]] \in Nat
  BY <1>1 DEF TypeOK
<1>3. k[3] <= oldest'[k[2]]
  BY <1>1, <1>2 DEF Gone
<1>4. \A q \in AllPolls : ~Holds(polls'[q], k[2], k[3])
  BY <1>1, <1>2 DEF Gone
<1> QED BY <1>3, <1>4 DEF Gone, Holds

(* What leaves the table alone keeps the count of its rows.                *)
LEMMA RowsStay ==
  ASSUME TypeOK, TypeOK', RowsCounted, UNCHANGED jobVars,
         \A a \in Accounts : oldest[a] <= oldest'[a],
         \A q \in AllPolls, a \in Accounts, i \in Nat :
            Holds(polls'[q], a, i) => Holds(polls[q], a, i) \/ i > oldest[a]
  PROVE  RowsCounted'
<1> SUFFICES ASSUME NEW k \in Keys
    PROVE  \/ k \in jobs' /\ made'[k] = 1
           \/ k \notin jobs' /\ made'[k] = 0
           \/ k \notin jobs' /\ made'[k] = 1 /\ Gone(k)'
  BY DEF RowsCounted
<1>1. jobs' = jobs /\ made' = made
  BY DEF jobVars
<1>2. Gone(k) => Gone(k)'
  BY GoneStays
<1> QED BY <1>1, <1>2 DEF RowsCounted

(* The steps of a poll leave its poller alone.                             *)
LEMMA PollersStay ==
  ASSUME TypeOK, PollersIdle, OnePollPerPoller, pollers' = pollers,
         NEW q \in AllPolls, NEW next \in Poll, polls' = [polls EXCEPT ![q] = next],
         next.owner = polls[q].owner, ~At(q, "idle")
  PROVE  PollersIdle' /\ OnePollPerPoller'
<1>1. \A r \in AllPolls : polls'[r].owner = polls[r].owner
                          /\ (polls'[r].pc # "idle" => polls[r].pc # "idle")
  BY DEF TypeOK, At
<1> QED BY <1>1 DEF PollersIdle, OnePollPerPoller, AllPolls

(* Continues, for all polls.                                               *)
LEMMA ContinuesHolds ==
  ASSUME TypeOK, NEW q \in AllPolls, NEW next \in Poll, Continues(q, next)
  PROVE  \A r \in AllPolls, a \in Accounts, i \in Nat :
            Holds(polls'[r], a, i) => Holds(polls[r], a, i) \/ i > oldest[a]
BY DEF Continues, TypeOK

(* A poll that is about to enqueue a message has it in hand.               *)
LEMMA KeyOK ==
  ASSUME TypeOK, PollsPlaced, NEW q \in AllPolls, At(q, "enqueueing")
  PROVE  /\ Key(q) \in Keys /\ ~Gone(Key(q))
<1> DEFINE poll == polls[q]
<1>1. poll \in Poll /\ Placed(poll)
  BY DEF TypeOK, PollsPlaced
<1>2. poll.account \in Accounts /\ poll.next \in Nat /\ poll.low \in Nat
      /\ poll.low < poll.next /\ poll.next <= Len(mail[poll.account])
      /\ poll.origin \in Origins
  BY <1>1 DEF Placed, At, Poll
<1>3. poll.next \in Messages
  BY <1>2, IntakeAssumption DEF TypeOK, Messages, IntakeAssumption
<1>4. Key(q) \in Keys
  BY <1>2, <1>3 DEF Key, Keys
<1>5. Holds(poll, Key(q)[2], Key(q)[3])
  BY <1>2 DEF Holds, Key
<1> QED BY <1>4, <1>5 DEF Gone

LEMMA InsertedOK ==
  ASSUME TypeOK, RowsCounted, NEW k \in Keys, ~Gone(k), Inserted(k)
  PROVE  /\ jobs' \subseteq Keys /\ made' \in [Keys -> Nat]
         /\ k \in jobs' /\ made'[k] = 1
         /\ \A l \in Keys \ {k} : (l \in jobs' <=> l \in jobs) /\ made'[l] = made[l]
<1>1. CASE k \notin jobs
  BY <1>1 DEF Inserted, TypeOK, RowsCounted
<1>2. CASE k \in jobs
  BY <1>2 DEF Inserted, TypeOK, RowsCounted, jobVars
<1> QED BY <1>1, <1>2

LEMMA MishapOK ==
  ASSUME TypeOK, IntakeAssumption, Mishap \/ UNCHANGED mishaps
  PROVE  mishaps' \in 0..MaxMishaps
BY DEF TypeOK, Mishap, IntakeAssumption

(* A poll takes a step.                                                    *)
LEMMA PollStepInv ==
  ASSUME IntakeInv, IntakeAssumption, NEW q \in AllPolls, PollStep(q) \/ PollStepFails(q)
  PROVE  IntakeInv'
<1>1. PICK next \in Poll : Continues(q, next)
  BY PollStepContinues DEF IntakeInv
<1>2. TypeOK /\ PollsPlaced /\ RowsCounted /\ PollersIdle /\ OnePollPerPoller
  BY DEF IntakeInv
<1>3. UNCHANGED <<mailVars, settingVars, pollers>> /\ ~At(q, "idle")
      /\ (Mishap \/ UNCHANGED mishaps)
  BY DEF PollStep, PollStepFails, GetSettings, GetSettingsFails, ListMessages,
         ListMessagesFails, EnqueueMessage, EnqueueFails, At
<1>4. \/ UNCHANGED jobVars
      \/ At(q, "enqueueing") /\ Inserted(Key(q))
  BY DEF PollStep, PollStepFails, GetSettings, GetSettingsFails, ListMessages,
         ListMessagesFails, EnqueueMessage, EnqueueFails
<1>5. polls' = [polls EXCEPT ![q] = next] /\ Placed(next) /\ next.owner = polls[q].owner
  BY <1>1 DEF Continues
<1>6. jobs' \subseteq Keys /\ made' \in [Keys -> Nat]
  <2>1. CASE UNCHANGED jobVars
    BY <1>2, <2>1 DEF jobVars, TypeOK
  <2>2. CASE At(q, "enqueueing") /\ Inserted(Key(q))
    BY <1>2, <2>2, KeyOK, InsertedOK
  <2> QED BY <1>4, <2>1, <2>2
<1>7. TypeOK'
  <2>1. polls' \in [AllPolls -> Poll]
    BY <1>2, <1>5 DEF TypeOK
  <2>2. mishaps' \in 0..MaxMishaps
    BY <1>2, <1>3, MishapOK
  <2> QED BY <1>2, <1>3, <1>6, <2>1, <2>2 DEF TypeOK, mailVars, settingVars
<1>8. PollsPlaced'
  BY <1>2, <1>3, <1>5 DEF PollsPlaced, Placed, TypeOK, mailVars
<1>9. \A a \in Accounts : oldest[a] <= oldest'[a]
  BY <1>2, <1>3 DEF mailVars, TypeOK
<1>10. \A r \in AllPolls, a \in Accounts, i \in Nat :
            Holds(polls'[r], a, i) => Holds(polls[r], a, i) \/ i > oldest[a]
  BY <1>1, <1>2, ContinuesHolds
<1>11. RowsCounted'
  <2>1. CASE UNCHANGED jobVars
    BY <1>2, <1>7, <1>9, <1>10, <2>1, RowsStay
  <2>2. CASE At(q, "enqueueing") /\ Inserted(Key(q))
    <3>1. Key(q) \in Keys /\ ~Gone(Key(q))
      BY <1>2, <2>2, KeyOK
    <3>2. /\ Key(q) \in jobs' /\ made'[Key(q)] = 1
          /\ \A l \in Keys \ {Key(q)} : (l \in jobs' <=> l \in jobs) /\ made'[l] = made[l]
      BY <1>2, <2>2, <3>1, InsertedOK
    <3>3. \A k \in Keys : Gone(k) => Gone(k)'
      BY <1>2, <1>7, <1>9, <1>10, GoneStays
    <3>4. SUFFICES ASSUME NEW k \in Keys
          PROVE  \/ k \in jobs' /\ made'[k] = 1
                 \/ k \notin jobs' /\ made'[k] = 0
                 \/ k \notin jobs' /\ made'[k] = 1 /\ Gone(k)'
      BY DEF RowsCounted
    <3>5. CASE k = Key(q)
      BY <3>2, <3>5
    <3>6. CASE k # Key(q)
      BY <1>2, <3>2, <3>3, <3>6 DEF RowsCounted
    <3> QED BY <3>5, <3>6
  <2> QED BY <1>4, <2>1, <2>2
<1>12. PollersIdle' /\ OnePollPerPoller'
  BY <1>2, <1>3, <1>5, PollersStay
<1> QED BY <1>7, <1>8, <1>11, <1>12 DEF IntakeInv

(* A poll begins.                                                          *)
LEMMA BeginOK ==
  ASSUME IntakeAssumption, NEW q \in AllPolls, NEW owner \in Pollers \cup Requests,
         NEW origin \in Origins, Begin(q, owner, origin)
  PROVE  /\ At(q, "idle") /\ (Mishap \/ UNCHANGED mishaps)
         /\ \E next \in Poll : /\ polls' = [polls EXCEPT ![q] = next]
                               /\ Placed(next) /\ next.owner = owner /\ next.account = None
<1> DEFINE poll == [IdlePoll EXCEPT !.owner = owner, !.origin = origin]
           listed == [a \in Accounts |-> IF a \in connected THEN "todo" ELSE "out"]
           begun == [poll EXCEPT !.verdict = listed]
           failed == [poll EXCEPT !.pc = "done"]
<1>1. poll \in Poll /\ poll.account = None /\ poll.low = 0 /\ poll.next = 0 /\ poll.owner = owner
      /\ poll.pc = "idle"
  BY IdlePollOK DEF Poll, IdlePoll
<1>2. listed \in [Accounts -> Verdict]
  BY DEF Verdict
<1> HIDE DEF poll, listed
<1>3. begun \in Poll /\ begun.account = None /\ begun.low = 0 /\ begun.next = 0
      /\ begun.owner = owner
  BY <1>1, <1>2 DEF Poll
<1>4. failed \in Poll /\ failed.account = None /\ failed.low = 0 /\ failed.next = 0
      /\ failed.owner = owner /\ failed.pc = "done"
  BY <1>1 DEF Poll, Pc
<1>5. Placed(failed)
  BY <1>4 DEF Placed
<1> HIDE DEF begun, failed
<1>6. /\ At(q, "idle")
      /\ \/ Become(q, Forward(begun)) /\ UNCHANGED mishaps
         \/ Mishap /\ Become(q, failed)
  BY Zenon DEF Begin, poll, listed, begun, failed
<1>7. CASE Become(q, Forward(begun)) /\ UNCHANGED mishaps
  BY <1>3, <1>6, <1>7, ForwardOK DEF Become
<1>8. CASE Mishap /\ Become(q, failed)
  BY <1>4, <1>5, <1>6, <1>8 DEF Become
<1> QED BY <1>6, <1>7, <1>8

(* What a step does to the polls when one of them begins or ends.          *)
LEMMA PollReplaced ==
  ASSUME IntakeInv, IntakeAssumption, NEW q \in AllPolls, NEW next \in Poll,
         polls' = [polls EXCEPT ![q] = next], Placed(next), next.account = None,
         UNCHANGED <<mailVars, settingVars, jobVars>>, Mishap \/ UNCHANGED mishaps,
         pollers' \in [Pollers -> [mode: Mode, current: Polls \cup {None}]]
  PROVE  TypeOK' /\ PollsPlaced' /\ RowsCounted'
<1>1. TypeOK /\ PollsPlaced /\ RowsCounted
  BY DEF IntakeInv
<1>2. TypeOK'
  <2>1. polls' \in [AllPolls -> Poll]
    BY <1>1 DEF TypeOK
  <2>2. mishaps' \in 0..MaxMishaps
    BY <1>1, MishapOK
  <2> QED BY <1>1, <2>1, <2>2 DEF TypeOK, mailVars, settingVars, jobVars
<1>3. PollsPlaced'
  BY <1>1 DEF PollsPlaced, Placed, TypeOK, mailVars
<1>4. \A a \in Accounts : oldest[a] <= oldest'[a]
  BY <1>1 DEF mailVars, TypeOK
<1>5. None \notin Accounts
  BY DEF IntakeAssumption
<1>6. \A r \in AllPolls, a \in Accounts, i \in Nat :
            Holds(polls'[r], a, i) => Holds(polls[r], a, i) \/ i > oldest[a]
  BY <1>1, <1>5 DEF Holds, TypeOK
<1>7. RowsCounted'
  BY <1>1, <1>2, <1>4, <1>6, RowsStay
<1> QED BY <1>2, <1>3, <1>7

LEMMA PollNowInv ==
  ASSUME IntakeInv, IntakeAssumption, NEW p \in Pollers, PollNow(p),
         pollers[p].current = None
  PROVE  IntakeInv'
<1>1. TypeOK /\ PollersIdle /\ OnePollPerPoller
  BY DEF IntakeInv
<1>2. PICK q \in FreePolls : /\ Begin(q, p, Schedule)
                             /\ pollers' = [pollers EXCEPT ![p] = [mode |-> "on", current |-> q]]
  BY DEF PollNow
<1>3. q \in Polls /\ q \in AllPolls
  BY DEF FreePolls, AllPolls
<1>4. Schedule \in Origins /\ p \in Pollers \cup Requests
  BY DEF Origins
<1>5. /\ At(q, "idle") /\ (Mishap \/ UNCHANGED mishaps)
      /\ \E next \in Poll : /\ polls' = [polls EXCEPT ![q] = next]
                            /\ Placed(next) /\ next.owner = p /\ next.account = None
  BY <1>2, <1>3, <1>4, BeginOK
<1>6. PICK next \in Poll : /\ polls' = [polls EXCEPT ![q] = next]
                           /\ Placed(next) /\ next.owner = p /\ next.account = None
  BY <1>5
<1>7. pollers' \in [Pollers -> [mode: Mode, current: Polls \cup {None}]]
  BY <1>1, <1>2, <1>3 DEF TypeOK, Mode
<1>8. UNCHANGED <<mailVars, settingVars, jobVars>>
  BY DEF PollNow
<1>9. TypeOK' /\ PollsPlaced' /\ RowsCounted'
  BY <1>3, <1>5, <1>6, <1>7, <1>8, PollReplaced
<1>10. PollersIdle'
  BY <1>1, <1>2 DEF PollersIdle, TypeOK
<1>11. OnePollPerPoller'
  <2>1. None \notin Polls
    BY DEF IntakeAssumption
  <2>2. \A r \in AllPolls : r # q => polls'[r] = polls[r]
    BY <1>1, <1>6 DEF TypeOK
  <2>3. \A o \in Pollers : o # p => pollers'[o] = pollers[o]
    BY <1>1, <1>2 DEF TypeOK
  <2>4. pollers'[p] = [mode |-> "on", current |-> q]
    BY <1>1, <1>2 DEF TypeOK
  <2>5. polls'[q].owner = p
    BY <1>1, <1>3, <1>6 DEF TypeOK
  <2>6. ASSUME NEW r \in Polls, polls'[r].pc # "idle"
        PROVE  polls'[r].owner \in Pollers /\ pollers'[polls'[r].owner].current = r
    <3>1. CASE r = q
      BY <2>4, <2>5, <3>1
    <3>2. CASE r # q
      <4>1. polls'[r] = polls[r]
        BY <2>2, <3>2 DEF AllPolls
      <4>2. polls[r].owner \in Pollers /\ pollers[polls[r].owner].current = r
        BY <1>1, <2>6, <4>1 DEF OnePollPerPoller
      <4>3. polls[r].owner # p
        BY <2>1, <4>2
      <4> QED BY <2>3, <4>1, <4>2, <4>3
    <3> QED BY <3>1, <3>2
  <2>7. ASSUME NEW o \in Pollers, pollers'[o].mode = "stopped" PROVE pollers'[o].current = None
    BY <1>1, <2>3, <2>4, <2>7 DEF OnePollPerPoller
  <2> QED BY <2>6, <2>7 DEF OnePollPerPoller
<1> QED BY <1>9, <1>10, <1>11 DEF IntakeInv

LEMMA SubmitInv ==
  ASSUME IntakeInv, IntakeAssumption, NEW r \in Requests, Submit(r)
  PROVE  IntakeInv'
<1>1. TypeOK /\ PollersIdle /\ OnePollPerPoller
  BY DEF IntakeInv
<1> DEFINE origin == IF r \in Resets THEN r ELSE Schedule
<1>2. origin \in Origins /\ r \in AllPolls /\ r \in Pollers \cup Requests /\ r \notin Polls
  BY DEF Origins, AllPolls, IntakeAssumption
<1>3. Begin(r, r, origin) /\ UNCHANGED <<mailVars, settingVars, jobVars, pollers>>
  BY DEF Submit
<1> HIDE DEF origin
<1>4. /\ Mishap \/ UNCHANGED mishaps
      /\ \E next \in Poll : /\ polls' = [polls EXCEPT ![r] = next]
                            /\ Placed(next) /\ next.owner = r /\ next.account = None
  BY <1>2, <1>3, BeginOK
<1>5. PICK next \in Poll : /\ polls' = [polls EXCEPT ![r] = next]
                           /\ Placed(next) /\ next.owner = r /\ next.account = None
  BY <1>4
<1>6. pollers' \in [Pollers -> [mode: Mode, current: Polls \cup {None}]]
  BY <1>1, <1>3 DEF TypeOK
<1>7. TypeOK' /\ PollsPlaced' /\ RowsCounted'
  BY <1>2, <1>3, <1>4, <1>5, <1>6, PollReplaced
<1>8. PollersIdle' /\ OnePollPerPoller'
  BY <1>1, <1>2, <1>3, <1>5 DEF PollersIdle, OnePollPerPoller, TypeOK, AllPolls
<1> QED BY <1>7, <1>8 DEF IntakeInv

LEMMA SettleInv ==
  ASSUME IntakeInv, IntakeAssumption, NEW q \in AllPolls, Settle(q)
  PROVE  IntakeInv'
<1>1. TypeOK /\ PollersIdle /\ OnePollPerPoller
  BY DEF IntakeInv
<1> DEFINE next == IF q \in Polls THEN IdlePoll ELSE [IdlePoll EXCEPT !.pc = "answered"]
<1>2. next \in Poll /\ Placed(next) /\ next.account = None
  BY IdlePollOK DEF IdlePoll, Poll, Pc, Placed
<1>3. polls' = [polls EXCEPT ![q] = next] /\ UNCHANGED <<mailVars, settingVars, jobVars, mishaps>>
  BY DEF Settle, Become
<1>4. pollers' = [p \in Pollers |-> IF pollers[p].current = q
                                    THEN [pollers[p] EXCEPT !.current = None]
                                    ELSE pollers[p]]
  BY DEF Settle
<1>5. \A p \in Pollers : /\ pollers'[p].mode = pollers[p].mode
                         /\ pollers'[p].current =
                              IF pollers[p].current = q THEN None ELSE pollers[p].current
  BY <1>1, <1>4 DEF TypeOK
<1>6. pollers' \in [Pollers -> [mode: Mode, current: Polls \cup {None}]]
  BY <1>1, <1>4 DEF TypeOK
<1>7. q \in Polls => next.pc = "idle"
  BY DEF IdlePoll
<1> HIDE DEF next
<1>8. TypeOK' /\ PollsPlaced' /\ RowsCounted'
  BY <1>2, <1>3, <1>6, PollReplaced
<1>9. PollersIdle'
  BY <1>1, <1>5 DEF PollersIdle
<1>10. OnePollPerPoller'
  <2>1. \A r \in Polls : polls'[r].pc # "idle" => r # q /\ polls'[r] = polls[r]
    BY <1>1, <1>3, <1>7 DEF TypeOK, AllPolls
  <2> QED BY <1>1, <1>5, <2>1 DEF OnePollPerPoller
<1> QED BY <1>8, <1>9, <1>10 DEF IntakeInv

LEMMA CrashInv ==
  ASSUME IntakeInv, IntakeAssumption, NEW p \in Pollers, Crash(p)
  PROVE  IntakeInv'
<1>1. TypeOK /\ PollsPlaced /\ RowsCounted /\ PollersIdle /\ OnePollPerPoller
  BY DEF IntakeInv
<1>2. /\ pollers' = [pollers EXCEPT ![p] = [mode |-> "crashed", current |-> None]]
      /\ polls' = [q \in AllPolls |-> IF polls[q].owner = p THEN IdlePoll ELSE polls[q]]
      /\ UNCHANGED <<mailVars, settingVars, jobVars, mishaps>>
  BY DEF Crash
<1>3. \A q \in AllPolls : polls'[q] = IF polls[q].owner = p THEN IdlePoll ELSE polls[q]
  BY <1>2
<1>4. TypeOK'
  <2>1. polls' \in [AllPolls -> Poll]
    BY <1>1, <1>2, IdlePollOK DEF TypeOK
  <2>2. pollers' \in [Pollers -> [mode: Mode, current: Polls \cup {None}]]
    BY <1>1, <1>2 DEF TypeOK, Mode
  <2> QED BY <1>1, <1>2, <2>1, <2>2 DEF TypeOK, mailVars, settingVars, jobVars
<1>5. PollsPlaced'
  <2>1. \A q \in AllPolls : Placed(polls'[q])
    BY <1>1, <1>3, IdlePollOK DEF PollsPlaced
  <2> QED BY <1>2, <2>1 DEF PollsPlaced, Placed, mailVars
<1>6. RowsCounted'
  <2>1. \A a \in Accounts : oldest[a] <= oldest'[a]
    BY <1>1, <1>2 DEF mailVars, TypeOK
  <2>2. None \notin Accounts
    BY DEF IntakeAssumption
  <2>3. \A r \in AllPolls, a \in Accounts, i \in Nat :
            Holds(polls'[r], a, i) => Holds(polls[r], a, i) \/ i > oldest[a]
    BY <1>3, <2>2, IdlePollOK DEF Holds
  <2> QED BY <1>1, <1>2, <1>4, <2>1, <2>3, RowsStay
<1>7. PollersIdle'
  BY <1>1, <1>2 DEF PollersIdle, TypeOK
<1>8. OnePollPerPoller'
  <2>1. \A r \in Polls : polls'[r].pc # "idle" => polls[r].owner # p /\ polls'[r] = polls[r]
    BY <1>3 DEF IdlePoll, AllPolls
  <2> QED BY <1>1, <1>2, <2>1 DEF OnePollPerPoller, TypeOK
<1> QED BY <1>4, <1>5, <1>6, <1>7, <1>8 DEF IntakeInv

LEMMA StopInv ==
  ASSUME IntakeInv, NEW p \in Pollers, Stop(p) \/ Stopped(p)
  PROVE  IntakeInv'
<1>1. TypeOK /\ PollsPlaced /\ RowsCounted /\ PollersIdle /\ OnePollPerPoller
  BY DEF IntakeInv
<1>2. UNCHANGED <<mailVars, settingVars, jobVars, polls, mishaps>>
  BY DEF Stop, Stopped
<1>3. PICK mode \in {"stopping", "stopped"} :
         /\ pollers' = [pollers EXCEPT ![p].mode = mode]
         /\ mode = "stopped" => pollers[p].current = None
  BY DEF Stop, Stopped
<1>4. TypeOK'
  BY <1>1, <1>2, <1>3 DEF TypeOK, mailVars, settingVars, jobVars, Mode
<1>5. PollsPlaced'
  BY <1>1, <1>2 DEF PollsPlaced, Placed, mailVars
<1>6. RowsCounted'
  BY <1>1, <1>2 DEF RowsCounted, Gone, Holds, jobVars, mailVars
<1>7. PollersIdle' /\ OnePollPerPoller'
  BY <1>1, <1>2, <1>3 DEF PollersIdle, OnePollPerPoller, TypeOK
<1> QED BY <1>4, <1>5, <1>6, <1>7 DEF IntakeInv

(* A message arrives while there are fewer than MaxArrivals, so no mailbox *)
(* holds that many.                                                        *)
LEMMA ArrivedBelow ==
  ASSUME TypeOK, IntakeAssumption, NEW a \in Accounts, Cardinality(Arrived) < MaxArrivals
  PROVE  Len(mail[a]) < MaxArrivals
<1>1. Len(mail[a]) \in Nat /\ Len(mail[a]) <= MaxArrivals /\ MaxArrivals \in Nat
  BY DEF TypeOK, IntakeAssumption
<1>2. IsFiniteSet(Accounts) /\ IsFiniteSet(Messages)
  BY <1>1, FS_Interval DEF IntakeAssumption, Messages
<1>3. IsFiniteSet(Accounts \X Messages)
  BY <1>2, FS_Product
<1>4. IsFiniteSet(Arrived)
  BY <1>3, FS_Subset DEF Arrived
<1> DEFINE n == Len(mail[a])
           mine == {a} \X (1..n)
<1>5. mine \subseteq Arrived
  BY <1>1 DEF Arrived, Messages
<1>6. IsFiniteSet({a}) /\ Cardinality({a}) = 1
  BY FS_Singleton
<1>7. n \in Nat
  BY <1>1
<1> HIDE DEF n
<1>8. IsFiniteSet(1..n) /\ Cardinality(1..n) = n
  <2>0. 1 \in Int /\ n \in Int
    BY <1>7
  <2>1. /\ IsFiniteSet(1..n)
        /\ Cardinality(1..n) = IF 1 > n THEN 0 ELSE n - 1 + 1
    BY <2>0, FS_Interval, Zenon
  <2> QED BY <1>7, <2>1
<1>9. Cardinality(mine) = 1 * n
  BY <1>6, <1>8, FS_Product, Zenon
<1> HIDE DEF mine
<1>10. Cardinality(mine) <= Cardinality(Arrived) /\ Cardinality(Arrived) \in Nat
  BY <1>4, <1>5, FS_Subset, FS_CardinalityType
<1> QED BY <1>1, <1>7, <1>9, <1>10 DEF n

(* The mailbox only grows, at either end.                                  *)
LEMMA MailboxInv ==
  ASSUME IntakeInv, IntakeAssumption, NEW a \in Accounts,
         GrowOld(a) \/ \E t \in Threads : Arrive(a, t)
  PROVE  IntakeInv'
<1>1. TypeOK /\ PollsPlaced /\ RowsCounted /\ PollersIdle /\ OnePollPerPoller
  BY DEF IntakeInv
<1>2. UNCHANGED <<settingVars, jobVars, pollers, polls, mishaps>>
  BY DEF GrowOld, Arrive
<1>3. /\ mail' \in [Accounts -> Seq(Threads)] /\ oldest' \in [Accounts -> Nat]
      /\ \A b \in Accounts : /\ Len(mail[b]) <= Len(mail'[b]) /\ Len(mail'[b]) <= MaxArrivals
                             /\ oldest[b] <= oldest'[b] /\ oldest'[b] <= Len(mail'[b])
  <2>1. CASE GrowOld(a)
    BY <1>1, <2>1 DEF GrowOld, TypeOK
  <2>2. CASE \E t \in Threads : Arrive(a, t)
    <3>1. PICK t \in Threads : Arrive(a, t)
      BY <2>2
    <3>2. mail' = [mail EXCEPT ![a] = Append(mail[a], t)] /\ oldest' = oldest
      BY <3>1 DEF Arrive
    <3>3. Len(mail[a]) < MaxArrivals
      BY <1>1, <3>1, ArrivedBelow DEF Arrive
    <3>4. Append(mail[a], t) \in Seq(Threads) /\ Len(Append(mail[a], t)) = Len(mail[a]) + 1
      BY <1>1 DEF TypeOK
    <3>5. mail' \in [Accounts -> Seq(Threads)]
      BY <1>1, <3>2, <3>4 DEF TypeOK
    <3>6. \A b \in Accounts : Len(mail[b]) \in Nat /\ oldest[b] \in Nat /\ oldest[b] <= Len(mail[b])
                              /\ Len(mail[b]) <= MaxArrivals
      BY <1>1 DEF TypeOK
    <3>7. MaxArrivals \in Nat
      BY DEF IntakeAssumption
    <3>8. ASSUME NEW b \in Accounts
          PROVE  /\ Len(mail[b]) <= Len(mail'[b]) /\ Len(mail'[b]) <= MaxArrivals
                 /\ oldest'[b] = oldest[b] /\ oldest[b] <= Len(mail'[b])
      <4>1. CASE b = a
        <5>1. mail'[b] = Append(mail[a], t)
          BY <1>1, <3>2, <4>1 DEF TypeOK
        <5> QED BY <3>2, <3>3, <3>4, <3>6, <3>7, <4>1, <5>1
      <4>2. CASE b # a
        BY <1>1, <3>2, <3>6, <4>2 DEF TypeOK
      <4> QED BY <4>1, <4>2
    <3> QED BY <1>1, <3>2, <3>5, <3>6, <3>8 DEF TypeOK
  <2> QED BY <2>1, <2>2
<1>4. TypeOK'
  BY <1>1, <1>2, <1>3 DEF TypeOK, settingVars, jobVars
<1>5. PollsPlaced'
  <2> SUFFICES ASSUME NEW q \in AllPolls PROVE Placed(polls[q])'
    BY <1>2 DEF PollsPlaced
  <2>1. polls'[q] = polls[q] /\ polls[q] \in Poll /\ Placed(polls[q])
    BY <1>1, <1>2 DEF TypeOK, PollsPlaced
  <2>2. \A b \in Accounts : /\ Len(mail[b]) \in Nat /\ Len(mail'[b]) \in Nat
                            /\ Len(mail[b]) <= Len(mail'[b])
    BY <1>1, <1>3 DEF TypeOK
  <2>3. polls[q].low \in Nat /\ polls[q].next \in Nat
    BY <2>1 DEF Poll
  <2>4. polls[q].pc \in {"listing", "enqueueing"} =>
            /\ polls[q].account \in Accounts
            /\ polls[q].low <= Len(mail'[polls[q].account])
            /\ polls[q].next <= Len(mail'[polls[q].account])
    BY <2>1, <2>2, <2>3 DEF Placed
  <2> QED BY <2>1, <2>4 DEF Placed
<1>6. RowsCounted'
  BY <1>1, <1>2, <1>3, <1>4, RowsStay
<1>7. PollersIdle' /\ OnePollPerPoller'
  BY <1>1, <1>2 DEF PollersIdle, OnePollPerPoller
<1> QED BY <1>4, <1>5, <1>6, <1>7 DEF IntakeInv

LEMMA UserInv ==
  ASSUME IntakeInv, IntakeAssumption, NEW a \in Accounts,
         ChangeConnection(a) \/ SaveSettings(a)
  PROVE  IntakeInv'
<1>1. TypeOK /\ PollsPlaced /\ RowsCounted /\ PollersIdle /\ OnePollPerPoller
  BY DEF IntakeInv
<1>2. UNCHANGED <<mailVars, jobVars, pollers, polls>>
      /\ connected' \subseteq Accounts /\ drafting' \subseteq Accounts
  BY <1>1 DEF ChangeConnection, SaveSettings, TypeOK
<1>3. mishaps' \in 0..MaxMishaps
  BY <1>1, MishapOK DEF ChangeConnection, SaveSettings
<1>4. TypeOK'
  BY <1>1, <1>2, <1>3 DEF TypeOK, mailVars, jobVars
<1>5. PollsPlaced'
  BY <1>1, <1>2 DEF PollsPlaced, Placed, mailVars
<1>6. RowsCounted'
  BY <1>1, <1>2 DEF RowsCounted, Gone, Holds, jobVars, mailVars
<1>7. PollersIdle' /\ OnePollPerPoller'
  BY <1>1, <1>2 DEF PollersIdle, OnePollPerPoller
<1> QED BY <1>4, <1>5, <1>6, <1>7 DEF IntakeInv

(* The retention deletes the rows of messages that are gone.               *)
LEMMA DeleteInv ==
  ASSUME IntakeInv, NEW S \in SUBSET jobs, DeleteExpired(S)
  PROVE  IntakeInv'
<1>1. TypeOK /\ PollsPlaced /\ RowsCounted /\ PollersIdle /\ OnePollPerPoller
  BY DEF IntakeInv
<1>2. jobs' = jobs \ S /\ UNCHANGED <<mailVars, settingVars, made, pollers, polls, mishaps>>
  BY DEF DeleteExpired
<1>3. TypeOK'
  BY <1>1, <1>2 DEF TypeOK, mailVars, settingVars
<1>4. PollsPlaced'
  BY <1>1, <1>2 DEF PollsPlaced, Placed, mailVars
<1>5. \A k \in S : Gone(k)
  BY DEF DeleteExpired, Expired, Gone, Holds
<1>6. \A k \in Keys : Gone(k) => Gone(k)'
  BY <1>2 DEF Gone, Holds, mailVars
<1>7. RowsCounted'
  <2> SUFFICES ASSUME NEW k \in Keys
      PROVE  \/ k \in jobs' /\ made'[k] = 1
             \/ k \notin jobs' /\ made'[k] = 0
             \/ k \notin jobs' /\ made'[k] = 1 /\ Gone(k)'
    BY DEF RowsCounted
  <2> QED BY <1>1, <1>2, <1>5, <1>6 DEF RowsCounted
<1>8. PollersIdle' /\ OnePollPerPoller'
  BY <1>1, <1>2 DEF PollersIdle, OnePollPerPoller
<1> QED BY <1>3, <1>4, <1>7, <1>8 DEF IntakeInv

-----------------------------------------------------------------------------
LEMMA InitInv == ASSUME IntakeAssumption, Init PROVE IntakeInv
<1>1. TypeOK
  <2>1. \A a \in Accounts : mail[a] = <<>> /\ oldest[a] = 0
    BY DEF Init
  <2>2. mail \in [Accounts -> Seq(Threads)]
    BY DEF Init
  <2>3. polls \in [AllPolls -> Poll]
    BY IdlePollOK DEF Init
  <2> QED BY <2>1, <2>2, <2>3, IntakeAssumption DEF Init, TypeOK, Mode, IntakeAssumption
<1>2. PollsPlaced
  BY IdlePollOK DEF Init, PollsPlaced
<1>3. RowsCounted
  BY DEF Init, RowsCounted
<1>4. PollersIdle /\ OnePollPerPoller
  BY DEF Init, PollersIdle, OnePollPerPoller, IdlePoll, AllPolls
<1> QED BY <1>1, <1>2, <1>3, <1>4 DEF IntakeInv

(* IntakeInv is inductive: it holds of every state of every execution.     *)
THEOREM IntakeInvariant == Spec => []IntakeInv
<1> USE IntakeAssumption
<1>1. Init => IntakeInv
  BY InitInv
<1>2. IntakeInv /\ [Next]_vars => IntakeInv'
  <2> SUFFICES ASSUME IntakeInv, [Next]_vars PROVE IntakeInv'
    OBVIOUS
  <2>1. ASSUME NEW q \in AllPolls, PollStep(q) \/ PollStepFails(q) PROVE IntakeInv'
    BY <2>1, PollStepInv
  <2>2. ASSUME NEW q \in AllPolls, Settle(q) PROVE IntakeInv'
    BY <2>2, SettleInv
  <2>3. ASSUME NEW p \in Pollers, Stop(p) \/ Stopped(p) PROVE IntakeInv'
    BY <2>3, StopInv
  <2>4. ASSUME NEW p \in Pollers, Crash(p) PROVE IntakeInv'
    BY <2>4, CrashInv
  <2>5. ASSUME NEW p \in Pollers, StartPoller(p) PROVE IntakeInv'
    BY <2>5, PollNowInv DEF StartPoller, IntakeInv, PollersIdle
  <2>6. ASSUME NEW p \in Pollers, Tick(p) PROVE IntakeInv'
    BY <2>6, PollNowInv DEF Tick
  <2>7. ASSUME NEW r \in Requests, Submit(r) PROVE IntakeInv'
    BY <2>7, SubmitInv
  <2>8. ASSUME NEW a \in Accounts, GrowOld(a) \/ \E t \in Threads : Arrive(a, t)
        PROVE  IntakeInv'
    BY <2>8, MailboxInv
  <2>9. ASSUME NEW a \in Accounts, ChangeConnection(a) \/ SaveSettings(a) PROVE IntakeInv'
    BY <2>9, UserInv
  <2>10. ASSUME NEW S \in SUBSET jobs, DeleteExpired(S) PROVE IntakeInv'
    BY <2>10, DeleteInv
  <2>11. CASE UNCHANGED vars
    BY <2>11 DEF vars, mailVars, settingVars, jobVars, IntakeInv, TypeOK, PollsPlaced, Placed,
              RowsCounted, Gone, Holds, PollersIdle, OnePollPerPoller
  <2>12. CASE Next
    BY <2>1, <2>2, <2>3, <2>4, <2>5, <2>6, <2>7, <2>8, <2>9, <2>10, <2>12 DEF Next
  <2> QED BY <2>11, <2>12
<1> QED BY <1>1, <1>2, PTL DEF Spec

(* The variables keep their types, whatever fails and however polls        *)
(* overlap.                                                                *)
THEOREM IntakeTypes == Spec => []TypeOK
BY IntakeInvariant, PTL DEF IntakeInv

(* A message has at most one Job per idempotency key prefix, whatever the  *)
(* number of processes and submissions that poll at once, although answers *)
(* are lost, processes crash and the retention deletes rows.               *)
THEOREM OneJob == Spec => []OneJobPerMessage
<1>1. IntakeInv => OneJobPerMessage
  BY DEF IntakeInv, RowsCounted, OneJobPerMessage
<1> QED BY <1>1, IntakeInvariant, PTL

(* A poller never has two polls, and none once stop() has returned.        *)
THEOREM OnePoll == Spec => []OnePollPerPoller
BY IntakeInvariant, PTL DEF IntakeInv

-----------------------------------------------------------------------------
(* What a poll has dealt with: the third layer.  rows is made, before or   *)
(* after the step under consideration.                                     *)

(* The messages m+1..n of account a, newest first, are behind the poll:    *)
(* seenThreadIds are their threads, and the newest of each has a row.      *)
Read(poll, m, rows) ==
    LET a == poll.account
        n == poll.upto[a]
    IN  /\ m \in Nat /\ poll.low <= m /\ m <= n
        /\ poll.seen = {mail[a][j] : j \in Newer(m, n)}
        /\ ~poll.more => poll.low <= oldest[a]
        /\ poll.verdict[a] = "ok" =>
             \A i \in Newer(m, n) : \/ \E j \in Newer(i, n) : mail[a][j] = mail[a][i]
                                    \/ rows[<<poll.origin, a, i>>] >= 1

(* Every message that is wanted of account a has had a row.                *)
Complete(poll, a, rows) ==
    \A i \in Wanted(a, poll.upto[a]) : rows[<<poll.origin, a, i>>] >= 1

(* The connections that have been dealt with.                              *)
Settled(poll, rows) ==
    \A a \in Accounts :
        /\ poll.upto[a] <= Len(mail[a])
        /\ poll.verdict[a] = "ok" /\ a # poll.account => Complete(poll, a, rows)

Reading == {"listing", "enqueueing"}

(* Between two connections a poll has read no page.                        *)
PollFresh(poll) == poll.pages = 0 /\ poll.seen = {}

Diligent(poll, rows) ==
    /\ Settled(poll, rows)
    /\ poll.pc = "settings" => PollFresh(poll)
    /\ poll.pc = "done" => \A a \in Accounts : poll.verdict[a] # "todo"
    /\ poll.pc \in Reading =>
         /\ poll.verdict[poll.account] # "todo"
         /\ poll.pages = 0 => poll.pc = "listing" /\ PollFresh(poll)
         /\ poll.pages > 0 => Read(poll, poll.next, rows)

PollsDiligent == \A q \in AllPolls : Diligent(polls[q], made)

(* The messages of an account a poll has seen are there.                   *)
LEMMA MailOK ==
  ASSUME TypeOK, IntakeAssumption, NEW a \in Accounts
  PROVE  /\ Len(mail[a]) \in Nat /\ oldest[a] \in Nat /\ Len(mail[a]) <= MaxArrivals
         /\ \A i \in 1..Len(mail[a]) : mail[a][i] \in Threads /\ i \in Messages
<1>1. mail[a] \in Seq(Threads) /\ Len(mail[a]) \in Nat /\ oldest[a] \in Nat
      /\ Len(mail[a]) <= MaxArrivals
  BY DEF TypeOK
<1> QED BY <1>1 DEF Messages, IntakeAssumption

(* Rows are added only, so what had one still has.                         *)
LEMMA RowsGrow ==
  ASSUME TypeOK, IntakeAssumption, NEW poll \in Poll, NEW rows \in [Keys -> Nat],
         NEW more \in [Keys -> Nat], \A k \in Keys : rows[k] <= more[k],
         Placed(poll), Diligent(poll, rows)
  PROVE  Diligent(poll, more)
<1>1. ASSUME NEW a \in Accounts, NEW i \in 1..Len(mail[a]),
             rows[<<poll.origin, a, i>>] >= 1
      PROVE  more[<<poll.origin, a, i>>] >= 1
  <2>1. <<poll.origin, a, i>> \in Keys
    BY MailOK DEF Keys, Poll
  <2> QED BY <1>1, <2>1
<1>2. \A a \in Accounts : poll.upto[a] \in Nat /\ oldest[a] \in Nat /\ Len(mail[a]) \in Nat
  BY MailOK DEF Poll
<1>3. Settled(poll, more)
  <2> SUFFICES ASSUME NEW a \in Accounts
      PROVE  /\ poll.upto[a] <= Len(mail[a])
             /\ poll.verdict[a] = "ok" /\ a # poll.account => Complete(poll, a, more)
    BY DEF Settled
  <2>1. poll.upto[a] <= Len(mail[a])
        /\ (poll.verdict[a] = "ok" /\ a # poll.account => Complete(poll, a, rows))
    BY DEF Diligent, Settled
  <2>2. \A i \in Wanted(a, poll.upto[a]) : i \in 1..Len(mail[a])
    BY <1>2, <2>1 DEF Wanted
  <2> QED BY <1>1, <2>1, <2>2 DEF Complete
<1>4. ASSUME poll.pc \in Reading, poll.pages > 0 PROVE Read(poll, poll.next, more)
  <2> DEFINE a == poll.account
             n == poll.upto[a]
  <2>1. Read(poll, poll.next, rows) /\ a \in Accounts
    BY <1>4 DEF Diligent, Placed, Reading
  <2>2. n <= Len(mail[a]) /\ n \in Nat /\ poll.next \in Nat /\ Len(mail[a]) \in Nat
    BY <1>2, <2>1 DEF Diligent, Settled, Poll
  <2>3. \A i \in Newer(poll.next, n) : i \in 1..Len(mail[a])
    BY <2>2 DEF Newer
  <2> QED BY <1>1, <2>1, <2>3 DEF Read
<1> QED BY <1>3, <1>4 DEF Diligent

LEMMA ForwardDiligent ==
  ASSUME NEW poll \in Poll, NEW rows, Settled(poll, rows), poll.account = None,
         PollFresh(poll)
  PROVE  Diligent(Forward(poll), rows)
<1>1. CASE \E a \in Accounts : poll.verdict[a] = "todo"
  <2> DEFINE next == [poll EXCEPT !.pc = "settings"]
  <2>1. Forward(poll) = next
    BY <1>1 DEF Forward
  <2>2. /\ next.pc = "settings" /\ next.upto = poll.upto /\ next.verdict = poll.verdict
        /\ next.origin = poll.origin /\ next.account = poll.account
        /\ PollFresh(next)
    BY DEF Poll, PollFresh
  <2> HIDE DEF next
  <2> QED BY <2>1, <2>2 DEF Diligent, Settled, Complete, Reading
<1>2. CASE ~ \E a \in Accounts : poll.verdict[a] = "todo"
  <2> DEFINE next == [poll EXCEPT !.pc = "done"]
  <2>1. Forward(poll) = next
    BY <1>2 DEF Forward
  <2>2. /\ next.pc = "done" /\ next.upto = poll.upto /\ next.verdict = poll.verdict
        /\ next.origin = poll.origin /\ next.account = poll.account
        /\ PollFresh(next)
    BY DEF Poll, PollFresh
  <2> HIDE DEF next
  <2> QED BY <1>2, <2>1, <2>2 DEF Diligent, Settled, Complete, Reading
<1> QED BY <1>1, <1>2

(* A connection may be judged a success when it is complete.               *)
LEMMA JudgedDiligent ==
  ASSUME IntakeAssumption, NEW poll \in Poll, NEW a \in Accounts, NEW verdict \in Verdict,
         NEW rows,
         Settled(poll, rows), poll.account \in {a, None},
         verdict = "ok" => Complete(poll, a, rows)
  PROVE  Diligent(Judged(poll, a, verdict), rows)
<1> DEFINE bare == [IdlePoll EXCEPT !.owner = poll.owner, !.origin = poll.origin,
                                    !.verdict = [poll.verdict EXCEPT ![a] = verdict],
                                    !.upto = poll.upto]
<1>1. [poll.verdict EXCEPT ![a] = verdict] \in [Accounts -> Verdict]
  BY DEF Poll
<1>2. bare \in Poll /\ bare.account = None /\ bare.upto = poll.upto /\ bare.origin = poll.origin
      /\ bare.verdict = [poll.verdict EXCEPT ![a] = verdict]
      /\ PollFresh(bare)
  BY <1>1, IdlePollOK DEF Poll, IdlePoll, PollFresh
<1>3. Judged(poll, a, verdict) = Forward(bare)
  BY DEF Judged
<1> HIDE DEF bare
<1>4. Settled(bare, rows)
  <2> SUFFICES ASSUME NEW b \in Accounts
      PROVE  /\ bare.upto[b] <= Len(mail[b])
             /\ bare.verdict[b] = "ok" => Complete(bare, b, rows)
    BY DEF Settled
  <2>1. Complete(bare, b, rows) <=> Complete(poll, b, rows)
    BY <1>2 DEF Complete
  <2>2. CASE b = a
    BY <1>2, <2>1, <2>2 DEF Settled, Poll
  <2>3. CASE b # a
    <3>1. bare.verdict[b] = poll.verdict[b]
      BY <1>2, <2>3 DEF Poll
    <3>2. b # poll.account
      BY <2>3 DEF IntakeAssumption
    <3> QED BY <1>2, <2>1, <2>3, <3>1, <3>2 DEF Settled
  <2> QED BY <2>2, <2>3
<1> QED BY <1>2, <1>3, <1>4, ForwardDiligent

(* The messages from m down to i are of threads that were seen: they are   *)
(* behind the poll too.                                                    *)
LEMMA ReadOn ==
  ASSUME NEW poll \in Poll, poll.account \in Accounts, NEW rows, NEW m \in Nat, Read(poll, m, rows),
         NEW i \in Nat, poll.low <= i, i <= m,
         \A j \in Newer(i, m) : mail[poll.account][j] \in poll.seen
  PROVE  Read(poll, i, rows)
<1> DEFINE a == poll.account
           n == poll.upto[a]
           box == mail[a]
           ok == poll.verdict[a] = "ok"
           R(j) == rows[<<poll.origin, a, j>>] >= 1
<1>1. n \in Nat /\ poll.low \in Nat
  BY DEF Poll
<1>2. /\ m <= n /\ poll.seen = {box[j] : j \in Newer(m, n)}
      /\ ~poll.more => poll.low <= oldest[a]
      /\ ok => \A j \in Newer(m, n) : (\E k \in Newer(j, n) : box[k] = box[j]) \/ R(j)
  BY DEF Read
<1>3. \A j \in Newer(i, m) : box[j] \in poll.seen
  OBVIOUS
<1>4. poll.low <= i /\ i <= n
  BY <1>1, <1>2
<1> HIDE DEF a, n, box, ok, R
<1>5. Newer(i, n) = Newer(i, m) \cup Newer(m, n)
  BY <1>1, <1>2 DEF Newer
<1>6. poll.seen = {box[j] : j \in Newer(i, n)}
  BY <1>2, <1>3, <1>5
<1>7. ASSUME NEW j \in Newer(i, m) PROVE \E k \in Newer(j, n) : box[k] = box[j]
  <2>1. PICK k \in Newer(m, n) : box[j] = box[k]
    BY <1>2, <1>3, <1>7
  <2>2. k \in Newer(j, n)
    BY <1>1, <1>2, <2>1 DEF Newer
  <2> QED BY <2>1, <2>2
<1>8. ok => \A j \in Newer(i, n) : (\E k \in Newer(j, n) : box[k] = box[j]) \/ R(j)
  BY <1>2, <1>5, <1>7
<1> QED BY <1>2, <1>4, <1>6, <1>8 DEF Read, a, n, box, ok, R

(* What lies behind a poll at the end of its last page is all it wants.    *)
LEMMA ReadIsComplete ==
  ASSUME TypeOK, NEW poll \in Poll, poll.account \in Accounts, NEW rows,
         Read(poll, poll.low, rows), ~poll.more, poll.verdict[poll.account] = "ok"
  PROVE  Complete(poll, poll.account, rows)
<1> DEFINE a == poll.account
<1>1. poll.low \in Nat /\ oldest[a] \in Nat /\ poll.upto[a] \in Nat /\ poll.low <= oldest[a]
  BY DEF Poll, TypeOK, Read
<1> SUFFICES ASSUME NEW i \in Wanted(a, poll.upto[a])
    PROVE  rows[<<poll.origin, a, i>>] >= 1
  BY DEF Complete
<1>2. /\ i \in oldest[a] + 1 .. poll.upto[a]
      /\ \A j \in Newer(i, poll.upto[a]) : mail[a][j] # mail[a][i]
  BY DEF Wanted
<1>3. i \in Newer(poll.low, poll.upto[a])
  BY <1>1, <1>2 DEF Newer
<1> QED BY <1>2, <1>3 DEF Read

LEMMA AdvanceDiligent ==
  ASSUME TypeOK, IntakeAssumption, NEW q \in AllPolls, NEW poll \in Poll, poll.account \in Accounts,
         NEW rows, Settled(poll, rows), poll.verdict[poll.account] # "todo",
         poll.pages > 0, NEW m \in Nat, m <= poll.next, Read(poll, m, rows),
         \A j \in Newer(m, poll.next) : mail[poll.account][j] \in poll.seen,
         Advance(q, poll)
  PROVE  \E next : Become(q, next) /\ Diligent(next, rows)
<1> DEFINE a == poll.account
<1>0. poll.low \in Nat /\ poll.next \in Nat /\ poll.low <= m
  BY DEF Poll, Read
<1>1. ASSUME NEW i \in Unseen(poll), \A j \in Unseen(poll) : j <= i
      PROVE  Diligent([poll EXCEPT !.pc = "enqueueing", !.next = i], rows)
  <2> DEFINE next == [poll EXCEPT !.pc = "enqueueing", !.next = i]
  <2>1. i \in Nat /\ poll.low < i /\ i <= poll.next /\ mail[a][i] \notin poll.seen
    BY <1>0 DEF Unseen
  <2>2. i <= m
    BY <2>1 DEF Newer
  <2>3. \A j \in Newer(i, m) : mail[a][j] \in poll.seen
    BY <1>0, <1>1, <2>1, <2>2 DEF Newer, Unseen
  <2>4. Read(poll, i, rows)
    BY <1>0, <2>1, <2>2, <2>3, ReadOn
  <2>5. /\ next.pc = "enqueueing" /\ next.next = i /\ next.account = a /\ next.pages = poll.pages
        /\ next.verdict = poll.verdict /\ next.upto = poll.upto /\ next.origin = poll.origin
        /\ next.seen = poll.seen /\ next.low = poll.low /\ next.more = poll.more
    BY DEF Poll
  <2> HIDE DEF next
  <2>6. Read(next, i, rows)
    BY <2>4, <2>5 DEF Read
  <2>7. Settled(next, rows)
    BY <2>5 DEF Settled, Complete
  <2>8. next.pages # 0
    BY <2>5 DEF Poll
  <2>9. Diligent(next, rows)
    BY <2>5, <2>6, <2>7, <2>8 DEF Diligent
  <2> QED BY <2>9 DEF next
<1>2. ASSUME Unseen(poll) = {} PROVE Read(poll, poll.low, rows)
  <2>1. \A j \in Newer(poll.low, m) : mail[a][j] \in poll.seen
    BY <1>0, <1>2 DEF Newer, Unseen
  <2> QED BY <1>0, <2>1, ReadOn
<1>3. ASSUME Unseen(poll) = {}
      PROVE  Diligent([poll EXCEPT !.pc = "listing", !.next = poll.low], rows)
  <2> DEFINE next == [poll EXCEPT !.pc = "listing", !.next = poll.low]
  <2>1. /\ next.pc = "listing" /\ next.next = poll.low /\ next.account = a
        /\ next.pages = poll.pages
        /\ next.verdict = poll.verdict /\ next.upto = poll.upto /\ next.origin = poll.origin
        /\ next.seen = poll.seen /\ next.low = poll.low /\ next.more = poll.more
    BY DEF Poll
  <2> HIDE DEF next
  <2>2. Read(next, poll.low, rows)
    BY <1>2, <1>3, <2>1 DEF Read
  <2>3. Settled(next, rows)
    BY <2>1 DEF Settled, Complete
  <2>4. next.pages # 0
    BY <2>1 DEF Poll
  <2>5. Diligent(next, rows)
    BY <2>1, <2>2, <2>3, <2>4 DEF Diligent
  <2> QED BY <2>5 DEF next
<1>4. ASSUME Unseen(poll) = {}
      PROVE  Diligent(Judged(poll, a, IF poll.more THEN "failed" ELSE poll.verdict[a]), rows)
  <2> DEFINE verdict == IF poll.more THEN "failed" ELSE poll.verdict[a]
  <2>1. verdict \in Verdict
    BY DEF Verdict, Poll
  <2>2. verdict = "ok" => Complete(poll, a, rows)
    BY <1>2, <1>4, ReadIsComplete
  <2> HIDE DEF verdict
  <2>3. Diligent(Judged(poll, a, verdict), rows)
    BY <2>1, <2>2, JudgedDiligent
  <2> QED BY <2>3 DEF verdict
<1>5. CASE \E i \in Unseen(poll) :
              /\ \A j \in Unseen(poll) : j <= i
              /\ Become(q, [poll EXCEPT !.pc = "enqueueing", !.next = i])
  BY <1>1, <1>5
<1>6. CASE Unseen(poll) = {} /\ Become(q, [poll EXCEPT !.pc = "listing", !.next = poll.low])
  BY <1>3, <1>6
<1>7. CASE /\ Unseen(poll) = {}
           /\ Become(q, Judged(poll, a, IF poll.more THEN "failed" ELSE poll.verdict[a]))
  BY <1>4, <1>7, Zenon
<1>8. \/ \E i \in Unseen(poll) :
            /\ \A j \in Unseen(poll) : j <= i
            /\ Become(q, [poll EXCEPT !.pc = "enqueueing", !.next = i])
      \/ Unseen(poll) = {} /\ Become(q, [poll EXCEPT !.pc = "listing", !.next = poll.low])
      \/ /\ Unseen(poll) = {}
         /\ Become(q, Judged(poll, a, IF poll.more THEN "failed" ELSE poll.verdict[a]))
  BY Zenon DEF Advance
<1> QED BY <1>5, <1>6, <1>7, <1>8, Zenon

(* A page is read below what lies behind the poll.                         *)
LEMMA ListDiligent ==
  ASSUME TypeOK, IntakeAssumption, NEW q \in AllPolls, ListMessages(q), Placed(polls[q]),
         Diligent(polls[q], made)
  PROVE  \E next : Become(q, next) /\ Diligent(next, made)
<1> DEFINE poll == polls[q]
           a == poll.account
           top == IF poll.pages = 0 THEN Len(mail[a]) ELSE poll.low
           bottom == IF top <= oldest[a] THEN top ELSE Larger(oldest[a], Minus(top, PageSize))
           more == bottom > oldest[a]
           upto == IF poll.pages = 0 THEN [poll.upto EXCEPT ![a] = top] ELSE poll.upto
           page == Page(poll)
<1>1. poll \in Poll /\ poll.pc = "listing" /\ a \in Accounts /\ a # None
      /\ poll.next <= poll.low /\ poll.low <= Len(mail[a])
  BY DEF TypeOK, ListMessages, At, Placed, IntakeAssumption
<1>2. /\ Len(mail[a]) \in Nat /\ oldest[a] \in Nat /\ PageSize \in Nat
      /\ poll.low \in Nat /\ poll.next \in Nat /\ poll.pages \in Nat
      /\ poll.upto \in [Accounts -> Nat]
  BY <1>1 DEF TypeOK, IntakeAssumption, Poll
<1>3. Settled(poll, made) /\ poll.verdict[a] # "todo"
      /\ (poll.pages = 0 => poll.seen = {})
      /\ (poll.pages > 0 => Read(poll, poll.next, made))
  BY <1>1 DEF Diligent, Reading, PollFresh
<1>4. page \in Poll
  BY <1>1, PageOK
<1>5. page = [poll EXCEPT !.pages = @ + 1, !.next = top, !.low = bottom,
                          !.more = more, !.upto = upto]
  <2> DEFINE turned == [poll EXCEPT !.pages = @ + 1, !.next = top, !.low = bottom, !.more = more]
  <2>1. turned.upto = poll.upto
    BY <1>1 DEF Poll
  <2>2. page = [turned EXCEPT !.upto = IF poll.pages = 0 THEN [@ EXCEPT ![a] = top] ELSE @]
    BY Zenon DEF Page
  <2> HIDE DEF turned
  <2>3. page = [turned EXCEPT !.upto = upto]
    BY <2>1, <2>2, Zenon
  <2> QED BY <2>3, Zenon DEF turned
<1>6. top \in Nat /\ top <= Len(mail[a])
  BY <1>1, <1>2
<1>7. bottom \in Nat /\ bottom <= top
  BY <1>2, <1>6 DEF Larger, Minus
<1>8. upto[a] \in Nat /\ top <= upto[a] /\ (poll.pages = 0 => top = upto[a])
      /\ upto[a] <= Len(mail[a])
      /\ \A b \in Accounts : b # a => upto[b] = poll.upto[b]
  <2>1. CASE poll.pages = 0
    BY <1>1, <1>2, <1>6, <2>1
  <2>2. CASE poll.pages # 0
    <3>1. poll.low <= poll.next /\ poll.next <= poll.upto[a]
      BY <1>2, <1>3, <2>2 DEF Read
    <3> QED BY <1>1, <1>2, <1>3, <2>2, <3>1 DEF Settled
  <2> QED BY <2>1, <2>2
<1> HIDE DEF top, bottom, more, upto
<1>9. /\ page.pc = "listing" /\ page.account = a /\ page.origin = poll.origin
      /\ page.verdict = poll.verdict /\ page.seen = poll.seen
      /\ page.pages = poll.pages + 1 /\ page.next = top /\ page.low = bottom
      /\ page.more = more /\ page.upto = upto
  BY <1>1, <1>5 DEF Poll
<1> HIDE DEF page
<1>10. Settled(page, made)
  <2> SUFFICES ASSUME NEW b \in Accounts
      PROVE  /\ page.upto[b] <= Len(mail[b])
             /\ page.verdict[b] = "ok" /\ b # page.account => Complete(page, b, made)
    BY DEF Settled
  <2>1. CASE b = a
    BY <1>8, <1>9, <2>1
  <2>2. CASE b # a
    BY <1>3, <1>8, <1>9, <2>2 DEF Settled, Complete
  <2> QED BY <2>1, <2>2
<1>11. Read(page, top, made)
  <2>1. ~more => bottom <= oldest[a]
    BY <1>2, <1>7 DEF more
  <2>2. CASE poll.pages = 0
    <3>1. Newer(top, upto[a]) = {} /\ poll.seen = {}
      BY <1>3, <1>6, <1>8, <2>2 DEF Newer
    <3> QED BY <1>6, <1>7, <1>8, <1>9, <2>1, <3>1 DEF Read
  <2>3. CASE poll.pages # 0
    <3>1. Read(poll, poll.next, made) /\ poll.next = poll.low /\ top = poll.low /\ upto = poll.upto
      BY <1>1, <1>2, <1>3, <2>3 DEF Read, top, upto
    <3> QED BY <1>6, <1>7, <1>9, <2>1, <3>1 DEF Read
  <2> QED BY <2>2, <2>3
<1>12. \A j \in Newer(top, page.next) : mail[page.account][j] \in page.seen
  BY <1>6, <1>9 DEF Newer
<1>13. page.pages > 0 /\ top <= page.next
  BY <1>2, <1>6, <1>9
<1>14. Advance(q, page)
  BY DEF ListMessages, page
<1> QED BY <1>1, <1>3, <1>4, <1>6, <1>9, <1>10, <1>11, <1>12, <1>13, <1>14, AdvanceDiligent

(* The intervals of messages.                                              *)
LEMMA NewerOK ==
  ASSUME NEW m \in Nat, NEW n \in Nat
  PROVE  /\ \A j : j \in Newer(m, n) <=> j \in Nat /\ m < j /\ j <= n
         /\ m < n => Newer(m, n) = {m + 1} \cup Newer(m + 1, n)
<1>1. \A k \in Nat : \A j : j \in Newer(k, n) <=> j \in Nat /\ k < j /\ j <= n
  BY DEF Newer
<1>2. ASSUME m < n, NEW j PROVE j \in Newer(m, n) <=> j \in {m + 1} \cup Newer(m + 1, n)
  BY <1>1, <1>2
<1> QED BY <1>1, <1>2

(* After an enqueue, of which rows is what it left behind.                 *)
LEMMA SelectDiligent ==
  ASSUME TypeOK, IntakeAssumption, NEW q \in AllPolls, At(q, "enqueueing"), Placed(polls[q]),
         NEW rows, Diligent(polls[q], rows),
         NEW verdict \in Verdict, verdict # "todo", Select(q, verdict),
         verdict = "ok" => polls[q].verdict[polls[q].account] = "ok" /\ rows[Key(q)] >= 1
  PROVE  \E next : Become(q, next) /\ Diligent(next, rows)
<1> DEFINE poll == polls[q]
           a == poll.account
           n == poll.upto[a]
           thread == mail[a][poll.next]
           seen == poll.seen \cup {thread}
           m == poll.next - 1
<1>1. poll \in Poll /\ a \in Accounts /\ a # None /\ poll.low < poll.next
      /\ poll.next <= Len(mail[a])
  BY DEF TypeOK, At, Placed, IntakeAssumption
<1>2. /\ Len(mail[a]) \in Nat /\ oldest[a] \in Nat /\ Len(mail[a]) <= MaxArrivals
      /\ \A i \in 1..Len(mail[a]) : mail[a][i] \in Threads
      /\ poll.low \in Nat /\ poll.next \in Nat /\ n \in Nat
  BY <1>1, MailOK DEF Poll
<1>3. Settled(poll, rows) /\ Read(poll, poll.next, rows) /\ poll.pages > 0
  BY <1>1 DEF Diligent, Reading, At, Poll
<1>4. /\ poll.next <= n /\ n <= Len(mail[a])
      /\ poll.seen = {mail[a][j] : j \in Newer(poll.next, n)}
      /\ ~poll.more => poll.low <= oldest[a]
      /\ verdict = "ok" => \A i \in Newer(poll.next, n) :
                              \/ \E j \in Newer(i, n) : mail[a][j] = mail[a][i]
                              \/ rows[<<poll.origin, a, i>>] >= 1
  BY <1>1, <1>3 DEF Read, Settled
<1>5. /\ m \in Nat /\ poll.low <= m /\ m <= n
      /\ Newer(m, n) = {poll.next} \cup Newer(poll.next, n)
  <2>1. m \in Nat /\ poll.low <= m /\ m < n /\ m + 1 = poll.next
    <3>1. /\ poll.low \in Nat /\ poll.next \in Nat /\ n \in Nat
          /\ poll.low < poll.next /\ poll.next <= n
      BY <1>1, <1>2, <1>4, Zenon
    <3> HIDE DEF poll, n
    <3> QED BY <3>1
  <2>2. n \in Nat
    BY <1>2
  <2> HIDE DEF m, n
  <2>3. Newer(m, n) = {m + 1} \cup Newer(m + 1, n)
    BY <2>1, <2>2, NewerOK
  <2> QED BY <2>1, <2>2, <2>3
<1>6. seen = {mail[a][j] : j \in Newer(m, n)}
  BY <1>4, <1>5
<1>7. verdict = "ok" => \A i \in Newer(m, n) :
                           \/ \E j \in Newer(i, n) : mail[a][j] = mail[a][i]
                           \/ rows[<<poll.origin, a, i>>] >= 1
  BY <1>4, <1>5 DEF Key
<1>8. seen \in SUBSET Threads
  BY <1>1, <1>2 DEF Poll
<1>9. CASE Cardinality(seen) >= MaxMessages /\ Become(q, Judged(poll, a, verdict))
  <2>1. ASSUME verdict = "ok", NEW i \in Wanted(a, n) PROVE rows[<<poll.origin, a, i>>] >= 1
    <3> DEFINE newer == {mail[a][j] : j \in Newer(i, n)}
    <3>1. /\ i \in Nat /\ i <= n /\ i > 0
          /\ \A j \in Newer(i, n) : mail[a][j] # mail[a][i]
          /\ Cardinality(newer) < MaxMessages
      BY <1>2, <2>1 DEF Wanted
    <3>2. CASE i \in Newer(m, n)
      BY <1>7, <2>1, <3>1, <3>2
    <3>3. CASE i \notin Newer(m, n)
      <4>1. Newer(m, n) \subseteq Newer(i, n)
        <5>1. i \in Nat /\ m \in Nat /\ n \in Nat /\ i <= n
          BY <1>2, <1>5, <3>1
        <5> HIDE DEF m, n
        <5>2. i <= m
          BY <3>3, <5>1, NewerOK
        <5> QED BY <5>1, <5>2, NewerOK
      <4>2. seen \subseteq newer
        BY <1>6, <4>1
      <4>3. newer \subseteq Threads
        <5>1. \A j \in Newer(i, n) : j \in 1..Len(mail[a])
          BY <1>2, <1>4, <3>1, NewerOK
        <5> QED BY <1>2, <5>1
      <4>4. IsFiniteSet(Threads)
        <5>1. 1 \in Int /\ MaxArrivals \in Int
          BY DEF IntakeAssumption
        <5> QED BY <5>1, FS_Interval DEF Threads
      <4> HIDE DEF newer, seen
      <4>5. IsFiniteSet(newer)
        BY <4>3, <4>4, FS_Subset
      <4>6. Cardinality(seen) <= Cardinality(newer)
        BY <4>2, <4>5, FS_Subset
      <4>7. Cardinality(seen) \in Nat /\ Cardinality(newer) \in Nat
        BY <4>2, <4>5, FS_Subset, FS_CardinalityType
      <4> QED BY <1>9, <3>1, <4>6, <4>7 DEF IntakeAssumption
    <3> QED BY <3>2, <3>3
  <2>2. verdict = "ok" => Complete(poll, a, rows)
    BY <2>1 DEF Complete
  <2>3. Diligent(Judged(poll, a, verdict), rows)
    BY <1>1, <1>3, <2>2, JudgedDiligent
  <2> QED BY <1>9, <2>3
<1>10. CASE Advance(q, [poll EXCEPT !.seen = seen, !.verdict[a] = verdict])
  <2> DEFINE later == [poll EXCEPT !.seen = seen, !.verdict[a] = verdict]
  <2>1. [poll.verdict EXCEPT ![a] = verdict] \in [Accounts -> Verdict]
    BY <1>1 DEF Poll
  <2> HIDE DEF seen
  <2>2. /\ later \in Poll /\ later.account = a /\ later.low = poll.low /\ later.next = poll.next
        /\ later.origin = poll.origin /\ later.pages = poll.pages /\ later.more = poll.more
        /\ later.upto = poll.upto /\ later.seen = seen
        /\ later.verdict = [poll.verdict EXCEPT ![a] = verdict]
    BY <1>1, <1>8, <2>1 DEF Poll
  <2> HIDE DEF later
  <2>3. later.verdict[a] = verdict /\ \A b \in Accounts : b # a => later.verdict[b] = poll.verdict[b]
    BY <1>1, <2>2 DEF Poll
  <2>4. Settled(later, rows)
    BY <1>3, <2>2, <2>3 DEF Settled, Complete
  <2>5. Read(later, m, rows)
    BY <1>4, <1>5, <1>6, <1>7, <2>2, <2>3 DEF Read
  <2>6. \A j \in Newer(m, later.next) : mail[later.account][j] \in later.seen
    <3>1. \A j \in Newer(m, poll.next) : j = poll.next
      BY <1>2, <1>5, NewerOK
    <3> QED BY <2>2, <3>1 DEF seen
  <2>7. m <= later.next
    BY <1>2, <2>2
  <2>8. Advance(q, later)
    BY <1>10 DEF later
  <2> QED BY <1>1, <1>3, <1>5, <2>2, <2>3, <2>4, <2>5, <2>6, <2>7, <2>8, AdvanceDiligent
<1> QED BY <1>9, <1>10 DEF Select

LEMMA IdlePollDiligent ==
  ASSUME TypeOK, NEW rows
  PROVE  /\ Diligent(IdlePoll, rows) /\ Settled(IdlePoll, rows)
         /\ Diligent([IdlePoll EXCEPT !.pc = "answered"], rows)
<1>1. \A a \in Accounts : Len(mail[a]) \in Nat
  BY DEF TypeOK
<1>2. /\ IdlePoll.pc = "idle" /\ IdlePoll.account = None
      /\ \A a \in Accounts : IdlePoll.verdict[a] = "out" /\ IdlePoll.upto[a] = 0
  BY DEF IdlePoll
<1>3. Settled(IdlePoll, rows)
  BY <1>1, <1>2 DEF Settled
<1> DEFINE next == [IdlePoll EXCEPT !.pc = "answered"]
<1>4. next.pc = "answered" /\ next.verdict = IdlePoll.verdict /\ next.upto = IdlePoll.upto
  BY DEF IdlePoll
<1> HIDE DEF next
<1>5. Settled(next, rows)
  BY <1>1, <1>2, <1>4 DEF Settled
<1> QED BY <1>2, <1>3, <1>4, <1>5 DEF Diligent, Reading, next

LEMMA BeginDiligent ==
  ASSUME TypeOK, NEW q \in AllPolls, NEW owner \in Pollers \cup Requests, NEW origin \in Origins,
         NEW rows, Begin(q, owner, origin)
  PROVE  \E next : Become(q, next) /\ Diligent(next, rows)
<1> DEFINE poll == [IdlePoll EXCEPT !.owner = owner, !.origin = origin]
           listed == [a \in Accounts |-> IF a \in connected THEN "todo" ELSE "out"]
           begun == [poll EXCEPT !.verdict = listed]
           failed == [poll EXCEPT !.pc = "done"]
<1>1. listed \in [Accounts -> Verdict] /\ \A a \in Accounts : listed[a] # "ok"
  BY DEF Verdict
<1>2. \A a \in Accounts : Len(mail[a]) \in Nat
  BY DEF TypeOK
<1>3. IdlePoll \in Poll
  BY IdlePollOK
<1> HIDE DEF listed
<1>4. begun \in Poll /\ begun.account = None /\ begun.verdict = listed
      /\ begun.upto = [a \in Accounts |-> 0] /\ PollFresh(begun)
  BY <1>1, <1>3 DEF Poll, IdlePoll, PollFresh
<1>5. /\ failed.pc = "done" /\ failed.account = None /\ failed.upto = [a \in Accounts |-> 0]
      /\ failed.verdict = [a \in Accounts |-> "out"]
  BY DEF IdlePoll
<1>6. Become(q, Forward(begun)) \/ Become(q, failed)
  BY DEF Begin, listed
<1> HIDE DEF begun, failed
<1>7. Settled(begun, rows) /\ Settled(failed, rows)
  BY <1>1, <1>2, <1>4, <1>5 DEF Settled
<1>8. Diligent(Forward(begun), rows)
  BY <1>4, <1>7, ForwardDiligent
<1>9. Diligent(failed, rows)
  BY <1>5, <1>7 DEF Diligent, Reading
<1> QED BY <1>6, <1>8, <1>9

LEMMA SettingsDiligent ==
  ASSUME TypeOK, IntakeAssumption, NEW q \in AllPolls, Placed(polls[q]), Diligent(polls[q], made),
         GetSettings(q) \/ GetSettingsFails(q)
  PROVE  \E next : Become(q, next) /\ Diligent(next, made)
<1> DEFINE poll == polls[q]
           a == NextAccount(q)
           next == [poll EXCEPT !.pc = "listing", !.verdict[a] = "ok", !.account = a]
<1>1. poll \in Poll /\ At(q, "settings") /\ poll.account = None
  BY DEF TypeOK, GetSettings, GetSettingsFails, At, Placed
<1>2. a \in Accounts
  BY <1>1 DEF Placed, At, NextAccount
<1>3. Settled(poll, made)
  BY DEF Diligent
<1>4. \/ \E verdict \in {"off", "failed"} : Become(q, Judged(poll, a, verdict))
      \/ Become(q, next)
  BY DEF GetSettings, GetSettingsFails
<1> HIDE DEF a
<1>5. ASSUME NEW verdict \in {"off", "failed"}
      PROVE  Diligent(Judged(poll, a, verdict), made)
  BY <1>1, <1>2, <1>3, <1>5, JudgedDiligent DEF Verdict
<1>6. Diligent(next, made)
  <2>1. PollFresh(poll)
    BY <1>1 DEF Diligent, At
  <2>2. /\ next.pc = "listing" /\ next.account = a /\ next.upto = poll.upto
        /\ next.origin = poll.origin /\ next.pages = 0 /\ next.seen = {}
        /\ next.verdict = [poll.verdict EXCEPT ![a] = "ok"]
    BY <1>1, <2>1 DEF Poll, PollFresh
  <2> HIDE DEF next
  <2>3. next.verdict[a] = "ok" /\ \A b \in Accounts : b # a => next.verdict[b] = poll.verdict[b]
    BY <1>1, <1>2, <2>2 DEF Poll
  <2>4. None \notin Accounts
    BY DEF IntakeAssumption
  <2>5. Settled(next, made)
    BY <1>1, <1>3, <2>2, <2>3, <2>4 DEF Settled, Complete
  <2> QED BY <2>2, <2>3, <2>5 DEF Diligent, Reading, PollFresh
<1> QED BY <1>4, <1>5, <1>6

(* What leaves the mailboxes alone.                                        *)
LEMMA DiligentAfter ==
  ASSUME UNCHANGED mailVars, \A q \in AllPolls : Diligent(polls'[q], made')
  PROVE  PollsDiligent'
<1>1. mail' = mail /\ oldest' = oldest
  BY DEF mailVars
<1>2. \A a, n : Wanted(a, n)' = Wanted(a, n)
  BY <1>1 DEF Wanted, Newer
<1> SUFFICES ASSUME NEW q \in AllPolls PROVE Diligent(polls[q], made)'
  BY DEF PollsDiligent
<1>3. Diligent(polls'[q], made')
  OBVIOUS
<1>4. Settled(polls[q], made)'
  BY <1>1, <1>2, <1>3 DEF Diligent, Settled, Complete
<1>5. ASSUME polls'[q].pc \in Reading, polls'[q].pages > 0
      PROVE  Read(polls[q], polls[q].next, made)'
  <2>1. Read(polls'[q], polls'[q].next, made')
    BY <1>3, <1>5 DEF Diligent
  <2> QED BY <1>1, <2>1 DEF Read, Newer
<1> QED BY <1>3, <1>4, <1>5 DEF Diligent, PollFresh, Reading

(* A poll is replaced; rows are only added.                                *)
LEMMA DiligentReplaced ==
  ASSUME IntakeInv, IntakeAssumption, PollsDiligent, UNCHANGED mailVars,
         made' \in [Keys -> Nat], \A k \in Keys : made[k] <= made'[k],
         NEW q \in AllPolls, NEW next, Become(q, next), Diligent(next, made')
  PROVE  PollsDiligent'
<1>1. TypeOK /\ PollsPlaced
  BY DEF IntakeInv
<1>2. ASSUME NEW r \in AllPolls PROVE Diligent(polls'[r], made')
  <2>1. CASE r = q
    BY <1>1, <2>1 DEF Become, TypeOK
  <2>2. CASE r # q
    <3>1. polls'[r] = polls[r]
      BY <1>1, <2>2 DEF Become, TypeOK
    <3>2. polls[r] \in Poll /\ Placed(polls[r]) /\ Diligent(polls[r], made)
      BY <1>1 DEF TypeOK, PollsPlaced, PollsDiligent
    <3>3. made \in [Keys -> Nat]
      BY <1>1 DEF TypeOK
    <3>4. Diligent(polls[r], made')
      BY <1>1, <3>2, <3>3, RowsGrow
    <3> QED BY <3>1, <3>4
  <2> QED BY <2>1, <2>2
<1> QED BY <1>2, DiligentAfter

LEMMA PollStepDiligent ==
  ASSUME IntakeInv, IntakeAssumption, PollsDiligent, NEW q \in AllPolls,
         PollStep(q) \/ PollStepFails(q)
  PROVE  PollsDiligent'
<1> DEFINE poll == polls[q]
           a == poll.account
<1>1. TypeOK /\ PollsPlaced /\ RowsCounted /\ poll \in Poll /\ Placed(poll)
      /\ Diligent(poll, made) /\ made \in [Keys -> Nat] /\ UNCHANGED mailVars
  BY DEF IntakeInv, TypeOK, PollsPlaced, PollsDiligent, PollStep, PollStepFails, GetSettings,
         GetSettingsFails, ListMessages, ListMessagesFails, EnqueueMessage, EnqueueFails
<1>2. ASSUME UNCHANGED jobVars, \E next : Become(q, next) /\ Diligent(next, made)
      PROVE  PollsDiligent'
  <2>1. made' = made /\ made' \in [Keys -> Nat] /\ \A k \in Keys : made[k] <= made'[k]
    BY <1>1, <1>2 DEF jobVars
  <2>2. PICK next : Become(q, next) /\ Diligent(next, made')
    BY <1>2, <2>1
  <2> QED BY <1>1, <2>1, <2>2, DiligentReplaced
<1>3. CASE GetSettings(q) \/ GetSettingsFails(q)
  <2>1. UNCHANGED jobVars
    BY <1>3 DEF GetSettings, GetSettingsFails
  <2>2. \E next : Become(q, next) /\ Diligent(next, made)
    BY <1>1, <1>3, SettingsDiligent
  <2> QED BY <1>2, <2>1, <2>2
<1>4. CASE ListMessages(q)
  <2>1. UNCHANGED jobVars
    BY <1>4 DEF ListMessages
  <2>2. \E next : Become(q, next) /\ Diligent(next, made)
    BY <1>1, <1>4, ListDiligent
  <2> QED BY <1>2, <2>1, <2>2
<1>5. CASE ListMessagesFails(q)
  <2>1. UNCHANGED jobVars /\ Become(q, Judged(poll, a, "failed")) /\ a \in Accounts
    BY <1>1, <1>5 DEF ListMessagesFails, Placed, At
  <2>2. Settled(poll, made)
    BY <1>1 DEF Diligent
  <2>3. Diligent(Judged(poll, a, "failed"), made)
    BY <1>1, <2>1, <2>2, JudgedDiligent DEF Verdict
  <2> QED BY <1>2, <2>1, <2>3
<1>6. CASE EnqueueMessage(q) \/ EnqueueFails(q)
  <2>1. /\ At(q, "enqueueing")
        /\ \/ Inserted(Key(q)) /\ Select(q, poll.verdict[a])
           \/ (Inserted(Key(q)) \/ UNCHANGED jobVars) /\ Select(q, "failed")
    BY <1>6 DEF EnqueueMessage, EnqueueFails
  <2>2. Key(q) \in Keys /\ ~Gone(Key(q))
    BY <1>1, <2>1, KeyOK
  <2>3. made' \in [Keys -> Nat] /\ \A k \in Keys : made[k] <= made'[k]
    <3>1. CASE Inserted(Key(q))
      <4>1. /\ made' \in [Keys -> Nat] /\ made'[Key(q)] = 1
            /\ \A k \in Keys \ {Key(q)} : made'[k] = made[k]
        BY <1>1, <2>2, <3>1, InsertedOK
      <4>2. made[Key(q)] \in {0, 1}
        BY <1>1, <2>2 DEF RowsCounted
      <4> QED BY <1>1, <4>1, <4>2
    <3>2. CASE UNCHANGED jobVars
      BY <1>1, <3>2 DEF jobVars
    <3> QED BY <2>1, <3>1, <3>2
  <2>4. Diligent(poll, made')
    BY <1>1, <2>3, RowsGrow
  <2>5. PICK verdict \in Verdict :
           /\ verdict # "todo" /\ Select(q, verdict)
           /\ verdict = "ok" => poll.verdict[a] = "ok" /\ made'[Key(q)] >= 1
    <3>1. a \in Accounts /\ poll.verdict[a] \in Verdict /\ poll.verdict[a] # "todo"
      BY <1>1, <2>1 DEF Placed, At, Poll, Diligent, Reading
    <3>2. CASE Inserted(Key(q)) /\ Select(q, poll.verdict[a])
      <4>1. made'[Key(q)] = 1
        BY <1>1, <2>2, <3>2, InsertedOK
      <4> QED BY <3>1, <3>2, <4>1
    <3>3. CASE Select(q, "failed")
      BY <3>3 DEF Verdict
    <3> QED BY <2>1, <3>2, <3>3
  <2>6. \E next : Become(q, next) /\ Diligent(next, made')
    BY <1>1, <2>1, <2>4, <2>5, SelectDiligent
  <2> QED BY <1>1, <2>3, <2>6, DiligentReplaced
<1> QED BY <1>3, <1>4, <1>5, <1>6 DEF PollStep, PollStepFails

(* The actors that begin, end or lose a poll.                              *)
LEMMA OthersDiligent ==
  ASSUME IntakeInv, IntakeAssumption, PollsDiligent,
         \/ \E q \in AllPolls : Settle(q)
         \/ \E p \in Pollers : Crash(p) \/ PollNow(p)
         \/ \E r \in Requests : Submit(r)
  PROVE  PollsDiligent'
<1>1. TypeOK
  BY DEF IntakeInv
<1>2. UNCHANGED mailVars /\ UNCHANGED jobVars
  BY DEF Settle, Crash, PollNow, Submit
<1>3. made' = made /\ made' \in [Keys -> Nat] /\ \A k \in Keys : made[k] <= made'[k]
  BY <1>1, <1>2 DEF jobVars, TypeOK
<1>4. ASSUME NEW q \in AllPolls, NEW next, Become(q, next), Diligent(next, made)
      PROVE  PollsDiligent'
  BY <1>2, <1>3, <1>4, DiligentReplaced
<1>5. ASSUME NEW q \in AllPolls, Settle(q) PROVE PollsDiligent'
  <2>1. Become(q, IdlePoll) \/ Become(q, [IdlePoll EXCEPT !.pc = "answered"])
    BY <1>5 DEF Settle
  <2> QED BY <1>1, <1>4, <2>1, IdlePollDiligent
<1>6. ASSUME NEW p \in Pollers, Crash(p) PROVE PollsDiligent'
  <2>1. \A q \in AllPolls : polls'[q] = IdlePoll \/ polls'[q] = polls[q]
    BY <1>6 DEF Crash
  <2>2. \A q \in AllPolls : Diligent(polls'[q], made')
    BY <1>1, <1>3, <2>1, IdlePollDiligent DEF PollsDiligent
  <2> QED BY <1>2, <2>2, DiligentAfter
<1>7. ASSUME NEW p \in Pollers, PollNow(p) PROVE PollsDiligent'
  <2>1. PICK q \in AllPolls : Begin(q, p, Schedule)
    BY <1>7 DEF PollNow, FreePolls, AllPolls
  <2>2. Schedule \in Origins /\ p \in Pollers \cup Requests
    BY DEF Origins
  <2>3. PICK next : Become(q, next) /\ Diligent(next, made)
    BY <1>1, <2>1, <2>2, BeginDiligent
  <2> QED BY <1>4, <2>3
<1>8. ASSUME NEW r \in Requests, Submit(r) PROVE PollsDiligent'
  <2> DEFINE origin == IF r \in Resets THEN r ELSE Schedule
  <2>1. origin \in Origins /\ r \in AllPolls /\ r \in Pollers \cup Requests
    BY DEF Origins, AllPolls
  <2>2. Begin(r, r, origin)
    BY <1>8 DEF Submit
  <2> HIDE DEF origin
  <2>3. PICK next : Become(r, next) /\ Diligent(next, made)
    BY <1>1, <2>1, <2>2, BeginDiligent
  <2> QED BY <1>4, <2>1, <2>3
<1> QED BY <1>5, <1>6, <1>7, <1>8

(* Messages that arrive are newer than those a poll looks for, and those   *)
(* that grow old are not wanted any more.                                  *)
LEMMA MailboxDiligent ==
  ASSUME IntakeInv, IntakeInv', PollsDiligent, NEW a \in Accounts,
         GrowOld(a) \/ \E t \in Threads : Arrive(a, t)
  PROVE  PollsDiligent'
<1>1. TypeOK /\ TypeOK' /\ PollsPlaced
  BY DEF IntakeInv
<1>2. UNCHANGED <<made, polls>>
  BY DEF GrowOld, Arrive, jobVars
<1>3. ASSUME NEW b \in Accounts
      PROVE  /\ Len(mail[b]) \in Nat /\ Len(mail'[b]) \in Nat /\ Len(mail[b]) <= Len(mail'[b])
             /\ \A i \in 1..Len(mail[b]) : mail'[b][i] = mail[b][i]
             /\ oldest[b] \in Nat /\ oldest'[b] \in Nat /\ oldest[b] <= oldest'[b]
  <2>0. /\ mail[b] \in Seq(Threads) /\ Len(mail[b]) \in Nat /\ Len(mail'[b]) \in Nat
        /\ oldest[b] \in Nat /\ oldest'[b] \in Nat
    BY <1>1 DEF TypeOK
  <2>1. CASE GrowOld(a)
    BY <1>1, <2>0, <2>1 DEF GrowOld, TypeOK
  <2>2. CASE \E t \in Threads : Arrive(a, t)
    <3>1. PICK t \in Threads : mail' = [mail EXCEPT ![a] = Append(mail[a], t)] /\ oldest' = oldest
      BY <2>2 DEF Arrive
    <3>2. CASE b # a
      BY <1>1, <2>0, <3>1, <3>2 DEF TypeOK
    <3>3. CASE b = a
      <4>1. mail'[b] = Append(mail[b], t)
        BY <1>1, <3>1, <3>3 DEF TypeOK
      <4>2. Len(mail'[b]) = Len(mail[b]) + 1 /\ \A i \in 1..Len(mail[b]) : mail'[b][i] = mail[b][i]
        BY <2>0, <4>1
      <4> QED BY <2>0, <3>1, <4>2
    <3> QED BY <3>2, <3>3
  <2> QED BY <2>1, <2>2
<1>4. ASSUME NEW b \in Accounts, NEW n \in Nat, n <= Len(mail[b])
      PROVE  /\ \A i \in 1..n : mail'[b][i] = mail[b][i]
             /\ \A i \in Wanted(b, n)' : i \in Wanted(b, n)
  <2>1. \A i \in 1..n : mail'[b][i] = mail[b][i]
    BY <1>3, <1>4
  <2>2. ASSUME NEW i \in Wanted(b, n)' PROVE i \in Wanted(b, n)
    <3>1. /\ i \in oldest'[b] + 1 .. n
          /\ \A j \in Newer(i, n) : mail'[b][j] # mail'[b][i]
          /\ Cardinality({mail'[b][j] : j \in Newer(i, n)}) < MaxMessages
          /\ n - i < PageSize * MaxPages
      BY <2>2 DEF Wanted, Newer
    <3>2. i \in 1..n /\ i \in oldest[b] + 1 .. n
      BY <1>3, <3>1
    <3>3. \A j \in Newer(i, n) : j \in 1..n
      BY <3>2 DEF Newer
    <3>4. {mail'[b][j] : j \in Newer(i, n)} = {mail[b][j] : j \in Newer(i, n)}
      BY <2>1, <3>3
    <3>5. \A j \in Newer(i, n) : mail[b][j] # mail[b][i]
      BY <2>1, <3>1, <3>2, <3>3
    <3> QED BY <3>1, <3>2, <3>4, <3>5, Zenon DEF Wanted
  <2> QED BY <2>1, <2>2
<1> SUFFICES ASSUME NEW q \in AllPolls PROVE Diligent(polls[q], made)'
  BY DEF PollsDiligent
<1> DEFINE poll == polls[q]
<1>5. poll \in Poll /\ Placed(poll) /\ Diligent(poll, made)
  BY <1>1 DEF TypeOK, PollsPlaced, PollsDiligent
<1>6. Settled(poll, made)'
  <2>1. ASSUME NEW b \in Accounts
        PROVE  /\ poll.upto[b] <= Len(mail'[b])
               /\ poll.verdict[b] = "ok" /\ b # poll.account =>
                    \A i \in Wanted(b, poll.upto[b])' : made[<<poll.origin, b, i>>] >= 1
    <3>1. /\ poll.upto[b] \in Nat /\ poll.upto[b] <= Len(mail[b])
          /\ poll.verdict[b] = "ok" /\ b # poll.account => Complete(poll, b, made)
      BY <1>5 DEF Diligent, Settled, Poll
    <3>2. PICK n \in Nat : n = poll.upto[b]
      BY <3>1
    <3>3. \A i \in Wanted(b, n)' : i \in Wanted(b, poll.upto[b])
      BY <1>4, <3>1, <3>2
    <3>4. Wanted(b, n)' = Wanted(b, poll.upto[b])'
      BY <1>2, <3>2
    <3> QED BY <1>3, <3>1, <3>2, <3>3, <3>4 DEF Complete
  <2> QED BY <1>2, <2>1 DEF Settled, Complete
<1>7. ASSUME poll.pc \in Reading, poll.pages > 0 PROVE Read(poll, poll.next, made)'
  <2> DEFINE b == poll.account
             n == poll.upto[b]
  <2>1. Read(poll, poll.next, made) /\ b \in Accounts
    BY <1>5, <1>7 DEF Diligent, Placed, Reading
  <2>2. n \in Nat /\ n <= Len(mail[b]) /\ poll.next \in Nat /\ poll.low \in Nat
    BY <1>5, <2>1 DEF Diligent, Settled, Poll
  <2>3. \A j \in 1..n : mail'[b][j] = mail[b][j]
    BY <1>4, <2>1, <2>2
  <2>4. \A j \in Newer(poll.next, n) : j \in 1..n /\ \A k \in Newer(j, n) : k \in 1..n
    BY <2>2 DEF Newer
  <2>5. poll.seen = {mail'[b][j] : j \in Newer(poll.next, n)}
    BY <2>1, <2>3, <2>4 DEF Read
  <2>6. ~poll.more => poll.low <= oldest'[b]
    BY <1>3, <2>1, <2>2 DEF Read
  <2>7. poll.verdict[b] = "ok" =>
          \A i \in Newer(poll.next, n) : \/ \E j \in Newer(i, n) : mail'[b][j] = mail'[b][i]
                                         \/ made[<<poll.origin, b, i>>] >= 1
    BY <2>1, <2>3, <2>4 DEF Read
  <2>8. poll.next \in Nat /\ poll.low <= poll.next /\ poll.next <= n
    BY <2>1 DEF Read
  <2> QED BY <1>2, <2>5, <2>6, <2>7, <2>8 DEF Read, Newer
<1> QED BY <1>2, <1>5, <1>6, <1>7 DEF Diligent, PollFresh, Reading

(* A poll that returns has dealt with every connection it was given, and a *)
(* connection it counts as a success has no message without a Job within   *)
(* the limits of a poll, whatever arrives, ages, fails or is deleted while *)
(* it runs, and however many polls run at once.                            *)
THEOREM NothingIsMissed == Spec => []PollMissesNothing
<1> USE IntakeAssumption
<1>1. Init => PollsDiligent
  <2> SUFFICES ASSUME Init PROVE PollsDiligent
    OBVIOUS
  <2>1. TypeOK
    BY InitInv DEF IntakeInv
  <2> QED BY <2>1, IdlePollDiligent DEF Init, PollsDiligent
<1>2. IntakeInv /\ IntakeInv' /\ PollsDiligent /\ [Next]_vars => PollsDiligent'
  <2> SUFFICES ASSUME IntakeInv, IntakeInv', PollsDiligent, [Next]_vars PROVE PollsDiligent'
    OBVIOUS
  <2>1. ASSUME NEW q \in AllPolls, PollStep(q) \/ PollStepFails(q) PROVE PollsDiligent'
    BY <2>1, PollStepDiligent
  <2>2. CASE \/ \E q \in AllPolls : Settle(q)
             \/ \E p \in Pollers : Crash(p) \/ PollNow(p)
             \/ \E r \in Requests : Submit(r)
    BY <2>2, OthersDiligent
  <2>3. ASSUME NEW a \in Accounts, GrowOld(a) \/ \E t \in Threads : Arrive(a, t)
        PROVE  PollsDiligent'
    BY <2>3, MailboxDiligent
  <2>4. ASSUME UNCHANGED mailVars, UNCHANGED <<made, polls>> PROVE PollsDiligent'
    <3>1. \A q \in AllPolls : Diligent(polls'[q], made')
      BY <2>4 DEF PollsDiligent
    <3> QED BY <2>4, <3>1, DiligentAfter
  <2>5. ASSUME NEW p \in Pollers, Stop(p) \/ Stopped(p) PROVE PollsDiligent'
    BY <2>4, <2>5 DEF Stop, Stopped, jobVars
  <2>6. ASSUME NEW a \in Accounts, ChangeConnection(a) \/ SaveSettings(a) PROVE PollsDiligent'
    BY <2>4, <2>6 DEF ChangeConnection, SaveSettings, jobVars
  <2>7. ASSUME NEW S \in SUBSET jobs, DeleteExpired(S) PROVE PollsDiligent'
    BY <2>4, <2>7 DEF DeleteExpired
  <2>8. CASE UNCHANGED vars
    BY <2>4, <2>8 DEF vars, mailVars
  <2>9. ASSUME NEW p \in Pollers, StartPoller(p) \/ Tick(p) PROVE PollsDiligent'
    BY <2>2, <2>9 DEF StartPoller, Tick
  <2>10. CASE Next
    BY <2>1, <2>2, <2>3, <2>5, <2>6, <2>7, <2>9, <2>10 DEF Next
  <2> QED BY <2>8, <2>10
<1>3. IntakeInv /\ PollsDiligent => PollMissesNothing
  <2> SUFFICES ASSUME IntakeInv, PollsDiligent, NEW q \in AllPolls, At(q, "done"), NEW a \in Accounts
      PROVE  /\ polls[q].verdict[a] # "todo"
             /\ polls[q].verdict[a] = "ok" => Complete(polls[q], a, made)
    BY DEF PollMissesNothing, Complete
  <2>1. Diligent(polls[q], made) /\ Placed(polls[q])
    BY DEF IntakeInv, PollsPlaced, PollsDiligent
  <2>2. polls[q].account # a
    BY <2>1 DEF At, Placed, IntakeAssumption
  <2> QED BY <2>1, <2>2 DEF At, Diligent, Settled
<1> QED BY <1>1, <1>2, <1>3, IntakeInvariant, PTL DEF Spec
=============================================================================
