----------------------- MODULE DraftReservationProofs -----------------------
(***************************************************************************)
(* Proofs about DraftReservation for every number of Jobs, executions,     *)
(* keys and removals.                                                      *)
(***************************************************************************)
EXTENDS DraftReservation, TLAPS

USE DEF gmailVars

(* d exists, or existed, in Gmail and carries the key k.                   *)
Real(d, k) == d \in Executions /\ drafts[d] # "none" /\ exec[d].key = k

(* A draft, also one that is still to come, belongs to an execution that   *)
(* has begun, so its key is settled.                                       *)
CreatedByBegun ==
    \A e \in Executions : drafts[e] # "none" \/ e \in late => exec[e].pc # "idle"

(* What an execution is about to record is a draft with its own key.       *)
CarriesReal ==
    \A e \in Executions :
        exec[e].pc \in {"recording", "rechecking"} => Real(exec[e].draft, exec[e].key)

RowReal == row.status = "completed" => Real(row.draft, row.key)

DraftInv == TypeOK /\ CreatedByBegun /\ CarriesReal /\ RowReal

-----------------------------------------------------------------------------
(* Every step of an execution but its beginning: it keeps its Job and key. *)
Moved(e, pc, d) ==
    /\ exec' \in [Executions -> Exec]
    /\ \A f \in Executions : f # e => exec'[f] = exec[f]
    /\ exec'[e].pc = pc
    /\ exec'[e].job = exec[e].job
    /\ exec'[e].key = exec[e].key
    /\ exec'[e].draft = d

LEMMA GoToMoves ==
  ASSUME TypeOK, NEW e \in Executions, NEW pc \in ExecPc, GoTo(e, pc)
  PROVE  Moved(e, pc, exec[e].draft)
<1>1. exec \in [Executions -> Exec] /\ exec[e] \in Exec
  BY DEF TypeOK
<1>2. [exec[e] EXCEPT !.pc = pc] \in Exec
  BY <1>1 DEF Exec
<1> QED BY <1>1, <1>2 DEF GoTo, Moved, Exec

LEMMA GoWithMoves ==
  ASSUME TypeOK, NEW e \in Executions, NEW pc \in ExecPc, NEW d \in Executions,
         GoWith(e, pc, d)
  PROVE  Moved(e, pc, d)
<1>1. exec \in [Executions -> Exec] /\ exec[e] \in Exec
  BY DEF TypeOK
<1>2. [exec[e] EXCEPT !.pc = pc, !.draft = d] \in Exec
  BY <1>1 DEF Exec
<1> QED BY <1>1, <1>2 DEF GoWith, Moved, Exec

(* Real lasts: drafts are never uncreated and begun executions keep their  *)
(* keys.                                                                   *)
Lasting ==
    \A d \in Executions :
        drafts[d] # "none" => drafts'[d] # "none" /\ exec'[d].key = exec[d].key

LEMMA RealLasts ==
  ASSUME Lasting, NEW d, NEW k, Real(d, k)
  PROVE  Real(d, k)'
  BY DEF Lasting, Real

(* A step of execution e that leaves the drafts alone.                     *)
LEMMA QuietStep ==
  ASSUME DraftInv, NEW e \in Executions, NEW pc \in ExecPc \ {"idle"}, NEW d,
         Moved(e, pc, d), UNCHANGED <<drafts, late>>,
         pc \in {"recording", "rechecking"} => Real(d, exec[e].key),
         RowReal'
  PROVE  CreatedByBegun' /\ CarriesReal' /\ RowReal'
<1>1. Lasting
  BY DEF Lasting, Moved, DraftInv
<1>2. CreatedByBegun'
  BY DEF CreatedByBegun, Moved, DraftInv
<1>3. ASSUME NEW f \in Executions, exec'[f].pc \in {"recording", "rechecking"}
      PROVE  Real(exec[f].draft, exec[f].key)'
  <2>1. CASE f = e
    <3>1. Real(d, exec[e].key)
      BY <1>3, <2>1 DEF Moved
    <3> QED BY <1>1, <2>1, <3>1 DEF Moved, Real, Lasting
  <2>2. CASE f # e
    <3>1. Real(exec[f].draft, exec[f].key)
      BY <1>3, <2>2 DEF Moved, DraftInv, CarriesReal
    <3> QED BY <1>1, <2>2, <3>1 DEF Moved, Real, Lasting
  <2> QED BY <2>1, <2>2
<1> QED BY <1>2, <1>3 DEF CarriesReal

(* ... and also leaves the row, or opens it for a new draft.               *)
LEMMA RowKept ==
  ASSUME DraftInv, NEW e \in Executions, NEW pc \in ExecPc \ {"idle"}, NEW d,
         Moved(e, pc, d), UNCHANGED drafts,
         UNCHANGED row \/ row'.status = "creating"
  PROVE  RowReal'
<1>1. Lasting
  BY DEF Lasting, Moved
<1> QED BY <1>1 DEF RowReal, DraftInv, Real, Lasting

LEMMA ReservedType ==
  ASSUME TypeOK, NEW e \in Executions
  PROVE  Reserved(e) \in Row /\ Reserved(e).status = "creating"
  BY DEF TypeOK, Exec, Reserved, Row

LEMMA InitInv == Init => DraftInv
<1> SUFFICES ASSUME Init
             PROVE  DraftInv
  OBVIOUS
<1>1. TypeOK
  BY DEF Init, TypeOK, Row, Exec, ExecPc
<1> QED BY <1>1 DEF Init, DraftInv, CreatedByBegun, CarriesReal, RowReal

-----------------------------------------------------------------------------
(* The steps that move one execution and leave the drafts alone.           *)
LEMMA QuietInv ==
  ASSUME DraftInv, NEW e \in Executions, NEW pc \in ExecPc \ {"idle"},
         NEW d \in Executions \cup {None}, Moved(e, pc, d),
         UNCHANGED <<gmailVars, jobs, holder>>,
         pc \in {"recording", "rechecking"} => Real(d, exec[e].key),
         row' \in Row,
         UNCHANGED row \/ row'.status = "creating" \/ RowReal'
  PROVE  DraftInv'
<1>1. TypeOK'
  BY DEF DraftInv, TypeOK, Moved
<1>2. RowReal'
  BY RowKept
<1> QED BY <1>1, <1>2, QuietStep DEF DraftInv

LEMMA QuietGoTo ==
  ASSUME DraftInv, NEW e \in Executions, NEW pc \in ExecPc \ {"idle"}, GoTo(e, pc),
         pc \in {"recording", "rechecking"} => exec[e].pc \in {"recording", "rechecking"},
         row' \in Row,
         UNCHANGED row \/ row'.status = "creating",
         UNCHANGED <<gmailVars, jobs, holder>>
  PROVE  DraftInv'
<1>1. Moved(e, pc, exec[e].draft)
  BY GoToMoves DEF DraftInv
<1>2. exec[e].draft \in Executions \cup {None}
  BY DEF DraftInv, TypeOK, Exec
<1>3. pc \in {"recording", "rechecking"} => Real(exec[e].draft, exec[e].key)
  BY DEF DraftInv, CarriesReal
<1> QED BY <1>1, <1>2, <1>3, QuietInv

LEMMA ReservationSteps ==
  ASSUME DraftInv, NEW e \in Executions,
         \/ NoDraft(e) \/ Reserve(e) \/ ReadReservation(e)
         \/ Reopen(e) \/ ReopenRefused(e) \/ CallFails(e) \/ Crash(e)
  PROVE  DraftInv'
<1>r. row \in Row /\ Reserved(e) \in Row /\ Reserved(e).status = "creating"
  BY ReservedType DEF DraftInv, TypeOK
<1>1. CASE NoDraft(e)
  BY <1>1, <1>r, QuietGoTo DEF NoDraft, ExecPc
<1>2. CASE Reserve(e)
  BY <1>2, <1>r, QuietGoTo DEF Reserve, Proceed, ExecPc
<1>3. CASE ReadReservation(e)
  BY <1>3, <1>r, QuietGoTo DEF ReadReservation, ExecPc
<1>4. CASE Reopen(e) \/ ReopenRefused(e)
  BY <1>4, <1>r, QuietGoTo DEF Reopen, ReopenRefused, Proceed, ExecPc
<1>5. CASE CallFails(e) \/ Crash(e)
  BY <1>5, <1>r, QuietGoTo DEF CallFails, Crash, ExecPc
<1> QED BY <1>1, <1>2, <1>3, <1>4, <1>5

LEMMA LookupSteps ==
  ASSUME DraftInv, NEW e \in Executions, VerifyRecorded(e) \/ Search(e)
  PROVE  DraftInv'
<1>r. row \in Row /\ UNCHANGED <<row, gmailVars, jobs, holder>>
  BY DEF DraftInv, TypeOK, VerifyRecorded, Search
<1>1. CASE \E pc \in {"reopening", "creating"} : GoTo(e, pc)
  BY <1>1, <1>r, QuietGoTo DEF ExecPc
<1>2. ASSUME NEW d \in Found(e), NEW pc \in {"done", "recording"}, GoWith(e, pc, d)
      PROVE  DraftInv'
  <2>1. d \in Executions /\ Real(d, exec[e].key)
    BY DEF Found, Real
  <2>2. Moved(e, pc, d)
    BY <1>2, <2>1, GoWithMoves DEF DraftInv, ExecPc
  <2> QED BY <1>r, <2>1, <2>2, QuietInv DEF ExecPc
<1> QED BY <1>1, <1>2 DEF VerifyRecorded, Search

(* Recording needs the key of the row to be the execution's own.           *)
LEMMA RecordSteps ==
  ASSUME DraftInv, NEW e \in Executions, Record(e) \/ RecheckRecorded(e)
  PROVE  DraftInv'
<1>t. row \in Row /\ UNCHANGED <<gmailVars, jobs, holder>>
  BY DEF DraftInv, TypeOK, Record, RecheckRecorded
<1>c. exec[e].pc \in {"recording", "rechecking"} /\ Real(exec[e].draft, exec[e].key)
  BY DEF DraftInv, CarriesReal, Record, RecheckRecorded, At
<1>1. CASE UNCHANGED row
  <2>1. \E pc \in {"rechecking", "done", "rejected", "failed"} : GoTo(e, pc)
    BY DEF Record, RecheckRecorded, Proceed
  <2> QED BY <1>1, <1>t, <1>c, <2>1, QuietGoTo DEF ExecPc
<1>2. CASE ~UNCHANGED row
  <2>1. /\ row.key = exec[e].key
        /\ row' = [row EXCEPT !.status = "completed", !.draft = exec[e].draft]
    BY <1>2 DEF Record, RecheckRecorded, OwnsRow
  <2>2. PICK pc \in {"done", "failed"} : GoTo(e, pc)
    BY <1>2 DEF Record, RecheckRecorded, Proceed
  <2>3. Moved(e, pc, exec[e].draft)
    BY <2>2, GoToMoves DEF DraftInv, ExecPc
  <2>4. exec[e].draft \in Executions
    BY <1>c DEF Real
  <2>5. row' \in Row /\ row'.draft = exec[e].draft /\ row'.key = row.key
    BY <1>t, <2>1, <2>4 DEF Row
  <2>6. Lasting
    BY <1>t, <2>3 DEF Lasting, Moved
  <2>7. RowReal'
    <3>1. Real(exec[e].draft, exec[e].key)
      BY <1>c
    <3>2. drafts'[exec[e].draft] # "none" /\ exec'[exec[e].draft].key = exec[e].key
      BY <2>6, <3>1 DEF Lasting, Real
    <3> QED BY <2>1, <2>4, <2>5, <3>2 DEF RowReal, Real
  <2> QED BY <1>t, <2>3, <2>4, <2>5, <2>7, QuietInv DEF ExecPc
<1> QED BY <1>1, <1>2

(* The step that makes a draft real.                                       *)
LEMMA CreateStep ==
  ASSUME DraftInv, NEW e \in Executions, CreateDraft(e)
  PROVE  DraftInv'
<1>t. TypeOK
  BY DEF DraftInv
<1>1. PICK pc \in {"recording", "failed", "rejected"}, d \in Executions \cup {None} :
         /\ Moved(e, pc, d)
         /\ pc = "recording" => d = e /\ drafts' = [drafts EXCEPT ![e] = "present"]
  <2>1. CASE GoWith(e, "recording", e) /\ drafts' = [drafts EXCEPT ![e] = "present"]
    BY <1>t, <2>1, GoWithMoves DEF ExecPc
  <2>2. CASE \E pc \in {"failed", "rejected"} : GoTo(e, pc)
    <3>1. exec[e].draft \in Executions \cup {None}
      BY <1>t DEF TypeOK, Exec
    <3> QED BY <1>t, <2>2, <3>1, GoToMoves DEF ExecPc
  <2> QED BY <2>1, <2>2 DEF CreateDraft
<1>2. /\ drafts'[e] = "present" \/ UNCHANGED drafts
      /\ \A f \in Executions : f # e => drafts'[f] = drafts[f]
      /\ drafts' \in [Executions -> {"none", "present", "gone"}]
      /\ leased' \subseteq Executions
      /\ late' \subseteq late \cup {e} /\ late' \subseteq Executions
      /\ overtaken' \subseteq Executions
      /\ UNCHANGED <<row, jobs, holder>>
  BY <1>t DEF CreateDraft, TypeOK
<1>3. Lasting
  BY <1>1, <1>2 DEF Lasting, Moved
<1>4. TypeOK'
  BY <1>t, <1>1, <1>2 DEF TypeOK, Moved
<1>5. CreatedByBegun'
  BY <1>1, <1>2 DEF DraftInv, CreatedByBegun, Moved
<1>6. RowReal'
  BY <1>2, <1>3 DEF DraftInv, RowReal, Real, Lasting
<1>7. ASSUME NEW f \in Executions, exec'[f].pc \in {"recording", "rechecking"}
      PROVE  Real(exec[f].draft, exec[f].key)'
  <2>1. CASE f = e
    <3>1. d = e /\ drafts'[e] = "present"
      BY <1>t, <1>1, <1>7, <2>1 DEF Moved, TypeOK
    <3> QED BY <1>1, <2>1, <3>1 DEF Moved, Real
  <2>2. CASE f # e
    <3>1. Real(exec[f].draft, exec[f].key) /\ exec'[f] = exec[f]
      BY <1>1, <1>7, <2>2 DEF Moved, DraftInv, CarriesReal
    <3> QED BY <1>3, <3>1 DEF Real, Lasting
  <2> QED BY <2>1, <2>2
<1> QED BY <1>4, <1>5, <1>6, <1>7 DEF DraftInv, CarriesReal

(* A draft that comes late makes nothing else less real.                   *)
LEMMA LateStep ==
  ASSUME DraftInv, NEW e \in Executions, LateCreate(e)
  PROVE  DraftInv'
<1>1. /\ drafts'[e] = "present"
      /\ \A f \in Executions : f # e => drafts'[f] = drafts[f]
      /\ drafts' \in [Executions -> {"none", "present", "gone"}]
      /\ late' \subseteq late /\ e \in late
      /\ overtaken' \subseteq Executions
      /\ UNCHANGED <<row, leased, exec, jobs, holder>>
  BY DEF DraftInv, TypeOK, LateCreate
<1>2. TypeOK'
  BY <1>1 DEF DraftInv, TypeOK
<1>3. CreatedByBegun'
  BY <1>1 DEF DraftInv, CreatedByBegun
<1>4. CarriesReal' /\ RowReal'
  BY <1>1 DEF DraftInv, CarriesReal, RowReal, Real
<1> QED BY <1>2, <1>3, <1>4 DEF DraftInv

-----------------------------------------------------------------------------
(* The steps of Jobs, leases and the user.                                 *)
LEMMA BeginStep ==
  ASSUME DraftInv, NEW e \in Executions, NEW j \in Jobs, NEW k \in Keys, Begin(e, j, k)
  PROVE  DraftInv'
<1>1. /\ exec \in [Executions -> Exec]
      /\ exec[e].pc = "idle"
      /\ drafts[e] = "none"
      /\ UNCHANGED <<row, gmailVars, jobs>>
  BY DEF Begin, At, DraftInv, TypeOK, CreatedByBegun
<1>2. /\ exec' \in [Executions -> Exec]
      /\ exec'[e].pc = "reserving"
      /\ \A f \in Executions : f # e => exec'[f] = exec[f]
  BY <1>1 DEF Begin, Exec, ExecPc
<1>3. holder' \in [Jobs -> Executions \cup {None}]
  BY DEF Begin, DraftInv, TypeOK
<1>4. Lasting
  BY <1>1, <1>2 DEF Lasting
<1>5. TypeOK'
  BY <1>1, <1>2, <1>3 DEF DraftInv, TypeOK
<1>6. CreatedByBegun'
  BY <1>1, <1>2 DEF DraftInv, CreatedByBegun
<1>7. RowReal'
  BY <1>1, <1>4 DEF DraftInv, RowReal, Real, Lasting
<1>8. ASSUME NEW f \in Executions, exec'[f].pc \in {"recording", "rechecking"}
      PROVE  Real(exec[f].draft, exec[f].key)'
  <2>1. Real(exec[f].draft, exec[f].key) /\ exec'[f] = exec[f]
    BY <1>2, <1>8 DEF DraftInv, CarriesReal
  <2> QED BY <1>4, <2>1 DEF Real, Lasting
<1> QED BY <1>5, <1>6, <1>7, <1>8 DEF DraftInv, CarriesReal

LEMMA SettleStep ==
  ASSUME DraftInv, NEW e \in Executions, Settle(e)
  PROVE  DraftInv'
<1>t. TypeOK /\ UNCHANGED <<row, gmailVars>>
  BY DEF DraftInv, Settle
<1>1. Moved(e, "ended", exec[e].draft)
  BY <1>t, GoToMoves DEF Settle, ExecPc
<1>2. jobs' \in [Jobs -> {"active", "completed", "failed"}]
  <2>1. JobAfter(exec[e].pc) \subseteq {"active", "completed", "failed"}
    BY DEF Settle, JobAfter
  <2> QED BY <1>t, <2>1 DEF Settle, TypeOK
<1>3. holder' \in [Jobs -> Executions \cup {None}]
  BY <1>t DEF Settle, TypeOK
<1>4. TypeOK'
  BY <1>t, <1>1, <1>2, <1>3 DEF TypeOK, Moved
<1>5. RowReal'
  BY <1>t, <1>1, RowKept DEF ExecPc
<1> QED BY <1>t, <1>1, <1>4, <1>5, QuietStep DEF DraftInv, ExecPc

LEMMA OutsideStep ==
  ASSUME DraftInv,
         \/ \E j \in Jobs : Detach(j)
         \/ \E d \in Executions : Remove(d)
         \/ UNCHANGED vars
  PROVE  DraftInv'
<1>1. /\ UNCHANGED <<row, exec, leased>>
      /\ UNCHANGED <<late, overtaken>>
      /\ drafts' \in [Executions -> {"none", "present", "gone"}]
      /\ \A d \in Executions : drafts'[d] # "none" <=> drafts[d] # "none"
  BY DEF Detach, Remove, vars, DraftInv, TypeOK
<1>2. /\ jobs' \in [Jobs -> {"active", "completed", "failed"}]
      /\ holder' \in [Jobs -> Executions \cup {None}]
  BY DEF Detach, Remove, vars, DraftInv, TypeOK
<1>3. TypeOK'
  BY <1>1, <1>2 DEF DraftInv, TypeOK
<1> QED BY <1>1, <1>3 DEF DraftInv, CreatedByBegun, CarriesReal, RowReal, Real

LEMMA StepInv == DraftInv /\ [Next]_vars => DraftInv'
<1> SUFFICES ASSUME DraftInv, [Next]_vars
             PROVE  DraftInv'
  OBVIOUS
<1>1. ASSUME NEW e \in Executions,
             \/ NoDraft(e) \/ Reserve(e) \/ ReadReservation(e)
             \/ VerifyRecorded(e) \/ Reopen(e) \/ ReopenRefused(e)
             \/ Search(e) \/ CreateDraft(e) \/ Record(e) \/ RecheckRecorded(e)
             \/ CallFails(e) \/ Settle(e) \/ Crash(e)
      PROVE  DraftInv'
  BY <1>1, ReservationSteps, LookupSteps, RecordSteps, CreateStep, SettleStep
<1> QED BY <1>1, BeginStep, LateStep, OutsideStep DEF Next

-----------------------------------------------------------------------------
(* Who may write: the second invariant, for what two Jobs do at once.      *)

Writing == {"searching", "creating", "recording"}

(* Before an execution has left "creating" it has asked for no draft; after *)
(* that it has one, or it is still to come, or there never will be one.     *)
Before == {"idle", "reserving", "reading", "verifying", "reopening", "searching", "creating"}

JobsOK ==
    /\ \A e \in Executions : exec[e].pc = "idle" => exec[e].job = None
    /\ \A e \in Executions : exec[e].pc # "idle" => exec[e].job \in Jobs
    /\ \A j \in Jobs : holder[j] # None => jobs[j] = "active"

CreatedOnce ==
    /\ \A e \in Executions : exec[e].pc \in Before =>
          drafts[e] = "none" /\ e \notin leased /\ e \notin late
    /\ \A e \in late : drafts[e] = "none"

(* As long as no draft is removed, a completed row stays what it is: the   *)
(* draft it records is found by everyone who would reopen it.              *)
CompletedStays ==
    \A e \in Executions :
        /\ exec[e].pc \in {"verifying", "reopening"} => row.status = "completed"
        /\ exec[e].pc = "reopening" => row.key # exec[e].key

(* ... and who writes with its lease has the row for its Job.              *)
WritersReserved ==
    \A e \in Executions :
        exec[e].pc \in Writing /\ Holds(e) => row.status # "absent" /\ row.job = exec[e].job

(* What the search found out is still so when the draft is created, but    *)
(* for the drafts that have overtaken it.                                  *)
NothingFound ==
    \A e \in Executions : exec[e].pc = "creating" /\ Holds(e) =>
        \A d \in leased \ overtaken : ~(drafts[d] = "present" /\ exec[d].key = exec[e].key)

WriteInv ==
    /\ JobsOK /\ CreatedOnce
    /\ Untouched => CompletedStays /\ WritersReserved
    /\ Untouched \/ OneJob => NothingFound
    /\ OneLeasedDraftOfKey

(* Two executions that write with their leases are one.                    *)
LEMMA Exclusive ==
  ASSUME WriteInv, Untouched \/ OneJob, NEW e1 \in Executions, NEW e2 \in Executions,
         exec[e1].pc \in Writing, Holds(e1), exec[e2].pc \in Writing, Holds(e2)
  PROVE  e1 = e2
<1>1. exec[e1].job # None /\ exec[e2].job # None
  BY DraftAssumption DEF WriteInv, JobsOK, Holds, DraftAssumption
<1>2. exec[e1].job = exec[e2].job
  BY <1>1 DEF WriteInv, WritersReserved, OneJob
<1> QED BY <1>2 DEF Holds

(* A draft that is removed, and a second Job, stay so.                     *)
LEMMA HypothesisBack ==
  ASSUME DraftInv, WriteInv,
         \A d \in Executions : drafts[d] = "gone" => drafts'[d] = "gone",
         \A e \in Executions : exec[e].job # None => exec'[e].job = exec[e].job
  PROVE  (Untouched' => Untouched) /\ (OneJob' => OneJob)
BY DEF Untouched, OneJob

LEMMA MovedHolds ==
  ASSUME NEW e \in Executions, NEW pc \in ExecPc \ {"idle"}, NEW d, Moved(e, pc, d),
         exec[e].pc # "idle", UNCHANGED holder
  PROVE  \A f \in Executions : Holds(f)' <=> Holds(f)
<1> TAKE f \in Executions
<1>1. CASE f = e
  BY <1>1 DEF Moved, Holds
<1>2. CASE f # e
  BY <1>2 DEF Moved, Holds
<1> QED BY <1>1, <1>2

(* A step of execution e that leaves drafts and leases alone.              *)
LEMMA QuietWrite ==
  ASSUME DraftInv, WriteInv, NEW e \in Executions, NEW pc \in ExecPc \ {"idle"}, NEW d,
         Moved(e, pc, d), exec[e].pc # "idle", UNCHANGED <<gmailVars, jobs, holder>>,
         pc \in Before => exec[e].pc \in Before,
         Untouched /\ row.status = "completed" => row'.status = "completed" /\ row'.key = row.key
                                                  /\ row'.job = row.job,
         Untouched => \A f \in Executions :
            f # e /\ Holds(f) /\ row.status # "absent" /\ row.job = exec[f].job
              => row'.status # "absent" /\ row'.job = exec[f].job,
         Untouched /\ pc \in {"verifying", "reopening"} => row'.status = "completed",
         Untouched /\ pc = "reopening" => row'.key # exec[e].key,
         Untouched /\ pc \in Writing /\ Holds(e) => row'.status # "absent" /\ row'.job = exec[e].job,
         pc = "creating" => Found(e) = {}
  PROVE  WriteInv'
<1>1. Moved(e, pc, d) /\ \A f \in Executions : Holds(f)' <=> Holds(f)
  BY MovedHolds
<1>2. \A f \in Executions : exec'[f].job = exec[f].job /\ exec'[f].key = exec[f].key
  BY <1>1 DEF Moved
<1>3. (Untouched' => Untouched) /\ (OneJob' => OneJob)
  BY <1>2, HypothesisBack
<1>4. JobsOK'
  BY <1>1 DEF Moved, WriteInv, JobsOK
<1>5. CreatedOnce'
  BY <1>1 DEF Moved, WriteInv, CreatedOnce, Before
<1>6. ASSUME Untouched' PROVE CompletedStays'
  BY <1>1, <1>3, <1>6 DEF Moved, WriteInv, CompletedStays
<1>7. ASSUME Untouched' PROVE WritersReserved'
  <2> SUFFICES ASSUME NEW f \in Executions, exec'[f].pc \in Writing, Holds(f)'
               PROVE  row'.status # "absent" /\ row'.job = exec'[f].job
    BY DEF WritersReserved
  <2>1. CASE f = e
    BY <1>1, <1>2, <1>3, <1>7, <2>1 DEF Moved
  <2>2. CASE f # e
    BY <1>1, <1>3, <1>7, <2>2 DEF Moved, WriteInv, WritersReserved
  <2> QED BY <2>1, <2>2
<1>8. ASSUME Untouched' \/ OneJob' PROVE NothingFound'
  <2> SUFFICES ASSUME NEW f \in Executions, exec'[f].pc = "creating", Holds(f)',
                      NEW c \in leased \ overtaken, drafts[c] = "present"
               PROVE  exec'[c].key # exec'[f].key
    BY DEF NothingFound
  <2>0. c \in Executions
    BY DEF DraftInv, TypeOK
  <2>1. CASE f = e
    <3>1. Found(e) = {}
      BY <1>1, <2>1 DEF Moved
    <3> QED BY <1>2, <2>0, <2>1, <3>1 DEF Found
  <2>2. CASE f # e
    <3>1. NothingFound
      BY <1>3, <1>8 DEF WriteInv
    <3> QED BY <1>1, <1>2, <2>0, <2>2, <3>1 DEF Moved, NothingFound
  <2> QED BY <2>1, <2>2
<1>9. OneLeasedDraftOfKey'
  <2>1. leased \subseteq Executions
    BY DEF DraftInv, TypeOK
  <2> QED BY <1>2, <1>3, <2>1 DEF WriteInv, OneLeasedDraftOfKey, Duplicates
<1> QED BY <1>4, <1>5, <1>6, <1>7, <1>8, <1>9 DEF WriteInv

(* As above, when the row stays and the execution stops being a writer, or *)
(* goes on as one.                                                         *)
LEMMA IdleRowWrite ==
  ASSUME DraftInv, WriteInv, NEW e \in Executions, NEW pc \in ExecPc \ Before, NEW d,
         Moved(e, pc, d), exec[e].pc # "idle", UNCHANGED <<gmailVars, jobs, holder>>,
         row' = row \/ (row.status # "completed" /\ row'.status # "absent" /\ row'.job = row.job),
         pc = "recording" => exec[e].pc \in Writing
  PROVE  WriteInv'
<1>1. Untouched => WritersReserved
  BY DEF WriteInv
<1>2. pc \notin {"idle", "verifying", "reopening", "creating"} /\ pc \in ExecPc
  BY DEF Before
<1>3. Untouched /\ pc \in Writing /\ Holds(e) => row'.status # "absent" /\ row'.job = exec[e].job
  BY <1>1, <1>2 DEF Writing, WritersReserved, Before
<1> QED BY <1>2, <1>3, QuietWrite

-----------------------------------------------------------------------------
LEMMA ReserveWrite ==
  ASSUME DraftInv, WriteInv, NEW e \in Executions, Reserve(e)
  PROVE  WriteInv'
<1>t. TypeOK /\ exec[e].pc = "reserving" /\ UNCHANGED <<gmailVars, jobs, holder>>
  BY DEF DraftInv, Reserve, At
<1>j. exec[e].job \in Jobs
  BY <1>t DEF WriteInv, JobsOK
<1>1. CASE Reservable(e)
  <2>1. row' = Reserved(e)
    BY <1>1 DEF Reserve
  <2>2. PICK pc \in {"searching", "failed"} : Moved(e, pc, exec[e].draft)
    BY <1>t, <1>1, GoToMoves DEF Reserve, Proceed, ExecPc
  <2>3. row'.status = "creating" /\ row'.job = exec[e].job
    BY <2>1 DEF Reserved
  <2>4. ASSUME NEW f \in Executions, f # e, Holds(f), row.status # "absent",
               row.job = exec[f].job
        PROVE  row'.job = exec[f].job
    <3>1. exec[f].job \in Jobs
      BY <2>4 DEF Holds, WriteInv, JobsOK
    <3>2. jobs[exec[f].job] = "active"
      BY <2>4, <3>1, DraftAssumption DEF Holds, WriteInv, JobsOK, DraftAssumption
    <3> QED BY <1>1, <2>3, <2>4, <3>2 DEF Reservable
  <2>5. row.status # "completed"
    BY <1>1 DEF Reservable
  <2> QED BY <1>t, <2>2, <2>3, <2>4, <2>5, QuietWrite DEF ExecPc, Before
<1>2. CASE ~Reservable(e)
  <2>1. Moved(e, "reading", exec[e].draft) /\ row' = row
    BY <1>t, <1>2, GoToMoves DEF Reserve, ExecPc
  <2> QED BY <1>t, <2>1, QuietWrite DEF ExecPc, Before, Writing
<1> QED BY <1>1, <1>2

LEMMA ReadWrite ==
  ASSUME DraftInv, WriteInv, NEW e \in Executions, ReadReservation(e)
  PROVE  WriteInv'
<1>t. TypeOK /\ exec[e].pc = "reading" /\ UNCHANGED <<row, gmailVars, jobs, holder>>
  BY DEF DraftInv, ReadReservation, At
<1>1. CASE row.status = "completed"
  <2>1. Moved(e, "verifying", exec[e].draft)
    BY <1>t, <1>1, GoToMoves DEF ReadReservation, ExecPc
  <2> QED BY <1>t, <1>1, <2>1, QuietWrite DEF ExecPc, Before, Writing
<1>2. CASE row.status = "creating" /\ row.job = exec[e].job
  <2>1. Moved(e, "searching", exec[e].draft)
    BY <1>t, <1>2, GoToMoves DEF ReadReservation, ExecPc
  <2> QED BY <1>t, <1>2, <2>1, QuietWrite DEF ExecPc, Before
<1>3. CASE ~(row.status = "completed") /\ ~(row.status = "creating" /\ row.job = exec[e].job)
  <2>1. Moved(e, "failed", exec[e].draft)
    BY <1>t, <1>3, GoToMoves DEF ReadReservation, ExecPc
  <2> QED BY <1>t, <2>1, IdleRowWrite DEF ExecPc, Before
<1> QED BY <1>1, <1>2, <1>3

LEMMA LookupWrite ==
  ASSUME DraftInv, WriteInv, NEW e \in Executions, VerifyRecorded(e) \/ Search(e)
  PROVE  WriteInv'
<1>t. TypeOK /\ UNCHANGED <<row, gmailVars, jobs, holder>>
  BY DEF DraftInv, VerifyRecorded, Search
<1>1. CASE Search(e) /\ Found(e) = {} /\ GoTo(e, "creating")
  <2>1. Moved(e, "creating", exec[e].draft) /\ exec[e].pc = "searching"
    BY <1>t, <1>1, GoToMoves DEF Search, At, ExecPc
  <2>2. Untouched /\ Holds(e) => row.status # "absent" /\ row.job = exec[e].job
    BY <2>1 DEF WriteInv, WritersReserved, Writing
  <2> QED BY <1>t, <1>1, <2>1, <2>2, QuietWrite DEF ExecPc, Before
<1>2. CASE VerifyRecorded(e) /\ Found(e) = {} /\ GoTo(e, "reopening")
  <2>1. Moved(e, "reopening", exec[e].draft) /\ exec[e].pc = "verifying"
    BY <1>t, <1>2, GoToMoves DEF VerifyRecorded, At, ExecPc
  <2>2. Untouched => row.status = "completed"
    BY <2>1 DEF WriteInv, CompletedStays
  <2>3. ASSUME Untouched PROVE row.key # exec[e].key
    <3>1. row.draft \in Executions /\ drafts[row.draft] # "none"
          /\ exec[row.draft].key = row.key
      BY <2>2, <2>3 DEF DraftInv, RowReal, Real
    <3>2. drafts[row.draft] = "present"
      BY <1>t, <2>3, <3>1 DEF TypeOK, Untouched
    <3> QED BY <1>2, <3>1, <3>2 DEF Found
  <2> QED BY <1>t, <2>1, <2>2, <2>3, QuietWrite DEF ExecPc, Before, Writing
<1>3. CASE \E c \in Found(e) : \/ Search(e) /\ GoWith(e, "recording", c)
                               \/ VerifyRecorded(e) /\ GoWith(e, "done", c)
  <2>1. PICK c \in Found(e) : \/ Search(e) /\ GoWith(e, "recording", c)
                              \/ VerifyRecorded(e) /\ GoWith(e, "done", c)
    BY <1>3
  <2>2. c \in Executions
    BY DEF Found
  <2>3. \/ Moved(e, "recording", c) /\ exec[e].pc = "searching"
        \/ Moved(e, "done", c) /\ exec[e].pc = "verifying"
    BY <1>t, <2>1, <2>2, GoWithMoves DEF Search, VerifyRecorded, At, ExecPc
  <2> QED BY <1>t, <2>3, IdleRowWrite DEF ExecPc, Before, Writing
<1> QED BY <1>1, <1>2, <1>3 DEF VerifyRecorded, Search

LEMMA ReopenWrite ==
  ASSUME DraftInv, WriteInv, NEW e \in Executions, Reopen(e) \/ ReopenRefused(e)
  PROVE  WriteInv'
<1>t. TypeOK /\ exec[e].pc = "reopening" /\ UNCHANGED <<gmailVars, jobs, holder>>
  BY DEF DraftInv, Reopen, ReopenRefused, At
<1>1. CASE ReopenRefused(e)
  <2>1. Moved(e, "failed", exec[e].draft) /\ row' = row
    BY <1>t, <1>1, GoToMoves DEF ReopenRefused, ExecPc
  <2> QED BY <1>t, <2>1, IdleRowWrite DEF ExecPc, Before
<1>2. CASE Reopen(e)
  <2>1. PICK pc \in {"searching", "failed"} : Moved(e, pc, exec[e].draft)
    BY <1>t, <1>2, GoToMoves DEF Reopen, Proceed, ExecPc
  <2>2. ~Untouched
    BY <1>t, <1>2 DEF Reopen, Reopenable, WriteInv, CompletedStays
  <2> QED BY <1>t, <2>1, <2>2, QuietWrite DEF ExecPc, Before
<1> QED BY <1>1, <1>2

LEMMA RecordWrite ==
  ASSUME DraftInv, WriteInv, NEW e \in Executions, Record(e) \/ RecheckRecorded(e)
  PROVE  WriteInv'
<1>t. TypeOK /\ exec[e].pc \in {"recording", "rechecking"}
      /\ UNCHANGED <<gmailVars, jobs, holder>>
  BY DEF DraftInv, Record, RecheckRecorded, At
<1>1. PICK pc \in {"rechecking", "done", "failed", "rejected"} : Moved(e, pc, exec[e].draft)
  <2>1. \E pc \in {"rechecking", "done", "failed", "rejected"} : GoTo(e, pc)
    BY DEF Record, RecheckRecorded, Proceed
  <2> QED BY <1>t, <2>1, GoToMoves DEF ExecPc
<1>2. row' = row \/ (row.status # "completed" /\ row'.status # "absent" /\ row'.job = row.job)
  BY <1>t DEF Record, RecheckRecorded, TypeOK, Row
<1>3. pc \in ExecPc \ Before
  BY <1>1 DEF ExecPc, Before
<1> QED BY <1>t, <1>1, <1>2, <1>3, IdleRowWrite

LEMMA EndWrite ==
  ASSUME DraftInv, WriteInv, NEW e \in Executions, NoDraft(e) \/ CallFails(e) \/ Crash(e)
  PROVE  WriteInv'
<1>t. TypeOK /\ exec[e].pc # "idle" /\ UNCHANGED <<row, gmailVars, jobs, holder>>
  BY DEF DraftInv, NoDraft, CallFails, Crash, At, Running
<1>1. PICK pc \in {"done", "failed", "rejected", "ended"} : Moved(e, pc, exec[e].draft)
  <2>1. \E pc \in {"done", "failed", "rejected", "ended"} : GoTo(e, pc)
    BY DEF NoDraft, CallFails, Crash
  <2> QED BY <1>t, <2>1, GoToMoves DEF ExecPc
<1>2. pc \in ExecPc \ Before /\ pc # "recording"
  BY <1>1 DEF ExecPc, Before
<1> QED BY <1>t, <1>1, <1>2, IdleRowWrite

(* The draft is new, and no other writer with a lease looks for one.       *)
LEMMA CreateWrite ==
  ASSUME DraftInv, WriteInv, NEW e \in Executions, CreateDraft(e)
  PROVE  WriteInv'
<1>t. TypeOK /\ exec[e].pc = "creating" /\ UNCHANGED <<row, overtaken, jobs, holder>>
  BY DEF DraftInv, CreateDraft, At
<1>1. PICK pc \in {"recording", "failed", "rejected"}, d \in Executions \cup {None} : Moved(e, pc, d)
  <2>1. CASE GoWith(e, "recording", e)
    BY <1>t, <2>1, GoWithMoves DEF ExecPc
  <2>2. CASE \E pc \in {"failed", "rejected"} : GoTo(e, pc)
    <3>1. exec[e].draft \in Executions \cup {None}
      BY <1>t DEF TypeOK, Exec
    <3> QED BY <1>t, <2>2, <3>1, GoToMoves DEF ExecPc
  <2> QED BY <2>1, <2>2 DEF CreateDraft
<1>p. pc \in ExecPc \ {"idle"} /\ pc \notin Before
  BY <1>1 DEF ExecPc, Before
<1>2. /\ drafts[e] = "none" /\ e \notin leased /\ leased \subseteq Executions
      /\ \A f \in Executions : f # e => drafts'[f] = drafts[f]
      /\ leased' = IF Holds(e) THEN leased \cup {e} ELSE leased
      /\ \/ drafts'[e] = "present" /\ late' = late /\ e \notin late
         \/ drafts'[e] = "none" /\ late' = late \cup {e}
  BY <1>t DEF CreateDraft, TypeOK, WriteInv, CreatedOnce, Before
<1>3. \A f \in Executions : Holds(f)' <=> Holds(f)
  BY <1>t, <1>p, <1>1, MovedHolds
<1>4. \A f \in Executions : exec'[f].job = exec[f].job /\ exec'[f].key = exec[f].key
  BY <1>1 DEF Moved
<1>5. (Untouched' => Untouched) /\ (OneJob' => OneJob)
  BY <1>2, <1>4, HypothesisBack
<1>6. JobsOK'
  BY <1>t, <1>1, <1>p DEF Moved, WriteInv, JobsOK
<1>7. CreatedOnce'
  <2>1. late \subseteq Executions
    BY <1>t DEF TypeOK
  <2> QED BY <1>1, <1>2, <1>p, <2>1 DEF Moved, WriteInv, CreatedOnce
<1>8. ASSUME Untouched' PROVE CompletedStays' /\ WritersReserved'
  <2>1. CompletedStays'
    BY <1>t, <1>1, <1>5, <1>8 DEF Moved, WriteInv, CompletedStays
  <2>2. WritersReserved'
    BY <1>t, <1>1, <1>3, <1>5, <1>8 DEF Moved, WriteInv, WritersReserved, Writing
  <2> QED BY <2>1, <2>2
<1>9. ASSUME Untouched' \/ OneJob' PROVE NothingFound'
  <2> SUFFICES ASSUME NEW f \in Executions, exec'[f].pc = "creating", Holds(f)',
                      NEW c \in leased' \ overtaken', drafts'[c] = "present"
               PROVE  exec'[c].key # exec'[f].key
    BY DEF NothingFound
  <2>1. f # e /\ exec[f].pc = "creating" /\ Holds(f)
    BY <1>1, <1>3 DEF Moved
  <2>2. ~Holds(e)
    BY <1>t, <1>5, <1>9, <2>1, Exclusive DEF Writing
  <2>3. c \in leased \ overtaken /\ c # e /\ drafts[c] = "present"
    BY <1>t, <1>2, <2>2
  <2> QED BY <1>2, <1>4, <1>5, <1>9, <2>1, <2>3 DEF WriteInv, NothingFound
<1>10. OneLeasedDraftOfKey'
  <2> SUFFICES ASSUME Untouched' \/ OneJob', NEW d1 \in leased' \ overtaken',
                      NEW d2 \in leased' \ overtaken', Duplicates(d1, d2)'
               PROVE  exec'[d1].key # exec'[d2].key
    BY DEF OneLeasedDraftOfKey
  <2>1. d1 # d2 /\ drafts'[d1] = "present" /\ drafts'[d2] = "present"
    BY DEF Duplicates
  <2>2. OneLeasedDraftOfKey /\ NothingFound /\ (Untouched \/ OneJob)
    BY <1>5 DEF WriteInv
  <2>3. CASE d1 # e /\ d2 # e
    BY <1>t, <1>2, <1>4, <2>1, <2>2, <2>3 DEF OneLeasedDraftOfKey, Duplicates
  <2>4. CASE d1 = e \/ d2 = e
    <3>1. Holds(e)
      BY <1>2, <2>4
    <3>2. \A c \in leased \ overtaken : drafts[c] = "present" => exec[c].key # exec[e].key
      BY <1>t, <2>2, <3>1 DEF NothingFound
    <3> QED BY <1>t, <1>2, <1>4, <2>1, <2>4, <3>2
  <2> QED BY <2>3, <2>4
<1> QED BY <1>6, <1>7, <1>8, <1>9, <1>10 DEF WriteInv

-----------------------------------------------------------------------------
LEMMA BeginWrite ==
  ASSUME DraftInv, WriteInv, NEW e \in Executions, NEW j \in Jobs, NEW k \in Keys,
         Begin(e, j, k)
  PROVE  WriteInv'
<1>1. /\ TypeOK /\ exec[e].pc = "idle" /\ drafts[e] = "none" /\ exec[e].job = None
      /\ UNCHANGED <<row, gmailVars, jobs>> /\ e \notin leased /\ e \notin late
      /\ leased \subseteq Executions /\ late \subseteq Executions
  BY DEF Begin, At, DraftInv, TypeOK, CreatedByBegun, WriteInv, JobsOK, CreatedOnce, Before
<1>2. /\ exec'[e] = [pc |-> "reserving", job |-> j, key |-> k, draft |-> None]
      /\ \A f \in Executions : f # e => exec'[f] = exec[f]
  BY <1>1 DEF Begin, TypeOK
<1>3. /\ holder'[j] = e /\ jobs[j] = "active" /\ holder[j] = None
      /\ \A i \in Jobs : i # j => holder'[i] = holder[i]
  BY <1>1 DEF Begin, TypeOK
<1>4. \A f \in Executions : f # e /\ Holds(f)' => Holds(f)
  <2> SUFFICES ASSUME NEW f \in Executions, f # e, Holds(f)' PROVE Holds(f)
    OBVIOUS
  <2>1. exec[f].pc # "idle" /\ holder'[exec[f].job] = f /\ exec[f].job \in Jobs
    BY <1>2 DEF Holds, WriteInv, JobsOK
  <2> QED BY <1>3, <2>1 DEF Holds
<1>5. (Untouched' => Untouched) /\ (OneJob' => OneJob)
  BY <1>1, <1>2, HypothesisBack
<1>6. JobsOK'
  BY <1>1, <1>2, <1>3, DraftAssumption DEF WriteInv, JobsOK, DraftAssumption
<1>7. CreatedOnce'
  BY <1>1, <1>2 DEF WriteInv, CreatedOnce
<1>8. ASSUME Untouched' PROVE CompletedStays' /\ WritersReserved'
  BY <1>1, <1>2, <1>4, <1>5, <1>8 DEF WriteInv, CompletedStays, WritersReserved, Writing
<1>9. ASSUME Untouched' \/ OneJob' PROVE NothingFound'
  BY <1>1, <1>2, <1>4, <1>5, <1>9 DEF WriteInv, NothingFound
<1>10. OneLeasedDraftOfKey'
  BY <1>1, <1>2, <1>5 DEF WriteInv, OneLeasedDraftOfKey, Duplicates
<1> QED BY <1>6, <1>7, <1>8, <1>9, <1>10 DEF WriteInv

(* A late draft that has overtaken nobody is the only one of its key, and  *)
(* nobody is about to create another.                                      *)
LEMMA LateWrite ==
  ASSUME DraftInv, WriteInv, NEW e \in Executions, LateCreate(e)
  PROVE  WriteInv'
<1>1. /\ drafts[e] = "none" /\ drafts'[e] = "present"
      /\ \A f \in Executions : f # e => drafts'[f] = drafts[f]
      /\ e \in late /\ late' = late \ {e} /\ late \subseteq Executions
      /\ overtaken' = IF Overtaken(e) THEN overtaken \cup {e} ELSE overtaken
      /\ leased \subseteq Executions
      /\ UNCHANGED <<row, leased, exec, jobs, holder>>
  BY DEF LateCreate, DraftInv, TypeOK, WriteInv, CreatedOnce
<1>2. exec[e].pc \notin Before
  BY <1>1 DEF WriteInv, CreatedOnce
<1>3. (Untouched' => Untouched) /\ (OneJob' => OneJob)
  BY <1>1, HypothesisBack
<1>4. JobsOK'
  BY <1>1 DEF WriteInv, JobsOK
<1>5. CreatedOnce'
  BY <1>1, <1>2 DEF WriteInv, CreatedOnce
<1>6. ASSUME Untouched' PROVE CompletedStays' /\ WritersReserved'
  BY <1>1, <1>3, <1>6 DEF WriteInv, CompletedStays, WritersReserved, Holds
<1>7. ASSUME Untouched' \/ OneJob' PROVE NothingFound'
  <2> SUFFICES ASSUME NEW f \in Executions, exec[f].pc = "creating", Holds(f),
                      NEW c \in leased \ overtaken', drafts'[c] = "present"
               PROVE  exec[c].key # exec[f].key
    BY <1>1 DEF NothingFound, Holds
  <2>1. CASE c = e
    <3>1. ~Overtaken(e) /\ f # e
      BY <1>1, <1>2, <2>1 DEF Before
    <3> QED BY <2>1, <3>1 DEF Overtaken, At
  <2>2. CASE c # e
    BY <1>1, <1>3, <1>7, <2>2 DEF WriteInv, NothingFound
  <2> QED BY <2>1, <2>2
<1>8. OneLeasedDraftOfKey'
  <2> SUFFICES ASSUME Untouched' \/ OneJob', NEW d1 \in leased \ overtaken',
                      NEW d2 \in leased \ overtaken', Duplicates(d1, d2)'
               PROVE  exec[d1].key # exec[d2].key
    BY <1>1 DEF OneLeasedDraftOfKey
  <2>1. d1 # d2 /\ drafts'[d1] = "present" /\ drafts'[d2] = "present"
    BY DEF Duplicates
  <2>2. CASE d1 # e /\ d2 # e
    BY <1>1, <1>3, <2>1, <2>2 DEF WriteInv, OneLeasedDraftOfKey, Duplicates
  <2>3. CASE d1 = e \/ d2 = e
    <3>1. ~Overtaken(e)
      BY <1>1, <2>3
    <3> QED BY <1>1, <2>1, <2>3, <3>1 DEF Overtaken
  <2> QED BY <2>2, <2>3
<1> QED BY <1>4, <1>5, <1>6, <1>7, <1>8 DEF WriteInv

(* The steps that only end leases: nobody holds more than before.          *)
LEMMA ReleaseWrite ==
  ASSUME DraftInv, WriteInv, UNCHANGED <<row, gmailVars>>,
         \A f \in Executions : /\ exec'[f].job = exec[f].job /\ exec'[f].key = exec[f].key
                               /\ \/ exec'[f].pc = exec[f].pc
                                  \/ exec'[f].pc = "ended" /\ exec[f].pc # "idle",
         \A j \in Jobs : /\ holder'[j] \in {holder[j], None}
                         /\ holder'[j] # None => jobs'[j] = jobs[j]
  PROVE  WriteInv'
<1>1. \A f \in Executions : Holds(f)' => Holds(f)
  BY DraftAssumption DEF Holds, WriteInv, JobsOK, DraftAssumption
<1>2. (Untouched' => Untouched) /\ (OneJob' => OneJob)
  BY HypothesisBack
<1>3. JobsOK'
  BY DEF WriteInv, JobsOK
<1>4. CreatedOnce'
  BY DEF WriteInv, CreatedOnce, Before
<1>5. ASSUME Untouched' PROVE CompletedStays' /\ WritersReserved'
  BY <1>1, <1>2, <1>5 DEF WriteInv, CompletedStays, WritersReserved, Writing
<1>6. leased \subseteq Executions
  BY DEF DraftInv, TypeOK
<1>7. ASSUME Untouched' \/ OneJob' PROVE NothingFound'
  BY <1>1, <1>2, <1>6, <1>7 DEF WriteInv, NothingFound
<1>8. OneLeasedDraftOfKey'
  BY <1>2, <1>6 DEF WriteInv, OneLeasedDraftOfKey, Duplicates
<1> QED BY <1>3, <1>4, <1>5, <1>7, <1>8 DEF WriteInv

LEMMA SettleWrite ==
  ASSUME DraftInv, WriteInv, NEW e \in Executions, Settle(e)
  PROVE  WriteInv'
<1>t. TypeOK /\ UNCHANGED <<row, gmailVars>> /\ exec[e].pc # "idle"
  BY DEF DraftInv, Settle
<1>1. Moved(e, "ended", exec[e].draft)
  BY <1>t, GoToMoves DEF Settle, ExecPc
<1>2. exec[e].job \in Jobs
  BY <1>t DEF WriteInv, JobsOK
<1>3. \A j \in Jobs : /\ holder'[j] \in {holder[j], None}
                      /\ holder'[j] # None => jobs'[j] = jobs[j]
  BY <1>t, <1>2 DEF Settle, TypeOK
<1> QED BY <1>t, <1>1, <1>3, ReleaseWrite DEF Moved

LEMMA OutsideWrite ==
  ASSUME DraftInv, WriteInv, (\E j \in Jobs : Detach(j)) \/ UNCHANGED vars
  PROVE  WriteInv'
<1>1. UNCHANGED <<row, gmailVars, exec>>
  BY DEF Detach, vars
<1>2. \A j \in Jobs : /\ holder'[j] \in {holder[j], None}
                      /\ holder'[j] # None => jobs'[j] = jobs[j]
  BY DEF Detach, vars, DraftInv, TypeOK
<1> QED BY <1>1, <1>2, ReleaseWrite

LEMMA RemoveWrite ==
  ASSUME DraftInv, WriteInv, NEW d \in Executions, Remove(d)
  PROVE  WriteInv'
<1>1. /\ TypeOK /\ UNCHANGED <<row, leased, late, overtaken, exec, jobs, holder>>
      /\ drafts'[d] = "gone" /\ drafts[d] = "present"
      /\ \A c \in Executions : c # d => drafts'[c] = drafts[c]
      /\ leased \subseteq Executions /\ late \subseteq Executions
  BY DEF Remove, DraftInv, TypeOK
<1>2. ~Untouched'
  BY <1>1 DEF Untouched
<1>3. OneJob' = OneJob
  BY <1>1 DEF OneJob
<1>4. JobsOK' /\ CreatedOnce'
  BY <1>1 DEF WriteInv, JobsOK, CreatedOnce
<1>5. ASSUME OneJob' PROVE NothingFound'
  BY <1>1, <1>3, <1>5 DEF WriteInv, NothingFound, Holds
<1>6. OneLeasedDraftOfKey'
  BY <1>1, <1>2, <1>3 DEF WriteInv, OneLeasedDraftOfKey, Duplicates
<1> QED BY <1>2, <1>4, <1>5, <1>6 DEF WriteInv

LEMMA InitWrite == Init => WriteInv
BY DEF Init, WriteInv, JobsOK, CreatedOnce, CompletedStays, WritersReserved, NothingFound,
       OneLeasedDraftOfKey, Writing

LEMMA StepWrite == DraftInv /\ WriteInv /\ [Next]_vars => WriteInv'
<1> SUFFICES ASSUME DraftInv, WriteInv, [Next]_vars
             PROVE  WriteInv'
  OBVIOUS
<1>1. ASSUME NEW e \in Executions,
             \/ NoDraft(e) \/ Reserve(e) \/ ReadReservation(e)
             \/ VerifyRecorded(e) \/ Reopen(e) \/ ReopenRefused(e)
             \/ Search(e) \/ CreateDraft(e) \/ Record(e) \/ RecheckRecorded(e)
             \/ CallFails(e) \/ Settle(e) \/ Crash(e)
      PROVE  WriteInv'
  BY <1>1, ReserveWrite, ReadWrite, LookupWrite, ReopenWrite, RecordWrite, EndWrite,
     CreateWrite, SettleWrite
<1> QED BY <1>1, BeginWrite, LateWrite, OutsideWrite, RemoveWrite DEF Next

-----------------------------------------------------------------------------
(* The rows, the drafts and the executions have the shape of the model.    *)
THEOREM DraftTypeCorrect == Spec => []TypeOK
<1>1. DraftInv => TypeOK
  BY DEF DraftInv
<1> QED BY <1>1, InitInv, StepInv, PTL DEF Spec

(* The draft recorded in a completed row was created in Gmail for the key  *)
(* of that row, with any number of Jobs, executions and kinds of draft.    *)
THEOREM RecordedDraftsAreReal == Spec => []RecordedDraftIsReal
<1>1. DraftInv => RecordedDraftIsReal
  BY DraftAssumption DEF DraftInv, RowReal, Real, RecordedDraftIsReal
<1> QED BY <1>1, InitInv, StepInv, PTL DEF Spec

LEMMA WriteInvariant == Spec => [](DraftInv /\ WriteInv)
<1>1. DraftInv /\ WriteInv /\ [Next]_vars => (DraftInv /\ WriteInv)'
  BY StepInv, StepWrite
<1> QED BY <1>1, InitInv, InitWrite, PTL DEF Spec

(* Two Jobs about one e-mail never write at the same time, each under its  *)
(* lease, as long as no draft is removed or there is one Job.              *)
THEOREM WritersAreExclusive == Spec => []ExclusiveReservation
<1>1. WriteInv => ExclusiveReservation
  BY Exclusive DEF ExclusiveReservation, Writing
<1> QED BY <1>1, WriteInvariant, PTL

(* Executions that hold their lease leave one draft of a kind in Gmail,    *)
(* whatever crashes, answers that are lost, retries and other Jobs do, but *)
(* for the drafts that Gmail creates after their request was given up and  *)
(* the search of another execution found nothing.                          *)
THEOREM LeasedDraftsDiffer == Spec => []OneLeasedDraftOfKey
<1>1. WriteInv => OneLeasedDraftOfKey
  BY DEF WriteInv
<1> QED BY <1>1, WriteInvariant, PTL

-----------------------------------------------------------------------------
(* The queue's side of the model keeps the contract of JobLease, which the *)
(* queue and its workers implement.                                        *)

(* A lease ends: with its Job, or for a later execution.                   *)
LEMMA LeaseLapses ==
  ASSUME TypeOK, JobsOK, NEW j \in Jobs, holder[j] # None,
         NEW status \in {"completed", "active", "failed"},
         jobs' = [jobs EXCEPT ![j] = status],
         holder' = [holder EXCEPT ![j] = None]
  PROVE  Lease!ContractNext
<1>a. jobs[j] = "active"
  BY DEF JobsOK
<1>t. jobs \in [Jobs -> {"active", "completed", "failed"}] /\ DOMAIN holder = Jobs
  BY DEF TypeOK
<1>1. CASE status = "completed"
  <2>1. Lease!Succeed(j)
    BY <1>1 DEF Lease!Succeed
  <2> QED BY <2>1 DEF Lease!ContractNext
<1>2. CASE status = "active"
  <2>1. Lease!Lapse({j}, {})
    BY <1>2, <1>a, <1>t DEF Lease!Lapse
  <2> QED BY <2>1 DEF Lease!ContractNext
<1>3. CASE status = "failed"
  <2>1. Lease!Lapse({}, {j})
    BY <1>3, <1>t DEF Lease!Lapse
  <2> QED BY <2>1 DEF Lease!ContractNext
<1> QED BY <1>1, <1>2, <1>3

LEMMA LeaseStep ==
  ASSUME DraftInv, WriteInv, [Next]_vars
  PROVE  [Lease!ContractNext]_(Lease!contractVars)
<1>i. TypeOK /\ JobsOK
  BY DEF DraftInv, WriteInv
<1>1. ASSUME NEW e \in Executions, NEW j \in Jobs, NEW k \in Keys, Begin(e, j, k)
      PROVE  Lease!ContractNext
  <2>1. Lease!Grant(j, e)
    BY <1>1 DEF Begin, Lease!Grant
  <2> QED BY <2>1 DEF Lease!ContractNext
<1>2. ASSUME NEW e \in Executions, Settle(e), Holds(e)
      PROVE  Lease!ContractNext
  <2>1. exec[e].job \in Jobs /\ holder[exec[e].job] # None
    BY <1>2, <1>i, DraftAssumption DEF Settle, Holds, JobsOK
  <2>2. \E status \in {"completed", "active", "failed"} :
            jobs' = [jobs EXCEPT ![exec[e].job] = status]
    BY <1>2 DEF Settle, JobAfter
  <2>3. holder' = [holder EXCEPT ![exec[e].job] = None]
    BY <1>2 DEF Settle
  <2> QED BY <1>i, <2>1, <2>2, <2>3, LeaseLapses
<1>3. ASSUME NEW j \in Jobs, Detach(j)
      PROVE  Lease!ContractNext
  BY <1>3, <1>i, LeaseLapses DEF Detach
<1>4. ASSUME NEW e \in Executions,
             \/ NoDraft(e) \/ Reserve(e) \/ ReadReservation(e)
             \/ VerifyRecorded(e) \/ Reopen(e) \/ ReopenRefused(e)
             \/ Search(e) \/ CreateDraft(e) \/ Record(e) \/ RecheckRecorded(e)
             \/ CallFails(e) \/ (Settle(e) /\ ~Holds(e)) \/ Crash(e)
             \/ LateCreate(e) \/ Remove(e)
      PROVE  UNCHANGED <<jobs, holder>>
  BY <1>4 DEF NoDraft, Reserve, ReadReservation, VerifyRecorded, Reopen, ReopenRefused,
              Search, CreateDraft, Record, RecheckRecorded, CallFails, Settle, Crash,
              LateCreate, Remove
<1>5. UNCHANGED vars => UNCHANGED <<jobs, holder>>
  BY DEF vars
<1> QED BY <1>1, <1>2, <1>3, <1>4, <1>5 DEF Next, Lease!contractVars

(* Executions begin and end their leases as JobLease allows.               *)
THEOREM DraftsRespectLease == Spec => RespectsLease
<1>1. Init => Lease!ContractInit
  BY DEF Init, Lease!ContractInit
<1>2. DraftInv /\ WriteInv /\ [Next]_vars => [Lease!ContractNext]_(Lease!contractVars)
  BY LeaseStep
<1> QED BY <1>1, <1>2, WriteInvariant, PTL DEF Spec, RespectsLease, Lease!ContractSpec
=============================================================================
