-------------------------- MODULE LlmProviderProofs --------------------------
(***************************************************************************)
(* Proofs about LlmProvider for every set of tools, every request, and     *)
(* batches of any length.                                                  *)
(***************************************************************************)
EXTENDS LlmProvider, FiniteSetTheorems, SequenceTheorems, TLAPS

(* No tool is under way and every execution begun has been counted.        *)
Quiet ==
    /\ running = None
    /\ begun = counts /\ started = toolCalls
    /\ next >= Len(batch)

(* In the middle of a batch: one execution is not counted yet, and what is *)
(* left of the batch fits into the limits.                                 *)
Budget ==
    /\ next \in 1..Len(batch)
    /\ running = batch[next].tool
    /\ \A i \in 1..Len(batch) : batch[i].tool \in request.tools
    /\ begun = [counts EXCEPT ![running] = counts[running] + 1]
    /\ started = toolCalls + 1
    /\ \A t \in request.tools :
          counts[t] + CallsOf(batch, next, t) <= request.maxCalls[t]
    /\ toolCalls + (Len(batch) - next + 1) <= request.maxToolCalls

Open == pc \in {"called", "asking", "executing"}

LoopInv ==
    /\ Open => result = "none"
    /\ pc # "executing" /\ result \notin Errors => Quiet
    /\ pc = "executing" => Budget
    /\ WithinLimits

(* The responses of earlier attempts are in aggregate and in the records.  *)
Accounts ==
    /\ aggregate + usage = spent
    /\ pc # "done" =>
        /\ answer.status = "none"
        /\ records[2].usage = 0
        /\ records[1].usage = aggregate
        /\ attempt = 1 => aggregate = 0
    /\ result = "data" /\ request.kind = "tools" =>
        \A t \in request.required : counts[t] > 0
    /\ AnswerIsAccountedFor

LlmInv == TypeOK /\ LoopInv /\ Accounts

-----------------------------------------------------------------------------
LEMMA BatchIsSequence ==
  ASSUME NEW b \in Batches
  PROVE  b \in Seq(Call) /\ Len(b) \in Nat \ {0} /\ DOMAIN b = 1..Len(b)
<1>1. PICK n \in 1..MaxBatch : b \in [1..n -> Call]
  BY DEF Batches
<1>2. n \in Nat \ {0}
  BY <1>1, LlmAssumption
<1>3. b \in Seq(Call)
  BY <1>1, <1>2
<1> QED BY <1>1, <1>2, <1>3, LenProperties

(* One call of t fewer is left after a call of t.                          *)
LEMMA CallsLeft ==
  ASSUME NEW b \in Seq(Call), NEW from \in 1..Len(b), NEW t
  PROVE  /\ CallsOf(b, from + 1, t) \in Nat
         /\ CallsOf(b, from, t) =
              CallsOf(b, from + 1, t) + (IF b[from].tool = t THEN 1 ELSE 0)
<1> DEFINE Rest == {i \in (from + 1)..Len(b) : b[i].tool = t}
           All == {i \in from..Len(b) : b[i].tool = t}
<1>1. Len(b) \in Nat
  BY LenProperties
<1>2. IsFiniteSet((from + 1)..Len(b))
  BY <1>1, FS_Interval
<1>3. IsFiniteSet(Rest)
  BY <1>2, FS_Subset
<1>4. from \notin Rest
  BY <1>1
<1>5. All = IF b[from].tool = t THEN Rest \cup {from} ELSE Rest
  BY <1>1
<1>6. Cardinality(Rest) \in Nat
  BY <1>3, FS_CardinalityType
<1>7. Cardinality(Rest \cup {from}) = Cardinality(Rest) + 1
  BY <1>3, <1>4, FS_AddElement
<1>8. CallsOf(b, from, t) = Cardinality(All) /\ CallsOf(b, from + 1, t) = Cardinality(Rest)
  BY DEF CallsOf
<1>9. CASE b[from].tool = t
  <2>1. All = Rest \cup {from}
    BY <1>5, <1>9
  <2> HIDE DEF All, Rest
  <2> QED BY <1>6, <1>7, <1>8, <1>9, <2>1
<1>10. CASE b[from].tool # t
  <2>1. All = Rest
    BY <1>5, <1>10
  <2> HIDE DEF All, Rest
  <2> QED BY <1>6, <1>8, <1>10, <2>1
<1> QED BY <1>9, <1>10

-----------------------------------------------------------------------------
LEMMA LlmInitially == Init => LlmInv
<1> SUFFICES ASSUME Init PROVE LlmInv
  OBVIOUS
<1>1. TypeOK
  <2>1. request \in Requests /\ batch \in Seq(Call)
    BY EmptySeq DEF Init
  <2> QED BY <2>1 DEF Init, TypeOK, Attempts, Result, Outcome
<1>2. LoopInv
  <2>1. batch = <<>> /\ Len(batch) = 0
    BY EmptySeq DEF Init
  <2>2. next >= Len(batch)
    BY <2>1 DEF Init
  <2> QED BY <2>2 DEF Init, LoopInv, Quiet, Open, WithinLimits, Errors
<1>3. Accounts
  BY DEF Init, Accounts, AnswerIsAccountedFor, Reviewed, Attempts
<1> QED BY <1>1, <1>2, <1>3 DEF LlmInv

(* An attempt that ends, or a change of the signal only, keeps what is     *)
(* known of the loop unless it abandons a tool with an error.              *)
LEMMA LoopUntouched ==
  ASSUME LlmInv, UNCHANGED <<request, loopVars, toolVars>>, result' \in Result,
         \/ /\ pc # "executing" /\ pc' # "executing"
            /\ result \notin Errors \/ result' \in Errors
            /\ Open' => result' = "none"
         \/ pc' = "recording" /\ result' \in Errors
         \/ UNCHANGED <<pc, result>>
  PROVE  LoopInv'
<1>1. LoopInv
  BY DEF LlmInv
<1>2. WithinLimits'
  BY <1>1 DEF LoopInv, WithinLimits, toolVars
<1>3. Quiet => Quiet'
  BY DEF Quiet, loopVars, toolVars
<1>4. Budget => Budget'
  BY DEF Budget, CallsOf, loopVars, toolVars
<1>5. CASE UNCHANGED <<pc, result>>
  BY <1>1, <1>2, <1>3, <1>4, <1>5 DEF LoopInv, Open
<1>6. CASE pc' = "recording" /\ result' \in Errors
  BY <1>2, <1>6 DEF LoopInv, Open
<1>7. CASE /\ pc # "executing" /\ pc' # "executing"
           /\ result \notin Errors \/ result' \in Errors
           /\ Open' => result' = "none"
  BY <1>1, <1>2, <1>3, <1>7 DEF LoopInv
<1> QED BY <1>5, <1>6, <1>7

LEMMA TypesUntouched ==
  ASSUME TypeOK, UNCHANGED <<request, loopVars, toolVars>>, aborted' \in BOOLEAN,
         pc' \in {"called", "asking", "executing", "recording", "done"},
         attempt' \in Attempts, result' \in Result,
         usage' \in Nat, aggregate' \in Nat, spent' \in Nat,
         records' \in [Attempts -> [outcome: Outcome, usage: Nat]],
         answer' \in [status: Result, usage: Nat]
  PROVE  TypeOK'
  BY DEF TypeOK, loopVars, toolVars

(* The books are balanced by every step before the attempt is recorded.    *)
LEMMA AccountsKept ==
  ASSUME LlmInv, pc # "done", pc' # "done",
         UNCHANGED <<request, attempt, logVars>>,
         \/ UNCHANGED <<usage, spent>>
         \/ usage' = usage + 1 /\ spent' = spent + 1,
         result' = "data" /\ request.kind = "tools" =>
            \A t \in request.required : counts'[t] > 0
  PROVE  Accounts'
<1>1. /\ Accounts /\ answer' = answer /\ answer.status = "none"
      /\ records' = records /\ aggregate' = aggregate
  BY DEF LlmInv, Accounts, logVars
<1>2. (aggregate + usage = spent)'
  <2>1. aggregate \in Nat /\ usage \in Nat /\ spent \in Nat /\ aggregate + usage = spent
    BY DEF Accounts, LlmInv, TypeOK
  <2>2. aggregate + (usage + 1) = spent + 1
    BY <2>1
  <2> QED BY <1>1, <2>1, <2>2
<1>3. AnswerIsAccountedFor'
  BY <1>1 DEF AnswerIsAccountedFor, Reviewed
<1>4. (result = "data" /\ request.kind = "tools" => \A t \in request.required : counts[t] > 0)'
  OBVIOUS
<1> QED BY <1>1, <1>2, <1>3, <1>4 DEF Accounts

LEMMA RejectKeeps ==
  ASSUME LlmInv, NEW configured \in BOOLEAN, Reject(configured)
  PROVE  LlmInv'
<1>1. TypeOK'
  BY TypesUntouched DEF LlmInv, Reject, TypeOK, Result, Errors, loopVars, toolVars, logVars
<1>2. LoopInv'
  <2>1. result = "none" /\ result' = "none"
    BY DEF Reject, LlmInv, LoopInv, Open
  <2> QED BY <2>1, LoopUntouched DEF Reject, Result, Errors, Open
<1>3. Accounts'
  <2>1. result = "none" /\ result' = "none"
    BY DEF Reject, LlmInv, LoopInv, Open
  <2> QED BY <2>1 DEF LlmInv, Reject, Accounts, AnswerIsAccountedFor, Reviewed
<1> QED BY <1>1, <1>2, <1>3 DEF LlmInv

LEMMA BeginKeeps ==
  ASSUME LlmInv, Begin
  PROVE  LlmInv'
<1>1. /\ pc = "called" /\ result = "none" /\ pc' \in {"asking", "recording"}
      /\ result' \in {"none", "temporary"} /\ (pc' = "asking" => result' = "none")
  BY DEF Begin, BeginAttempt, EndAttempt, LlmInv, LoopInv, Open
<1>2. TypeOK'
  BY <1>1, TypesUntouched DEF LlmInv, Begin, TypeOK, Result, Errors, loopVars, toolVars, logVars
<1>3. LoopInv'
  BY <1>1, LoopUntouched DEF Begin, Result, Errors, Open
<1>4. Accounts'
  BY <1>1, AccountsKept DEF Begin, loopVars
<1> QED BY <1>2, <1>3, <1>4 DEF LlmInv

(* A step that ends the attempt and leaves the loop as it is.              *)
LEMMA EndingKeeps ==
  ASSUME LlmInv, NEW r \in Result \ {"none"}, EndAttempt(r),
         Open, pc = "executing" => r \in Errors,
         UNCHANGED <<request, attempt, loopVars, toolVars, logVars>>,
         aborted' \in BOOLEAN,
         \/ UNCHANGED <<usage, spent>>
         \/ usage' = usage + 1 /\ spent' = spent + 1,
         r = "data" /\ request.kind = "tools" => EveryRequiredTool
  PROVE  LlmInv'
<1>1. pc' = "recording" /\ result' = r /\ result = "none"
  BY DEF EndAttempt, LlmInv, LoopInv
<1>2. TypeOK'
  BY <1>1, TypesUntouched DEF LlmInv, TypeOK, Result, Errors, loopVars, toolVars, logVars
<1>3. LoopInv'
  <2>1. CASE pc = "executing"
    BY <1>1, <2>1, LoopUntouched DEF Result, Errors
  <2>2. CASE pc # "executing"
    BY <1>1, <2>2, LoopUntouched DEF Result, Errors, Open
  <2> QED BY <2>1, <2>2
<1>4. Accounts'
  BY <1>1, AccountsKept DEF loopVars, EveryRequiredTool, Open
<1> QED BY <1>2, <1>3, <1>4 DEF LlmInv

LEMMA TurnKeeps ==
  ASSUME LlmInv, NextTurn, pc \in {"asking", "executing"},
         TypeOK', WithinLimits', Quiet',
         UNCHANGED <<request, attempt, logVars>>,
         \/ UNCHANGED <<usage, spent>>
         \/ usage' = usage + 1 /\ spent' = spent + 1
  PROVE  LlmInv'
<1>1. /\ result = "none" /\ pc' \in {"asking", "recording"}
      /\ result' \in {"none", "invalid_output"} /\ (pc' = "asking" => result' = "none")
  BY DEF NextTurn, EndAttempt, LlmInv, LoopInv, Open
<1>2. LoopInv'
  BY <1>1 DEF LoopInv, Open
<1>3. Accounts'
  BY <1>1, AccountsKept
<1> QED BY <1>2, <1>3 DEF LlmInv

LEMMA SilenceKeeps ==
  ASSUME LlmInv, RespondSilent
  PROVE  LlmInv'
<1>1. pc = "asking" /\ result = "none" /\ Quiet /\ WithinLimits
  BY DEF RespondSilent, Responds, LlmInv, LoopInv, Open, Errors
<1>2. TypeOK'
  BY <1>1 DEF RespondSilent, Responds, NextTurn, EndAttempt, LlmInv, TypeOK, toolVars,
              logVars, Result, Reviewed
<1>3. Quiet' /\ WithinLimits'
  BY <1>1 DEF RespondSilent, Responds, Quiet, WithinLimits, toolVars
<1> QED BY <1>1, <1>2, <1>3, TurnKeeps DEF RespondSilent, Responds

(* Every execution of an accepted batch is within the limits when it       *)
(* begins.                                                                 *)
LEMMA BeginCallLimits ==
  ASSUME TypeOK, WithinLimits, NEW t \in request.tools, BeginCall(t),
         UNCHANGED request, begun[t] + 1 <= request.maxCalls[t],
         started + 1 <= request.maxToolCalls
  PROVE  /\ WithinLimits'
         /\ t \in Tools /\ begun' \in [Tools -> Nat] /\ started' \in Nat /\ running' = t
<1>1. t \in Tools
  BY LlmAssumption DEF TypeOK, Request
<1> QED BY <1>1 DEF TypeOK, WithinLimits, BeginCall

LEMMA AcceptKeeps ==
  ASSUME LlmInv, NEW b \in Batches, RespondCalls(b), Acceptable(b)
  PROVE  LlmInv'
<1>1. /\ pc = "asking" /\ result = "none" /\ Quiet /\ WithinLimits /\ TypeOK
      /\ pc' = "executing" /\ batch' = b /\ next' = 1 /\ BeginCall(b[1].tool)
      /\ UNCHANGED <<request, turn, counts, toolCalls, seen, result>>
  BY DEF RespondCalls, Responds, LlmInv, LoopInv, Open, Errors
<1>2. b \in Seq(Call) /\ Len(b) \in Nat \ {0} /\ DOMAIN b = 1..Len(b)
  BY BatchIsSequence
<1> DEFINE t1 == b[1].tool
<1>3. t1 \in request.tools /\ request.tools \subseteq Tools
      /\ request.maxCalls \in [Tools -> Nat] /\ request.maxToolCalls \in Nat
  BY <1>1, <1>2, LlmAssumption DEF Acceptable, TypeOK, Request
<1>4. /\ CallsOf(b, 1, t1) >= 1 /\ counts[t1] + CallsOf(b, 1, t1) <= request.maxCalls[t1]
      /\ CallsOf(b, 1, t1) \in Nat
  <2>1. CallsOf(b, 1, t1) = CallsOf(b, 1 + 1, t1) + 1 /\ CallsOf(b, 1 + 1, t1) \in Nat
    BY <1>2, CallsLeft
  <2> QED BY <1>3, <2>1 DEF Acceptable
<1>5. counts[t1] \in Nat /\ begun = counts /\ started = toolCalls /\ toolCalls \in Nat
  BY <1>1, <1>3 DEF TypeOK, Quiet
<1>6. begun[t1] + 1 <= request.maxCalls[t1] /\ started + 1 <= request.maxToolCalls
  <2>1. toolCalls + Len(b) <= request.maxToolCalls
    BY DEF Acceptable
  <2>2. request.maxCalls[t1] \in Nat
    BY <1>3
  <2> QED BY <1>2, <1>3, <1>4, <1>5, <2>1, <2>2
<1>7. /\ WithinLimits'
      /\ t1 \in Tools /\ begun' \in [Tools -> Nat] /\ started' \in Nat /\ running' = t1
  BY <1>1, <1>3, <1>6, BeginCallLimits
<1>8. TypeOK'
  BY <1>1, <1>2, <1>7 DEF TypeOK, RespondCalls, Responds, logVars
<1>9. Budget'
  <2>2. \A t \in request.tools : CallsOf(batch', next', t) = CallsOf(b, 1, t)
    BY <1>1
  <2>3. \A t \in request.tools : counts[t] + CallsOf(b, 1, t) <= request.maxCalls[t]
    BY DEF Acceptable
  <2>4. toolCalls + (Len(b) - 1 + 1) <= request.maxToolCalls
    BY <1>2, <1>5 DEF Acceptable
  <2>5. \A i \in 1..Len(b) : b[i].tool \in request.tools
    BY <1>2 DEF Acceptable
  <2>6. begun' = [counts EXCEPT ![t1] = counts[t1] + 1] /\ started' = toolCalls + 1
    BY <1>1, <1>5 DEF BeginCall
  <2> QED BY <1>1, <1>2, <1>7, <2>2, <2>3, <2>4, <2>5, <2>6 DEF Budget, CallsOf
<1>10. LoopInv'
  BY <1>1, <1>7, <1>9 DEF LoopInv, Open
<1>11. Accounts'
  BY <1>1, AccountsKept DEF RespondCalls, Responds
<1> QED BY <1>8, <1>10, <1>11 DEF LlmInv

LEMMA ReturnCounts ==
  ASSUME LlmInv, NEW serializable \in BOOLEAN, ToolReturns(serializable)
  PROVE  /\ TypeOK /\ WithinLimits /\ Budget /\ result = "none" /\ pc = "executing"
         /\ running \in Tools /\ Len(batch) \in Nat /\ batch[next].id \in CallIds
         /\ counts' = begun /\ toolCalls' = started /\ seen' \subseteq CallIds
         /\ request.tools \subseteq Tools /\ request.maxCalls \in [Tools -> Nat]
         /\ request.maxToolCalls \in Nat
<1>1. /\ TypeOK /\ WithinLimits /\ Budget /\ result = "none" /\ pc = "executing"
  BY DEF ToolReturns, LlmInv, LoopInv, Open
<1>2. Len(batch) \in Nat /\ batch[next] \in Call
  BY <1>1, LenProperties, ElementOfSeq DEF TypeOK, Budget
<1>3. request.tools \subseteq Tools /\ request.maxCalls \in [Tools -> Nat]
      /\ request.maxToolCalls \in Nat
  BY <1>1, LlmAssumption DEF TypeOK, Request
<1>4. running \in Tools
  BY <1>1, <1>3 DEF Budget
<1>5. counts' = begun /\ toolCalls' = started
  BY <1>1 DEF ToolReturns, Budget
<1>6. seen' \subseteq CallIds /\ batch[next].id \in CallIds
  BY <1>1, <1>2 DEF ToolReturns, TypeOK, Call
<1> QED BY <1>1, <1>2, <1>3, <1>4, <1>5, <1>6

LEMMA ReturnKeeps ==
  ASSUME LlmInv, NEW serializable \in BOOLEAN, ToolReturns(serializable)
  PROVE  LlmInv'
<1>1. /\ TypeOK /\ WithinLimits /\ Budget /\ result = "none" /\ pc = "executing"
      /\ running \in Tools /\ Len(batch) \in Nat /\ batch[next].id \in CallIds
      /\ counts' = begun /\ toolCalls' = started /\ seen' \subseteq CallIds
      /\ request.tools \subseteq Tools /\ request.maxCalls \in [Tools -> Nat]
      /\ request.maxToolCalls \in Nat
  BY ReturnCounts
<1>2. UNCHANGED <<request, aborted, attempt, usage, spent, logVars, batch>>
  BY DEF ToolReturns, GoOn, logVars
<1>3. CASE ~serializable
  <2>1. /\ pc' = "recording" /\ result' = "permanent" /\ running' = None
        /\ UNCHANGED <<turn, batch, next, begun, started>>
    BY <1>3 DEF ToolReturns, EndAttempt
  <2>2. TypeOK'
    BY <1>1, <1>2, <2>1 DEF TypeOK, logVars, Result, Errors
  <2>3. LoopInv'
    BY <1>1, <1>2, <2>1 DEF LoopInv, Open, WithinLimits, Errors
  <2>4. Accounts'
    BY <1>1, <1>2, <2>1, AccountsKept
  <2> QED BY <2>2, <2>3, <2>4 DEF LlmInv
<1>4. CASE serializable /\ next < Len(batch)
  <2> DEFINE t2 == batch[next + 1].tool
  <2>1. /\ next' = next + 1 /\ BeginCall(t2)
        /\ UNCHANGED <<turn, batch, pc, result>>
    BY <1>4 DEF ToolReturns, GoOn
  <2>2. next \in Nat /\ next + 1 \in 1..Len(batch) /\ t2 \in request.tools
        /\ next \in 1..Len(batch)
    <3>1. /\ next \in 1..Len(batch)
          /\ \A i \in 1..Len(batch) : batch[i].tool \in request.tools
      BY <1>1 DEF Budget
    <3>2. next \in Nat /\ next + 1 \in 1..Len(batch)
      BY <1>1, <1>4, <3>1
    <3>3. t2 \in request.tools
      BY <3>1, <3>2
    <3> QED BY <3>1, <3>2, <3>3
  <2>3. \A t \in request.tools :
           /\ CallsOf(batch, next + 1, t) \in Nat
           /\ begun[t] + CallsOf(batch, next + 1, t) <= request.maxCalls[t]
    <3> SUFFICES ASSUME NEW t \in request.tools
                 PROVE  /\ CallsOf(batch, next + 1, t) \in Nat
                        /\ begun[t] + CallsOf(batch, next + 1, t) <= request.maxCalls[t]
      OBVIOUS
    <3>1. /\ CallsOf(batch, next + 1, t) \in Nat
          /\ CallsOf(batch, next, t) =
               CallsOf(batch, next + 1, t) + (IF batch[next].tool = t THEN 1 ELSE 0)
      BY <2>2, <1>1, CallsLeft DEF TypeOK
    <3>2. begun[t] = counts[t] + (IF batch[next].tool = t THEN 1 ELSE 0)
          /\ counts[t] \in Nat /\ request.maxCalls[t] \in Nat
      BY <1>1 DEF Budget, TypeOK
    <3>3. counts[t] + CallsOf(batch, next, t) <= request.maxCalls[t]
      BY <1>1 DEF Budget
    <3> QED BY <3>1, <3>2, <3>3
  <2>4. begun[t2] + 1 <= request.maxCalls[t2]
    <3>1. /\ CallsOf(batch, (next + 1) + 1, t2) \in Nat
          /\ CallsOf(batch, next + 1, t2) = CallsOf(batch, (next + 1) + 1, t2) + 1
      BY <2>2, <1>1, CallsLeft DEF TypeOK
    <3>2. begun[t2] \in Nat /\ request.maxCalls[t2] \in Nat
      BY <2>2, <1>1 DEF TypeOK
    <3>3. begun[t2] + CallsOf(batch, next + 1, t2) <= request.maxCalls[t2]
      BY <2>2, <2>3
    <3> HIDE DEF t2
    <3> QED BY <3>1, <3>2, <3>3
  <2>5. started + (Len(batch) - (next + 1) + 1) <= request.maxToolCalls
        /\ started + 1 <= request.maxToolCalls
    <3>1. /\ started = toolCalls + 1 /\ toolCalls \in Nat
          /\ toolCalls + (Len(batch) - next + 1) <= request.maxToolCalls
      BY <1>1 DEF Budget, TypeOK
    <3> QED BY <1>1, <1>4, <2>2, <3>1
  <2>6. /\ WithinLimits'
        /\ t2 \in Tools /\ begun' \in [Tools -> Nat] /\ started' \in Nat /\ running' = t2
    BY <1>1, <1>2, <2>1, <2>2, <2>4, <2>5, BeginCallLimits
  <2>7. TypeOK'
    <3>1. next' \in Nat
      BY <2>1, <2>2
    <3>2. counts' \in [Tools -> Nat] /\ toolCalls' \in Nat
      BY <1>1 DEF TypeOK
    <3> QED BY <1>1, <1>2, <2>1, <2>6, <3>1, <3>2 DEF TypeOK, logVars
  <2>8. Budget'
    <3>1. /\ next' \in 1..Len(batch') /\ running' = batch'[next'].tool
          /\ \A i \in 1..Len(batch') : batch'[i].tool \in request'.tools
      BY <1>1, <1>2, <2>1, <2>2, <2>6 DEF Budget
    <3>2. begun' = [counts' EXCEPT ![running'] = counts'[running'] + 1]
          /\ started' = toolCalls' + 1
      BY <1>1, <2>1 DEF BeginCall
    <3>4. \A t \in request'.tools : counts'[t] + CallsOf(batch', next', t) <= request'.maxCalls[t]
      BY <1>1, <1>2, <2>1, <2>3
    <3>5. toolCalls' + (Len(batch') - next' + 1) <= request'.maxToolCalls
      BY <1>1, <1>2, <2>1, <2>5
    <3> QED BY <3>1, <3>2, <3>4, <3>5 DEF Budget, CallsOf
  <2>9. LoopInv'
    BY <1>1, <2>1, <2>6, <2>8 DEF LoopInv, Open
  <2>10. Accounts'
    BY <1>1, <1>2, <2>1, AccountsKept
  <2> QED BY <2>7, <2>9, <2>10 DEF LlmInv
<1>5. CASE serializable /\ ~(next < Len(batch))
  <2>1. /\ NextTurn /\ running' = None /\ UNCHANGED <<batch, next, begun, started>>
    BY <1>5 DEF ToolReturns, GoOn
  <2>2. TypeOK'
    BY <1>1, <1>2, <2>1 DEF NextTurn, EndAttempt, TypeOK, logVars, Result, Reviewed
  <2>3. Quiet' /\ WithinLimits'
    <3>1. next \in Nat
      BY <1>1 DEF TypeOK
    <3> QED BY <1>1, <1>2, <1>5, <2>1, <3>1 DEF Quiet, WithinLimits
  <2> QED BY <1>1, <1>2, <2>1, <2>2, <2>3, TurnKeeps
<1> QED BY <1>3, <1>4, <1>5

LEMMA ThrowKeeps ==
  ASSUME LlmInv, NEW error \in Errors, ToolThrows(error)
  PROVE  LlmInv'
<1>1. /\ pc = "executing" /\ pc' = "recording" /\ result' = error /\ running' = None
      /\ TypeOK /\ WithinLimits
      /\ UNCHANGED <<request, aborted, attempt, loopVars, begun, started, usage, spent, logVars>>
  BY DEF ToolThrows, EndAttempt, LlmInv, LoopInv
<1>2. TypeOK'
  BY <1>1 DEF TypeOK, loopVars, logVars, Result
<1>3. LoopInv'
  BY <1>1 DEF LoopInv, Open, WithinLimits
<1>4. Accounts'
  BY <1>1, AccountsKept DEF Errors
<1> QED BY <1>2, <1>3, <1>4 DEF LlmInv

LEMMA AbortKeeps ==
  ASSUME LlmInv, Abort
  PROVE  LlmInv'
<1>1. CASE Racing
  BY <1>1, EndingKeeps DEF Abort, Racing, Open, Result, Errors, loopVars, toolVars, logVars
<1>2. CASE ~Racing
  <2>1. UNCHANGED <<request, pc, attempt, result, loopVars, toolVars, usage, spent, logVars>>
        /\ aborted' = TRUE
    BY <1>2 DEF Abort
  <2>2. TypeOK'
    BY <2>1, TypesUntouched DEF LlmInv, TypeOK, logVars
  <2>3. LoopInv'
    BY <2>1, LoopUntouched DEF LlmInv, TypeOK
  <2>4. Accounts'
    <3>1. Accounts
      BY DEF LlmInv
    <3> QED BY <2>1, <3>1 DEF Accounts, AnswerIsAccountedFor, loopVars, toolVars, logVars
  <2> QED BY <2>2, <2>3, <2>4 DEF LlmInv
<1> QED BY <1>1, <1>2

LEMMA BackgroundKeeps ==
  ASSUME LlmInv, BackgroundToolEnds
  PROVE  LlmInv'
<1>1. /\ pc # "executing" /\ running # None /\ running' = None
      /\ UNCHANGED <<request, aborted, pc, attempt, result, loopVars, begun, started,
                     usage, spent, logVars>>
      /\ TypeOK /\ LoopInv /\ Accounts
  BY DEF BackgroundToolEnds, LlmInv
<1>2. TypeOK'
  BY <1>1 DEF TypeOK, loopVars, logVars
<1>3. LoopInv'
  BY <1>1 DEF LoopInv, Open, Quiet, WithinLimits, loopVars
<1>4. Accounts'
  BY <1>1 DEF Accounts, AnswerIsAccountedFor, loopVars, logVars
<1> QED BY <1>2, <1>3, <1>4 DEF LlmInv

LEMMA RecordFailsKeeps ==
  ASSUME LlmInv, RecordFails
  PROVE  LlmInv'
<1>1. /\ pc = "recording" /\ pc' = "done" /\ TypeOK
      /\ answer' = [status |-> "temporary", usage |-> 0]
      /\ UNCHANGED <<request, aborted, attempt, result, loopVars, toolVars, usage, spent, aggregate>>
  BY DEF RecordFails, LlmInv
<1>2. records' \in [Attempts -> [outcome: Outcome, usage: Nat]]
  <2>1. OutcomeOf \in Outcome
    BY DEF OutcomeOf, Outcome
  <2>2. RecordedUsage \in Nat
    BY <1>1 DEF RecordedUsage, TypeOK
  <2>3. records \in [Attempts -> [outcome: Outcome, usage: Nat]]
    BY <1>1 DEF TypeOK
  <2> HIDE DEF OutcomeOf, RecordedUsage
  <2> QED BY <2>1, <2>2, <2>3 DEF RecordFails, Recorded
<1>3. TypeOK'
  <2>1. answer' \in [status: Result, usage: Nat]
    BY <1>1 DEF Result, Errors
  <2> QED BY <1>1, <1>2, <2>1, TypesUntouched DEF TypeOK
<1>4. LoopInv'
  BY <1>1, LoopUntouched DEF TypeOK, Open
<1>5. Accounts'
  <2>1. answer'.status \notin {"data"} \cup Reviewed
    BY <1>1 DEF Reviewed
  <2>2. Accounts
    BY DEF LlmInv
  <2> QED BY <1>1, <2>1, <2>2 DEF Accounts, AnswerIsAccountedFor, loopVars
<1> QED BY <1>3, <1>4, <1>5 DEF LlmInv

LEMMA RecordTypes ==
  ASSUME LlmInv, Record
  PROVE  /\ records' = [records EXCEPT ![attempt] = [outcome |-> OutcomeOf, usage |-> RecordedUsage]]
         /\ records' \in [Attempts -> [outcome: Outcome, usage: Nat]]
         /\ records'[attempt] = [outcome |-> OutcomeOf, usage |-> RecordedUsage]
         /\ \A a \in Attempts : a # attempt => records'[a] = records[a]
         /\ RecordedUsage \in Nat /\ attempt \in Attempts
<1>1. OutcomeOf \in Outcome /\ RecordedUsage \in Nat
  BY DEF OutcomeOf, RecordedUsage, LlmInv, TypeOK, Outcome
<1>2. records \in [Attempts -> [outcome: Outcome, usage: Nat]] /\ attempt \in Attempts
  BY DEF LlmInv, TypeOK
<1> HIDE DEF OutcomeOf, RecordedUsage
<1> QED BY <1>1, <1>2 DEF Record, Recorded

LEMMA RetryKeeps ==
  ASSUME LlmInv, Record, Retried
  PROVE  LlmInv'
<1>1. /\ pc = "recording" /\ result = "invalid_output" /\ attempt = 1 /\ attempt' = 2
      /\ aggregate' = aggregate + usage /\ usage' = 0 /\ request.kind = "structured"
      /\ pc' \in {"asking", "recording"} /\ result' \in {"none", "temporary"}
      /\ (pc' = "asking" => result' = "none")
      /\ UNCHANGED <<request, aborted, loopVars, toolVars, spent, answer>>
  BY DEF Record, Retried, BeginAttempt, EndAttempt
<1>2. TypeOK /\ Accounts /\ aggregate \in Nat /\ usage \in Nat /\ spent \in Nat
  BY DEF LlmInv, TypeOK
<1>3. TypeOK'
  <2>1. aggregate' \in Nat /\ usage' \in Nat
    BY <1>1, <1>2
  <2>2. result' \in Result /\ attempt' \in Attempts
    BY <1>1 DEF Result, Errors, Attempts
  <2> QED BY <1>1, <1>2, <2>1, <2>2, RecordTypes, TypesUntouched DEF TypeOK
<1>4. LoopInv'
  BY <1>1, LoopUntouched DEF Open, Result, Errors
<1>5. Accounts'
  <2>1. /\ aggregate = 0 /\ records[2].usage = 0 /\ answer.status = "none"
        /\ aggregate + usage = spent
    BY <1>1, <1>2 DEF Accounts
  <2>2. records'[1].usage = usage /\ records'[2].usage = 0
    <3>1. RecordedUsage = usage
      BY <1>1 DEF RecordedUsage, Errors
    <3> QED BY <1>1, <2>1, <3>1, RecordTypes DEF Attempts
  <2>3. AnswerIsAccountedFor'
    BY <1>1, <2>1 DEF AnswerIsAccountedFor, Reviewed
  <2>4. aggregate' = usage /\ aggregate' + usage' = spent'
    BY <1>1, <1>2, <2>1
  <2> QED BY <1>1, <2>1, <2>2, <2>3, <2>4 DEF Accounts
<1> QED BY <1>3, <1>4, <1>5 DEF LlmInv

LEMMA AnswerKeeps ==
  ASSUME LlmInv, Record, ~Retried
  PROVE  LlmInv'
<1>1. /\ pc = "recording" /\ pc' = "done"
      /\ answer' = [status |-> result,
                    usage |-> IF result \in Errors THEN 0 ELSE aggregate + usage]
      /\ UNCHANGED <<request, aborted, attempt, result, aggregate, usage, loopVars, toolVars, spent>>
  BY DEF Record
<1>2. /\ TypeOK /\ LoopInv /\ Accounts /\ aggregate \in Nat /\ usage \in Nat
      /\ spent \in Nat /\ attempt \in {1, 2} /\ result \in Result
  BY DEF LlmInv, TypeOK, Attempts
<1>3. TypeOK'
  <2>1. answer' \in [status: Result, usage: Nat]
    BY <1>1, <1>2
  <2> QED BY <1>1, <1>2, <2>1, RecordTypes, TypesUntouched DEF TypeOK
<1>4. LoopInv'
  BY <1>1, <1>2, LoopUntouched DEF Open
<1>5. AnswerIsAccountedFor'
  <2> SUFFICES ASSUME result \in {"data"} \cup Reviewed
               PROVE  /\ records'[attempt].outcome = (IF result = "data" THEN "completed"
                                                                         ELSE "needs_review")
                      /\ answer'.usage = spent
                      /\ records'[1].usage + records'[2].usage = spent
                      /\ result = "data" /\ request.kind = "tools" =>
                           \A t \in request.required : begun[t] > 0
    BY <1>1 DEF AnswerIsAccountedFor, toolVars
  <2>1. result \notin Errors
    BY DEF Reviewed, Errors
  <2>2. OutcomeOf = (IF result = "data" THEN "completed" ELSE "needs_review")
    BY <2>1 DEF OutcomeOf, Record
  <2>3. RecordedUsage = usage
    BY <2>1 DEF RecordedUsage
  <2>4. /\ records[2].usage = 0 /\ records[1].usage = aggregate
        /\ attempt = 1 => aggregate = 0
        /\ aggregate + usage = spent
    BY <1>1, <1>2 DEF Accounts
  <2>5. records'[1].usage + records'[2].usage = spent
    <3>1. CASE attempt = 1
      BY <1>2, <2>3, <2>4, <3>1, RecordTypes DEF Attempts
    <3>2. CASE attempt = 2
      BY <1>2, <2>3, <2>4, <3>2, RecordTypes DEF Attempts
    <3> QED BY <1>2, <3>1, <3>2
  <2>6. result = "data" /\ request.kind = "tools" =>
          \A t \in request.required : begun[t] > 0
    BY <1>1, <1>2, <2>1 DEF LoopInv, Quiet, Accounts
  <2> QED BY <1>1, <1>2, <2>1, <2>2, <2>4, <2>5, <2>6, RecordTypes
<1>6. Accounts'
  BY <1>1, <1>2, <1>5 DEF Accounts, loopVars
<1> QED BY <1>3, <1>4, <1>6 DEF LlmInv

LEMMA EndingsKeep ==
  ASSUME LlmInv,
         \/ \E r \in Reviewed : RespondUnusable(r)
         \/ \E b \in BOOLEAN : RespondMessage(b)
         \/ \E b \in Batches : RespondCalls(b) /\ ~Acceptable(b)
         \/ \E status \in Statuses : OpenAiFails(status)
         \/ Timeout
  PROVE  LlmInv'
<1>0. aborted \in BOOLEAN
  BY DEF LlmInv, TypeOK
<1>1. ASSUME NEW r \in Reviewed, RespondUnusable(r) PROVE LlmInv'
  BY <1>0, <1>1, EndingKeeps DEF RespondUnusable, Responds, Open, Reviewed, Result
<1>2. ASSUME NEW b \in BOOLEAN, RespondMessage(b) PROVE LlmInv'
  <2> DEFINE r == IF b /\ (request.kind = "tools" => EveryRequiredTool)
                  THEN "data" ELSE "invalid_output"
  <2>1. r \in {"data", "invalid_output"}
        /\ (r = "data" /\ request.kind = "tools" => EveryRequiredTool) /\ EndAttempt(r)
    BY <1>2 DEF RespondMessage
  <2> HIDE DEF r
  <2> QED BY <1>0, <1>2, <2>1, EndingKeeps DEF RespondMessage, Responds, Open, Reviewed, Result
<1>3. ASSUME NEW b \in Batches, RespondCalls(b), ~Acceptable(b) PROVE LlmInv'
  BY <1>0, <1>3, EndingKeeps DEF RespondCalls, Responds, Open, Reviewed, Result
<1>4. ASSUME NEW status \in Statuses, OpenAiFails(status) PROVE LlmInv'
  <2>1. OpenAiError(status) \in Errors
    BY DEF OpenAiError, Errors
  <2> QED BY <1>0, <1>4, <2>1, EndingKeeps DEF OpenAiFails, Open, Result, Errors
<1>5. ASSUME Timeout PROVE LlmInv'
  BY <1>0, <1>5, EndingKeeps DEF Timeout, Racing, Open, Result, Errors
<1> QED BY <1>1, <1>2, <1>3, <1>4, <1>5

LEMMA LlmStep == LlmInv /\ [Next]_vars => LlmInv'
<1> SUFFICES ASSUME LlmInv, [Next]_vars PROVE LlmInv'
  OBVIOUS
<1>1. CASE Model
  BY <1>1, EndingsKeep, SilenceKeeps, AcceptKeeps DEF Model
<1>2. CASE Tool
  BY <1>2, ReturnKeeps, ThrowKeeps, BackgroundKeeps DEF Tool
<1>3. CASE Provider
  BY <1>3, RejectKeeps, BeginKeeps, EndingsKeep, RetryKeeps, AnswerKeeps, RecordFailsKeeps
     DEF Provider
<1>4. CASE Abort
  BY <1>4, AbortKeeps
<1>5. CASE UNCHANGED vars
  <2>1. LlmInv' <=> LlmInv
    BY <1>5 DEF vars, loopVars, toolVars, logVars, LlmInv, TypeOK, LoopInv, Open, Quiet,
                Budget, CallsOf, WithinLimits, Accounts, AnswerIsAccountedFor
  <2> QED BY <2>1
<1> QED BY <1>1, <1>2, <1>3, <1>4, <1>5 DEF Next

-----------------------------------------------------------------------------
(* What the loop may force on the model. *)

Called == {t \in request.tools : counts[t] > 0}

ChoiceInv ==
    /\ pc \in {"asking", "executing"} => ValidRequest
    /\ pc = "called" \/ (pc = "asking" /\ turn = 0 /\ request.kind = "tools") =>
          turn = 0 /\ toolCalls = 0 /\ \A t \in Tools : counts[t] = 0
    /\ (\A t \in request.tools : request.maxCalls[t] = 1) => toolCalls = Cardinality(Called)

LEMMA RequestTypes ==
  ASSUME TypeOK
  PROVE  /\ request.tools \subseteq Tools /\ request.required \subseteq Tools
         /\ request.maxToolCalls \in Nat /\ request.initialChoice \in Choice
         /\ IsFiniteSet(request.tools) /\ IsFiniteSet(Called)
         /\ IsFiniteSet(request.required)
<1>1. request \in Request
  BY LlmAssumption DEF TypeOK
<1>2. request.tools \subseteq Tools /\ request.required \subseteq Tools
  BY <1>1 DEF Request
<1>3. IsFiniteSet(request.tools) /\ IsFiniteSet(request.required)
  BY <1>2, FS_Subset, LlmAssumption
<1>4. IsFiniteSet(Called)
  BY <1>3, FS_Subset DEF Called
<1> QED BY <1>1, <1>2, <1>3, <1>4 DEF Request

LEMMA ChoiceInitially == Init => ChoiceInv
<1> SUFFICES ASSUME Init PROVE ChoiceInv
  OBVIOUS
<1>1. TypeOK
  BY LlmInitially DEF LlmInv
<1>2. Called = {}
  BY <1>1, RequestTypes DEF Init, Called
<1>3. Cardinality(Called) = 0
  BY <1>2, FS_EmptySet
<1> QED BY <1>3 DEF Init, ChoiceInv

(* With one call per tool, a call that returns is the first of its tool.   *)
LEMMA ChoiceCounts ==
  ASSUME LlmInv, ChoiceInv, NEW serializable \in BOOLEAN, ToolReturns(serializable),
         \A t \in request.tools : request.maxCalls[t] = 1
  PROVE  toolCalls' = Cardinality(Called')
<1>1. /\ TypeOK /\ Budget /\ running \in Tools
      /\ counts' = begun /\ toolCalls' = started /\ request.tools \subseteq Tools
  BY ReturnCounts
<1>2. request' = request
  BY DEF ToolReturns
<1>3. running \in request.tools /\ counts[running] = 0
  <2>1. batch \in Seq(Call) /\ next \in 1..Len(batch) /\ batch[next].tool = running
    BY <1>1 DEF TypeOK, Budget
  <2>2. /\ CallsOf(batch, next + 1, running) \in Nat
        /\ CallsOf(batch, next, running) = CallsOf(batch, next + 1, running) + 1
    BY <2>1, CallsLeft
  <2>3. running \in request.tools /\ counts[running] \in Nat
    BY <1>1, <2>1 DEF Budget, TypeOK
  <2>4. counts[running] + CallsOf(batch, next, running) <= 1
    BY <1>1, <2>3 DEF Budget
  <2> QED BY <2>2, <2>3, <2>4
<1>4. Called' = Called \cup {running}
  <2>1. \A t \in request.tools : counts'[t] = IF t = running THEN 1 ELSE counts[t]
    BY <1>1, <1>3 DEF Budget, TypeOK
  <2>2. Called' = {t \in request.tools : counts'[t] > 0}
    BY <1>2 DEF Called
  <2> QED BY <1>3, <2>1, <2>2 DEF Called
<1>5. running \notin Called /\ IsFiniteSet(Called)
  BY <1>1, <1>3, RequestTypes DEF Called
<1>6. Cardinality(Called \cup {running}) = Cardinality(Called) + 1
  BY <1>5, FS_AddElement
<1>7. toolCalls = Cardinality(Called) /\ toolCalls' = toolCalls + 1
  BY <1>1 DEF ChoiceInv, Budget
<1> QED BY <1>4, <1>6, <1>7

(* A step that counts no call.                                             *)
LEMMA ChoiceKept ==
  ASSUME ChoiceInv, UNCHANGED <<request, counts, toolCalls>>,
         \/ pc' \in {"recording", "done"}
         \/ UNCHANGED <<pc, turn>>
         \/ pc' = "asking" /\ pc = "called" /\ ValidRequest /\ turn' = turn
         \/ pc' = "asking" /\ request.kind = "structured"
         \/ pc' = "asking" /\ pc = "asking" /\ turn' # 0
         \/ pc' = "executing" /\ pc = "asking"
  PROVE  ChoiceInv'
<1>1. ValidRequest' <=> ValidRequest
  BY DEF ValidRequest
<1>2. Called' = Called
  BY DEF Called
<1>3. request.kind = "structured" => ValidRequest
  BY DEF ValidRequest
<1> QED BY <1>1, <1>2, <1>3 DEF ChoiceInv

LEMMA ChoiceStep == LlmInv /\ ChoiceInv /\ [Next]_vars => ChoiceInv'
<1> SUFFICES ASSUME LlmInv, ChoiceInv, [Next]_vars PROVE ChoiceInv'
  OBVIOUS
<1>0. turn \in Nat
  BY DEF LlmInv, TypeOK
<1>1. CASE Model
  BY <1>0, <1>1, ChoiceKept DEF Model, RespondUnusable, RespondMessage, RespondSilent, RespondCalls,
     Responds, OpenAiFails, EndAttempt, NextTurn, loopVars
<1>2. ASSUME NEW b \in BOOLEAN, ToolReturns(b) PROVE ChoiceInv'
  <2>1. /\ request' = request
        /\ \/ pc' = "recording"
           \/ pc' = "asking" /\ turn' = turn + 1
           \/ pc' = "executing" /\ pc = "executing"
        /\ pc = "executing"
    BY <1>2 DEF ToolReturns, GoOn, NextTurn, EndAttempt
  <2>2. ValidRequest /\ ValidRequest'
    BY <2>1 DEF ChoiceInv, ValidRequest
  <2>3. (\A t \in request'.tools : request'.maxCalls[t] = 1) => toolCalls' = Cardinality(Called')
    BY <1>2, <2>1, ChoiceCounts
  <2> QED BY <1>0, <2>1, <2>2, <2>3 DEF ChoiceInv
<1>3. ASSUME \/ \E error \in Errors : ToolThrows(error)
             \/ BackgroundToolEnds \/ Timeout \/ RecordFails \/ Abort
             \/ \E b \in BOOLEAN : Reject(b)
      PROVE  ChoiceInv'
  BY <1>3, ChoiceKept DEF ToolThrows, BackgroundToolEnds, Timeout, RecordFails, Abort, Reject,
     EndAttempt, loopVars
<1>4. ASSUME Begin \/ Record PROVE ChoiceInv'
  BY <1>4, ChoiceKept DEF Begin, Record, Retried, BeginAttempt, EndAttempt, loopVars
<1>5. CASE UNCHANGED vars
  BY <1>5, ChoiceKept DEF vars, loopVars
<1> QED BY <1>1, <1>2, <1>3, <1>4, <1>5 DEF Next, Tool, Provider

LEMMA ChoiceHolds == LlmInv /\ ChoiceInv => ChoiceCanBeHonoured
<1> SUFFICES ASSUME LlmInv, ChoiceInv, pc = "asking", Roomy
             PROVE  /\ ToolChoice \in Tools =>
                         /\ counts[ToolChoice] < request.maxCalls[ToolChoice]
                         /\ toolCalls < request.maxToolCalls
                    /\ ToolChoice = "required" => \E t \in request.tools : counts[t] = 0
  BY DEF ChoiceCanBeHonoured
<1>1. /\ request.tools \subseteq Tools /\ request.maxToolCalls \in Nat
      /\ request.required \subseteq Tools /\ IsFiniteSet(request.required)
      /\ IsFiniteSet(request.tools) /\ IsFiniteSet(Called)
      /\ counts \in [Tools -> Nat] /\ toolCalls \in Nat
  BY RequestTypes DEF LlmInv, TypeOK
<1>2. /\ request.tools # {} /\ request.required \subseteq request.tools
      /\ request.initialChoice \in Tools => request.initialChoice \in request.tools
      /\ request.maxToolCalls > 0
  BY DEF ChoiceInv, ValidRequest, Roomy
<1>3. /\ request.maxToolCalls >= Cardinality(request.tools)
      /\ \A t \in request.tools : request.maxCalls[t] = 1
      /\ toolCalls = Cardinality(Called)
  BY DEF ChoiceInv, Roomy
<1>4. CASE turn = 0 /\ request.initialChoice # "unset"
  <2>1. ToolChoice = request.initialChoice
    BY <1>4 DEF ToolChoice
  <2>2. toolCalls = 0 /\ \A t \in Tools : counts[t] = 0
    BY <1>4 DEF ChoiceInv, Roomy
  <2> QED BY <1>1, <1>2, <1>3, <2>1, <2>2
<1>5. ASSUME NEW t \in Remaining
      PROVE  /\ t \in request.tools /\ counts[t] = 0
             /\ counts[t] < request.maxCalls[t] /\ toolCalls < request.maxToolCalls
  <2>1. t \in request.tools /\ counts[t] = 0
    BY <1>2 DEF Remaining
  <2>2. Called \subseteq request.tools \ {t}
    BY <2>1 DEF Called
  <2>3. /\ IsFiniteSet(request.tools \ {t})
        /\ Cardinality(request.tools \ {t}) = Cardinality(request.tools) - 1
    BY <1>1, <2>1, FS_RemoveElement
  <2>4. Cardinality(Called) <= Cardinality(request.tools \ {t})
    BY <2>2, <2>3, FS_Subset
  <2>5. Cardinality(request.tools) \in Nat
    BY <1>1, FS_CardinalityType
  <2> QED BY <1>1, <1>3, <2>1, <2>3, <2>4, <2>5
<1>6. CASE ~(turn = 0 /\ request.initialChoice # "unset")
  <2>1. IsFiniteSet(Remaining)
    BY <1>1, FS_Subset DEF Remaining
  <2>2. Cardinality(Remaining) # 0 => Remaining # {}
    BY FS_EmptySet
  <2>3. CASE Cardinality(Remaining) = 1
    <3>1. ToolChoice \in Remaining
      BY <1>6, <2>2, <2>3 DEF ToolChoice
    <3>2. "required" \notin Tools
      BY LlmAssumption
    <3> HIDE DEF Remaining
    <3> QED BY <1>1, <1>5, <3>1, <3>2
  <2>4. CASE Cardinality(Remaining) # 1
    <3>1. /\ ToolChoice \in {"required", "auto"}
          /\ ToolChoice = "required" => Cardinality(Remaining) > 1
      BY <1>6, <2>4 DEF ToolChoice
    <3>2. {"required", "auto"} \cap Tools = {}
      BY LlmAssumption
    <3>3. Cardinality(Remaining) > 1 => Remaining # {}
      BY <2>2
    <3> HIDE DEF Remaining
    <3> QED BY <1>5, <3>1, <3>2, <3>3
  <2> QED BY <2>3, <2>4
<1> QED BY <1>4, <1>6

-----------------------------------------------------------------------------
(* The variables of a call have the types of the code's.                   *)
THEOREM LlmTypeCorrect == Spec => []TypeOK
<1>1. LlmInv => TypeOK
  BY DEF LlmInv
<1> QED BY <1>1, LlmInitially, LlmStep, PTL DEF Spec

(* No loop executes a tool, or tools in all, beyond the limits of its      *)
(* request, executions that outlive it included.                           *)
THEOREM ToolsWithinLimits == Spec => []WithinLimits
<1>1. LlmInv => WithinLimits
  BY DEF LlmInv, LoopInv
<1> QED BY <1>1, LlmInitially, LlmStep, PTL DEF Spec

(* Only an error leaves a tool running, or a batch half executed.          *)
THEOREM ModelEndsAreQuiet == Spec => []ModelEndsLeaveNothingRunning
<1>1. LlmInv => ModelEndsLeaveNothingRunning
  <2> SUFFICES ASSUME LlmInv, result \in {"data"} \cup Reviewed PROVE Quiet
    BY DEF ModelEndsLeaveNothingRunning, Quiet
  <2>1. result # "none" /\ result \notin Errors
    BY DEF Reviewed, Errors
  <2> QED BY <2>1 DEF LlmInv, LoopInv, Open
<1> QED BY <1>1, LlmInitially, LlmStep, PTL DEF Spec

(* What a caller is told was recorded, with the usage of every response.   *)
THEOREM AnswersAreAccountedFor == Spec => []AnswerIsAccountedFor
<1>1. LlmInv => AnswerIsAccountedFor
  BY DEF LlmInv, Accounts
<1> QED BY <1>1, LlmInitially, LlmStep, PTL DEF Spec

(* The loop never forces the model to call a tool it has used up, and      *)
(* leaves it one to choose when it must choose: for any number of tools,   *)
(* if each may be called once and the total limit allows all of them.      *)
THEOREM ForcedCallsAreAllowed == Spec => []ChoiceCanBeHonoured
<1>1. Init => LlmInv /\ ChoiceInv
  BY LlmInitially, ChoiceInitially
<1>2. LlmInv /\ ChoiceInv /\ [Next]_vars => LlmInv' /\ ChoiceInv'
  BY LlmStep, ChoiceStep
<1> QED BY <1>1, <1>2, ChoiceHolds, PTL DEF Spec

-----------------------------------------------------------------------------
(* The responses there have been, by where the call is.  A loop asks with  *)
(* turn responses behind it and executes with one more; a structured       *)
(* request asks with one response for each attempt before.                 *)
CostInv ==
    /\ SecondHasReason
    /\ pc = "called" => attempt = 1 /\ turn = 0 /\ spent = 0
    /\ request.kind = "tools" =>
        /\ pc \in {"asking", "executing"} => turn < request.maxTurns
        /\ pc = "asking" => spent = turn
        /\ pc = "executing" => spent = turn + 1
        /\ spent = 0 \/ spent <= request.maxTurns
    /\ request.kind = "structured" =>
        /\ pc # "executing"
        /\ pc = "asking" => spent + 1 = attempt
        /\ spent \in {attempt - 1, attempt}
        /\ Retried => spent = 1

LEMMA CostTypes ==
  ASSUME TypeOK
  PROVE  /\ request.kind \in {"structured", "tools"} /\ request.maxTurns \in Nat
         /\ turn \in Nat /\ spent \in Nat /\ usage \in Nat /\ attempt \in {1, 2}
BY LlmAssumption DEF TypeOK, Request, Attempts

LEMMA CostInitially == Init => CostInv
BY LlmInitially, CostTypes DEF LlmInv, Init, CostInv, SecondHasReason, Retried

(* Steps without a response, before the attempt is recorded.               *)
LEMMA CostKept ==
  ASSUME LlmInv, CostInv, UNCHANGED <<request, attempt, turn, spent>>,
         UNCHANGED records \/ Recorded,
         \/ UNCHANGED <<pc, result>>
         \/ pc' \in {"recording", "done"} /\ result' # "invalid_output"
         \/ pc' = "done" /\ result' = result
         \/ pc = "called" /\ ValidRequest /\ pc' = "asking" /\ result' = "none"
         \/ pc = "executing" /\ pc' = "executing"
  PROVE  CostInv'
<1>0. /\ request.kind \in {"structured", "tools"} /\ request.maxTurns \in Nat
      /\ turn \in Nat /\ spent \in Nat /\ attempt \in {1, 2}
  BY CostTypes DEF LlmInv
<1>1. attempt = 2 => records'[1] = records[1]
  BY DEF Recorded, LlmInv, TypeOK, Attempts
<1>2. SecondHasReason'
  BY <1>1 DEF CostInv, SecondHasReason
<1>3. CASE UNCHANGED <<pc, result>>
  BY <1>0, <1>2, <1>3 DEF CostInv, Retried
<1>4. CASE pc' \in {"recording", "done"} /\ (result' # "invalid_output" \/ result' = result)
  BY <1>0, <1>2, <1>4 DEF CostInv, Retried
<1>5. CASE pc = "called" /\ ValidRequest /\ pc' = "asking" /\ result' = "none"
  BY <1>0, <1>2, <1>5 DEF CostInv, Retried, ValidRequest
<1>6. CASE pc = "executing" /\ pc' = "executing"
  BY <1>0, <1>2, <1>6 DEF CostInv, Retried
<1> QED BY <1>3, <1>4, <1>5, <1>6

(* A response arrives.                                                     *)
LEMMA CostOfResponse ==
  ASSUME LlmInv, CostInv, Responds,
         \/ pc' = "recording"
         \/ /\ request.kind = "tools"
            /\ \/ pc' = "asking" /\ turn' = turn + 1 /\ turn + 1 < request.maxTurns
               \/ pc' = "executing" /\ turn' = turn
  PROVE  CostInv'
<1>0. /\ request.kind \in {"structured", "tools"} /\ request.maxTurns \in Nat
      /\ turn \in Nat /\ spent \in Nat /\ attempt \in {1, 2}
  BY CostTypes DEF LlmInv
<1>1. /\ pc = "asking" /\ spent' = spent + 1
      /\ UNCHANGED <<request, attempt, records>>
  BY DEF Responds, logVars
<1>2. SecondHasReason'
  BY <1>1 DEF CostInv, SecondHasReason
<1>3. CASE request.kind = "structured"
  BY <1>0, <1>1, <1>2, <1>3 DEF CostInv, Retried
<1>4. CASE request.kind = "tools"
  <2>1. spent = turn /\ turn < request.maxTurns
    BY <1>1, <1>4 DEF CostInv
  <2> QED BY <1>0, <1>1, <1>2, <1>4, <2>1 DEF CostInv, Retried
<1> QED BY <1>0, <1>3, <1>4

(* A call of a tool has returned: the batch goes on, or the turn is over.  *)
LEMMA CostOfReturn ==
  ASSUME LlmInv, CostInv, NEW serializable \in BOOLEAN, ToolReturns(serializable)
  PROVE  CostInv'
<1>0. /\ request.kind \in {"structured", "tools"} /\ request.maxTurns \in Nat
      /\ turn \in Nat /\ spent \in Nat /\ attempt \in {1, 2}
  BY CostTypes DEF LlmInv
<1>1. /\ pc = "executing" /\ request.kind = "tools"
      /\ UNCHANGED <<request, attempt, spent, records>>
  BY <1>0 DEF ToolReturns, CostInv, logVars
<1>2. SecondHasReason'
  BY <1>1 DEF CostInv, SecondHasReason
<1>3. spent = turn + 1 /\ turn < request.maxTurns
  BY <1>1 DEF CostInv
<1>4. \/ pc' = "recording"
      \/ pc' = "executing" /\ turn' = turn
      \/ pc' = "asking" /\ turn' = turn + 1 /\ turn + 1 < request.maxTurns
  BY <1>1 DEF ToolReturns, GoOn, NextTurn, EndAttempt
<1> QED BY <1>0, <1>1, <1>2, <1>3, <1>4 DEF CostInv, Retried

(* The second attempt of a structured request begins with one response     *)
(* behind it, which the first record holds.                                *)
LEMMA CostOfRetry ==
  ASSUME LlmInv, CostInv, Record, Retried
  PROVE  CostInv'
<1>0. /\ spent \in Nat /\ usage \in Nat /\ aggregate \in Nat
      /\ records \in [Attempts -> [outcome: Outcome, usage: Nat]]
  BY DEF LlmInv, TypeOK
<1>1. /\ request.kind = "structured" /\ attempt = 1 /\ result = "invalid_output"
      /\ spent = 1 /\ pc = "recording"
  BY DEF Retried, CostInv, Record
<1>2. usage = 1
  BY <1>0, <1>1 DEF LlmInv, Accounts
<1>3. /\ UNCHANGED <<request, spent>> /\ attempt' = 2
      /\ \/ pc' = "recording" /\ result' = "temporary"
         \/ pc' = "asking"
  BY DEF Record, BeginAttempt, EndAttempt
<1>4. records'[1] = [outcome |-> "invalid_output", usage |-> 1]
  <2>1. OutcomeOf = "invalid_output" /\ RecordedUsage = 1
    BY <1>1, <1>2 DEF OutcomeOf, RecordedUsage, Errors, Retried
  <2> QED BY <1>0, <1>1, <2>1 DEF Record, Recorded, Attempts
<1>5. SecondHasReason'
  BY <1>1, <1>3, <1>4 DEF SecondHasReason
<1> QED BY <1>1, <1>3, <1>5 DEF CostInv, Retried

LEMMA CostStep == LlmInv /\ CostInv /\ [Next]_vars => CostInv'
<1> SUFFICES ASSUME LlmInv, CostInv, [Next]_vars PROVE CostInv'
  OBVIOUS
<1>0. turn \in Nat /\ request.maxTurns \in Nat
  BY CostTypes DEF LlmInv
<1>1. ASSUME NEW r \in Reviewed, RespondUnusable(r) PROVE CostInv'
  BY <1>1, CostOfResponse DEF RespondUnusable, EndAttempt
<1>2. ASSUME NEW b \in BOOLEAN, RespondMessage(b) PROVE CostInv'
  BY <1>2, CostOfResponse DEF RespondMessage, EndAttempt
<1>3. CASE RespondSilent
  BY <1>3, CostOfResponse DEF RespondSilent, NextTurn, EndAttempt
<1>4. ASSUME NEW b \in Batches, RespondCalls(b) PROVE CostInv'
  BY <1>4, CostOfResponse DEF RespondCalls, EndAttempt
<1>5. ASSUME NEW status \in Statuses, OpenAiFails(status) PROVE CostInv'
  <2>1. OpenAiError(status) # "invalid_output"
    BY DEF OpenAiError
  <2> QED BY <1>5, <2>1, CostKept DEF OpenAiFails, EndAttempt, loopVars, logVars
<1>6. ASSUME NEW b \in BOOLEAN, ToolReturns(b) PROVE CostInv'
  BY <1>6, CostOfReturn
<1>7. ASSUME NEW error \in Errors, ToolThrows(error) PROVE CostInv'
  BY <1>7, CostKept DEF ToolThrows, EndAttempt, Errors, loopVars, logVars
<1>8. CASE BackgroundToolEnds
  BY <1>8, CostKept DEF BackgroundToolEnds, loopVars, logVars
<1>9. ASSUME NEW b \in BOOLEAN, Reject(b) PROVE CostInv'
  BY <1>9, CostKept DEF Reject, loopVars, logVars
<1>10. CASE Begin
  BY <1>10, CostKept DEF Begin, BeginAttempt, EndAttempt, loopVars, logVars
<1>11. CASE Timeout
  BY <1>11, CostKept DEF Timeout, EndAttempt, loopVars, logVars
<1>12. CASE Record
  <2>1. CASE ~Retried
    BY <1>12, <2>1, CostKept DEF Record, loopVars
  <2> QED BY <1>12, <2>1, CostOfRetry
<1>13. CASE RecordFails
  BY <1>13, CostKept DEF RecordFails, loopVars, logVars
<1>14. CASE Abort
  BY <1>14, CostKept DEF Abort, EndAttempt, loopVars, logVars
<1>15. CASE UNCHANGED vars
  BY <1>15, CostKept DEF vars, loopVars, logVars
<1> QED BY <1>1, <1>2, <1>3, <1>4, <1>5, <1>6, <1>7, <1>8, <1>9, <1>10, <1>11, <1>12, <1>13,
           <1>14, <1>15 DEF Next, Model, Tool, Provider

(* However tools, timeouts and aborts interleave with it, one call costs   *)
(* no more responses than its request allows, and is asked again only when *)
(* the first response was invalid.                                         *)
THEOREM CallsCostWhatIsAllowed == Spec => []CostIsBounded
<1>1. Init => LlmInv /\ CostInv
  BY LlmInitially, CostInitially
<1>2. LlmInv /\ CostInv /\ [Next]_vars => LlmInv' /\ CostInv'
  BY LlmStep, CostStep
<1>3. LlmInv /\ CostInv => CostIsBounded
  BY CostTypes DEF LlmInv, CostInv, CostIsBounded
<1> QED BY <1>1, <1>2, <1>3, PTL DEF Spec
=============================================================================
