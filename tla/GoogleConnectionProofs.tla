----------------------- MODULE GoogleConnectionProofs -----------------------
(***************************************************************************)
(* Proofs about GoogleConnection for every number of authorizations,       *)
(* callbacks, processes, calls, tokens and scopes.                         *)
(***************************************************************************)
EXTENDS GoogleConnection, TLAPS

Keys == Processes \X Scopes

LEMMA KeyType ==
  ASSUME NEW k \in Keys
  PROVE  k = <<k[1], k[2]>> /\ k[1] \in Processes /\ k[2] \in Scopes
  BY DEF Keys

-----------------------------------------------------------------------------
(* Types. *)

LEMMA EmptyTypes ==
  /\ NoHandler \in Handler
  /\ NoEntry \in CacheEntry
  /\ NoRefresh \in Refresh
  /\ NoCall \in Call
  BY ConnectionAssumption DEF NoHandler, Handler, NoEntry, CacheEntry, NoRefresh, Refresh,
     NoCall, Call

LEMMA TypeInit == Init => TypeOK
  BY EmptyTypes, ConnectionAssumption
     DEF Init, TypeOK, State, GrantStatus, Row, Token, Keys

LEMMA RefreshesType == TypeOK => refreshes \in [Keys -> Refresh]
  BY DEF TypeOK, Keys

LEMMA RefreshRecords ==
  ASSUME NEW refresh \in Refresh
  PROVE  /\ [refresh EXCEPT !.pc = "loading"] \in Refresh
         /\ [refresh EXCEPT !.pc = "marking"] \in Refresh
         /\ \A t \in Tokens :
              [refresh EXCEPT !.pc = "settling", !.outcome = "token", !.token = t] \in Refresh
  BY DEF Refresh

LEMMA RevokedTokens ==
  ASSUME TypeOK, NEW a \in Auths, Revoke(a)
  PROVE  tokens' \in [Tokens -> Token] /\ grants' \in [Auths -> GrantStatus]
<1>1. \A t \in Tokens : tokens[t] \in Token /\ [tokens[t] EXCEPT !.live = FALSE] \in Token
  BY DEF TypeOK, Token
<1>2. grants' \in [Auths -> GrantStatus]
  BY DEF Revoke, TypeOK, GrantStatus
<1>3. tokens' = [t \in Tokens |-> IF tokens[t].grant = a
                                   THEN [tokens[t] EXCEPT !.live = FALSE] ELSE tokens[t]]
  BY DEF Revoke
<1> QED  BY <1>1, <1>2, <1>3

LEMMA SettleWithType ==
  ASSUME TypeOK, NEW k \in Keys, NEW outcome \in {"refused", "failed"},
         SettleWith(k, outcome)
  PROVE  refreshes' \in [Keys -> Refresh]
<1> DEFINE settled == [NoRefresh EXCEPT !.pc = "settling", !.outcome = outcome]
<1>1. settled \in Refresh
  BY EmptyTypes DEF Refresh
<1>2. refreshes' = [refreshes EXCEPT ![k] = settled]
  BY DEF SettleWith
<1> QED  BY <1>1, <1>2 DEF TypeOK, Keys

LEMMA EndHandlerType ==
  ASSUME TypeOK, NEW h \in Handlers, EndHandler(h)
  PROVE  handlers' \in [Handlers -> Handler]
<1>1. [NoHandler EXCEPT !.pc = "ended"] \in Handler
  BY EmptyTypes DEF Handler
<1> QED  BY <1>1 DEF EndHandler, TypeOK

LEMMA OauthType ==
  ASSUME TypeOK,
         \/ \E a \in Auths : \/ \E purpose \in Scopes : Begin(a, purpose)
                              \/ StateExpires(a)
                              \/ \E h \in Handlers : Callback(h, a)
         \/ \E h \in Handlers : Consume(h) \/ Exchange(h) \/ Save(h) \/ HandlerFails(h)
  PROVE  TypeOK'
<1> USE DEF TypeOK, oauthVars, tokenVars
<1>1. ASSUME NEW a \in Auths, NEW purpose \in Scopes, Begin(a, purpose)
      PROVE  TypeOK'
  BY <1>1 DEF Begin, State
<1>2. ASSUME NEW a \in Auths, StateExpires(a)
      PROVE  TypeOK'
  BY <1>2 DEF StateExpires, State
<1>3. ASSUME NEW a \in Auths, NEW h \in Handlers, Callback(h, a)
      PROVE  TypeOK'
  <2> handlers[h] \in Handler /\ [handlers[h] EXCEPT !.pc = "consuming", !.auth = a] \in Handler
    BY DEF Handler
  <2> handlers' = [handlers EXCEPT ![h] = [handlers[h] EXCEPT !.pc = "consuming", !.auth = a]]
    BY <1>3 DEF Callback
  <2> QED  BY <1>3 DEF Callback
<1>4. ASSUME NEW h \in Handlers, Consume(h)
      PROVE  TypeOK'
  <2>1. handlers' \in [Handlers -> Handler]
    <3>1. [handlers EXCEPT ![h].pc = "exchanging"] \in [Handlers -> Handler]
      BY DEF Handler
    <3> QED  BY <1>4, <3>1, EndHandlerType DEF Consume
  <2>2. states' \in [Auths -> State]
    BY <1>4 DEF Consume, State
  <2> QED  BY <1>4, <2>1, <2>2 DEF Consume
<1>5. ASSUME NEW h \in Handlers, Exchange(h)
      PROVE  TypeOK'
  <2>1. handlers' \in [Handlers -> Handler]
    <3>1. \A granted \in SUBSET Scopes, refresh \in BOOLEAN :
            [pc |-> "saving", auth |-> handlers[h].auth, granted |-> granted,
             refresh |-> refresh] \in Handler
      BY DEF Handler
    <3> QED  BY <1>5, <3>1, EndHandlerType DEF Exchange
  <2>2. grants' \in [Auths -> GrantStatus]
    BY <1>5 DEF Exchange, GrantStatus
  <2> QED  BY <1>5, <2>1, <2>2 DEF Exchange
<1>6. ASSUME NEW h \in Handlers, Save(h)
      PROVE  TypeOK'
  <2>1. handlers' \in [Handlers -> Handler]
    BY <1>6, EndHandlerType DEF Save
  <2>2. row' \in Row
    BY <1>6 DEF Save, Row, Handler
  <2> QED  BY <1>6, <2>1, <2>2 DEF Save
<1>7. ASSUME NEW h \in Handlers, HandlerFails(h)
      PROVE  TypeOK'
  BY <1>7, EndHandlerType DEF HandlerFails
<1> QED  BY <1>1, <1>2, <1>3, <1>4, <1>5, <1>6, <1>7

LEMMA RefreshType ==
  ASSUME TypeOK, NEW k \in Keys,
         \/ LoadCredential(k) \/ RejectGrant(k) \/ MarkReauthRequired(k)
         \/ RefreshFails(k) \/ \E t \in Tokens : IssueToken(k, t)
  PROVE  TypeOK'
<1>1. CASE LoadCredential(k)
  <2>1. refreshes' \in [Keys -> Refresh]
    <3>1. CASE SettleWith(k, "refused") \/ SettleWith(k, "failed")
      BY <3>1, SettleWithType
    <3>2. CASE ~(SettleWith(k, "refused") \/ SettleWith(k, "failed"))
      <4> DEFINE loaded == [NoRefresh EXCEPT
                 !.pc = IF grants[row.grant] = "unreadable" THEN "marking" ELSE "exchanging",
                 !.grant = row.grant, !.scopes = row.scopes]
      <4>1. refreshes' = [refreshes EXCEPT ![k] = loaded]
        BY <1>1, <3>2 DEF LoadCredential
      <4>2. loaded \in Refresh
        BY EmptyTypes DEF Refresh, Row, TypeOK
      <4> QED  BY <4>1, <4>2, RefreshesType
    <3> QED  BY <3>1, <3>2
  <2> QED  BY <1>1, <2>1 DEF LoadCredential, TypeOK, oauthVars, Keys
<1>2. CASE RejectGrant(k)
  <2>1. refreshes' \in [Keys -> Refresh]
    BY <1>2, RefreshesType, RefreshRecords DEF RejectGrant
  <2> QED  BY <1>2, <2>1 DEF RejectGrant, TypeOK, oauthVars, Keys
<1>3. CASE MarkReauthRequired(k)
  <2>1. refreshes' \in [Keys -> Refresh]
    BY <1>3, SettleWithType DEF MarkReauthRequired
  <2>2. row' \in Row
    BY <1>3 DEF MarkReauthRequired, Row, TypeOK
  <2> QED  BY <1>3, <2>1, <2>2 DEF MarkReauthRequired, TypeOK, oauthVars, Keys
<1>4. CASE RefreshFails(k)
  BY <1>4, SettleWithType DEF RefreshFails, TypeOK, oauthVars, Keys
<1>5. ASSUME NEW t \in Tokens, IssueToken(k, t)
      PROVE  TypeOK'
  <2>1. tokens' \in [Tokens -> Token]
    <3>1. [grant |-> refreshes[k].grant, scopes |-> refreshes[k].scopes, live |-> TRUE]
            \in Token
      BY RefreshesType DEF Token, Refresh
    <3> QED  BY <1>5, <3>1 DEF IssueToken, TypeOK
  <2>2. refreshes' \in [Keys -> Refresh]
    <3>1. refreshes' = [refreshes EXCEPT ![k] = [refreshes[k] EXCEPT
                          !.pc = "settling", !.outcome = "token", !.token = t]]
      BY <1>5, RefreshesType DEF IssueToken
    <3> QED  BY <3>1, RefreshesType, RefreshRecords
  <2> QED  BY <1>5, <2>1, <2>2 DEF IssueToken, TypeOK, oauthVars, Keys
<1> QED  BY <1>1, <1>2, <1>3, <1>4, <1>5

LEMMA GetType ==
  ASSUME TypeOK, NEW c \in Calls, NEW call \in Call, NEW hit \in BOOLEAN,
         hit => call.proc \in Processes, Get(c, call, hit)
  PROVE  /\ calls' \in [Calls -> Call]
         /\ refreshes' \in [Keys -> Refresh]
<1> DEFINE k == <<call.proc, call.scope>>
<1>1. [call EXCEPT !.pc = "waiting", !.token = None] \in Call
  BY DEF Call
<1>2. ASSUME hit PROVE [call EXCEPT !.pc = "requesting",
                                   !.token = cache[call.proc].token] \in Call
  BY <1>2 DEF Call, TypeOK, CacheEntry
<1>3. [refreshes EXCEPT ![k].pc = "loading"] \in [Keys -> Refresh]
  BY RefreshesType, RefreshRecords
<1>4. CASE hit
  BY <1>2, <1>4 DEF Get, TypeOK, Keys
<1>5. CASE ~hit
  BY <1>1, <1>3, <1>5 DEF Get, TypeOK, Keys
<1> QED  BY <1>4, <1>5

LEMMA CallType ==
  ASSUME TypeOK,
         \/ \E c \in Calls :
              \/ \E p \in Processes, scope \in Scopes : StartCall(c, p, scope)
              \/ Requested(c) \/ Unauthorized(c) \/ UnauthorizedAgain(c)
         \/ \E k \in Keys : Settle(k)
  PROVE  TypeOK'
<1> USE EmptyTypes DEF oauthVars
<1>1. ASSUME NEW c \in Calls, NEW p \in Processes, NEW scope \in Scopes,
             StartCall(c, p, scope)
      PROVE  TypeOK'
  <2> DEFINE call == [NoCall EXCEPT !.proc = p, !.scope = scope]
  <2>1. call \in Call /\ call.proc \in Processes
    BY DEF Call, NoCall
  <2>2. Get(c, call, CacheHit(p, scope)) /\ CacheHit(p, scope) \in BOOLEAN
    BY <1>1 DEF StartCall, CacheHit, TypeOK, CacheEntry
  <2> HIDE DEF call
  <2>3. calls' \in [Calls -> Call] /\ refreshes' \in [Keys -> Refresh]
    BY <2>1, <2>2, GetType
  <2> QED  BY <1>1, <2>3 DEF StartCall, TypeOK, Keys
<1>2. ASSUME NEW c \in Calls, Requested(c) \/ UnauthorizedAgain(c)
      PROVE  TypeOK'
  BY <1>2 DEF Requested, UnauthorizedAgain, TypeOK
<1>3. ASSUME NEW c \in Calls, Unauthorized(c)
      PROVE  TypeOK'
  <2> DEFINE call == [calls[c] EXCEPT !.try = 2, !.rejected = calls[c].token]
  <2>1. call \in Call
    BY DEF Call, TypeOK
  <2>2. Get(c, call, FALSE)
    BY <1>3 DEF Unauthorized
  <2>3. cache' \in [Processes -> CacheEntry]
    BY <1>3 DEF Unauthorized, TypeOK
  <2> HIDE DEF call
  <2>4. calls' \in [Calls -> Call] /\ refreshes' \in [Keys -> Refresh]
    BY <2>1, <2>2, GetType
  <2> QED  BY <1>3, <2>3, <2>4 DEF Unauthorized, TypeOK, Keys
<1>4. ASSUME NEW k \in Keys, Settle(k)
      PROVE  TypeOK'
  <2>1. refreshes[k] \in Refresh
    BY RefreshesType
  <2>2. cache' \in [Processes -> CacheEntry]
    <3>1. [token |-> refreshes[k].token, scopes |-> refreshes[k].scopes, fresh |-> TRUE]
            \in CacheEntry
      BY <2>1 DEF CacheEntry, Refresh
    <3> QED  BY <1>4, <3>1 DEF Settle, TypeOK
  <2>3. calls' \in [Calls -> Call]
    <3>1. ASSUME NEW c \in Calls
          PROVE  [calls[c] EXCEPT !.pc = "requesting", !.token = refreshes[k].token] \in Call
      BY <2>1 DEF Call, Refresh, TypeOK
    <3> QED  BY <1>4, <3>1 DEF Settle, TypeOK
  <2>4. refreshes' \in [Keys -> Refresh]
    BY <1>4, RefreshesType DEF Settle
  <2> QED  BY <1>4, <2>2, <2>3, <2>4 DEF Settle, TypeOK, Keys
<1> QED  BY <1>1, <1>2, <1>3, <1>4

LEMMA OutsideType ==
  ASSUME TypeOK,
         \/ \E p \in Processes : CacheExpires(p) \/ Restart(p)
         \/ \E t \in Tokens : TokenExpires(t)
         \/ \E a \in Auths : Revoke(a)
  PROVE  TypeOK'
<1> USE EmptyTypes DEF TypeOK, oauthVars, tokenVars
<1>1. ASSUME NEW p \in Processes, CacheExpires(p)
      PROVE  TypeOK'
  BY <1>1 DEF CacheExpires, CacheEntry
<1>2. ASSUME NEW p \in Processes, Restart(p)
      PROVE  TypeOK'
  BY <1>2 DEF Restart
<1>3. ASSUME NEW t \in Tokens, TokenExpires(t)
      PROVE  TypeOK'
  BY <1>3 DEF TokenExpires, Token
<1>4. ASSUME NEW a \in Auths, Revoke(a)
      PROVE  TypeOK'
  BY <1>4, RevokedTokens DEF Revoke
<1> QED  BY <1>1, <1>2, <1>3, <1>4

LEMMA TypeStep == TypeOK /\ [Next]_vars => TypeOK'
<1> SUFFICES ASSUME TypeOK, [Next]_vars PROVE TypeOK'
  OBVIOUS
<1>1. CASE UNCHANGED vars
  BY <1>1 DEF vars, TypeOK
<1>2. CASE Next
  BY <1>2, OauthType, RefreshType, CallType, OutsideType DEF Next, Keys
<1> QED  BY <1>1, <1>2

(* Rows, handlers, caches, refreshes and calls have the shape of the code's *)
(* records.                                                                 *)
THEOREM ConnectionTypeCorrect == Spec => []TypeOK
  BY TypeInit, TypeStep, PTL DEF Spec

-----------------------------------------------------------------------------
(* The flow: a code is exchanged once, so a grant that has ended stays so. *)

InFlow(h) == handlers[h].pc \in {"exchanging", "saving"}

(* Only a consumed state has handlers behind it, or a grant.               *)
Unexchanged ==
    \A a \in Auths : states[a].status # "consumed" =>
        /\ grants[a] = "none"
        /\ \A h \in Handlers : InFlow(h) => handlers[h].auth # a

HandlersOK ==
    \A h \in Handlers :
        /\ handlers[h].pc \in {"consuming", "exchanging", "saving"} =>
             handlers[h].auth \in Auths
        /\ handlers[h].pc = "saving" /\ handlers[h].refresh =>
             grants[handlers[h].auth] # "none"

FlowInv == Unexchanged /\ CodeExchangedOnce /\ HandlersOK

Ended == {"unreadable", "revoked"}

(* What a step may do to a refresh token that exists.                      *)
Declines ==
    \A a \in Auths :
        /\ grants[a] # "none" => grants'[a] # "none"
        /\ grants[a] \in Ended => grants'[a] \in Ended

LEMMA FlowInit == Init => FlowInv
  BY DEF Init, FlowInv, Unexchanged, CodeExchangedOnce, HandlersOK, InFlow, NoHandler

LEMMA FlowKept ==
  ASSUME FlowInv, UNCHANGED <<states, handlers, grants>>
  PROVE  FlowInv' /\ Declines
  BY DEF FlowInv, Unexchanged, CodeExchangedOnce, HandlersOK, InFlow, Declines

LEMMA EndHandlerEffect ==
  ASSUME TypeOK, NEW h \in Handlers, EndHandler(h)
  PROVE  /\ handlers'[h].pc = "ended"
         /\ \A g \in Handlers \ {h} : handlers'[g] = handlers[g]
  BY DEF EndHandler, NoHandler, TypeOK

(* A handler that ends takes nothing with it.                              *)
LEMMA EndHandlerFlow ==
  ASSUME TypeOK, FlowInv, NEW h \in Handlers, EndHandler(h), UNCHANGED <<states, grants>>
  PROVE  FlowInv' /\ Declines
  BY EndHandlerEffect
     DEF FlowInv, Unexchanged, CodeExchangedOnce, HandlersOK, InFlow, Declines

LEMMA FlowStep ==
  ASSUME TypeOK, FlowInv,
         \/ \E a \in Auths : \/ \E purpose \in Scopes : Begin(a, purpose)
                              \/ StateExpires(a) \/ Revoke(a)
                              \/ \E h \in Handlers : Callback(h, a)
         \/ \E h \in Handlers : Consume(h) \/ Exchange(h) \/ Save(h) \/ HandlerFails(h)
  PROVE  FlowInv' /\ Declines
<1>1. ASSUME NEW a \in Auths,
             StateExpires(a) \/ \E purpose \in Scopes : Begin(a, purpose)
      PROVE  FlowInv' /\ Declines
  <2>1. /\ states[a].status # "consumed" /\ states'[a].status # "consumed"
        /\ \A b \in Auths \ {a} : states'[b] = states[b]
        /\ UNCHANGED <<handlers, grants>>
    BY <1>1 DEF StateExpires, Begin, TypeOK, State
  <2> QED
    BY <2>1 DEF FlowInv, Unexchanged, CodeExchangedOnce, HandlersOK, InFlow, Declines
<1>2. ASSUME NEW a \in Auths, Revoke(a)
      PROVE  FlowInv' /\ Declines
  <2>1. /\ grants[a] = "valid" /\ grants'[a] = "revoked"
        /\ \A b \in Auths \ {a} : grants'[b] = grants[b]
        /\ UNCHANGED <<states, handlers>>
    BY <1>2 DEF Revoke, TypeOK, oauthVars
  <2> QED
    BY <2>1 DEF FlowInv, Unexchanged, CodeExchangedOnce, HandlersOK, InFlow, Declines, Ended
<1>3. ASSUME NEW a \in Auths, NEW h \in Handlers, Callback(h, a)
      PROVE  FlowInv' /\ Declines
  <2>1. /\ handlers'[h].pc = "consuming" /\ handlers'[h].auth = a
        /\ \A g \in Handlers \ {h} : handlers'[g] = handlers[g]
        /\ UNCHANGED <<states, grants>>
    BY <1>3 DEF Callback, TypeOK, Handler
  <2> QED
    BY <2>1 DEF FlowInv, Unexchanged, CodeExchangedOnce, HandlersOK, InFlow, Declines
<1>4. ASSUME NEW h \in Handlers, Consume(h)
      PROVE  FlowInv' /\ Declines
  <2> DEFINE a == handlers[h].auth
  <2>1. /\ a \in Auths /\ states[a].status = "open" /\ states'[a].status = "consumed"
        /\ \A b \in Auths \ {a} : states'[b] = states[b]
        /\ UNCHANGED grants
    BY <1>4 DEF Consume, Consumable, FlowInv, HandlersOK, TypeOK, State
  <2>2. /\ \/ handlers'[h].pc = "exchanging" /\ handlers'[h].auth = a
           \/ handlers'[h].pc = "ended"
        /\ \A g \in Handlers \ {h} : handlers'[g] = handlers[g]
    BY <1>4, EndHandlerEffect DEF Consume, TypeOK, Handler
  <2> HIDE DEF a
  <2>3. grants[a] = "none" /\ \A g \in Handlers : InFlow(g) => handlers[g].auth # a
    BY <2>1 DEF FlowInv, Unexchanged
  <2>4. Unexchanged'
    BY <2>1, <2>2 DEF FlowInv, Unexchanged, InFlow
  <2>5. CodeExchangedOnce'
    BY <2>1, <2>2, <2>3 DEF FlowInv, CodeExchangedOnce, InFlow
  <2>6. HandlersOK'
    BY <2>1, <2>2 DEF FlowInv, HandlersOK
  <2> QED  BY <2>1, <2>4, <2>5, <2>6 DEF FlowInv, Declines
<1>5. ASSUME NEW h \in Handlers, Exchange(h)
      PROVE  FlowInv' /\ Declines
  <2> DEFINE a == handlers[h].auth
  <2>1. /\ a \in Auths /\ grants[a] = "none" /\ handlers[h].pc = "exchanging"
        /\ UNCHANGED states
    BY <1>5 DEF Exchange, FlowInv, HandlersOK, CodeExchangedOnce
  <2>2. states[a].status = "consumed"
    BY <2>1 DEF FlowInv, Unexchanged, InFlow
  <2>3. /\ \A b \in Auths \ {a} : grants'[b] = grants[b]
        /\ \/ handlers'[h].pc = "ended"
           \/ /\ handlers'[h].pc = "saving" /\ handlers'[h].auth = a
              /\ handlers'[h].refresh => grants'[a] # "none"
        /\ \A g \in Handlers \ {h} : handlers'[g] = handlers[g]
    <3>1. PICK refresh \in BOOLEAN :
            /\ IF refresh
               THEN \E status \in {"valid", "unreadable"} :
                       grants' = [grants EXCEPT ![a] = status]
               ELSE UNCHANGED grants
            /\ \/ EndHandler(h)
               \/ \E granted \in SUBSET Scopes :
                     handlers' = [handlers EXCEPT ![h] =
                       [pc |-> "saving", auth |-> a, granted |-> granted,
                        refresh |-> refresh]]
      BY <1>5 DEF Exchange
    <3>2. /\ \A b \in Auths \ {a} : grants'[b] = grants[b]
          /\ refresh => grants'[a] # "none"
      BY <2>1, <3>1 DEF TypeOK
    <3> QED  BY <3>1, <3>2, EndHandlerEffect DEF TypeOK
  <2> HIDE DEF a
  <2>4. Declines
    BY <2>1, <2>3 DEF Declines, Ended
  <2>5. Unexchanged'
    BY <2>1, <2>2, <2>3 DEF FlowInv, Unexchanged, InFlow
  <2>6. CodeExchangedOnce'
    <3>1. \A g \in Handlers \ {h} : InFlow(g) => handlers[g].auth # a
      BY <2>1 DEF FlowInv, CodeExchangedOnce, InFlow, a
    <3> QED  BY <2>1, <2>3, <3>1 DEF FlowInv, CodeExchangedOnce, InFlow, HandlersOK, a
  <2>7. HandlersOK'
    BY <2>1, <2>3, <2>4 DEF FlowInv, HandlersOK, Declines, a
  <2> QED  BY <2>4, <2>5, <2>6, <2>7 DEF FlowInv
<1>6. ASSUME NEW h \in Handlers, Save(h) \/ HandlerFails(h)
      PROVE  FlowInv' /\ Declines
  BY <1>6, EndHandlerFlow DEF Save, HandlerFails
<1> QED  BY <1>1, <1>2, <1>3, <1>4, <1>5, <1>6

LEMMA RefreshKeepsFlow ==
  ASSUME FlowInv,
         \/ \E k \in Keys : \/ LoadCredential(k) \/ RejectGrant(k) \/ MarkReauthRequired(k)
                             \/ RefreshFails(k) \/ Settle(k)
                             \/ \E t \in Tokens : IssueToken(k, t)
         \/ \E c \in Calls :
              \/ \E p \in Processes, scope \in Scopes : StartCall(c, p, scope)
              \/ Requested(c) \/ Unauthorized(c) \/ UnauthorizedAgain(c)
         \/ \E p \in Processes : CacheExpires(p) \/ Restart(p)
         \/ \E t \in Tokens : TokenExpires(t)
  PROVE  FlowInv' /\ Declines
<1>1. UNCHANGED <<states, handlers, grants>>
  BY DEF LoadCredential, RejectGrant, MarkReauthRequired, RefreshFails, Settle, IssueToken,
     StartCall, Requested, Unauthorized, UnauthorizedAgain, CacheExpires, Restart,
     TokenExpires, oauthVars
<1> QED  BY <1>1, FlowKept

LEMMA FlowInvStep == TypeOK /\ FlowInv /\ [Next]_vars => FlowInv' /\ Declines
<1> SUFFICES ASSUME TypeOK, FlowInv, [Next]_vars PROVE FlowInv' /\ Declines
  OBVIOUS
<1>1. CASE UNCHANGED vars
  BY <1>1, FlowKept DEF vars
<1>2. CASE Next
  BY <1>2, FlowStep, RefreshKeepsFlow DEF Next, Keys
<1> QED  BY <1>1, <1>2

(* However often a callback is delivered, and however its handlers overlap, *)
(* an authorization code is exchanged once.                                 *)
THEOREM CodesAreExchangedOnce == Spec => []CodeExchangedOnce
<1>1. Init => TypeOK /\ FlowInv
  BY TypeInit, FlowInit
<1>2. TypeOK /\ FlowInv /\ [Next]_vars => (TypeOK /\ FlowInv)'
  BY TypeStep, FlowInvStep
<1>3. FlowInv => CodeExchangedOnce
  BY DEF FlowInv
<1> QED  BY <1>1, <1>2, <1>3, PTL DEF Spec

-----------------------------------------------------------------------------
(* The row, and what the refreshes under way know of it. *)

RowOK == row.status # "absent" => row.grant \in Auths /\ grants[row.grant] # "none"

(* A refresh works with a token that exists, and marks the row only after   *)
(* it found that token useless.                                             *)
RefreshOK ==
    \A k \in Keys :
        /\ refreshes[k].pc \in {"exchanging", "marking"} =>
             refreshes[k].grant \in Auths /\ grants[refreshes[k].grant] # "none"
        /\ refreshes[k].pc = "marking" => grants[refreshes[k].grant] \in Ended

RowInv == RowOK /\ RefreshOK /\ ReauthOnlyIfRejected

LEMMA RowInit == Init => RowInv
  BY DEF Init, RowInv, RowOK, RefreshOK, ReauthOnlyIfRejected, NoRefresh, Keys

LEMMA RowKept ==
  ASSUME RowInv, Declines, UNCHANGED row
  PROVE  RowOK' /\ ReauthOnlyIfRejected'
  BY DEF RowInv, RowOK, ReauthOnlyIfRejected, Declines, Ended

(* Every refresh stays what it was, or starts over.                         *)
LEMMA RefreshesKept ==
  ASSUME RowInv, Declines,
         \A k \in Keys :
            \/ refreshes'[k] = refreshes[k]
            \/ refreshes'[k].pc \notin {"exchanging", "marking"}
  PROVE  RefreshOK'
  BY DEF RowInv, RefreshOK, Declines

LEMMA SettleWithEffect ==
  ASSUME TypeOK, NEW k \in Keys, NEW outcome, SettleWith(k, outcome)
  PROVE  /\ refreshes'[k].pc = "settling"
         /\ refreshes'[k].outcome = outcome
         /\ \A l \in Keys \ {k} : refreshes'[l] = refreshes[l]
  BY RefreshesType DEF SettleWith, NoRefresh

LEMMA IssueEffect ==
  ASSUME TypeOK, NEW k \in Keys, NEW t \in Tokens, IssueToken(k, t)
  PROVE  /\ refreshes'[k].pc = "settling" /\ refreshes'[k].outcome = "token"
         /\ refreshes'[k].token = t /\ refreshes'[k].scopes = refreshes[k].scopes
         /\ \A l \in Keys \ {k} : refreshes'[l] = refreshes[l]
<1>1. refreshes' = [refreshes EXCEPT ![k] = [refreshes[k] EXCEPT
                      !.pc = "settling", !.outcome = "token", !.token = t]]
  BY RefreshesType DEF IssueToken
<1>2. refreshes'[k] = [refreshes[k] EXCEPT
                      !.pc = "settling", !.outcome = "token", !.token = t]
  BY <1>1, RefreshesType
<1>3. refreshes[k] \in Refresh
  BY RefreshesType
<1>4. \A l \in Keys \ {k} : refreshes'[l] = refreshes[l]
  BY <1>1, RefreshesType
<1> QED  BY <1>2, <1>3, <1>4 DEF Refresh

LEMMA GetEffect ==
  ASSUME TypeOK, NEW c, NEW call, NEW hit \in BOOLEAN, Get(c, call, hit)
  PROVE  \A k \in Keys : \/ refreshes'[k] = refreshes[k]
                          \/ /\ refreshes'[k].pc = "loading"
                             /\ refreshes'[k] = [refreshes[k] EXCEPT !.pc = "loading"]
                             /\ refreshes[k].pc = "idle"
<1> DEFINE k == <<call.proc, call.scope>>
<1>1. CASE hit
  BY <1>1 DEF Get
<1>2. CASE ~hit
  <2>1. refreshes' = refreshes \/ /\ refreshes[k].pc = "idle"
                                  /\ refreshes' = [refreshes EXCEPT ![k].pc = "loading"]
    BY <1>2 DEF Get
  <2> HIDE DEF k
  <2>2. \A l \in Keys : [refreshes[l] EXCEPT !.pc = "loading"].pc = "loading"
    BY RefreshesType DEF Refresh
  <2> QED  BY <2>1, <2>2, RefreshesType
<1> QED  BY <1>1, <1>2

LEMMA RowFlowStep ==
  ASSUME TypeOK, FlowInv, RowInv, Declines,
         \/ \E a \in Auths : \/ \E purpose \in Scopes : Begin(a, purpose)
                              \/ StateExpires(a) \/ Revoke(a)
                              \/ \E h \in Handlers : Callback(h, a)
         \/ \E h \in Handlers : Consume(h) \/ Exchange(h) \/ Save(h) \/ HandlerFails(h)
  PROVE  RowInv'
<1>1. UNCHANGED refreshes
  BY DEF Begin, StateExpires, Revoke, Callback, Consume, Exchange, Save, HandlerFails, tokenVars
<1>2. RefreshOK'
  BY <1>1, RefreshesKept
<1>3. ASSUME NEW h \in Handlers, Save(h)
      PROVE  RowOK' /\ ReauthOnlyIfRejected'
  <2>1. CASE handlers[h].refresh
    <3>1. /\ handlers[h].auth \in Auths /\ grants'[handlers[h].auth] # "none"
          /\ row' = [status |-> "connected", grant |-> handlers[h].auth,
                     scopes |-> handlers[h].granted]
      BY <1>3, <2>1 DEF Save, FlowInv, HandlersOK
    <3> QED  BY <3>1 DEF RowOK, ReauthOnlyIfRejected
  <2>2. CASE ~handlers[h].refresh
    <3>1. row'.status = "connected" /\ row'.grant = row.grant /\ row.status = "connected"
          /\ UNCHANGED grants
      BY <1>3, <2>2 DEF Save, TypeOK, Row
    <3> QED  BY <3>1 DEF RowInv, RowOK, ReauthOnlyIfRejected
  <2> QED  BY <2>1, <2>2
<1>4. UNCHANGED row \/ \E h \in Handlers : Save(h)
  BY DEF Begin, StateExpires, Revoke, Callback, Consume, Exchange, HandlerFails
<1> QED  BY <1>2, <1>3, <1>4, RowKept DEF RowInv

LEMMA RowRefreshStep ==
  ASSUME TypeOK, RowInv, Declines, NEW k \in Keys,
         \/ LoadCredential(k) \/ RejectGrant(k) \/ MarkReauthRequired(k)
         \/ RefreshFails(k) \/ Settle(k) \/ \E t \in Tokens : IssueToken(k, t)
  PROVE  RowInv'
<1>1. CASE LoadCredential(k)
  <2>1. UNCHANGED <<row, grants>>
    BY <1>1 DEF LoadCredential
  <2>2. CASE SettleWith(k, "refused") \/ SettleWith(k, "failed")
    BY <2>1, <2>2, SettleWithEffect, RefreshesKept, RowKept DEF RowInv
  <2>3. CASE ~(SettleWith(k, "refused") \/ SettleWith(k, "failed"))
    <3> DEFINE loaded == [NoRefresh EXCEPT
               !.pc = IF grants[row.grant] = "unreadable" THEN "marking" ELSE "exchanging",
               !.grant = row.grant, !.scopes = row.scopes]
    <3>1. row.status = "connected" /\ refreshes' = [refreshes EXCEPT ![k] = loaded]
      BY <1>1, <2>3 DEF LoadCredential
    <3>2. /\ loaded.grant = row.grant
          /\ loaded.pc = "marking" => grants[row.grant] = "unreadable"
      BY DEF NoRefresh
    <3> HIDE DEF loaded
    <3>3. refreshes'[k] = loaded /\ \A l \in Keys \ {k} : refreshes'[l] = refreshes[l]
      BY <3>1, RefreshesType
    <3>4. RefreshOK'
      BY <2>1, <3>1, <3>2, <3>3 DEF RowInv, RowOK, RefreshOK, Ended
    <3> QED  BY <2>1, <3>4, RowKept DEF RowInv
  <2> QED  BY <2>2, <2>3
<1>2. CASE RejectGrant(k)
  <2>1. /\ UNCHANGED <<row, grants>>
        /\ refreshes[k].pc = "exchanging" /\ grants[refreshes[k].grant] # "valid"
        /\ refreshes'[k].pc = "marking" /\ refreshes'[k].grant = refreshes[k].grant
        /\ \A l \in Keys \ {k} : refreshes'[l] = refreshes[l]
    BY <1>2, RefreshesType DEF RejectGrant, Refresh, oauthVars
  <2>2. grants[refreshes[k].grant] \in Ended
    BY <2>1 DEF RowInv, RefreshOK, TypeOK, GrantStatus, Ended
  <2>3. RefreshOK'
    BY <2>1, <2>2 DEF RowInv, RefreshOK
  <2> QED  BY <2>1, <2>3, RowKept DEF RowInv
<1>3. CASE MarkReauthRequired(k)
  <2>1. RefreshOK'
    BY <1>3, SettleWithEffect, RefreshesKept DEF MarkReauthRequired
  <2>2. CASE Markable(k)
    <3>1. /\ row'.status = "reauth_required" /\ row'.grant = row.grant
          /\ row.grant = refreshes[k].grant /\ row.status = "connected"
          /\ UNCHANGED grants /\ refreshes[k].pc = "marking"
      BY <1>3, <2>2 DEF MarkReauthRequired, Markable, TypeOK, Row
    <3> QED  BY <2>1, <3>1 DEF RowInv, RowOK, RefreshOK, ReauthOnlyIfRejected, Ended
  <2>3. CASE ~Markable(k)
    BY <1>3, <2>1, <2>3, RowKept DEF MarkReauthRequired, RowInv
  <2> QED  BY <2>2, <2>3
<1>4. CASE RefreshFails(k)
  BY <1>4, SettleWithEffect, RefreshesKept, RowKept DEF RefreshFails, RowInv
<1>5. CASE Settle(k)
  <2>1. /\ UNCHANGED row
        /\ refreshes'[k].pc = "idle" /\ \A l \in Keys \ {k} : refreshes'[l] = refreshes[l]
    BY <1>5, RefreshesType DEF Settle, NoRefresh
  <2> QED  BY <2>1, RefreshesKept, RowKept DEF RowInv
<1>6. ASSUME NEW t \in Tokens, IssueToken(k, t)
      PROVE  RowInv'
  <2>1. /\ UNCHANGED row
        /\ refreshes'[k].pc = "settling" /\ \A l \in Keys \ {k} : refreshes'[l] = refreshes[l]
    BY <1>6, IssueEffect DEF IssueToken
  <2> QED  BY <2>1, RefreshesKept, RowKept DEF RowInv
<1> QED  BY <1>1, <1>2, <1>3, <1>4, <1>5, <1>6

LEMMA RowOtherStep ==
  ASSUME TypeOK, RowInv, Declines,
         \/ \E c \in Calls :
              \/ \E p \in Processes, scope \in Scopes : StartCall(c, p, scope)
              \/ Requested(c) \/ Unauthorized(c) \/ UnauthorizedAgain(c)
         \/ \E p \in Processes : CacheExpires(p) \/ Restart(p)
         \/ \E t \in Tokens : TokenExpires(t)
  PROVE  RowInv'
<1>1. UNCHANGED row
  BY DEF StartCall, Requested, Unauthorized, UnauthorizedAgain, CacheExpires, Restart,
     TokenExpires
<1>2. RefreshOK'
  <2>1. ASSUME NEW c \in Calls, NEW p \in Processes, NEW scope \in Scopes,
               StartCall(c, p, scope)
        PROVE  RefreshOK'
    <3>1. CacheHit(p, scope) \in BOOLEAN
      BY DEF CacheHit, TypeOK, CacheEntry
    <3> QED  BY <2>1, <3>1, GetEffect, RefreshesKept DEF StartCall
  <2>2. ASSUME NEW c \in Calls, Unauthorized(c)
        PROVE  RefreshOK'
    BY <2>2, GetEffect, RefreshesKept DEF Unauthorized
  <2>3. ASSUME NEW p \in Processes, Restart(p)
        PROVE  RefreshOK'
    <3>1. \A k \in Keys : refreshes'[k] = refreshes[k] \/ refreshes'[k].pc = "idle"
      BY <2>3 DEF Restart, NoRefresh, Keys
    <3> QED  BY <3>1, RefreshesKept
  <2>4. CASE UNCHANGED refreshes
    BY <2>4, RefreshesKept
  <2> QED  BY <2>1, <2>2, <2>3, <2>4 DEF Requested, UnauthorizedAgain, CacheExpires, TokenExpires
<1> QED  BY <1>1, <1>2, RowKept DEF RowInv

ConnInv == TypeOK /\ FlowInv /\ RowInv

LEMMA ConnInvStep == ConnInv /\ [Next]_vars => ConnInv'
<1> SUFFICES ASSUME TypeOK, FlowInv, RowInv, [Next]_vars PROVE ConnInv'
  BY DEF ConnInv
<1>1. TypeOK' /\ FlowInv' /\ Declines
  BY TypeStep, FlowInvStep
<1>2. CASE UNCHANGED vars
  BY <1>1, <1>2, RowKept, RefreshesKept DEF vars, ConnInv, RowInv
<1>3. CASE Next
  BY <1>1, <1>3, RowFlowStep, RowRefreshStep, RowOtherStep DEF Next, ConnInv, Keys
<1> QED  BY <1>2, <1>3

LEMMA ConnInvariant == Spec => []ConnInv
<1>1. Init => ConnInv
  BY TypeInit, FlowInit, RowInit DEF ConnInv
<1> QED  BY <1>1, ConnInvStep, PTL DEF Spec

(* The connection is marked only while the refresh token it holds is        *)
(* useless: no late refresh undoes a new authorization.                     *)
THEOREM ReauthIsJustified == Spec => []ReauthOnlyIfRejected
<1>1. ConnInv => ReauthOnlyIfRejected
  BY DEF ConnInv, RowInv
<1> QED  BY <1>1, ConnInvariant, PTL


(* A refresh that newly answers AUTHENTICATION_REQUIRED.                    *)
NewlyRefused(k) == refreshes[k].outcome # "refused" /\ refreshes'[k].outcome = "refused"

LEMMA RefreshRefused ==
  ASSUME ConnInv, NEW k \in Keys, NEW l \in Keys, NewlyRefused(k),
         \/ LoadCredential(l) \/ RejectGrant(l) \/ MarkReauthRequired(l)
         \/ RefreshFails(l) \/ Settle(l) \/ \E t \in Tokens : IssueToken(l, t)
  PROVE  ~Usable
<1> USE DEF NewlyRefused
<1>1. TypeOK /\ RowInv
  BY DEF ConnInv
<1>2. CASE LoadCredential(l)
  <2>1. CASE row.status # "connected"
    BY <2>1 DEF Usable
  <2>2. CASE SettleWith(l, "failed")
    BY <1>1, <2>2, SettleWithEffect
  <2>3. CASE row.status = "connected" /\ ~SettleWith(l, "failed")
    <3> DEFINE loaded == [NoRefresh EXCEPT
               !.pc = IF grants[row.grant] = "unreadable" THEN "marking" ELSE "exchanging",
               !.grant = row.grant, !.scopes = row.scopes]
    <3>1. refreshes' = [refreshes EXCEPT ![l] = loaded]
      BY <1>2, <2>3 DEF LoadCredential
    <3>2. loaded.outcome = "none"
      BY DEF NoRefresh
    <3> HIDE DEF loaded
    <3> QED  BY <1>1, <3>1, <3>2, RefreshesType
  <2> QED  BY <2>1, <2>2, <2>3
<1>3. CASE RejectGrant(l)
  BY <1>1, <1>3, RefreshesType DEF RejectGrant, Refresh
<1>4. CASE MarkReauthRequired(l)
  <2>1. CASE Markable(l)
    BY <1>1, <1>4, <2>1 DEF MarkReauthRequired, Markable, Usable, RowInv, RefreshOK, Ended
  <2>2. CASE ~Markable(l)
    BY <1>1, <1>4, <2>2, SettleWithEffect DEF MarkReauthRequired
  <2> QED  BY <2>1, <2>2
<1>5. CASE RefreshFails(l)
  BY <1>1, <1>5, SettleWithEffect DEF RefreshFails
<1>6. CASE Settle(l)
  BY <1>1, <1>6, RefreshesType DEF Settle, NoRefresh
<1>7. ASSUME NEW t \in Tokens, IssueToken(l, t)
      PROVE  ~Usable
  BY <1>1, <1>7, IssueEffect
<1> QED  BY <1>2, <1>3, <1>4, <1>5, <1>6, <1>7

LEMMA OtherNotRefused ==
  ASSUME TypeOK, NEW k \in Keys,
         \/ \E a \in Auths : \/ \E purpose \in Scopes : Begin(a, purpose)
                              \/ StateExpires(a) \/ Revoke(a)
                              \/ \E h \in Handlers : Callback(h, a)
         \/ \E h \in Handlers : Consume(h) \/ Exchange(h) \/ Save(h) \/ HandlerFails(h)
         \/ \E c \in Calls :
              \/ \E p \in Processes, scope \in Scopes : StartCall(c, p, scope)
              \/ Requested(c) \/ Unauthorized(c) \/ UnauthorizedAgain(c)
         \/ \E p \in Processes : CacheExpires(p) \/ Restart(p)
         \/ \E t \in Tokens : TokenExpires(t)
  PROVE  ~NewlyRefused(k)
<1>1. CASE UNCHANGED refreshes
  BY <1>1 DEF NewlyRefused
<1>2. ASSUME NEW c, NEW call, NEW hit \in BOOLEAN, Get(c, call, hit)
      PROVE  ~NewlyRefused(k)
  <2>1. \/ refreshes'[k] = refreshes[k]
        \/ refreshes'[k] = [refreshes[k] EXCEPT !.pc = "loading"]
    BY <1>2, GetEffect
  <2>2. [refreshes[k] EXCEPT !.pc = "loading"].outcome = refreshes[k].outcome
    BY RefreshesType DEF Refresh
  <2> QED  BY <2>1, <2>2 DEF NewlyRefused
<1>3. ASSUME NEW p \in Processes, Restart(p)
      PROVE  ~NewlyRefused(k)
  BY <1>3 DEF Restart, NoRefresh, NewlyRefused, Keys
<1>4. ASSUME NEW p \in Processes, NEW scope \in Scopes
      PROVE  CacheHit(p, scope) \in BOOLEAN
  BY DEF CacheHit, TypeOK, CacheEntry
<1> QED
  BY <1>1, <1>2, <1>3, <1>4 DEF Begin, StateExpires, Revoke, Callback, Consume, Exchange, Save,
     HandlerFails, StartCall, Requested, Unauthorized, UnauthorizedAgain, CacheExpires,
     TokenExpires, tokenVars

(* A refresh tells a Job that the user must authorize again, which ends the *)
(* Job for good, only when it found the connection unusable.                *)
THEOREM RefusalIsJustified == Spec => RefusedOnlyIfUnusable
<1> DEFINE Step == \A k \in Keys : NewlyRefused(k) => ~Usable
<1>1. ConnInv /\ [Next]_vars => [Step]_vars
  <2> SUFFICES ASSUME ConnInv, Next, NEW k \in Keys, NewlyRefused(k) PROVE ~Usable
    OBVIOUS
  <2>1. TypeOK
    BY DEF ConnInv
  <2> QED  BY <2>1, RefreshRefused, OtherNotRefused DEF Next, Keys
<1>2. [Step]_vars => [\A k \in Processes \X Scopes :
        refreshes[k].outcome # "refused" /\ refreshes'[k].outcome = "refused" => ~Usable]_vars
  BY DEF NewlyRefused, Keys
<1> QED  BY <1>1, <1>2, ConnInvariant, PTL DEF Spec, RefusedOnlyIfUnusable

-----------------------------------------------------------------------------
(* Access tokens: where one is found, and that a refresh brings a new one.  *)

Issued(x) == x \in Tokens /\ tokens[x].grant # None

CacheOK ==
    \A p \in Processes : cache[p].token # None =>
        Issued(cache[p].token) /\ cache[p].scopes = tokens[cache[p].token].scopes

(* A refresh with a token that nobody has seen yet.                         *)
Brings(k) == refreshes[k].outcome = "token"

BringsOK ==
    \A k \in Keys :
        /\ refreshes[k].pc = "exchanging" => k[2] \in refreshes[k].scopes
        /\ Brings(k) => /\ Issued(refreshes[k].token)
                        /\ refreshes[k].scopes = tokens[refreshes[k].token].scopes
                        /\ k[2] \in refreshes[k].scopes

CallsOK ==
    \A c \in Calls :
        /\ calls[c].token # None => Issued(calls[c].token)
        /\ calls[c].rejected # None => Issued(calls[c].rejected)
        /\ calls[c].pc = "waiting" => calls[c].token = None

Unseen(x) ==
    /\ \A p \in Processes : cache[p].token # x
    /\ \A c \in Calls : calls[c].token # x /\ calls[c].rejected # x

NewOK ==
    \A k \in Keys : Brings(k) =>
        /\ Unseen(refreshes[k].token)
        /\ \A l \in Keys : Brings(l) /\ refreshes[l].token = refreshes[k].token => l = k

TokenInv == CacheOK /\ BringsOK /\ CallsOK /\ NewOK /\ ScopesServed /\ RetryUsesNewToken

TokensLast ==
    \A x \in Tokens : tokens[x].grant # None =>
        tokens'[x].grant # None /\ tokens'[x].scopes = tokens[x].scopes

LEMMA TokenInit == Init => TokenInv
  BY DEF Init, TokenInv, CacheOK, BringsOK, CallsOK, NewOK, ScopesServed, RetryUsesNewToken,
     Brings, NoEntry, NoRefresh, NoCall, Keys

LEMMA TokensLastStep == ConnInv /\ [Next]_vars => TokensLast
<1> SUFFICES ASSUME ConnInv, [Next]_vars PROVE TokensLast
  OBVIOUS
<1> TypeOK /\ RowInv
  BY DEF ConnInv
<1>1. CASE UNCHANGED tokens
  BY <1>1 DEF TokensLast
<1>2. ASSUME NEW k \in Keys, NEW t \in Tokens, IssueToken(k, t)
      PROVE  TokensLast
  BY <1>2 DEF IssueToken, TokensLast, TypeOK
<1>3. ASSUME NEW t \in Tokens, TokenExpires(t)
      PROVE  TokensLast
  BY <1>3 DEF TokenExpires, TokensLast, TypeOK, Token
<1>4. ASSUME NEW a \in Auths, Revoke(a)
      PROVE  TokensLast
  <2>1. \A x \in Tokens : /\ [tokens[x] EXCEPT !.live = FALSE].grant = tokens[x].grant
                          /\ [tokens[x] EXCEPT !.live = FALSE].scopes = tokens[x].scopes
    BY DEF TypeOK, Token
  <2>2. tokens' = [t \in Tokens |-> IF tokens[t].grant = a
                                   THEN [tokens[t] EXCEPT !.live = FALSE] ELSE tokens[t]]
    BY <1>4 DEF Revoke
  <2> QED  BY <2>1, <2>2 DEF TokensLast
<1>5. \/ UNCHANGED tokens
      \/ \E k \in Keys, t \in Tokens : IssueToken(k, t)
      \/ \E t \in Tokens : TokenExpires(t)
      \/ \E a \in Auths : Revoke(a)
  BY DEF Next, vars, Keys, tokenVars, Begin, StateExpires, Callback, Consume, Exchange, Save,
     HandlerFails, LoadCredential, RejectGrant, MarkReauthRequired, RefreshFails, Settle,
     StartCall, Requested, Unauthorized, UnauthorizedAgain, CacheExpires, Restart
<1> QED  BY <1>1, <1>2, <1>3, <1>4, <1>5

(* Steps that bring no token to anybody.                                    *)
QuietCache ==
    \A p \in Processes :
        \/ cache'[p].token = cache[p].token /\ cache'[p].scopes = cache[p].scopes
        \/ cache'[p].token = None

QuietRefreshes ==
    \A k \in Keys :
        /\ \/ refreshes'[k].outcome # "token"
           \/ /\ refreshes'[k].outcome = refreshes[k].outcome
              /\ refreshes'[k].token = refreshes[k].token
              /\ refreshes'[k].scopes = refreshes[k].scopes
        /\ refreshes'[k].pc = "exchanging" => k[2] \in refreshes'[k].scopes

QuietCalls ==
    \A c \in Calls :
        \/ calls'[c] = calls[c]
        \/ /\ calls'[c].pc \in {"idle", "waiting"} /\ calls'[c].token = None
           /\ calls'[c].rejected \in {None, calls[c].token, calls[c].rejected}

LEMMA QuietStep ==
  ASSUME TokenInv, TokensLast, QuietCache, QuietRefreshes, QuietCalls
  PROVE  TokenInv'
<1> USE DEF TokenInv
<1>1. CacheOK'
  BY DEF CacheOK, Issued, TokensLast, QuietCache
<1>2. BringsOK'
  BY DEF BringsOK, Brings, Issued, TokensLast, QuietRefreshes
<1>3. CallsOK'
  BY DEF CallsOK, Issued, TokensLast, QuietCalls
<1>4. NewOK'
  <2>1. ASSUME NEW k \in Keys, Brings(k)'
        PROVE  /\ Brings(k) /\ refreshes'[k].token = refreshes[k].token
               /\ refreshes[k].token # None
    BY <2>1, ConnectionAssumption DEF QuietRefreshes, Brings, BringsOK, Issued
  <2>2. ASSUME NEW k \in Keys, Brings(k)'
        PROVE  Unseen(refreshes[k].token)'
    <3>1. Unseen(refreshes[k].token)
      BY <2>1, <2>2 DEF NewOK
    <3> QED  BY <2>1, <2>2, <3>1 DEF Unseen, QuietCache, QuietCalls
  <2> QED  BY <2>1, <2>2 DEF NewOK, Unseen
<1>5. ScopesServed'
  BY ConnectionAssumption DEF ScopesServed, CallsOK, Issued, TokensLast, QuietCalls
<1>6. RetryUsesNewToken'
  BY DEF RetryUsesNewToken, QuietCalls
<1> QED  BY <1>1, <1>2, <1>3, <1>4, <1>5, <1>6

(* A step of one refresh is quiet if it is for that refresh.                *)
LEMMA QuietRefresh ==
  ASSUME TokenInv, UNCHANGED <<cache, calls>>, NEW k \in Keys,
         \A l \in Keys \ {k} : refreshes'[l] = refreshes[l],
         refreshes'[k].outcome # "token",
         refreshes'[k].pc = "exchanging" => k[2] \in refreshes'[k].scopes
  PROVE  QuietCache /\ QuietRefreshes /\ QuietCalls
<1>1. QuietCache /\ QuietCalls
  BY DEF QuietCache, QuietCalls
<1>2. QuietRefreshes
  BY DEF QuietRefreshes, TokenInv, BringsOK
<1> QED  BY <1>1, <1>2

LEMMA RefreshIsQuiet ==
  ASSUME ConnInv, TokenInv, NEW k \in Keys,
         \/ LoadCredential(k) \/ RejectGrant(k) \/ MarkReauthRequired(k) \/ RefreshFails(k)
  PROVE  QuietCache /\ QuietRefreshes /\ QuietCalls
<1> TypeOK
  BY DEF ConnInv
<1>1. ASSUME NEW outcome \in {"refused", "failed"}, SettleWith(k, outcome),
             UNCHANGED <<cache, calls>>
      PROVE  QuietCache /\ QuietRefreshes /\ QuietCalls
  BY <1>1, SettleWithEffect, QuietRefresh
<1>2. CASE LoadCredential(k)
  <2>1. CASE row.status # "connected" \/ k[2] \notin row.scopes
    BY <1>1, <1>2, <2>1 DEF LoadCredential
  <2>2. CASE row.status = "connected" /\ k[2] \in row.scopes
    <3> DEFINE new == [NoRefresh EXCEPT
                 !.pc = IF grants[row.grant] = "unreadable" THEN "marking" ELSE "exchanging",
                 !.grant = row.grant, !.scopes = row.scopes]
    <3>1. refreshes' = [refreshes EXCEPT ![k] = new] /\ UNCHANGED <<cache, calls>>
      BY <1>2, <2>2 DEF LoadCredential
    <3>2. new.scopes = row.scopes /\ new.outcome = "none"
      BY DEF NoRefresh
    <3> HIDE DEF new
    <3>3. /\ refreshes'[k] = new
          /\ \A l \in Keys \ {k} : refreshes'[l] = refreshes[l]
      BY <3>1, RefreshesType
    <3> QED  BY <2>2, <3>1, <3>2, <3>3, QuietRefresh
  <2> QED  BY <2>1, <2>2
<1>3. CASE RejectGrant(k)
  <2>1. /\ refreshes[k].pc = "exchanging" /\ UNCHANGED <<cache, calls>>
        /\ refreshes' = [refreshes EXCEPT ![k] = [refreshes[k] EXCEPT !.pc = "marking"]]
    BY <1>3, RefreshesType DEF RejectGrant
  <2>2. /\ [refreshes[k] EXCEPT !.pc = "marking"].pc = "marking"
        /\ [refreshes[k] EXCEPT !.pc = "marking"].outcome = refreshes[k].outcome
        /\ [refreshes[k] EXCEPT !.pc = "marking"].token = refreshes[k].token
        /\ [refreshes[k] EXCEPT !.pc = "marking"].scopes = refreshes[k].scopes
    BY RefreshesType DEF Refresh
  <2>3. QuietRefreshes
    BY <2>1, <2>2, RefreshesType DEF QuietRefreshes, TokenInv, BringsOK
  <2>4. QuietCache /\ QuietCalls
    BY <2>1 DEF QuietCache, QuietCalls
  <2> QED  BY <2>3, <2>4
<1>4. CASE MarkReauthRequired(k)
  BY <1>1, <1>4 DEF MarkReauthRequired
<1>5. CASE RefreshFails(k)
  BY <1>1, <1>5 DEF RefreshFails
<1> QED  BY <1>2, <1>3, <1>4, <1>5

LEMMA QuietAll ==
  ASSUME TokenInv, UNCHANGED <<refreshes, calls>>, QuietCache
  PROVE  QuietRefreshes /\ QuietCalls
  BY DEF QuietRefreshes, QuietCalls, TokenInv, BringsOK

LEMMA CacheKept == UNCHANGED cache => QuietCache
  BY DEF QuietCache

(* A get that misses the cache.                                             *)
LEMMA MissIsQuiet ==
  ASSUME TypeOK, TokenInv, NEW c \in Calls, NEW call \in Call, Get(c, call, FALSE),
         call.rejected \in {None, calls[c].token, calls[c].rejected}
  PROVE  QuietRefreshes /\ QuietCalls
<1>1. \A k \in Keys : [refreshes[k] EXCEPT !.pc = "loading"].outcome = refreshes[k].outcome
                    /\ [refreshes[k] EXCEPT !.pc = "loading"].token = refreshes[k].token
                    /\ [refreshes[k] EXCEPT !.pc = "loading"].scopes = refreshes[k].scopes
  BY RefreshesType DEF Refresh
<1>2. QuietRefreshes
  <2>1. SUFFICES ASSUME NEW k \in Keys
                 PROVE  /\ refreshes'[k].outcome = refreshes[k].outcome
                        /\ refreshes'[k].token = refreshes[k].token
                        /\ refreshes'[k].scopes = refreshes[k].scopes
                        /\ refreshes'[k].pc = "exchanging" => k[2] \in refreshes'[k].scopes
    BY DEF QuietRefreshes
  <2> QED  BY <1>1, GetEffect DEF TokenInv, BringsOK
<1>3. calls' = [calls EXCEPT ![c] = [call EXCEPT !.pc = "waiting", !.token = None]]
  BY DEF Get
<1>4. /\ [call EXCEPT !.pc = "waiting", !.token = None].pc = "waiting"
      /\ [call EXCEPT !.pc = "waiting", !.token = None].token = None
      /\ [call EXCEPT !.pc = "waiting", !.token = None].rejected = call.rejected
  BY DEF Call
<1>5. QuietCalls
  BY <1>3, <1>4 DEF QuietCalls, TypeOK
<1> QED  BY <1>2, <1>5

LEMMA CallIsQuiet ==
  ASSUME TypeOK, TokenInv, NEW c \in Calls,
         Requested(c) \/ Unauthorized(c) \/ UnauthorizedAgain(c)
  PROVE  QuietCache /\ QuietRefreshes /\ QuietCalls
<1>1. CASE Requested(c) \/ UnauthorizedAgain(c)
  <2>1. calls' = [calls EXCEPT ![c] = NoCall] /\ UNCHANGED <<cache, refreshes>>
    BY <1>1 DEF Requested, UnauthorizedAgain
  <2>2. QuietCalls
    <3>1. NoCall.pc = "idle" /\ NoCall.token = None /\ NoCall.rejected = None
      BY DEF NoCall
    <3> QED  BY <2>1, <3>1 DEF QuietCalls, TypeOK
  <2>3. QuietCache /\ QuietRefreshes
    BY <2>1 DEF QuietCache, QuietRefreshes, TokenInv, BringsOK
  <2> QED  BY <2>2, <2>3
<1>2. CASE Unauthorized(c)
  <2> DEFINE again == [calls[c] EXCEPT !.try = 2, !.rejected = calls[c].token]
  <2>1. Get(c, again, FALSE) /\ cache' = [cache EXCEPT ![calls[c].proc] = NoEntry]
    BY <1>2 DEF Unauthorized
  <2>2. again \in Call /\ again.rejected = calls[c].token
    <3>1. calls[c] \in Call
      BY DEF TypeOK
    <3> QED  BY <3>1 DEF Call
  <2>3. QuietCache
    <3>1. \A p \in Processes : cache'[p] = cache[p] \/ cache'[p] = NoEntry
      BY <2>1 DEF TypeOK
    <3> QED  BY <3>1 DEF QuietCache, NoEntry
  <2> HIDE DEF again
  <2>4. QuietRefreshes /\ QuietCalls
    BY <2>1, <2>2, MissIsQuiet
  <2> QED  BY <2>3, <2>4
<1> QED  BY <1>1, <1>2

LEMMA RestartIsQuiet ==
  ASSUME TypeOK, TokenInv, NEW p \in Processes, Restart(p)
  PROVE  QuietCache /\ QuietRefreshes /\ QuietCalls
<1>1. QuietCache
  BY DEF Restart, QuietCache, NoEntry, TypeOK
<1>2. QuietRefreshes
  BY DEF Restart, QuietRefreshes, NoRefresh, TokenInv, BringsOK, Keys
<1>3. QuietCalls
  BY DEF Restart, QuietCalls, NoCall
<1> QED  BY <1>1, <1>2, <1>3

-----------------------------------------------------------------------------
(* The steps that do bring a token. *)

(* Google issues a token that was never issued: nobody has seen it.         *)
LEMMA IssueStep ==
  ASSUME ConnInv, TokenInv, TokensLast, NEW k \in Keys, NEW t \in Tokens, IssueToken(k, t)
  PROVE  TokenInv'
<1> TypeOK /\ RowInv
  BY DEF ConnInv
<1> USE DEF TokenInv
<1>1. /\ refreshes'[k].pc = "settling" /\ refreshes'[k].outcome = "token"
      /\ refreshes'[k].token = t /\ refreshes'[k].scopes = refreshes[k].scopes
      /\ \A l \in Keys \ {k} : refreshes'[l] = refreshes[l]
  BY IssueEffect
<1>2. /\ refreshes[k].pc = "exchanging" /\ tokens[t].grant = None
      /\ UNCHANGED <<cache, calls>>
      /\ tokens'[t].grant # None /\ tokens'[t].scopes = refreshes[k].scopes
  <2>1. refreshes[k].pc = "exchanging" /\ refreshes[k].grant \in Auths
    BY DEF IssueToken, RowInv, RefreshOK
  <2> QED  BY <2>1, ConnectionAssumption DEF IssueToken, TypeOK
<1>3. ~Issued(t) /\ Issued(t)' /\ \A x : Issued(x) => Issued(x)' /\ x # t
  BY <1>2 DEF Issued, TokensLast
<1>4. CacheOK'
  BY <1>2, <1>3 DEF CacheOK, Issued, TokensLast
<1>5. BringsOK'
  BY <1>1, <1>2, <1>3 DEF BringsOK, Brings, Issued, TokensLast
<1>6. CallsOK'
  BY <1>2, <1>3 DEF CallsOK
<1>7. NewOK'
  <2>1. t # None
    BY ConnectionAssumption
  <2>2. Unseen(t)
    BY <1>3, <2>1 DEF Unseen, CacheOK, CallsOK
  <2>3. ASSUME NEW l \in Keys \ {k}, Brings(l)'
        PROVE  Brings(l) /\ refreshes'[l].token = refreshes[l].token /\ refreshes[l].token # t
    BY <1>1, <1>3, <2>3 DEF Brings, BringsOK
  <2>4. \A x : Unseen(x) => Unseen(x)'
    BY <1>2 DEF Unseen
  <2> QED  BY <1>1, <2>2, <2>3, <2>4 DEF NewOK, Brings
<1>8. ScopesServed' /\ RetryUsesNewToken'
  BY <1>2, ConnectionAssumption DEF ScopesServed, RetryUsesNewToken, CallsOK, Issued, TokensLast
<1> QED  BY <1>4, <1>5, <1>6, <1>7, <1>8

(* A refresh settles: its token goes to the cache and to every call that    *)
(* waits for it.                                                            *)
LEMMA SettleStep ==
  ASSUME ConnInv, TokenInv, NEW k \in Keys, Settle(k)
  PROVE  TokenInv'
<1> TypeOK
  BY DEF ConnInv
<1> USE DEF TokenInv
<1> DEFINE t == refreshes[k].token
<1> DEFINE served(c) == calls[c].pc = "waiting" /\ <<calls[c].proc, calls[c].scope>> = k
<1>1. /\ refreshes'[k].pc = "idle" /\ refreshes'[k].outcome = "none"
      /\ \A l \in Keys \ {k} : refreshes'[l] = refreshes[l]
      /\ UNCHANGED tokens
  BY RefreshesType DEF Settle, NoRefresh
<1>2. BringsOK'
  BY <1>1 DEF BringsOK, Brings, Issued
<1>3. ASSUME NEW c \in Calls
      PROVE  \/ calls'[c] = calls[c] /\ ~served(c)
             \/ calls'[c] = NoCall
             \/ /\ Brings(k) /\ served(c)
                /\ calls'[c] = [calls[c] EXCEPT !.pc = "requesting", !.token = t]
  BY DEF Settle, Brings
<1>4. ASSUME NEW c \in Calls
      PROVE  \/ calls'[c] = calls[c]
             \/ calls'[c].pc = "idle" /\ calls'[c].token = None /\ calls'[c].rejected = None
             \/ /\ Brings(k) /\ calls'[c].pc = "requesting" /\ calls'[c].token = t
                /\ calls'[c].rejected = calls[c].rejected
                /\ calls'[c].scope = k[2]
  <2>1. calls[c] \in Call
    BY DEF TypeOK
  <2>2. [calls[c] EXCEPT !.pc = "requesting", !.token = t].rejected = calls[c].rejected
        /\ [calls[c] EXCEPT !.pc = "requesting", !.token = t].scope = calls[c].scope
        /\ [calls[c] EXCEPT !.pc = "requesting", !.token = t].token = t
        /\ [calls[c] EXCEPT !.pc = "requesting", !.token = t].pc = "requesting"
    BY <2>1 DEF Call
  <2>3. served(c) => calls[c].scope = k[2]
    OBVIOUS
  <2> HIDE DEF served, t
  <2>4. NoCall.pc = "idle" /\ NoCall.token = None /\ NoCall.rejected = None
    BY DEF NoCall
  <2>5. CASE calls'[c] = NoCall
    BY <2>4, <2>5
  <2>6. CASE /\ Brings(k) /\ served(c)
             /\ calls'[c] = [calls[c] EXCEPT !.pc = "requesting", !.token = t]
    BY <2>2, <2>3, <2>6
  <2> QED  BY <1>3, <2>5, <2>6
<1>5. ASSUME NEW p \in Processes
      PROVE  \/ cache'[p] = cache[p]
             \/ /\ Brings(k) /\ cache'[p].token = t
                /\ cache'[p].scopes = refreshes[k].scopes
  BY DEF Settle, TypeOK, Brings
<1>6. Brings(k) => /\ Issued(t) /\ refreshes[k].scopes = tokens[t].scopes
                   /\ k[2] \in tokens[t].scopes /\ Unseen(t) /\ t # None
  BY ConnectionAssumption DEF BringsOK, NewOK, Issued
<1> HIDE DEF served, t
<1>7. CacheOK'
  BY <1>1, <1>5, <1>6 DEF CacheOK, Issued
<1>8. CallsOK'
  BY <1>1, <1>4, <1>6 DEF CallsOK, Issued
<1>9. NewOK'
  <2>1. ASSUME NEW l \in Keys, Brings(l)'
        PROVE  /\ l # k /\ refreshes'[l] = refreshes[l] /\ Brings(l)
               /\ refreshes[l].token # None /\ Unseen(refreshes[l].token)
               /\ (Brings(k) => t # refreshes[l].token)
    BY <1>1, <2>1, ConnectionAssumption DEF Brings, NewOK, BringsOK, Issued, t
  <2>2. ASSUME NEW l \in Keys, Brings(l)'
        PROVE  Unseen(refreshes[l].token)'
    BY <1>4, <1>5, <2>1, <2>2 DEF Unseen
  <2> QED  BY <2>1, <2>2 DEF NewOK, Brings
<1>10. ScopesServed'
  BY <1>1, <1>4, <1>6 DEF ScopesServed
<1>11. RetryUsesNewToken'
  BY <1>4, <1>6 DEF RetryUsesNewToken, Unseen
<1> QED  BY <1>2, <1>7, <1>8, <1>9, <1>10, <1>11

(* A call that the cache answers.                                           *)
LEMMA StartStep ==
  ASSUME ConnInv, TokenInv, TokensLast,
         NEW c \in Calls, NEW p \in Processes, NEW scope \in Scopes, StartCall(c, p, scope)
  PROVE  TokenInv'
<1> TypeOK
  BY DEF ConnInv
<1> DEFINE call == [NoCall EXCEPT !.proc = p, !.scope = scope]
<1>1. /\ call \in Call /\ call.proc = p /\ call.scope = scope
      /\ call.rejected = None /\ call.try = 1
  BY EmptyTypes DEF Call, NoCall
<1>2. Get(c, call, CacheHit(p, scope)) /\ UNCHANGED <<tokens, cache>>
  BY DEF StartCall
<1> HIDE DEF call
<1>3. CASE ~CacheHit(p, scope)
  <2>1. Get(c, call, FALSE)
    BY <1>2, <1>3 DEF Get
  <2> QED  BY <1>1, <1>2, <2>1, MissIsQuiet, CacheKept, QuietStep
<1>4. CASE CacheHit(p, scope)
  <2> DEFINE t == cache[p].token
  <2>1. /\ t # None /\ scope \in tokens[t].scopes /\ Issued(t)
    BY <1>4 DEF CacheHit, TokenInv, CacheOK
  <2>2. calls' = [calls EXCEPT ![c] = [call EXCEPT !.pc = "requesting", !.token = t]]
        /\ UNCHANGED <<tokens, cache, refreshes>>
    BY <1>1, <1>2, <1>4 DEF Get
  <2>3. /\ calls'[c].token = t /\ calls'[c].rejected = None /\ calls'[c].try = 1
        /\ calls'[c].pc = "requesting" /\ calls'[c].scope = scope
        /\ \A d \in Calls \ {c} : calls'[d] = calls[d]
    <3>1. calls' = [calls EXCEPT ![c] = [call EXCEPT !.pc = "requesting", !.token = t]]
      BY <2>2
    <3>2. calls'[c] = [call EXCEPT !.pc = "requesting", !.token = t]
      BY <3>1 DEF TypeOK
    <3>3. \A d \in Calls \ {c} : calls'[d] = calls[d]
      BY <3>1 DEF TypeOK
    <3> QED  BY <1>1, <3>2, <3>3 DEF Call
  <2>4. \A k \in Keys : Brings(k) => refreshes[k].token # t /\ refreshes[k].token # None
    BY ConnectionAssumption DEF TokenInv, NewOK, Unseen, BringsOK, Issued
  <2> HIDE DEF t
  <2>5. CacheOK' /\ BringsOK'
    BY <2>2 DEF TokenInv, CacheOK, BringsOK, Brings, Issued
  <2>6. CallsOK' /\ ScopesServed' /\ RetryUsesNewToken'
    BY <2>1, <2>2, <2>3 DEF TokenInv, CallsOK, ScopesServed, RetryUsesNewToken, Issued
  <2>7. NewOK'
    BY <2>2, <2>3, <2>4 DEF TokenInv, NewOK, Unseen, Brings
  <2> QED  BY <2>5, <2>6, <2>7 DEF TokenInv
<1> QED  BY <1>3, <1>4

LEMMA TokenInvStep == ConnInv /\ TokenInv /\ [Next]_vars => TokenInv'
<1> SUFFICES ASSUME ConnInv, TokenInv, [Next]_vars PROVE TokenInv'
  OBVIOUS
<1> TypeOK
  BY DEF ConnInv
<1>0. TokensLast
  BY TokensLastStep
<1>1. CASE UNCHANGED <<cache, refreshes, calls>>
  BY <1>0, <1>1, CacheKept, QuietAll, QuietStep
<1>2. ASSUME NEW k \in Keys,
             LoadCredential(k) \/ RejectGrant(k) \/ MarkReauthRequired(k) \/ RefreshFails(k)
      PROVE  TokenInv'
  BY <1>0, <1>2, RefreshIsQuiet, QuietStep
<1>3. ASSUME NEW k \in Keys, NEW t \in Tokens, IssueToken(k, t)
      PROVE  TokenInv'
  BY <1>0, <1>3, IssueStep
<1>4. ASSUME NEW k \in Keys, Settle(k)
      PROVE  TokenInv'
  BY <1>4, SettleStep
<1>5. ASSUME NEW c \in Calls, NEW p \in Processes, NEW scope \in Scopes, StartCall(c, p, scope)
      PROVE  TokenInv'
  BY <1>0, <1>5, StartStep
<1>6. ASSUME NEW c \in Calls, Requested(c) \/ Unauthorized(c) \/ UnauthorizedAgain(c)
      PROVE  TokenInv'
  BY <1>0, <1>6, CallIsQuiet, QuietStep
<1>7. ASSUME NEW p \in Processes, CacheExpires(p) \/ Restart(p)
      PROVE  TokenInv'
  <2>1. CASE CacheExpires(p)
    <3>1. /\ UNCHANGED <<refreshes, calls>>
          /\ cache' = [cache EXCEPT ![p] = [cache[p] EXCEPT !.fresh = FALSE]]
      BY <2>1 DEF CacheExpires, TypeOK
    <3>2. /\ [cache[p] EXCEPT !.fresh = FALSE].token = cache[p].token
          /\ [cache[p] EXCEPT !.fresh = FALSE].scopes = cache[p].scopes
      BY DEF TypeOK, CacheEntry
    <3>3. QuietCache
      BY <3>1, <3>2 DEF QuietCache, TypeOK
    <3> QED  BY <1>0, <3>1, <3>3, QuietAll, QuietStep
  <2>2. CASE Restart(p)
    BY <1>0, <2>2, RestartIsQuiet, QuietStep
  <2> QED  BY <1>7, <2>1, <2>2
<1>8. \/ UNCHANGED <<cache, refreshes, calls>>
      \/ \E k \in Keys : \/ LoadCredential(k) \/ RejectGrant(k) \/ MarkReauthRequired(k)
                         \/ RefreshFails(k) \/ Settle(k)
                         \/ \E t \in Tokens : IssueToken(k, t)
      \/ \E c \in Calls :
           \/ \E p \in Processes, scope \in Scopes : StartCall(c, p, scope)
           \/ Requested(c) \/ Unauthorized(c) \/ UnauthorizedAgain(c)
      \/ \E p \in Processes : CacheExpires(p) \/ Restart(p)
  BY DEF Next, vars, Keys, tokenVars, Begin, StateExpires, Callback, Consume, Exchange, Save,
     HandlerFails, TokenExpires, Revoke
<1> QED  BY <1>1, <1>2, <1>3, <1>4, <1>5, <1>6, <1>7, <1>8

LEMMA TokenInvariant == Spec => [](ConnInv /\ TokenInv)
<1>1. Init => ConnInv /\ TokenInv
  BY TypeInit, FlowInit, RowInit, TokenInit DEF ConnInv
<1> QED  BY <1>1, ConnInvStep, TokenInvStep, PTL DEF Spec

(* Every request goes out with a token that grants the scope it needs.      *)
THEOREM TokensServeTheirScopes == Spec => []ScopesServed
<1>1. ConnInv /\ TokenInv => ScopesServed
  BY DEF TokenInv
<1> QED  BY <1>1, TokenInvariant, PTL

(* A call never tries again with the token that was just rejected.          *)
THEOREM RetriesUseNewTokens == Spec => []RetryUsesNewToken
<1>1. ConnInv /\ TokenInv => RetryUsesNewToken
  BY DEF TokenInv
<1> QED  BY <1>1, TokenInvariant, PTL
=============================================================================
