-------------------------- MODULE GoogleConnection --------------------------
(***************************************************************************)
(* One Google connection: the OAuth flows of the API that create and renew *)
(* it, its row in the table connections, and the GoogleAccessTokenService  *)
(* of every process (workers and API), which turns the refresh token of    *)
(* the row into access tokens, caches them, shares refreshes under way,    *)
(* and is asked again after a 401.                                         *)
(*                                                                         *)
(* A statement, a request to Google and the arrival of what a refresh      *)
(* settles with are separate steps, so that rows, grants and caches can    *)
(* change in between.                                                      *)
(***************************************************************************)
EXTENDS Naturals, FiniteSets

CONSTANTS
    Auths,       \* the authorizations begun, each with its own state and code
    Handlers,    \* the deliveries of a callback
    Processes,   \* processes with a GoogleAccessTokenService
    Calls,       \* the calls of withAccessToken
    Tokens,      \* the access tokens Google may issue
    Scopes,      \* the API scopes
    BaseScope,   \* gmailReadonlyScope, which every purpose requires
    None

ASSUME ConnectionAssumption ==
    /\ BaseScope \in Scopes
    /\ None \notin Auths \cup Tokens \cup Processes

VARIABLES
    states,     \* oauth_authorization_states
    handlers,   \* complete(), for each delivery of a callback
    grants,     \* the refresh tokens, as Google and the cipher see them
    row,        \* the row of connections
    tokens,     \* the access tokens
    cache,      \* cachedTokens of each process
    refreshes,  \* inFlightRefreshes of each process, by scope
    calls       \* withAccessToken

oauthVars == <<states, handlers>>
tokenVars == <<tokens, cache, refreshes, calls>>
vars == <<states, handlers, grants, row, tokens, cache, refreshes, calls>>

(* A purpose is named after the scope it adds to BaseScope.                *)
RequiredScopes(purpose) == {BaseScope, purpose}

State == [status: {"none", "open", "consumed", "expired"}, purpose: Scopes]

Handler == [pc: {"idle", "consuming", "exchanging", "saving", "ended"},
            auth: Auths \cup {None}, granted: SUBSET Scopes, refresh: BOOLEAN]

(* unreadable: the cipher has no key that decrypts the stored token.       *)
GrantStatus == {"none", "valid", "unreadable", "revoked"}

Row == [status: {"absent", "connected", "reauth_required"},
        grant: Auths \cup {None}, scopes: SUBSET Scopes]

(* scopes: those of the credential the token was refreshed from.           *)
Token == [grant: Auths \cup {None}, scopes: SUBSET Scopes, live: BOOLEAN]

CacheEntry == [token: Tokens \cup {None}, scopes: SUBSET Scopes, fresh: BOOLEAN]

(* refused: AUTHENTICATION_REQUIRED, which is not retried.                 *)
Refresh == [pc: {"idle", "loading", "exchanging", "marking", "settling"},
            grant: Auths \cup {None}, scopes: SUBSET Scopes,
            token: Tokens \cup {None}, outcome: {"none", "token", "refused", "failed"}]

Call == [pc: {"idle", "waiting", "requesting"},
         proc: Processes \cup {None}, scope: Scopes, try: {1, 2},
         token: Tokens \cup {None}, rejected: Tokens \cup {None}]

NoHandler == [pc |-> "idle", auth |-> None, granted |-> {}, refresh |-> FALSE]
NoEntry == [token |-> None, scopes |-> {}, fresh |-> FALSE]
NoRefresh == [pc |-> "idle", grant |-> None, scopes |-> {}, token |-> None,
              outcome |-> "none"]
NoCall == [pc |-> "idle", proc |-> None, scope |-> BaseScope, try |-> 1,
           token |-> None, rejected |-> None]

Init ==
    /\ states = [a \in Auths |-> [status |-> "none", purpose |-> BaseScope]]
    /\ handlers = [h \in Handlers |-> NoHandler]
    /\ grants = [a \in Auths |-> "none"]
    /\ row = [status |-> "absent", grant |-> None, scopes |-> {}]
    /\ tokens = [t \in Tokens |-> [grant |-> None, scopes |-> {}, live |-> FALSE]]
    /\ cache = [p \in Processes |-> NoEntry]
    /\ refreshes = [k \in Processes \X Scopes |-> NoRefresh]
    /\ calls = [c \in Calls |-> NoCall]

-----------------------------------------------------------------------------
(* The OAuth flow. *)

Begin(a, purpose) ==
    /\ states[a].status = "none"
    /\ states' = [states EXCEPT ![a] = [status |-> "open", purpose |-> purpose]]
    /\ UNCHANGED <<handlers, grants, row, tokenVars>>

StateExpires(a) ==
    /\ states[a].status = "open"
    /\ states' = [states EXCEPT ![a].status = "expired"]
    /\ UNCHANGED <<handlers, grants, row, tokenVars>>

(* The browser delivers a callback; it may reload the page and deliver it  *)
(* again.                                                                  *)
Callback(h, a) ==
    /\ handlers[h].pc = "idle"
    /\ states[a].status # "none"
    /\ handlers' = [handlers EXCEPT ![h].pc = "consuming", ![h].auth = a]
    /\ UNCHANGED <<states, grants, row, tokenVars>>

(* The callback is answered, with a redirect or an error.                  *)
EndHandler(h) ==
    handlers' = [handlers EXCEPT ![h] = [NoHandler EXCEPT !.pc = "ended"]]

\* Mutant of Consumable: the WHERE clause forgets consumed_at IS NULL.
ConsumableTwice(a) == states[a].status \in {"open", "consumed"}

Consumable(a) == states[a].status = "open"

(* consume, from the browser that began (its nonce matches).  Denied       *)
(* authorizations end here too.                                            *)
Consume(h) ==
    LET a == handlers[h].auth IN
    /\ handlers[h].pc = "consuming"
    /\ Consumable(a)
    /\ states' = [states EXCEPT ![a].status = "consumed"]
    /\ \/ handlers' = [handlers EXCEPT ![h].pc = "exchanging"]
       \/ EndHandler(h)
    /\ UNCHANGED <<grants, row, tokenVars>>

(* The code is exchanged.  Google may grant less than was asked for, which *)
(* fails the flow, and may leave the refresh token out.                    *)
Exchange(h) ==
    LET a == handlers[h].auth IN
    /\ handlers[h].pc = "exchanging"
    /\ \E refresh \in BOOLEAN :
         /\ IF refresh
            THEN \E status \in {"valid", "unreadable"} :
                    grants' = [grants EXCEPT ![a] = status]
            ELSE UNCHANGED grants
         /\ \/ EndHandler(h)
            \/ \E granted \in SUBSET Scopes :
                 /\ RequiredScopes(states[a].purpose) \subseteq granted
                 /\ handlers' = [handlers EXCEPT ![h] =
                      [pc |-> "saving", auth |-> a, granted |-> granted,
                       refresh |-> refresh]]
    /\ UNCHANGED <<states, row, tokenVars>>

(* upsert: a transaction.  Without a new refresh token the connection must *)
(* have one that can be decrypted.                                         *)
Save(h) ==
    /\ handlers[h].pc = "saving"
    /\ IF handlers[h].refresh
       THEN row' = [status |-> "connected", grant |-> handlers[h].auth,
                    scopes |-> handlers[h].granted]
       ELSE /\ row.status = "connected" /\ grants[row.grant] # "unreadable"
            /\ row' = [row EXCEPT !.scopes = handlers[h].granted]
    /\ EndHandler(h)
    /\ UNCHANGED <<states, grants, tokenVars>>

HandlerFails(h) ==
    /\ handlers[h].pc \in {"consuming", "exchanging", "saving"}
    /\ EndHandler(h)
    /\ UNCHANGED <<states, grants, row, tokenVars>>

-----------------------------------------------------------------------------
(* getAccessToken *)

\* Mutant of CacheHit: the scopes of the cached token are not compared.
CacheHitAnyScope(p, scope) == cache[p].token # None /\ cache[p].fresh

CacheHit(p, scope) ==
    /\ cache[p].token # None
    /\ cache[p].fresh
    /\ scope \in cache[p].scopes

(* What getAccessToken does before its first await, given the process's    *)
(* cache entry: answer from the cache, join the refresh for the scope, or  *)
(* begin one.                                                              *)
Get(c, call, hit) ==
    LET k == <<call.proc, call.scope>> IN
    IF hit
    THEN /\ calls' = [calls EXCEPT ![c] = [call EXCEPT !.pc = "requesting",
                                                       !.token = cache[call.proc].token]]
         /\ UNCHANGED refreshes
    ELSE /\ calls' = [calls EXCEPT ![c] = [call EXCEPT !.pc = "waiting", !.token = None]]
         /\ refreshes' = IF refreshes[k].pc = "idle"
                         THEN [refreshes EXCEPT ![k].pc = "loading"]
                         ELSE refreshes

StartCall(c, p, scope) ==
    /\ calls[c].pc = "idle"
    /\ Get(c, [NoCall EXCEPT !.proc = p, !.scope = scope], CacheHit(p, scope))
    /\ UNCHANGED <<oauthVars, grants, row, tokens, cache>>

SettleWith(k, outcome) ==
    refreshes' = [refreshes EXCEPT ![k] = [NoRefresh EXCEPT !.pc = "settling",
                                                            !.outcome = outcome]]

(* findCredentialById, the comparison of scopes and the decryption.        *)
LoadCredential(k) ==
    /\ refreshes[k].pc = "loading"
    /\ IF row.status # "connected" THEN SettleWith(k, "refused")
       ELSE IF k[2] \notin row.scopes THEN SettleWith(k, "failed")
       ELSE refreshes' = [refreshes EXCEPT ![k] =
              [NoRefresh EXCEPT
                 !.pc = IF grants[row.grant] = "unreadable" THEN "marking" ELSE "exchanging",
                 !.grant = row.grant, !.scopes = row.scopes]]
    /\ UNCHANGED <<oauthVars, grants, row, tokens, cache, calls>>

(* Google issues an access token; its answer is on the way.                *)
IssueToken(k, t) ==
    /\ refreshes[k].pc = "exchanging"
    /\ grants[refreshes[k].grant] = "valid"
    /\ tokens[t].grant = None
    /\ tokens' = [tokens EXCEPT ![t] = [grant |-> refreshes[k].grant,
                                        scopes |-> refreshes[k].scopes, live |-> TRUE]]
    /\ refreshes' = [refreshes EXCEPT ![k].pc = "settling", ![k].outcome = "token",
                                      ![k].token = t]
    /\ UNCHANGED <<oauthVars, grants, row, cache, calls>>

(* Google answers invalid_grant.                                           *)
RejectGrant(k) ==
    /\ refreshes[k].pc = "exchanging"
    /\ grants[refreshes[k].grant] # "valid"
    /\ refreshes' = [refreshes EXCEPT ![k].pc = "marking"]
    /\ UNCHANGED <<oauthVars, grants, row, tokens, cache, calls>>

\* Mutant of Markable: the refresh token that was tried is not compared.
MarkableAnyGrant(k) == row.status = "connected"

Markable(k) == row.status = "connected" /\ row.grant = refreshes[k].grant

\* Mutant of MarkReauthRequired: a status that no page shows.
MarkReauthRequiredAsRevoked(k) ==
    /\ refreshes[k].pc = "marking"
    /\ row' = IF Markable(k) THEN [row EXCEPT !.status = "revoked"] ELSE row
    /\ SettleWith(k, "refused")
    /\ UNCHANGED <<oauthVars, grants, tokens, cache, calls>>

\* Mutant of MarkReauthRequired: the answer of the update is not looked at.
MarkReauthRequiredUnchecked(k) ==
    /\ refreshes[k].pc = "marking"
    /\ row' = IF Markable(k) THEN [row EXCEPT !.status = "reauth_required"] ELSE row
    /\ SettleWith(k, "refused")
    /\ UNCHANGED <<oauthVars, grants, tokens, cache, calls>>

MarkReauthRequired(k) ==
    /\ refreshes[k].pc = "marking"
    /\ IF Markable(k)
       THEN /\ row' = [row EXCEPT !.status = "reauth_required"]
            /\ \E outcome \in {"refused", "failed"} : SettleWith(k, outcome)
       ELSE /\ SettleWith(k, "failed")
            /\ UNCHANGED row
    /\ UNCHANGED <<oauthVars, grants, tokens, cache, calls>>

(* A call of the refresh fails and is not applied.                         *)
RefreshFails(k) ==
    /\ refreshes[k].pc \in {"loading", "exchanging", "marking"}
    /\ SettleWith(k, "failed")
    /\ UNCHANGED <<oauthVars, grants, row, tokens, cache, calls>>

(* The refresh ends: its token is cached, it leaves inFlightRefreshes, and *)
(* every call that waits for it goes on.                                   *)
Settle(k) ==
    LET refresh == refreshes[k] IN
    /\ refresh.pc = "settling"
    /\ cache' = IF refresh.outcome = "token"
                THEN [cache EXCEPT ![k[1]] = [token |-> refresh.token,
                                              scopes |-> refresh.scopes, fresh |-> TRUE]]
                ELSE cache
    /\ calls' = [c \in Calls |->
         IF calls[c].pc = "waiting" /\ <<calls[c].proc, calls[c].scope>> = k
         THEN IF refresh.outcome = "token"
              THEN [calls[c] EXCEPT !.pc = "requesting", !.token = refresh.token]
              ELSE NoCall
         ELSE calls[c]]
    /\ refreshes' = [refreshes EXCEPT ![k] = NoRefresh]
    /\ UNCHANGED <<oauthVars, grants, row, tokens>>

(* expiresAt - refreshSkewMs is reached.                                   *)
CacheExpires(p) ==
    /\ cache[p].fresh
    /\ cache' = [cache EXCEPT ![p].fresh = FALSE]
    /\ UNCHANGED <<oauthVars, grants, row, tokens, refreshes, calls>>

-----------------------------------------------------------------------------
(* withAccessToken: request, and once more after a 401. *)

(* The request ends with anything but a 401; the caller, which has its     *)
(* result or its error, may call again.                                    *)
Requested(c) ==
    /\ calls[c].pc = "requesting"
    /\ calls' = [calls EXCEPT ![c] = NoCall]
    /\ UNCHANGED <<oauthVars, grants, row, tokens, cache, refreshes>>

\* Mutant of Unauthorized: the cached token is not invalidated.
UnauthorizedKeepingCache(c) ==
    LET call == calls[c] IN
    /\ call.pc = "requesting" /\ call.try = 1
    /\ ~tokens[call.token].live
    /\ Get(c, [call EXCEPT !.try = 2, !.rejected = call.token],
           CacheHit(call.proc, call.scope))
    /\ UNCHANGED <<oauthVars, grants, row, tokens, cache>>

Unauthorized(c) ==
    LET call == calls[c] IN
    /\ call.pc = "requesting" /\ call.try = 1
    /\ ~tokens[call.token].live
    /\ cache' = [cache EXCEPT ![call.proc] = NoEntry]
    /\ Get(c, [call EXCEPT !.try = 2, !.rejected = call.token], FALSE)
    /\ UNCHANGED <<oauthVars, grants, row, tokens>>

UnauthorizedAgain(c) ==
    /\ calls[c].pc = "requesting" /\ calls[c].try = 2
    /\ ~tokens[calls[c].token].live
    /\ calls' = [calls EXCEPT ![c] = NoCall]
    /\ UNCHANGED <<oauthVars, grants, row, tokens, cache, refreshes>>

-----------------------------------------------------------------------------
(* Google: an access token expires; the user, or Google, ends a grant. *)

TokenExpires(t) ==
    /\ tokens[t].live
    /\ tokens' = [tokens EXCEPT ![t].live = FALSE]
    /\ UNCHANGED <<oauthVars, grants, row, cache, refreshes, calls>>

Revoke(a) ==
    /\ grants[a] = "valid"
    /\ grants' = [grants EXCEPT ![a] = "revoked"]
    /\ tokens' = [t \in Tokens |-> IF tokens[t].grant = a
                                   THEN [tokens[t] EXCEPT !.live = FALSE] ELSE tokens[t]]
    /\ UNCHANGED <<oauthVars, row, cache, refreshes, calls>>

(* A process restarts: its caches, its refreshes and its calls are gone.   *)
Restart(p) ==
    /\ cache' = [cache EXCEPT ![p] = NoEntry]
    /\ refreshes' = [k \in Processes \X Scopes |->
                        IF k[1] = p THEN NoRefresh ELSE refreshes[k]]
    /\ calls' = [c \in Calls |-> IF calls[c].proc = p THEN NoCall ELSE calls[c]]
    /\ UNCHANGED <<oauthVars, grants, row, tokens>>

Next ==
    \/ \E a \in Auths : \/ \E purpose \in Scopes : Begin(a, purpose)
                         \/ StateExpires(a) \/ Revoke(a)
                         \/ \E h \in Handlers : Callback(h, a)
    \/ \E h \in Handlers : Consume(h) \/ Exchange(h) \/ Save(h) \/ HandlerFails(h)
    \/ \E k \in Processes \X Scopes :
        \/ LoadCredential(k) \/ RejectGrant(k) \/ MarkReauthRequired(k)
        \/ RefreshFails(k) \/ Settle(k)
        \/ \E t \in Tokens : IssueToken(k, t)
    \/ \E c \in Calls :
        \/ \E p \in Processes, scope \in Scopes : StartCall(c, p, scope)
        \/ Requested(c) \/ Unauthorized(c) \/ UnauthorizedAgain(c)
    \/ \E p \in Processes : CacheExpires(p) \/ Restart(p)
    \/ \E t \in Tokens : TokenExpires(t)

Spec == Init /\ [][Next]_vars

-----------------------------------------------------------------------------
TypeOK ==
    /\ states \in [Auths -> State]
    /\ handlers \in [Handlers -> Handler]
    /\ grants \in [Auths -> GrantStatus]
    /\ row \in Row
    /\ tokens \in [Tokens -> Token]
    /\ cache \in [Processes -> CacheEntry]
    /\ refreshes \in [Processes \X Scopes -> Refresh]
    /\ calls \in [Calls -> Call]

(* An authorization code is exchanged once, however often the callback is  *)
(* delivered and however its handlers overlap.                             *)
CodeExchangedOnce ==
    \A h1, h2 \in Handlers :
        /\ handlers[h1].pc = "exchanging" => grants[handlers[h1].auth] = "none"
        /\ handlers[h1].auth = handlers[h2].auth
           /\ handlers[h1].pc \in {"exchanging", "saving"}
           /\ handlers[h2].pc \in {"exchanging", "saving"} => h1 = h2

Usable == row.status = "connected" /\ grants[row.grant] = "valid"

(* The connection asks for a new authorization only if the refresh token   *)
(* it holds now is useless: a refresh that began with an older token never *)
(* undoes the authorization the user has given since.                      *)
ReauthOnlyIfRejected ==
    row.status = "reauth_required" => grants[row.grant] \in {"unreadable", "revoked"}

(* A refresh answers AUTHENTICATION_REQUIRED, which ends a Job for good,   *)
(* only if it found the connection unusable (index.test.ts:770: it         *)
(* "retries instead of disabling a connection changed by concurrent        *)
(* reauthorization").                                                      *)
RefusedOnlyIfUnusable ==
    [][\A k \in Processes \X Scopes :
        refreshes[k].outcome # "refused" /\ refreshes'[k].outcome = "refused" => ~Usable]_vars

(* A request is made with a token whose credential grants the scope it     *)
(* needs, from the cache, from a shared refresh or after a 401, while the  *)
(* row's scopes change and refreshes for other scopes overwrite the cache. *)
ScopesServed ==
    \A c \in Calls : calls[c].pc = "requesting" =>
        calls[c].token # None /\ calls[c].scope \in tokens[calls[c].token].scopes

(* The second request of a call never goes out with the token that Google  *)
(* has just rejected, whichever refreshes of the process were under way.   *)
RetryUsesNewToken ==
    \A c \in Calls : calls[c].pc = "requesting" /\ calls[c].try = 2 =>
        calls[c].token # calls[c].rejected
=============================================================================
