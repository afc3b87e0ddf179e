---------------------------- MODULE OAuthSessions ----------------------------
(* Logins of one user: the OAuth authorization-code and refresh-token grants,*)
(* token revocation and logout of api/oauth.                                 *)
(*                                                                           *)
(* A grant locks its row and commits before the lock is released, so it is   *)
(* one step where it is one transaction; revocation and logout read the rows *)
(* without a lock and write them later.  The first grant of a login is two   *)
(* transactions.  Checks that only refuse a request (client, redirect URI,   *)
(* PKCE verifier, scope) change nothing: a refused request is no step.       *)
EXTENDS Naturals, FiniteSets

CONSTANTS
    Codes,         \* authorization codes; a session is named after its code
    Tokens,        \* refresh tokens
    LegacyTokens,  \* tokens issued before session ids were recorded
    NoToken,
    Handlers,      \* requests that run at a time
    MaxLogouts     \* bound on the revocations and logouts of a history

ASSUME LegacyAreTokens == LegacyTokens \subseteq Tokens
ASSUME SessionNames == Codes \cap Tokens = {} /\ NoToken \notin Tokens \cup Codes
ASSUME LogoutBound == MaxLogouts \in Nat

VARIABLES
    code,          \* oauth_authorization_codes
    token,         \* oauth_refresh_tokens
    handler,       \* what each request has read and not yet written
    logouts

varsOAuth == <<code, token, handler, logouts>>

Sessions == Codes \cup LegacyTokens

(* "free" has not been issued; "live" has used_at or revoked_at NULL. *)
CodeStates == {"free", "live", "expired", "used"}
TokenRow == [state : {"free", "live", "expired", "revoked"},
             session : Sessions \cup {NoToken}]
IdleHandler == [op |-> "idle"]
Handling ==
    {IdleHandler} \cup [op : {"exchange"}, code : Codes]
           \cup [op : {"revoke"}, rows : SUBSET Tokens]

(* revoked_at IS NULL. *)
Unrevoked(t) == token[t].state \in {"live", "expired"}

InitOAuth ==
    /\ code = [c \in Codes |-> "free"]
    /\ token = [t \in Tokens |->
          [state |-> IF t \in LegacyTokens THEN "live" ELSE "free",
           session |-> NoToken]]
    /\ handler = [h \in Handlers |-> IdleHandler]
    /\ logouts = 0

-----------------------------------------------------------------------------
(* The authorization-code grant *)

(* A code is stored for ten minutes: by the browser's login form ... *)
Authorize(c) ==
    /\ code[c] = "free"
    /\ code' = [code EXCEPT ![c] = "live"]
    /\ UNCHANGED <<token, handler, logouts>>

(* ... and by the JSON endpoint of a client that shows its own form. *)
AuthorizeCode(c) ==
    /\ code[c] = "free"
    /\ code' = [code EXCEPT ![c] = "live"]
    /\ UNCHANGED <<token, handler, logouts>>

(* The code is consumed under its row lock; an expired one is marked too.    *)
ExchangeTwice(h, c) ==
    /\ handler[h] = IdleHandler
    /\ code[c] \in {"live", "used"}
    /\ code' = [code EXCEPT ![c] = "used"]
    /\ handler' = [handler EXCEPT ![h] = [op |-> "exchange", code |-> c]]
    /\ UNCHANGED <<token, logouts>>
Exchange(h, c) ==
    /\ handler[h] = IdleHandler
    /\ code[c] \in {"live", "expired"}
    /\ code' = [code EXCEPT ![c] = "used"]
    /\ IF code[c] = "expired"
       THEN UNCHANGED handler
       ELSE handler' = [handler EXCEPT ![h] = [op |-> "exchange", code |-> c]]
    /\ UNCHANGED <<token, logouts>>

(* The first refresh token of the session, in a transaction of its own. *)
FirstTokenNoSession(h, t) ==
    /\ handler[h].op = "exchange"
    /\ token[t].state = "free"
    /\ token' = [token EXCEPT ![t] = [state |-> "live", session |-> NoToken]]
    /\ handler' = [handler EXCEPT ![h] = IdleHandler]
    /\ UNCHANGED <<code, logouts>>
FirstToken(h, t) ==
    /\ handler[h].op = "exchange"
    /\ token[t].state = "free"
    /\ token' = [token EXCEPT ![t] = [state |-> "live", session |-> handler[h].code]]
    /\ handler' = [handler EXCEPT ![h] = IdleHandler]
    /\ UNCHANGED <<code, logouts>>

-----------------------------------------------------------------------------
(* The refresh-token grant: the old token is revoked and its successor is    *)
(* inserted in one transaction that holds the lock of the old row.           *)

SessionOf(t) == IF token[t].session = NoToken THEN t ELSE token[t].session

(* The lock missing: a token that a racing refresh has just revoked rotates. *)
RotateUnlocked(t, next) ==
    /\ token[t].state \in {"live", "revoked"}
    /\ token[next].state = "free"
    /\ token' = [token EXCEPT
          ![t] = [state |-> "revoked", session |-> SessionOf(t)],
          ![next] = [state |-> "live", session |-> SessionOf(t)]]
    /\ UNCHANGED <<code, handler, logouts>>
RotateToken(t, next) ==
    /\ token[t].state = "live"
    /\ token[next].state = "free"
    /\ token' = [token EXCEPT
          ![t] = [state |-> "revoked", session |-> SessionOf(t)],
          ![next] = [state |-> "live", session |-> SessionOf(t)]]
    /\ UNCHANGED <<code, handler, logouts>>

RefuseExpired(t) ==
    /\ token[t].state = "expired"
    /\ token' = [token EXCEPT ![t].state = "revoked"]
    /\ UNCHANGED <<code, handler, logouts>>

-----------------------------------------------------------------------------
(* Revocation and logout: an unlocked read, then a write of the rows read *)

BeginRevocation(h, rows) ==
    /\ handler[h] = IdleHandler
    /\ rows # {}
    /\ logouts < MaxLogouts
    /\ handler' = [handler EXCEPT ![h] = [op |-> "revoke", rows |-> rows]]
    /\ logouts' = logouts + 1
    /\ UNCHANGED <<code, token>>

(* POST /revoke: one token, by whoever holds it. *)
RevokeRefreshToken(h, t) == Unrevoked(t) /\ BeginRevocation(h, {t})

(* POST /logout: the session of the access token, or all of the user's. *)
LogoutSession(h, s) ==
    BeginRevocation(h, {t \in Tokens : Unrevoked(t) /\ token[t].session = s})
LogoutAll(h) ==
    BeginRevocation(h, {t \in Tokens : Unrevoked(t)})

CommitRevocation(h) ==
    /\ handler[h].op = "revoke"
    /\ token' = [t \in Tokens |->
          IF t \in handler[h].rows THEN [token[t] EXCEPT !.state = "revoked"]
          ELSE token[t]]
    /\ handler' = [handler EXCEPT ![h] = IdleHandler]
    /\ UNCHANGED <<code, logouts>>

-----------------------------------------------------------------------------
(* Time passes, and a request dies or its client goes away. *)
ExpireRow ==
    \/ \E c \in Codes : /\ code[c] = "live"
                        /\ code' = [code EXCEPT ![c] = "expired"]
                        /\ UNCHANGED token
    \/ \E t \in Tokens : /\ token[t].state = "live"
                         /\ token' = [token EXCEPT ![t].state = "expired"]
                         /\ UNCHANGED code

Expire == ExpireRow /\ UNCHANGED <<handler, logouts>>

HandlerDies(h) ==
    /\ handler[h] # IdleHandler
    /\ handler' = [handler EXCEPT ![h] = IdleHandler]
    /\ UNCHANGED <<code, token, logouts>>

NextOAuth ==
    \/ \E c \in Codes : Authorize(c) \/ AuthorizeCode(c)
    \/ \E h \in Handlers, c \in Codes : Exchange(h, c)
    \/ \E h \in Handlers, t \in Tokens : FirstToken(h, t) \/ RevokeRefreshToken(h, t)
    \/ \E t, next \in Tokens : RotateToken(t, next)
    \/ \E t \in Tokens : RefuseExpired(t)
    \/ \E h \in Handlers, s \in Sessions : LogoutSession(h, s)
    \/ \E h \in Handlers : LogoutAll(h) \/ CommitRevocation(h)
    \/ \E h \in Handlers : HandlerDies(h)
    \/ Expire

SpecOAuth == InitOAuth /\ [][NextOAuth]_varsOAuth

-----------------------------------------------------------------------------
(* The rows have their columns' values, a token that was issued with session *)
(* ids has one, and a request remembers what it read.                        *)
TypeOKOAuth ==
    /\ code \in [Codes -> CodeStates]
    /\ token \in [Tokens -> TokenRow]
    /\ \A t \in Tokens \ LegacyTokens :
          token[t].session # NoToken <=> token[t].state # "free"
    /\ handler \in [Handlers -> Handling]
    /\ logouts \in 0..MaxLogouts

(* Whatever the grants, revocations, logouts, expiries and crashes do to     *)
(* each other, the rows of oauth_refresh_tokens behave like chains: one      *)
(* good token per login, and none that was rotated or revoked comes back.    *)
GoodTokens(s) ==
    {t \in Tokens : Unrevoked(t) /\ SessionOf(t) = s}
GoodToken(s) ==
    IF GoodTokens(s) = {} THEN NoToken ELSE CHOOSE t \in GoodTokens(s) : TRUE
SpentTokens == {t \in Tokens : token[t].state = "revoked"}
Chains == INSTANCE SessionChains WITH good <- [s \in Sessions |-> GoodToken(s)],
                                      spent <- SpentTokens
SessionsAreChains == Chains!SpecChains

=============================================================================
