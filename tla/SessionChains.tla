---------------------------- MODULE SessionChains ----------------------------
(* What the OAuth server promises of refresh tokens: a login session is a    *)
(* chain of tokens of which at most the last one is good, a token belongs to *)
(* one session, and a token that was rotated or revoked is never good again. *)
CONSTANTS Sessions, Tokens, NoToken

VARIABLES
    good,     \* the refresh token each session can be continued with
    spent     \* tokens that were rotated or revoked

varsChains == <<good, spent>>

InitChains ==
    /\ good = [s \in Sessions |-> IF s \in Tokens THEN s ELSE NoToken]
    /\ spent = {}

Unused(t) == t \notin spent /\ \A s \in Sessions : good[s] # t

(* A login hands out the first token of its session. *)
Start(s, t) ==
    /\ good[s] = NoToken
    /\ Unused(t)
    /\ good' = [good EXCEPT ![s] = t]
    /\ UNCHANGED spent

(* A refresh replaces the token of the session in one step. *)
Rotate(s, t) ==
    /\ good[s] # NoToken
    /\ Unused(t)
    /\ good' = [good EXCEPT ![s] = t]
    /\ spent' = spent \cup {good[s]}

(* A logout, a revocation or the token's expiry ends sessions. *)
End(ended) ==
    /\ \A s \in ended : good[s] # NoToken
    /\ good' = [s \in Sessions |-> IF s \in ended THEN NoToken ELSE good[s]]
    /\ spent' = spent \cup {good[s] : s \in ended}

NextChains ==
    \/ \E s \in Sessions, t \in Tokens : Start(s, t) \/ Rotate(s, t)
    \/ \E ended \in SUBSET Sessions : End(ended)

SpecChains == InitChains /\ [][NextChains]_varsChains
=============================================================================
