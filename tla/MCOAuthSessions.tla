-------------------------- MODULE MCOAuthSessions --------------------------
(* Logins with requests that overlap. A good token is unique in its        *)
(* session, so the choice in the refinement mapping is no choice, and      *)
(* handlers, codes and tokens that were not issued before may be renamed.  *)
EXTENDS OAuthSessions, TLC

Symmetry ==
    Permutations(Handlers) \cup Permutations(Codes) \cup Permutations(Tokens \ LegacyTokens)
=============================================================================
