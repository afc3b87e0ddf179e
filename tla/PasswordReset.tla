---------------------------- MODULE PasswordReset ----------------------------
(* The password reset links of one user: /auth/forgot-password,              *)
(* /auth/reset-password, and the link that an invitation to a workspace      *)
(* sends.  The first two lock the user's row, the invitation does not.  The  *)
(* counters of auth_rate_limit refuse requests past a limit per time window. *)
EXTENDS Naturals, FiniteSets

CONSTANTS
    Links,         \* password reset tokens
    NoLink,
    Resetters,     \* requests that run at a time
    ResetLimit     \* attempts per link and window, PASSWORD_RESET_SUBMIT_TOKEN_LIMIT

VARIABLES
    link,          \* password_reset_tokens
    resetter,      \* what each request has read and not yet written
    attempts,      \* attempts on each link in the current window
    oldLinks,      \* links issued before the last change of the password
    resetBy        \* the link that last changed the password

varsReset == <<link, resetter, attempts, oldLinks, resetBy>>

LinkStates == {"free", "live", "expired", "used", "deleted"}
NoReset == [op |-> "idle"]
ResetRequests == {NoReset} \cup [op : {"invite"}, rows : SUBSET Links]
                        \cup [op : {"reset"}, link : Links]

(* used_at IS NULL. *)
Unspent(l) == link[l] \in {"live", "expired"}

InitReset ==
    /\ link = [l \in Links |-> "free"]
    /\ resetter = [h \in Resetters |-> NoReset]
    /\ attempts = [l \in Links |-> 0]
    /\ oldLinks = {}
    /\ resetBy = NoLink

(* /auth/forgot-password holds the user's row: it deletes the links that     *)
(* were not used and stores a new one.                                       *)
CreateResetToken(l) ==
    /\ link[l] = "free"
    /\ link' = [k \in Links |-> IF k = l THEN "live"
                                ELSE IF Unspent(k) THEN "deleted" ELSE link[k]]
    /\ UNCHANGED <<resetter, attempts, oldLinks, resetBy>>

(* An invitation does the same without the lock: its DELETE sees the links   *)
(* of its snapshot, and its new link is committed later.                     *)
BeginInvitation(h) ==
    /\ resetter[h] = NoReset
    /\ resetter' = [resetter EXCEPT ![h] =
          [op |-> "invite", rows |-> {l \in Links : Unspent(l)}]]
    /\ UNCHANGED <<link, attempts, oldLinks, resetBy>>
StageInvitationLink(h, l) ==
    /\ resetter[h].op = "invite"
    /\ link[l] = "free"
    /\ link' = [k \in Links |-> IF k = l THEN "live"
                  ELSE IF k \in resetter[h].rows /\ Unspent(k) THEN "deleted" ELSE link[k]]
    /\ resetter' = [resetter EXCEPT ![h] = NoReset]
    /\ UNCHANGED <<attempts, oldLinks, resetBy>>

(* Redis counts the attempts on a link; the window starts with the first.    *)
(* Attempts past the limit are refused, and count no further here.           *)
CountAttemptPastLimit(l) ==
    /\ attempts[l] <= ResetLimit
    /\ attempts' = [attempts EXCEPT ![l] = @ + 1]
CountAttempt(l) ==
    /\ attempts[l] < ResetLimit
    /\ attempts' = [attempts EXCEPT ![l] = @ + 1]
WindowEnds(l) ==
    /\ attempts[l] > 0
    /\ attempts' = [attempts EXCEPT ![l] = 0]
    /\ UNCHANGED <<link, resetter, oldLinks, resetBy>>

(* /auth/reset-password finds the link, locks the user and looks again. *)
BeginReset(h, l) ==
    /\ resetter[h] = NoReset
    /\ CountAttempt(l)
    /\ Unspent(l)
    /\ resetter' = [resetter EXCEPT ![h] = [op |-> "reset", link |-> l]]
    /\ UNCHANGED <<link, oldLinks, resetBy>>

(* The password is set, and every unused link of the user is marked used. *)
ResetPassword(h) ==
    /\ resetter[h].op = "reset"
    /\ link[resetter[h].link] = "live"
    /\ link' = [l \in Links |-> IF Unspent(l) THEN "used" ELSE link[l]]
    /\ resetBy' = resetter[h].link
    /\ oldLinks' = {l \in Links : link[l] # "free"}
    /\ resetter' = [resetter EXCEPT ![h] = NoReset]
    /\ UNCHANGED attempts

(* The link went in the meantime, or has expired and is marked used. *)
RefuseReset(h) ==
    /\ resetter[h].op = "reset"
    /\ link[resetter[h].link] # "live"
    /\ link' = [link EXCEPT ![resetter[h].link] = IF @ = "expired" THEN "used" ELSE @]
    /\ resetter' = [resetter EXCEPT ![h] = NoReset]
    /\ UNCHANGED <<attempts, oldLinks, resetBy>>

LinkExpires(l) ==
    /\ link[l] = "live"
    /\ link' = [link EXCEPT ![l] = "expired"]
    /\ UNCHANGED <<resetter, attempts, oldLinks, resetBy>>

(* A request dies before it commits. *)
ResetterDies(h) ==
    /\ resetter[h] # NoReset
    /\ resetter' = [resetter EXCEPT ![h] = NoReset]
    /\ UNCHANGED <<link, attempts, oldLinks, resetBy>>

NextReset ==
    \/ \E l \in Links : CreateResetToken(l) \/ LinkExpires(l) \/ WindowEnds(l)
    \/ \E h \in Resetters, l \in Links : StageInvitationLink(h, l) \/ BeginReset(h, l)
    \/ \E h \in Resetters : BeginInvitation(h) \/ ResetPassword(h)
                            \/ RefuseReset(h) \/ ResetterDies(h)

SpecReset == InitReset /\ [][NextReset]_varsReset

-----------------------------------------------------------------------------
(* The rows have their columns' values, and the counter stays in its limit.  *)
TypeOKReset ==
    /\ link \in [Links -> LinkStates]
    /\ resetter \in [Resetters -> ResetRequests]
    /\ attempts \in [Links -> 0..ResetLimit]
    /\ oldLinks \subseteq Links
    /\ resetBy \in Links \cup {NoLink}

(* A reset link that was sent before the password was last reset, the link   *)
(* that reset it included, cannot reset it again, although two links can be  *)
(* good at a time because an invitation takes no lock.                       *)
OldLinksAreDeadStep ==
    resetBy' # resetBy \/ oldLinks' # oldLinks => resetBy' \notin oldLinks
OldLinksAreDead == [][OldLinksAreDeadStep]_varsReset
=============================================================================
