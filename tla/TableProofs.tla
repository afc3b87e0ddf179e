---------------------------- MODULE TableProofs ----------------------------
(***************************************************************************)
(* Proofs about what people build: password reset links, the workspace tree,*)
(* views, the skills of a workspace, fields and formulas, boards, and the   *)
(* task trees that plans become. Each section is about one specification,   *)
(* for all values of its constants; they share no variable.                 *)
(***************************************************************************)
EXTENDS PasswordReset, TableDesign, Boards, TaskTrees, FiniteSetTheorems, WellFoundedInduction, TLAPS

(* Every set of numbers has a least one. *)
LEMMA LeastOf ==
  ASSUME NEW T \in SUBSET Nat, T # {}
  PROVE  \E n \in T : \A m \in T : n <= m
<1>1. PICK n \in T : \A m \in T : ~ (<<m, n>> \in OpToRel(<, Nat))
  BY WFMin, NatLessThanWellFounded
<1>2. ASSUME NEW m \in T PROVE n <= m
  <2>1. OpToRel(<, Nat) = {p \in Nat \X Nat : p[1] < p[2]}
    BY DEF OpToRel
  <2>2. ~ (<<m, n>> \in {p \in Nat \X Nat : p[1] < p[2]})
    BY <1>1, <2>1
  <2> QED
    BY <2>2
<1> QED
  BY <1>2

-----------------------------------------------------------------------------
(* PasswordReset: links from before the last change of the password.        *)

LimitIsNat == ResetLimit \in Nat

(* A link that is spent or gone never becomes good again. *)
OldAreDead == \A l \in oldLinks : link[l] \in {"used", "deleted"}

ResetInv == TypeOKReset /\ OldAreDead

LEMMA ResetInit == LimitIsNat /\ InitReset => ResetInv
BY DEF LimitIsNat, InitReset, ResetInv, TypeOKReset, OldAreDead, LinkStates, ResetRequests, NoReset

(* What the kinds of requests hold. *)
LEMMA ResetterKinds ==
  ASSUME ResetInv, NEW h \in Resetters
  PROVE  /\ resetter[h].op = "reset" => resetter[h].link \in Links
         /\ resetter[h].op = "invite" => resetter[h].rows \subseteq Links
BY DEF ResetInv, TypeOKReset, ResetRequests, NoReset

LEMMA ResetStep ==
  ASSUME LimitIsNat, ResetInv, [NextReset]_varsReset
  PROVE  ResetInv' /\ OldLinksAreDeadStep
<1> USE DEF ResetInv, TypeOKReset, OldAreDead, OldLinksAreDeadStep, LinkStates
<1>1. ASSUME NEW l \in Links, CreateResetToken(l) \/ LinkExpires(l)
      PROVE  ResetInv' /\ OldLinksAreDeadStep
  <2>1. UNCHANGED <<resetter, attempts, oldLinks, resetBy>>
    BY <1>1 DEF CreateResetToken, LinkExpires
  <2>2. link' \in [Links -> LinkStates]
    BY <1>1 DEF CreateResetToken, LinkExpires
  <2>3. \A k \in Links : link[k] \in {"used", "deleted"} => link'[k] = link[k]
    BY <1>1 DEF CreateResetToken, LinkExpires, Unspent
  <2> QED
    BY <2>1, <2>2, <2>3
<1>2. ASSUME NEW l \in Links, WindowEnds(l)
      PROVE  ResetInv' /\ OldLinksAreDeadStep
  <2>1. attempts' \in [Links -> 0..ResetLimit]
    BY <1>2 DEF WindowEnds, LimitIsNat
  <2> QED
    BY <1>2, <2>1 DEF WindowEnds
<1>3. ASSUME NEW h \in Resetters, NEW l \in Links, StageInvitationLink(h, l)
      PROVE  ResetInv' /\ OldLinksAreDeadStep
  <2>1. UNCHANGED <<attempts, oldLinks, resetBy>> /\ link' \in [Links -> LinkStates]
    BY <1>3 DEF StageInvitationLink
  <2>2. resetter' \in [Resetters -> ResetRequests]
    BY <1>3 DEF StageInvitationLink, ResetRequests
  <2>3. \A k \in Links : link[k] \in {"used", "deleted"} => link'[k] = link[k]
    BY <1>3 DEF StageInvitationLink, Unspent
  <2> QED
    BY <2>1, <2>2, <2>3
<1>4. ASSUME NEW h \in Resetters, NEW l \in Links, BeginReset(h, l)
      PROVE  ResetInv' /\ OldLinksAreDeadStep
  <2>1. attempts' \in [Links -> 0..ResetLimit]
    BY <1>4 DEF BeginReset, CountAttempt, LimitIsNat
  <2>2. [op |-> "reset", link |-> l] \in ResetRequests
    BY DEF ResetRequests
  <2>3. resetter' \in [Resetters -> ResetRequests]
    BY <1>4, <2>2 DEF BeginReset
  <2> QED
    BY <1>4, <2>1, <2>3 DEF BeginReset
<1>5. ASSUME NEW h \in Resetters, BeginInvitation(h)
      PROVE  ResetInv' /\ OldLinksAreDeadStep
  <2>1. [op |-> "invite", rows |-> {l \in Links : Unspent(l)}] \in ResetRequests
    BY DEF ResetRequests
  <2>2. resetter' \in [Resetters -> ResetRequests]
    BY <1>5, <2>1 DEF BeginInvitation
  <2> QED
    BY <1>5, <2>2 DEF BeginInvitation
<1>6. ASSUME NEW h \in Resetters, ResetPassword(h)
      PROVE  ResetInv' /\ OldLinksAreDeadStep
  <2> DEFINE good == resetter[h].link
  <2>1. good \in Links /\ link[good] = "live"
    BY <1>6, ResetterKinds DEF ResetPassword
  <2>2. /\ link' = [l \in Links |-> IF Unspent(l) THEN "used" ELSE link[l]]
        /\ resetBy' = good /\ oldLinks' = {l \in Links : link[l] # "free"} /\ UNCHANGED attempts
    BY <1>6 DEF ResetPassword
  <2>3. resetter' \in [Resetters -> ResetRequests]
    BY <1>6 DEF ResetPassword, ResetRequests
  <2> HIDE DEF good
  <2>4. link' \in [Links -> LinkStates]
        /\ \A l \in Links : link[l] # "free" => link'[l] \in {"used", "deleted"}
    BY <2>2 DEF Unspent
  <2>5. good \notin oldLinks
    BY <2>1
  <2> QED
    BY <2>1, <2>2, <2>3, <2>4, <2>5
<1>7. ASSUME NEW h \in Resetters, RefuseReset(h)
      PROVE  ResetInv' /\ OldLinksAreDeadStep
  <2>1. UNCHANGED <<attempts, oldLinks, resetBy>> /\ link' \in [Links -> LinkStates]
    BY <1>7, ResetterKinds DEF RefuseReset
  <2>2. resetter' \in [Resetters -> ResetRequests]
    BY <1>7 DEF RefuseReset, ResetRequests
  <2>3. \A k \in Links : link[k] \in {"used", "deleted"} => link'[k] = link[k]
    BY <1>7 DEF RefuseReset
  <2> QED
    BY <2>1, <2>2, <2>3
<1>8. ASSUME NEW h \in Resetters, ResetterDies(h)
      PROVE  ResetInv' /\ OldLinksAreDeadStep
  <2>1. resetter' \in [Resetters -> ResetRequests]
    BY <1>8 DEF ResetterDies, ResetRequests
  <2> QED
    BY <1>8, <2>1 DEF ResetterDies
<1>9. CASE UNCHANGED varsReset
  BY <1>9 DEF varsReset
<1> QED
  BY <1>1, <1>2, <1>3, <1>4, <1>5, <1>6, <1>7, <1>8, <1>9 DEF NextReset

(* The rows keep their types and the counter its limit (auth_rate_limit.py). *)
THEOREM ResetTypes ==
  ASSUME LimitIsNat
  PROVE  SpecReset => []TypeOKReset
<1>1. InitReset => ResetInv
  BY ResetInit
<1>2. ResetInv /\ [NextReset]_varsReset => ResetInv'
  BY ResetStep
<1>3. ResetInv => TypeOKReset
  BY DEF ResetInv
<1> QED
  BY <1>1, <1>2, <1>3, PTL DEF SpecReset

(* A link from before the last reset of the password, the one that reset it *)
(* included, never resets it again, although an invitation takes no lock    *)
(* and may leave two good links (/auth/reset-password in api/auth.py).      *)
THEOREM OldLinksStayDead ==
  ASSUME LimitIsNat
  PROVE  SpecReset => OldLinksAreDead
<1>1. InitReset => ResetInv
  BY ResetInit
<1>2. ResetInv /\ [NextReset]_varsReset => ResetInv' /\ OldLinksAreDeadStep
  BY ResetStep
<1> QED
  BY <1>1, <1>2, PTL DEF SpecReset, OldLinksAreDead

-----------------------------------------------------------------------------
(* Workspaces, for any people, items and grants.                             *)
(*                                                                           *)
(* The argument: a creation, a delete and a dropped workspace write in       *)
(* several transactions, so between two of them an item is half made or      *)
(* half deleted.  As long as no second request takes up such an item         *)
(* (contested) and no request is cut off in the middle of it (cut), exactly  *)
(* one request has it in hand, and that request's stage says which of its    *)
(* parts are there; an item nobody has in hand is whole.                     *)

CONSTANTS People, ItemIds, NoItem, MaxGrants, MaxCalls
VARIABLES item, content, profile, role, grant, call, cut, contested, calls
W == INSTANCE Workspaces

(* An empty row is no row of the tree. *)
EmptyIsNoNode == NoItem \notin W!Node

(* The requests: what is asked for and checked, a table or a dashboard that  *)
(* is made, a subtree or a workspace that is deleted; and the ones that      *)
(* touch no item.                                                           *)
Asked == [op : {"folder", "table", "dashboard", "move", "copy", "delete", "grant"}, item : ItemIds,
          target : ItemIds \cup {NoItem}, on : SUBSET ItemIds, todo : SUBSET ItemIds,
          step : {"checked"}]
Making == {e \in [op : {"table", "dashboard"}, item : ItemIds, target : ItemIds \cup {NoItem},
                  on : SUBSET ItemIds, todo : SUBSET ItemIds, step : {"fill", "profile"}] :
             e.on = {e.item} /\ (e.step = "profile" => e.op = "table")}
Clearing == {e \in [op : {"delete"}, item : ItemIds, target : ItemIds \cup {NoItem},
                    on : SUBSET ItemIds, todo : SUBSET ItemIds, step : {"emptying", "unprofile"}] :
               e.todo = e.on}
Dropping == {e \in [op : {"drop"}, on : SUBSET ItemIds, step : {"emptying", "unprofile"},
                    todo : SUBSET ItemIds] : e.todo \subseteq e.on}
Elsewhere == {W!NoCall} \cup [op : {"claim"}, on : {{}}]
             \cup [op : {"invite"}, user : People, role : {"owner", "editor", "viewer"}, on : {{}},
                   step : {"checked"}]
             \cup [op : {"leave"}, on : {{}}, step : {"checked"}]
Calls == Asked \cup Making \cup Clearing \cup Dropping \cup Elsewhere

WorkTypes ==
    /\ item \in [ItemIds -> W!Node \cup {NoItem}]
    /\ content \subseteq ItemIds /\ profile \subseteq ItemIds
    /\ cut \subseteq ItemIds /\ contested \subseteq ItemIds
    /\ role \in [People -> {"none", "owner", "editor", "viewer"}]
    /\ grant \subseteq ItemIds \X People \X W!Levels
    /\ calls \in Nat
    /\ call \in [People -> Calls]

(* A request has an item in hand from its first write to its last. *)
Busy(e, i) == e.op \notin {"none", "claim"} /\ e.step # "checked" /\ i \in e.on

Table(i) == item[i].type = "table"
Whole(i) ==
    /\ W!Present(i) => (W!HasContent(i) <=> i \in content)
    /\ i \in content => W!Present(i)
    /\ i \in profile => W!Present(i) /\ Table(i)

(* How far the request e has come with item i. *)
Midway(e, i) ==
    /\ e.step \in {"fill", "profile"} =>
         /\ W!Present(i) /\ item[i].type = e.op
         /\ i \in content <=> e.step = "profile"
         /\ i \notin profile
    /\ e.step = "emptying" =>
         /\ W!Present(i)
         /\ i \in content => W!HasContent(i)
         /\ i \in profile => Table(i)
         /\ e.op = "drop" => (i \in e.todo <=> Table(i))
    /\ e.step = "unprofile" =>
         /\ ~ W!Present(i) /\ i \notin content
         /\ i \in profile => i \in e.todo

(* An item that no death and no collision has spoilt is whole, or one        *)
(* request has it in hand.                                                  *)
ItemInv(i) ==
    i \notin cut \cup contested =>
      /\ (\A u \in People : ~ Busy(call[u], i)) => Whole(i)
      /\ \A u, v \in People : Busy(call[u], i) /\ Busy(call[v], i) => u = v
      /\ \A u \in People : Busy(call[u], i) => Midway(call[u], i)

WorkInv == WorkTypes /\ \A i \in ItemIds : ItemInv(i)

LEMMA CallKinds ==
  ASSUME NEW e \in Calls
  PROVE  /\ e.op = "none" <=> e = W!NoCall
         /\ e.op = "none" \/ e.op = "claim" \/ e.step = "checked" <=> e \in Asked \cup Elsewhere
         /\ e.op \in {"folder", "table", "dashboard", "move", "copy", "delete", "grant"} /\ e.step = "checked"
              => e \in Asked
         /\ e.op \in {"table", "dashboard"} /\ e.step # "checked" => e \in Making
         /\ e.op = "delete" /\ e.step # "checked" => e \in Clearing
         /\ e.op = "drop" => e \in Dropping
BY DEF Calls, Asked, Making, Clearing, Dropping, Elsewhere, W!NoCall

SameStage(e, f, i) ==
    /\ Busy(e, i) <=> Busy(f, i)
    /\ Busy(e, i) => e.op = f.op /\ e.step = f.step /\ (i \in e.todo <=> i \in f.todo)

(* What touches neither an item nor how far a request is with it leaves its  *)
(* invariant alone.                                                         *)
LEMMA Unmoved ==
  ASSUME NEW i \in ItemIds, ItemInv(i),
         W!Present(i)' <=> W!Present(i), W!Present(i) => item'[i].type = item[i].type,
         i \in content' <=> i \in content, i \in profile' <=> i \in profile,
         i \in cut => i \in cut', i \in contested => i \in contested',
         \A v \in People : SameStage(call[v], call'[v], i)
  PROVE  ItemInv(i)'
<1> SUFFICES ASSUME i \notin cut' \cup contested'
             PROVE  /\ (\A u \in People : ~ Busy(call'[u], i)) => Whole(i)'
                    /\ \A u, v \in People : Busy(call'[u], i) /\ Busy(call'[v], i) => u = v
                    /\ \A u \in People : Busy(call'[u], i) => Midway(call[u], i)'
  BY DEF ItemInv
<1>1. /\ (\A u \in People : ~ Busy(call[u], i)) => Whole(i)
      /\ \A u, v \in People : Busy(call[u], i) /\ Busy(call[v], i) => u = v
      /\ \A u \in People : Busy(call[u], i) => Midway(call[u], i)
  BY DEF ItemInv
<1>2. \A v \in People : Busy(call[v], i) <=> Busy(call'[v], i)
  BY DEF SameStage
<1>3. Whole(i) => Whole(i)'
  BY DEF Whole, Table, W!HasContent
<1>4. ASSUME NEW u \in People, Busy(call'[u], i)
      PROVE  Midway(call[u], i)'
  <2>1. Midway(call[u], i)
    BY <1>1, <1>2, <1>4
  <2>2. call'[u].op = call[u].op /\ call'[u].step = call[u].step /\ (i \in call'[u].todo <=> i \in call[u].todo)
    BY <1>2, <1>4 DEF SameStage
  <2> QED
    BY <2>1, <2>2 DEF Midway, Table, W!HasContent
<1> QED
  BY <1>1, <1>2, <1>3, <1>4

(* A request that has no item in hand, before or after, and writes none. *)
LEMMA QuietRequest ==
  ASSUME WorkInv, NEW u \in People, NEW e \in Calls, call' = [call EXCEPT ![u] = e],
         call[u] \in Asked \cup Elsewhere, e \in Asked \cup Elsewhere,
         \A i \in ItemIds : /\ W!Present(i)' <=> W!Present(i)
                            /\ W!Present(i) => item'[i].type = item[i].type,
         content' = content, profile' = profile, cut' = cut, contested' = contested
  PROVE  (\A i \in ItemIds : ItemInv(i)') /\ call' \in [People -> Calls]
<1>1. \A i \in ItemIds : ~ Busy(call[u], i) /\ ~ Busy(e, i)
  BY CallKinds DEF WorkInv, WorkTypes, Busy
<1>2. ASSUME NEW i \in ItemIds, NEW v \in People
      PROVE  SameStage(call[v], call'[v], i)
  <2>1. CASE v = u
    BY <1>1, <2>1 DEF WorkInv, WorkTypes, SameStage
  <2>2. CASE v # u
    BY <2>2 DEF WorkInv, WorkTypes, SameStage
  <2> QED
    BY <2>1, <2>2
<1>3. \A i \in ItemIds : ItemInv(i)'
  BY <1>2, Unmoved DEF WorkInv
<1> QED
  BY <1>3 DEF WorkInv, WorkTypes

LEMMA SameItems ==
  ASSUME item' = item
  PROVE  \A i \in ItemIds : /\ W!Present(i)' <=> W!Present(i)
                            /\ W!Present(i) => item'[i].type = item[i].type
BY DEF W!Present

(* The requests that touch no item: roles, permissions, and all checks. *)
LEMMA ChecksKeep ==
  ASSUME WorkInv, NEW u \in People, NEW op \in {"folder", "table", "dashboard", "move", "copy", "delete", "grant"},
         NEW i \in ItemIds, NEW j \in ItemIds \cup {NoItem}, NEW required, NEW there,
         W!Begin(u, op, i, j, required, there)
  PROVE  WorkInv'
<1> DEFINE e == [op |-> op, item |-> i, target |-> j, on |-> {i}, todo |-> {}, step |-> "checked"]
<1>1. e \in Asked /\ e \in Calls
  BY DEF Asked, Calls
<1>2. call' = [call EXCEPT ![u] = e] /\ call[u] = W!NoCall /\ calls' = calls + 1
  BY DEF W!Begin, W!Starts
<1>3. call[u] \in Elsewhere
  BY <1>2 DEF Elsewhere
<1>4. UNCHANGED <<item, content, profile, role, grant, cut, contested>>
  BY DEF W!Begin
<1> HIDE DEF e
<1>5. (\A k \in ItemIds : ItemInv(k)') /\ call' \in [People -> Calls]
  BY <1>1, <1>2, <1>3, <1>4, QuietRequest, SameItems
<1> QED
  BY <1>2, <1>4, <1>5 DEF WorkInv, WorkTypes

LEMMA PeopleKeep ==
  ASSUME WorkInv, NEW u \in People,
         \/ W!Claim(u) \/ W!FinishClaim(u) \/ W!Refused(u) \/ W!InviteUser(u)
         \/ W!BeginLeave(u) \/ W!LeaveWorkspace(u)
         \/ \E v \in People, l \in W!Levels : W!SetItemPermission(u, v, l)
         \/ \E v \in People : W!RemoveItemPermission(u, v)
         \/ \E v \in People, r \in {"owner", "editor", "viewer"} : W!BeginInvite(u, v, r)
  PROVE  WorkInv'
<1>0. call[u] \in Calls
  BY DEF WorkInv, WorkTypes
<1>1. UNCHANGED <<item, content, profile, cut, contested>>
  BY DEF W!Claim, W!FinishClaim, W!Refused, W!InviteUser, W!BeginLeave, W!LeaveWorkspace,
     W!SetItemPermission, W!RemoveItemPermission, W!BeginInvite
<1>2. \E e \in Elsewhere : call' = [call EXCEPT ![u] = e]
  <2>1. ASSUME W!Done(u) PROVE \E e \in Elsewhere : call' = [call EXCEPT ![u] = e]
    BY <2>1 DEF W!Done, Elsewhere
  <2>2. ASSUME W!Claim(u) PROVE \E e \in Elsewhere : call' = [call EXCEPT ![u] = e]
    BY <2>2 DEF W!Claim, Elsewhere
  <2>3. ASSUME NEW v \in People, NEW r \in {"owner", "editor", "viewer"}, W!BeginInvite(u, v, r)
        PROVE  \E e \in Elsewhere : call' = [call EXCEPT ![u] = e]
    BY <2>3 DEF W!BeginInvite, Elsewhere
  <2>4. ASSUME W!BeginLeave(u) PROVE \E e \in Elsewhere : call' = [call EXCEPT ![u] = e]
    BY <2>4 DEF W!BeginLeave, Elsewhere
  <2>5. ASSUME W!FinishClaim(u) PROVE W!Done(u)
    BY <2>5 DEF W!FinishClaim, W!Done
  <2> QED
    BY <2>1, <2>2, <2>3, <2>4, <2>5 DEF W!Refused, W!InviteUser, W!LeaveWorkspace,
       W!SetItemPermission, W!RemoveItemPermission
<1>3. call[u] \in Asked \cup Elsewhere
  BY <1>0, CallKinds DEF W!Claim, W!FinishClaim, W!Refused, W!InviteUser, W!BeginLeave, W!LeaveWorkspace,
     W!SetItemPermission, W!RemoveItemPermission, W!BeginInvite, W!Starts, W!NoCall, W!At
<1>4. (\A i \in ItemIds : ItemInv(i)') /\ call' \in [People -> Calls]
  <2>1. Elsewhere \subseteq Calls
    BY DEF Calls
  <2> QED
    BY <1>1, <1>2, <1>3, <2>1, QuietRequest, SameItems
<1>5. calls' \in Nat
  BY DEF WorkInv, WorkTypes, W!Claim, W!FinishClaim, W!Refused, W!InviteUser, W!BeginLeave, W!LeaveWorkspace,
     W!SetItemPermission, W!RemoveItemPermission, W!BeginInvite, W!Starts
<1>6. role' \in [People -> {"none", "owner", "editor", "viewer"}]
  <2>1. ASSUME W!InviteUser(u)
        PROVE  role' \in [People -> {"none", "owner", "editor", "viewer"}]
    <3>1. call[u] \in [op : {"invite"}, user : People, role : {"owner", "editor", "viewer"}, on : {{}},
                       step : {"checked"}]
      BY <1>0, <2>1 DEF W!InviteUser, W!At, Calls, Asked, Making, Clearing, Dropping, Elsewhere, W!NoCall
    <3> QED
      BY <2>1, <3>1 DEF W!InviteUser, WorkInv, WorkTypes
  <2>2. ASSUME ~ W!InviteUser(u)
        PROVE  role' \in [People -> {"none", "owner", "editor", "viewer"}]
    BY <2>2 DEF WorkInv, WorkTypes, W!Claim, W!FinishClaim, W!Refused, W!BeginLeave, W!LeaveWorkspace,
       W!SetItemPermission, W!RemoveItemPermission, W!BeginInvite
  <2> QED
    BY <2>1, <2>2
<1>7. grant' \subseteq ItemIds \X People \X W!Levels
  <2>1. ASSUME NEW v \in People, NEW l \in W!Levels, W!SetItemPermission(u, v, l)
        PROVE  grant' \subseteq ItemIds \X People \X W!Levels
    <3>1. call[u] \in Asked
      BY <1>0, <2>1, CallKinds DEF W!SetItemPermission, W!At
    <3>2. call[u].item \in ItemIds
      BY <3>1 DEF Asked
    <3> QED
      BY <2>1, <3>2 DEF W!SetItemPermission, WorkInv, WorkTypes
  <2>2. ASSUME NEW v \in People, W!RemoveItemPermission(u, v)
        PROVE  grant' \subseteq ItemIds \X People \X W!Levels
    BY <2>2 DEF W!RemoveItemPermission, WorkInv, WorkTypes
  <2>3. ASSUME grant' = grant
        PROVE  grant' \subseteq ItemIds \X People \X W!Levels
    BY <2>3 DEF WorkInv, WorkTypes
  <2> QED
    BY <2>1, <2>2, <2>3 DEF W!Claim, W!FinishClaim, W!Refused, W!InviteUser, W!BeginLeave,
       W!LeaveWorkspace, W!BeginInvite
<1> QED
  BY <1>1, <1>4, <1>5, <1>6, <1>7 DEF WorkInv, WorkTypes

LEMMA MoveKeeps ==
  ASSUME EmptyIsNoNode, WorkInv, NEW u \in People, W!MoveItem(u)
  PROVE  WorkInv'
<1>1. call[u] \in Asked
  BY CallKinds DEF WorkInv, WorkTypes, W!MoveItem, W!At
<1> DEFINE x == call[u].item
           p == call[u].target
<1>2. x \in ItemIds /\ p \in ItemIds /\ item[x] \in W!Node
  BY <1>1 DEF Asked, W!MoveItem, W!Present, WorkInv, WorkTypes
<1> HIDE DEF x, p
<1>3. item' = [item EXCEPT ![x].parent = p]
  BY DEF W!MoveItem, x, p
<1>4. item'[x] = [item[x] EXCEPT !.parent = p] /\ \A i \in ItemIds : i # x => item'[i] = item[i]
  BY <1>2, <1>3 DEF WorkInv, WorkTypes
<1>5. item'[x] \in W!Node /\ item'[x].type = item[x].type
  BY <1>2, <1>4 DEF W!Node
<1>6. item' \in [ItemIds -> W!Node \cup {NoItem}]
  BY <1>2, <1>3, <1>4, <1>5 DEF WorkInv, WorkTypes
<1>7. \A i \in ItemIds : /\ W!Present(i)' <=> W!Present(i)
                         /\ W!Present(i) => item'[i].type = item[i].type
  BY <1>2, <1>4, <1>5 DEF W!Present, EmptyIsNoNode
<1>8. UNCHANGED <<content, profile, role, grant, cut, contested, calls>> /\ call' = [call EXCEPT ![u] = W!NoCall]
  BY DEF W!MoveItem, W!Done
<1>9. W!NoCall \in Elsewhere /\ W!NoCall \in Calls
  BY DEF Elsewhere, Calls
<1>10. (\A i \in ItemIds : ItemInv(i)') /\ call' \in [People -> Calls]
  BY <1>1, <1>7, <1>8, <1>9, QuietRequest
<1> QED
  BY <1>6, <1>8, <1>10 DEF WorkInv, WorkTypes

LEMMA FreeItem ==
  ASSUME WorkTypes, NEW u \in People, NEW i \in ItemIds, i \notin W!InUse(u), ~ Busy(call[u], i)
  PROVE  \A v \in People : ~ Busy(call[v], i)
<1>1. ASSUME NEW v \in People, v # u, Busy(call[v], i)
      PROVE  FALSE
  BY <1>1 DEF Busy, W!InUse
<1> QED
  BY <1>1

LEMMA EnsureKeeps ==
  ASSUME EmptyIsNoNode, WorkInv, NEW u \in People, NEW r \in ItemIds, NEW t \in ItemIds,
         W!EnsureWorkspace(u, r, t)
  PROVE  WorkInv'
<1>1. PICK e \in Elsewhere : call' = [call EXCEPT ![u] = e]
  <2>1. W!NoCall \in Elsewhere /\ [op |-> "claim", on |-> {}] \in Elsewhere
    BY DEF Elsewhere
  <2> QED
    BY <2>1 DEF W!EnsureWorkspace
<1>2. call[u] = W!NoCall /\ call[u] \in Elsewhere /\ calls' = calls + 1
  BY DEF W!EnsureWorkspace, W!Starts, Elsewhere
<1>3. \A i \in ItemIds : ~ Busy(call[u], i) /\ ~ Busy(e, i)
  BY <1>2, CallKinds DEF Busy, Calls
<1>4. r # t /\ ~ W!Present(r) /\ ~ W!Present(t)
      /\ {r, t} \cap (content \cup profile \cup cut \cup contested \cup W!InUse(u)) = {}
      /\ item' = [item EXCEPT ![r] = [type |-> "folder", parent |-> NoItem],
                              ![t] = [type |-> "table", parent |-> r]]
      /\ content' = content \cup {t}
      /\ UNCHANGED <<profile, role, grant, cut, contested>>
  BY DEF W!EnsureWorkspace
<1>5. /\ item'[r] = [type |-> "folder", parent |-> NoItem]
      /\ item'[t] = [type |-> "table", parent |-> r]
      /\ \A i \in ItemIds : i # r /\ i # t => item'[i] = item[i]
  BY <1>4 DEF WorkInv, WorkTypes
<1>6. item'[r] \in W!Node /\ item'[t] \in W!Node
  BY <1>5 DEF W!Node, W!ItemTypes
<1>7. item' \in [ItemIds -> W!Node \cup {NoItem}]
  BY <1>4, <1>5, <1>6 DEF WorkInv, WorkTypes
<1>8. /\ \A v \in People : call'[v] = IF v = u THEN e ELSE call[v]
      /\ call' \in [People -> Calls]
  BY <1>1 DEF WorkInv, WorkTypes, Calls
<1>9. ASSUME NEW i \in ItemIds, i \notin {r, t}
      PROVE  ItemInv(i)'
  <2>1. \A v \in People : SameStage(call[v], call'[v], i)
    BY <1>3, <1>8 DEF SameStage
  <2> QED
    BY <1>4, <1>5, <1>9, <2>1, Unmoved DEF WorkInv, W!Present
<1>10. ASSUME NEW i \in {r, t}
       PROVE  ItemInv(i)'
  <2>1. \A v \in People : ~ Busy(call[v], i)
    BY <1>3, <1>4, FreeItem DEF WorkInv
  <2>2. \A v \in People : ~ Busy(call'[v], i)
    BY <1>3, <1>8, <2>1
  <2>3. i \in content' <=> i = t
    BY <1>4
  <2>4. Whole(i)'
    BY <1>4, <1>5, <1>6, <2>3 DEF Whole, W!Present, W!HasContent, Table, EmptyIsNoNode
  <2> QED
    BY <2>2, <2>4 DEF ItemInv
<1>11. \A i \in ItemIds : ItemInv(i)'
  BY <1>9, <1>10
<1> QED
  BY <1>2, <1>4, <1>7, <1>8, <1>11 DEF WorkInv, WorkTypes

(* A new item, which nobody has in hand but the request that makes it. *)
LEMMA NewItem ==
  ASSUME EmptyIsNoNode, WorkInv, NEW u \in People, NEW i \in ItemIds, W!Fresh(u, i),
         call[u] \in Asked, NEW type \in W!ItemTypes, NEW p \in ItemIds, NEW e \in Calls,
         item' = [item EXCEPT ![i] = [type |-> type, parent |-> p]],
         call' = [call EXCEPT ![u] = e],
         \/ e \in Elsewhere /\ type = "folder" /\ content' = content
         \/ /\ e \in Making /\ e.item = i /\ e.op = type
            /\ content' = IF e.step = "profile" THEN content \cup {i} ELSE content,
         UNCHANGED <<profile, role, grant, cut, contested, calls>>
  PROVE  WorkInv'
<1>1. ~ W!Present(i) /\ i \notin content \cup profile \cup cut \cup contested \cup W!InUse(u)
  BY DEF W!Fresh
<1>2. item'[i] = [type |-> type, parent |-> p] /\ \A j \in ItemIds : j # i => item'[j] = item[j]
  BY DEF WorkInv, WorkTypes
<1>3. item'[i] \in W!Node /\ item' \in [ItemIds -> W!Node \cup {NoItem}] /\ item'[i].type = type
  BY <1>2 DEF W!Node, W!ItemTypes, WorkInv, WorkTypes
<1>4. W!Present(i)'
  BY <1>3 DEF W!Present, EmptyIsNoNode
<1>5. /\ \A v \in People : call'[v] = IF v = u THEN e ELSE call[v]
      /\ call' \in [People -> Calls]
  BY DEF WorkInv, WorkTypes
<1>6. \A j \in ItemIds : ~ Busy(call[u], j) /\ (Busy(e, j) => j = i /\ e \in Making)
  <2>1. e \in Elsewhere => \A j \in ItemIds : ~ Busy(e, j)
    BY CallKinds DEF Busy
  <2>2. e \in Making => e.on = {e.item}
    BY DEF Making
  <2>3. \A j \in ItemIds : ~ Busy(call[u], j)
    BY CallKinds DEF Busy, Calls
  <2> QED
    BY <2>1, <2>2, <2>3 DEF Busy
<1>0. e \in Making => /\ e.item = i /\ e.op = type
                      /\ content' = IF e.step = "profile" THEN content \cup {i} ELSE content
  <2>1. e \in Making => e \notin Elsewhere
    BY CallKinds DEF Making
  <2> QED
    BY <2>1
<1>7. ASSUME NEW j \in ItemIds, j # i
      PROVE  ItemInv(j)'
  <2>1. \A v \in People : SameStage(call[v], call'[v], j)
    BY <1>5, <1>6, <1>7 DEF SameStage
  <2>2. j \in content' <=> j \in content
    BY <1>7
  <2> QED
    BY <1>2, <1>7, <2>1, <2>2, Unmoved DEF WorkInv, W!Present
<1>8. ItemInv(i)'
  <2>1. \A v \in People : ~ Busy(call[v], i)
    BY <1>1, <1>6, FreeItem DEF WorkInv
  <2>2. \A v \in People : Busy(call'[v], i) => v = u /\ e \in Making
    BY <1>5, <1>6, <2>1
  <2>3. (\A v \in People : ~ Busy(call'[v], i)) => Whole(i)'
    <3>1. e \in Making => Busy(e, i)
      BY <1>0 DEF Making, Busy
    <3>2. e \in Elsewhere /\ type = "folder" /\ content' = content => Whole(i)'
      BY <1>1, <1>3, <1>4 DEF Whole, W!HasContent
    <3> QED
      BY <1>5, <3>1, <3>2
  <2>4. \A v \in People : Busy(call'[v], i) => Midway(call[v], i)'
    <3>1. ASSUME e \in Making PROVE Midway(call[u], i)'
      <4>1. e.step \in {"fill", "profile"}
        BY <3>1 DEF Making
      <4>2. content' = (IF e.step = "profile" THEN content \cup {i} ELSE content) /\ e.op = type
        BY <1>0, <3>1
      <4>3. i \in content' <=> e.step = "profile"
        BY <1>1, <4>2
      <4> QED
        BY <1>1, <1>3, <1>4, <1>5, <4>1, <4>2, <4>3 DEF Midway
    <3> QED
      BY <2>2, <3>1
  <2> QED
    BY <2>2, <2>3, <2>4 DEF ItemInv
<1>9. \A j \in ItemIds : ItemInv(j)'
  BY <1>7, <1>8
<1>10. content' \subseteq ItemIds
  BY DEF WorkInv, WorkTypes
<1> QED
  BY <1>3, <1>5, <1>9, <1>10 DEF WorkInv, WorkTypes

LEMMA CreationsKeep ==
  ASSUME EmptyIsNoNode, WorkInv, NEW u \in People, NEW i \in ItemIds,
         \/ W!CreateFolder(u, i) \/ W!CreateTable(u, i) \/ W!CreateDashboard(u, i)
         \/ W!CopyTable(u, i) \/ W!CopyDashboard(u, i)
  PROVE  WorkInv'
<1>1. W!Fresh(u, i) /\ call[u].step = "checked"
      /\ call[u].op \in {"folder", "table", "dashboard", "copy"}
  BY DEF W!CreateFolder, W!CreateTable, W!CreateDashboard, W!CopyTable, W!CopyDashboard,
     W!CopyItem, W!At
<1>2. call[u] \in Asked
  BY <1>1, CallKinds DEF WorkInv, WorkTypes
<1>3. ASSUME NEW p, NEW type, NEW parents, W!Insert(i, type, p, parents)
      PROVE  /\ p \in ItemIds
             /\ item' = [item EXCEPT ![i] = [type |-> type, parent |-> p]]
  BY <1>3 DEF W!Insert, W!Present
<1>4. ASSUME W!CreateFolder(u, i) PROVE WorkInv'
  <2>1. W!NoCall \in Elsewhere /\ W!NoCall \in Calls /\ "folder" \in W!ItemTypes
    BY DEF Elsewhere, Calls, W!ItemTypes
  <2>2. call' = [call EXCEPT ![u] = W!NoCall] /\ W!Insert(i, "folder", call[u].item, {"folder"})
        /\ content' = content /\ UNCHANGED <<profile, role, grant, cut, contested, calls>>
    BY <1>4 DEF W!CreateFolder, W!Done
  <2>3. call[u].item \in ItemIds /\ item' = [item EXCEPT ![i] = [type |-> "folder", parent |-> call[u].item]]
    BY <1>3, <2>2
  <2> QED
    BY <1>1, <1>2, <2>1, <2>2, <2>3, NewItem
<1>5. ASSUME NEW type \in {"table", "dashboard"}, NEW stage \in {"profile", "fill"}, NEW p, NEW parents,
             stage = "profile" => type = "table",
             W!Insert(i, type, p, parents), W!Continue(u, i, type, stage),
             content' = IF stage = "profile" THEN content \cup {i} ELSE content,
             UNCHANGED <<profile, role, grant, cut, contested, calls>>
      PROVE  WorkInv'
  <2> DEFINE e == [call[u] EXCEPT !.op = type, !.step = stage, !.item = i, !.on = {i}]
  <2>1. e \in Making /\ e \in Calls /\ e.item = i /\ e.op = type /\ e.step = stage
    BY <1>2, <1>5 DEF Asked, Making, Calls
  <2>2. call' = [call EXCEPT ![u] = e]
    BY <1>5 DEF W!Continue, WorkInv, WorkTypes
  <2>3. p \in ItemIds /\ item' = [item EXCEPT ![i] = [type |-> type, parent |-> p]]
    BY <1>3, <1>5
  <2>4. type \in W!ItemTypes
    BY DEF W!ItemTypes
  <2> HIDE DEF e
  <2>5. content' = IF e.step = "profile" THEN content \cup {i} ELSE content
    BY <1>5, <2>1
  <2> QED
    BY <1>1, <1>2, <1>5, <2>1, <2>2, <2>3, <2>4, <2>5, NewItem
<1>6. ASSUME W!CreateTable(u, i) PROVE WorkInv'
  <2>1. /\ W!Insert(i, "table", call[u].item, {"folder"}) /\ W!Continue(u, i, "table", "profile")
        /\ content' = content \cup {i} /\ UNCHANGED <<profile, role, grant, cut, contested, calls>>
    BY <1>6 DEF W!CreateTable
  <2> QED
    BY <1>5, <2>1
<1>7. ASSUME W!CreateDashboard(u, i) PROVE WorkInv'
  <2>1. /\ W!Insert(i, "dashboard", call[u].item, {"folder"}) /\ W!Continue(u, i, "dashboard", "fill")
        /\ content' = content /\ UNCHANGED <<profile, role, grant, cut, contested, calls>>
    BY <1>7 DEF W!CreateDashboard
  <2> QED
    BY <1>5, <2>1
<1>8. ASSUME NEW type \in {"table", "dashboard"}, NEW parents, W!CopyItem(u, i, type, parents)
      PROVE  WorkInv'
  <2>1. /\ W!Insert(i, type, call[u].target, parents) /\ W!Continue(u, i, type, "fill")
        /\ content' = content /\ UNCHANGED <<profile, role, grant, cut, contested, calls>>
    BY <1>8 DEF W!CopyItem
  <2> QED
    BY <1>5, <2>1
<1> QED
  BY <1>4, <1>6, <1>7, <1>8 DEF W!CopyTable, W!CopyDashboard

(* The steps of a request that makes an item. *)
LEMMA FillsKeep ==
  ASSUME EmptyIsNoNode, WorkInv, NEW u \in People,
         W!FillTable(u) \/ W!FillDashboard(u) \/ W!InstallProfile(u)
  PROVE  WorkInv'
<1>0. call[u] \in Making
  BY CallKinds DEF W!FillTable, W!FillDashboard, W!InstallProfile, W!At, WorkInv, WorkTypes
<1>1. PICK e \in Making : e = call[u]
  BY <1>0
<1>21. e.item \in ItemIds
  BY DEF Making
<1>22. PICK x \in ItemIds : x = e.item
  BY <1>21
<1>2. x = call[u].item /\ e.on = {x} /\ Busy(e, x)
  BY <1>1, <1>22 DEF Making, Busy
<1>3. UNCHANGED <<item, role, grant, cut, contested, calls>>
  BY DEF W!FillTable, W!FillDashboard, W!InstallProfile
<1>4. x \notin cut \cup contested =>
        /\ \A v \in People : Busy(call[v], x) => v = u
        /\ Midway(e, x)
  BY <1>1, <1>2 DEF WorkInv, ItemInv
<1>5. content \subseteq content' /\ content' \subseteq content \cup {x}
      /\ profile \subseteq profile' /\ profile' \subseteq profile \cup {x}
  BY <1>2 DEF W!FillTable, W!FillDashboard, W!InstallProfile
<1>6. PICK f \in Calls : /\ call' = [call EXCEPT ![u] = f]
                         /\ \A i \in ItemIds : Busy(f, i) => i = x
                         /\ W!FillTable(u) => f.op = "table" /\ f.step = "profile" /\ Busy(f, x)
                         /\ ~ W!FillTable(u) => ~ Busy(f, x)
  <2>1. ASSUME W!FillTable(u)
        PROVE  \E f \in Calls : /\ call' = [call EXCEPT ![u] = f]
                                /\ \A i \in ItemIds : Busy(f, i) => i = x
                                /\ f.op = "table" /\ f.step = "profile" /\ Busy(f, x)
    <3> DEFINE f == [e EXCEPT !.step = "profile"]
    <3>1. f \in Making /\ f.op = "table" /\ f.step = "profile" /\ f.on = {x}
      BY <1>1, <1>2, <1>22, <2>1 DEF Making, W!FillTable, W!At
    <3>2. call' = [call EXCEPT ![u] = f]
      BY <1>1, <2>1 DEF W!FillTable, WorkInv, WorkTypes
    <3> HIDE DEF f
    <3> QED
      BY <3>1, <3>2 DEF Busy, Calls
  <2>2. ASSUME W!Done(u)
        PROVE  \E f \in Calls : call' = [call EXCEPT ![u] = f] /\ \A i \in ItemIds : ~ Busy(f, i)
    <3>1. W!NoCall \in Calls /\ \A i \in ItemIds : ~ Busy(W!NoCall, i)
      BY DEF Calls, Elsewhere, Busy, W!NoCall
    <3> QED
      BY <2>2, <3>1 DEF W!Done
  <2>3. ASSUME W!InstallProfile(u), call' = [call EXCEPT ![u].op = "delete", ![u].step = "checked"]
        PROVE  \E f \in Calls : call' = [call EXCEPT ![u] = f] /\ \A i \in ItemIds : ~ Busy(f, i)
    <3> DEFINE f == [e EXCEPT !.op = "delete", !.step = "checked"]
    <3>1. f \in Asked /\ f.step = "checked"
      BY <1>1, <2>3 DEF Making, Asked
    <3>2. call' = [call EXCEPT ![u] = f]
      BY <1>1, <2>3 DEF WorkInv, WorkTypes
    <3> HIDE DEF f
    <3> QED
      BY <3>1, <3>2 DEF Busy, Calls
  <2>4. \/ W!FillTable(u)
        \/ W!Done(u)
        \/ /\ W!InstallProfile(u)
           /\ call' = [call EXCEPT ![u].op = "delete", ![u].step = "checked"]
    BY DEF W!FillDashboard, W!InstallProfile
  <2>5. W!FillTable(u) => ~ W!FillDashboard(u) /\ ~ W!InstallProfile(u)
    BY DEF W!FillTable, W!FillDashboard, W!InstallProfile, W!At
  <2> QED
    BY <1>2, <2>1, <2>2, <2>3, <2>4, <2>5
<1>7. /\ \A v \in People : call'[v] = IF v = u THEN f ELSE call[v]
      /\ call' \in [People -> Calls]
  BY <1>6 DEF WorkInv, WorkTypes
<1>8. ASSUME NEW i \in ItemIds, i # x
      PROVE  ItemInv(i)'
  <2>1. ~ Busy(call[u], i) /\ ~ Busy(f, i)
    BY <1>1, <1>2, <1>6, <1>8 DEF Busy
  <2>2. \A v \in People : SameStage(call[v], call'[v], i)
    BY <1>7, <2>1 DEF SameStage
  <2>3. (i \in content' <=> i \in content) /\ (i \in profile' <=> i \in profile)
    BY <1>5, <1>8
  <2> QED
    BY <1>3, <2>2, <2>3, SameItems, Unmoved DEF WorkInv
<1>9. ItemInv(x)'
  <2> SUFFICES ASSUME x \notin cut \cup contested
               PROVE  /\ (\A v \in People : ~ Busy(call'[v], x)) => Whole(x)'
                      /\ \A v, w \in People : Busy(call'[v], x) /\ Busy(call'[w], x) => v = w
                      /\ \A v \in People : Busy(call'[v], x) => Midway(call[v], x)'
    BY <1>3 DEF ItemInv
  <2>1. \A v \in People : Busy(call'[v], x) => v = u /\ W!FillTable(u)
    BY <1>4, <1>6, <1>7
  <2>2. W!Present(x) /\ item[x].type = e.op /\ (x \in content <=> e.step = "profile") /\ x \notin profile
    BY <1>1, <1>4 DEF Midway, Making
  <2>3. W!Present(x)' /\ item'[x].type = e.op
    BY <1>3, <2>2 DEF W!Present
  <2>4. ASSUME ~ W!FillTable(u) PROVE Whole(x)'
    <3>1. x \in content' /\ e.op \in {"table", "dashboard"}
      BY <1>1, <1>2, <1>5, <2>2, <2>4 DEF W!FillDashboard, W!InstallProfile, W!At, Making
    <3>2. x \in profile' => e.op = "table"
      BY <1>1, <1>2, <2>2, <2>4 DEF W!FillDashboard, W!InstallProfile, W!At
    <3> QED
      BY <2>3, <3>1, <3>2 DEF Whole, W!HasContent, Table
  <2>5. ASSUME W!FillTable(u) PROVE Midway(call[u], x)'
    <3>1. x \in content' /\ profile' = profile /\ e.op = "table"
      BY <1>1, <1>2, <2>5 DEF W!FillTable, W!At
    <3>2. f.op = "table" /\ f.step = "profile" /\ call'[u] = f
      BY <1>6, <1>7, <2>5
    <3> QED
      BY <2>2, <2>3, <3>1, <3>2 DEF Midway
  <2>6. W!FillTable(u) => Busy(call'[u], x)
    BY <1>6, <1>7
  <2> QED
    BY <2>1, <2>4, <2>5, <2>6
<1>10. \A i \in ItemIds : ItemInv(i)'
  BY <1>8, <1>9
<1>11. content' \subseteq ItemIds /\ profile' \subseteq ItemIds
  BY <1>2, <1>5 DEF WorkInv, WorkTypes
<1> QED
  BY <1>3, <1>7, <1>10, <1>11 DEF WorkInv, WorkTypes

(* A request takes the items in S in hand, to delete them. *)
LEMMA TakesInHand ==
  ASSUME WorkInv, NEW u \in People, NEW S \in SUBSET ItemIds, NEW e \in Clearing \cup Dropping,
         e.on = S, e.step = "emptying", call[u] \in Asked \cup Elsewhere,
         call' = [call EXCEPT ![u] = e],
         \A i \in S : W!Present(i) /\ (e.op = "drop" => (i \in e.todo <=> Table(i))),
         contested' = contested \cup (S \cap W!InUse(u)),
         UNCHANGED <<item, content, profile, role, grant, cut>>, calls' \in Nat
  PROVE  WorkInv'
<1>1. /\ \A v \in People : call'[v] = IF v = u THEN e ELSE call[v]
      /\ call' \in [People -> Calls]
  BY DEF WorkInv, WorkTypes, Calls
<1>2. \A i \in ItemIds : ~ Busy(call[u], i) /\ (Busy(e, i) <=> i \in S)
  BY CallKinds DEF Busy, Calls, Clearing, Dropping
<1>3. ASSUME NEW i \in ItemIds, i \notin S
      PROVE  ItemInv(i)'
  <2>1. \A v \in People : SameStage(call[v], call'[v], i)
    BY <1>1, <1>2, <1>3 DEF SameStage
  <2>2. i \in contested => i \in contested'
    OBVIOUS
  <2> QED
    BY <2>1, <2>2, SameItems, Unmoved DEF WorkInv
<1>4. ASSUME NEW i \in ItemIds, i \in S, i \notin cut' \cup contested'
      PROVE  /\ \A v \in People : Busy(call'[v], i) <=> v = u
             /\ Midway(call[u], i)'
  <2>1. i \notin cut \cup contested /\ i \notin W!InUse(u)
    BY <1>4
  <2>2. \A v \in People : ~ Busy(call[v], i)
    BY <1>2, <2>1, FreeItem DEF WorkInv
  <2>3. Whole(i)
    BY <2>1, <2>2 DEF WorkInv, ItemInv
  <2>4. call'[u] = e /\ (W!Present(i)' <=> W!Present(i)) /\ W!Present(i)
    BY <1>1, <1>4 DEF W!Present
  <2>5. Midway(call[u], i)'
    BY <1>4, <2>3, <2>4 DEF Midway, Whole, Table, W!HasContent
  <2> QED
    BY <1>1, <1>2, <1>4, <2>2, <2>5
<1>5. \A i \in ItemIds : ItemInv(i)'
  BY <1>3, <1>4 DEF ItemInv
<1>6. contested' \subseteq ItemIds
  BY DEF WorkInv, WorkTypes
<1> QED
  BY <1>1, <1>5, <1>6 DEF WorkInv, WorkTypes

LEMMA ReadsKeep ==
  ASSUME WorkInv, NEW u \in People, W!ReadSubtree(u)
  PROVE  WorkInv'
<1>1. call[u] \in Asked /\ call[u].op = "delete"
  BY CallKinds DEF W!ReadSubtree, W!At, WorkInv, WorkTypes
<1> DEFINE S == W!Below(call[u].item)
           e == [call[u] EXCEPT !.todo = S, !.on = S, !.step = "emptying"]
<1>2. S \in SUBSET ItemIds /\ \A i \in S : W!Present(i)
  BY DEF W!Below
<1> HIDE DEF S
<1>3. e \in Clearing /\ e.on = S /\ e.step = "emptying" /\ e.op # "drop"
  BY <1>1, <1>2 DEF Asked, Clearing
<1>4. call' = [call EXCEPT ![u] = e] /\ contested' = contested \cup (S \cap W!InUse(u))
      /\ UNCHANGED <<item, content, profile, role, grant, cut, calls>>
  BY DEF W!ReadSubtree, WorkInv, WorkTypes, S
<1>5. calls' \in Nat
  BY <1>4 DEF WorkInv, WorkTypes
<1> HIDE DEF e
<1> QED
  BY <1>1, <1>2, <1>3, <1>4, <1>5, TakesInHand

LEMMA DropsBegin ==
  ASSUME WorkInv, NEW u \in People, W!BeginDrop(u)
  PROVE  WorkInv'
<1> DEFINE S == {i \in ItemIds : W!Present(i)}
           tables == {i \in S : item[i].type = "table"}
           e == [op |-> "drop", on |-> S, step |-> "emptying", todo |-> tables]
<1>1. call[u] = W!NoCall /\ call[u] \in Elsewhere /\ calls' = calls + 1
  BY DEF W!BeginDrop, W!Starts, Elsewhere
<1>2. call' = [call EXCEPT ![u] = e] /\ contested' = contested \cup (S \cap W!InUse(u))
      /\ UNCHANGED <<item, content, profile, role, grant, cut>>
  BY DEF W!BeginDrop
<1>3. S \in SUBSET ItemIds /\ \A i \in S : W!Present(i) /\ (i \in tables <=> Table(i))
  BY DEF Table
<1> HIDE DEF S
<1>4. tables \subseteq S
  OBVIOUS
<1> HIDE DEF tables
<1>5. e \in Dropping /\ e.on = S /\ e.step = "emptying" /\ e.todo = tables
  BY <1>3, <1>4 DEF Dropping
<1>6. calls' \in Nat
  BY <1>1 DEF WorkInv, WorkTypes
<1> HIDE DEF e
<1> QED
  BY <1>1, <1>2, <1>3, <1>5, <1>6, TakesInHand

(* The commits of a deletion. *)
LEMMA EmptyingKeeps ==
  ASSUME WorkInv, NEW u \in People, NEW x \in ItemIds, W!EmptyTable(u, x) \/ W!EmptyDashboard(u, x)
  PROVE  WorkInv'
<1>1. /\ call[u].op \in {"delete", "drop"} /\ call[u].step = "emptying" /\ x \in call[u].todo
      /\ content' = content \ {x} /\ contested' = contested \cup ({x} \cap W!InUse(u))
      /\ UNCHANGED <<item, profile, role, grant, call, cut, calls>>
  BY DEF W!EmptyTable, W!EmptyDashboard, W!EmptyItem, W!Unfilled, W!At
<1>2. call[u] \in Clearing \cup Dropping
  BY <1>1, CallKinds DEF WorkInv, WorkTypes
<1>3. Busy(call[u], x)
  BY <1>1, <1>2 DEF Clearing, Dropping, Busy
<1>4. ASSUME NEW i \in ItemIds, i # x
      PROVE  ItemInv(i)'
  <2>1. \A v \in People : SameStage(call[v], call'[v], i)
    BY <1>1 DEF SameStage
  <2>2. (i \in content' <=> i \in content) /\ (i \in contested => i \in contested')
    BY <1>1, <1>4
  <2> QED
    BY <1>1, <2>1, <2>2, SameItems, Unmoved DEF WorkInv
<1>5. ASSUME x \notin cut' \cup contested'
      PROVE  /\ \A v \in People : Busy(call'[v], x) <=> v = u
             /\ Midway(call[u], x)'
  <2>1. Midway(call[u], x) /\ \A v \in People : Busy(call[v], x) => v = u
    BY <1>1, <1>3, <1>5 DEF WorkInv, ItemInv
  <2>2. W!Present(x)' <=> W!Present(x)
    BY <1>1 DEF W!Present
  <2> QED
    BY <1>1, <1>3, <2>1, <2>2 DEF Midway, Table, W!HasContent
<1>6. ItemInv(x)'
  BY <1>5 DEF ItemInv
<1>7. \A i \in ItemIds : ItemInv(i)'
  BY <1>4, <1>6
<1> QED
  BY <1>1, <1>7 DEF WorkInv, WorkTypes

LEMMA DeletesKeep ==
  ASSUME WorkInv, NEW u \in People, W!DeleteRows(u) \/ W!DropRows(u)
  PROVE  WorkInv'
<1>1. /\ call[u].op \in {"delete", "drop"} /\ call[u].step = "emptying"
      /\ call[u].todo \cap content = {}
      /\ call' = [call EXCEPT ![u].step = "unprofile"]
      /\ UNCHANGED <<content, profile, role, grant, calls>>
  BY DEF W!DeleteRows, W!DropRows, W!Unfilled, W!At
<1>2. call[u] \in Clearing \cup Dropping
  BY <1>1, CallKinds DEF WorkInv, WorkTypes
<1>21. PICK e \in Clearing \cup Dropping : e = call[u]
  BY <1>2
<1> DEFINE f == [e EXCEPT !.step = "unprofile"]
<1>3. /\ f \in Clearing \cup Dropping /\ f.op = e.op /\ f.step = "unprofile"
      /\ f.on = e.on /\ f.todo = e.todo /\ e.todo \subseteq e.on
      /\ e.op \in {"delete", "drop"} /\ e.step = "emptying"
  BY <1>1, <1>21 DEF Clearing, Dropping
<1>4. /\ \A v \in People : call'[v] = IF v = u THEN f ELSE call[v]
      /\ call' \in [People -> Calls]
  <2>1. call' = [call EXCEPT ![u] = f]
    BY <1>1, <1>21 DEF WorkInv, WorkTypes
  <2>2. f \in Calls
    BY <1>3 DEF Calls
  <2> HIDE DEF f
  <2> QED
    BY <2>1, <2>2 DEF WorkInv, WorkTypes
<1> HIDE DEF f
<1>5. \A i \in ItemIds : (Busy(e, i) <=> i \in e.on) /\ (Busy(f, i) <=> i \in e.on)
  BY <1>3 DEF Busy
<1>6. /\ item' \in [ItemIds -> W!Node \cup {NoItem}]
      /\ \A i \in ItemIds : item'[i] = item[i] \/ item'[i] = NoItem
      /\ cut \subseteq cut' /\ contested \subseteq contested'
      /\ cut' \subseteq ItemIds /\ contested' \subseteq ItemIds
  BY DEF W!DeleteRows, W!DropRows, WorkInv, WorkTypes
<1>7. ASSUME NEW i \in ItemIds, i \notin cut' \cup contested'
      PROVE  i \notin e.on => item'[i] = item[i]
  <2>1. ASSUME W!DeleteRows(u) PROVE i \notin e.on => item'[i] = item[i]
    BY <1>3, <1>21, <2>1 DEF W!DeleteRows
  <2>2. ASSUME W!DropRows(u) PROVE i \notin e.on => item'[i] = item[i]
    BY <1>7, <1>21, <2>2 DEF W!DropRows, W!Present, WorkInv, WorkTypes
  <2> QED
    BY <2>1, <2>2
<1>8. ASSUME NEW i \in ItemIds, i \notin cut' \cup contested', i \in e.on
      PROVE  /\ \A v \in People : Busy(call'[v], i) <=> v = u
             /\ Midway(call[u], i)'
  <2>1. i \notin cut \cup contested
    BY <1>6, <1>8
  <2>2. Midway(e, i) /\ \A v \in People : Busy(call[v], i) => v = u
    BY <1>5, <1>8, <1>21, <2>1 DEF WorkInv, ItemInv
  <2>3. /\ W!Present(i) /\ (i \in content => W!HasContent(i)) /\ (i \in profile => Table(i))
        /\ e.op = "drop" => (i \in e.todo <=> Table(i))
    BY <1>3, <2>2 DEF Midway
  <2>4. e.op = "delete" => i \in e.todo
    BY <1>3, <1>8 DEF Clearing, Dropping
  <2>5. item'[i] = NoItem
    BY <1>3, <1>21, <2>4 DEF W!DeleteRows, W!DropRows, W!At
  <2>6. i \notin content
    <3>1. CASE i \in e.todo
      BY <1>1, <1>21, <3>1
    <3>2. CASE i \notin e.todo
      <4>1. e.op = "drop" /\ ~ Table(i)
        BY <1>3, <2>3, <2>4, <3>2
      <4>2. item[i].type # "dashboard"
        BY <1>8, <1>21, <2>3, <4>1 DEF W!DeleteRows, W!DropRows, W!At
      <4> QED
        BY <2>3, <4>1, <4>2 DEF W!HasContent, Table
    <3> QED
      BY <3>1, <3>2
  <2>7. i \in profile => i \in e.todo
    BY <1>3, <2>3, <2>4
  <2>8. call'[u] = f /\ ~ W!Present(i)' /\ i \notin content' /\ (i \in profile' => i \in f.todo)
    BY <1>1, <1>3, <1>4, <2>5, <2>6, <2>7 DEF W!Present
  <2>9. Midway(call[u], i)'
    BY <1>3, <2>8 DEF Midway
  <2> QED
    BY <1>4, <1>5, <1>8, <2>2, <2>9
<1>9. ASSUME NEW i \in ItemIds, i \notin e.on
      PROVE  ItemInv(i)'
  <2>1. \A v \in People : SameStage(call[v], call'[v], i)
    BY <1>4, <1>5, <1>9, <1>21 DEF SameStage
  <2>2. CASE i \in cut' \cup contested'
    BY <2>2 DEF ItemInv
  <2>3. CASE i \notin cut' \cup contested'
    <3>1. item'[i] = item[i]
      BY <1>7, <1>9, <2>3
    <3> QED
      BY <1>1, <1>6, <2>1, <3>1, Unmoved DEF WorkInv, W!Present
  <2> QED
    BY <2>2, <2>3
<1>10. \A i \in ItemIds : ItemInv(i)'
  BY <1>8, <1>9 DEF ItemInv
<1> QED
  BY <1>1, <1>4, <1>6, <1>10 DEF WorkInv, WorkTypes

LEMMA EndsKeep ==
  ASSUME WorkInv, NEW u \in People, W!DeleteProfiles(u) \/ W!Die(u)
  PROVE  WorkInv'
<1>1. /\ call' = [call EXCEPT ![u] = W!NoCall]
      /\ UNCHANGED <<item, content, role, grant, contested, calls>>
  BY DEF W!DeleteProfiles, W!Die, W!Done
<1>2. W!NoCall \in Calls /\ \A i \in ItemIds : ~ Busy(W!NoCall, i)
  BY DEF Calls, Elsewhere, Busy, W!NoCall
<1>3. /\ \A v \in People : call'[v] = IF v = u THEN W!NoCall ELSE call[v]
      /\ call' \in [People -> Calls]
  BY <1>1, <1>2 DEF WorkInv, WorkTypes
<1>4. call[u] \in Calls
  BY DEF WorkInv, WorkTypes
<1>5. /\ cut \subseteq cut' /\ profile' \subseteq profile
      /\ \A i \in ItemIds : ~ Busy(call[u], i) => (i \in profile' <=> i \in profile)
  <2>1. ASSUME W!DeleteProfiles(u)
        PROVE  \A i \in ItemIds : i \in call[u].todo => Busy(call[u], i)
    <3>1. call[u] \in Clearing \cup Dropping
      BY <1>4, <2>1, CallKinds DEF W!DeleteProfiles
    <3> QED
      BY <2>1, <3>1 DEF Clearing, Dropping, Busy, W!DeleteProfiles
  <2> QED
    BY <2>1 DEF W!DeleteProfiles, W!Die
<1>6. ASSUME NEW i \in ItemIds, ~ Busy(call[u], i)
      PROVE  ItemInv(i)'
  <2>1. \A v \in People : SameStage(call[v], call'[v], i)
    BY <1>2, <1>3, <1>6 DEF SameStage
  <2>2. i \in cut => i \in cut'
    BY <1>5
  <2> QED
    BY <1>1, <1>5, <1>6, <2>1, <2>2, SameItems, Unmoved DEF WorkInv
<1>7. ASSUME NEW i \in ItemIds, Busy(call[u], i), i \notin cut' \cup contested'
      PROVE  /\ \A v \in People : ~ Busy(call'[v], i)
             /\ Whole(i)'
  <2>1. i \notin cut \cup contested
    BY <1>1, <1>5, <1>7
  <2>2. Midway(call[u], i) /\ \A v \in People : Busy(call[v], i) => v = u
    BY <1>7, <2>1 DEF WorkInv, ItemInv
  <2>3. W!DeleteProfiles(u)
    BY <1>7 DEF W!Die, Busy
  <2>4. call[u].step = "unprofile" /\ profile' = profile \ call[u].todo
    BY <2>3 DEF W!DeleteProfiles
  <2>5. ~ W!Present(i) /\ i \notin content /\ i \notin profile'
    BY <2>2, <2>4 DEF Midway
  <2>6. Whole(i)'
    BY <1>1, <2>5 DEF Whole, W!Present
  <2> QED
    BY <1>2, <1>3, <2>2, <2>6
<1>8. \A i \in ItemIds : ItemInv(i)'
  BY <1>6, <1>7 DEF ItemInv
<1>9. cut' \subseteq ItemIds /\ profile' \subseteq ItemIds
  <2>1. call[u].op = "none" \/ call[u].on \subseteq ItemIds
    BY <1>4 DEF Calls, Asked, Making, Clearing, Dropping, Elsewhere, W!NoCall
  <2> QED
    BY <2>1 DEF W!DeleteProfiles, W!Die, WorkInv, WorkTypes
<1> QED
  BY <1>1, <1>3, <1>8, <1>9 DEF WorkInv, WorkTypes

LEMMA WorkInit == W!InitWorkspaces => WorkInv
<1> SUFFICES ASSUME W!InitWorkspaces PROVE WorkInv
  OBVIOUS
<1>1. WorkTypes
  BY DEF W!InitWorkspaces, WorkTypes, Calls, Elsewhere
<1>2. ASSUME NEW i \in ItemIds
      PROVE  ItemInv(i)
  <2>1. ~ W!Present(i) /\ i \notin content /\ i \notin profile
    BY DEF W!InitWorkspaces, W!Present
  <2>2. \A u \in People : ~ Busy(call[u], i)
    BY DEF W!InitWorkspaces, Busy, W!NoCall
  <2> QED
    BY <2>1, <2>2 DEF ItemInv, Whole
<1> QED
  BY <1>1, <1>2 DEF WorkInv

LEMMA WorkStep ==
  ASSUME EmptyIsNoNode, WorkInv, [W!NextWorkspaces]_(W!varsWorkspaces)
  PROVE  WorkInv'
<1>1. ASSUME NEW u \in People,
             \/ W!Claim(u) \/ W!FinishClaim(u) \/ W!Refused(u) \/ W!InviteUser(u)
             \/ W!BeginLeave(u) \/ W!LeaveWorkspace(u)
             \/ \E v \in People, l \in W!Levels : W!SetItemPermission(u, v, l)
             \/ \E v \in People : W!RemoveItemPermission(u, v)
             \/ \E v \in People, r \in {"owner", "editor", "viewer"} : W!BeginInvite(u, v, r)
      PROVE  WorkInv'
  BY <1>1, PeopleKeep
<1>2. ASSUME NEW u \in People, NEW i \in ItemIds, NEW p \in ItemIds,
             \/ W!BeginFolder(u, p) \/ W!BeginTable(u, p) \/ W!BeginDashboard(u, p)
             \/ W!BeginMove(u, i, p) \/ W!BeginCopy(u, i, p) \/ W!BeginDelete(u, i) \/ W!BeginGrant(u, i)
      PROVE  WorkInv'
  BY <1>2, ChecksKeep DEF W!BeginFolder, W!BeginTable, W!BeginDashboard, W!BeginMove, W!BeginCopy,
     W!BeginDelete, W!BeginGrant
<1>3. ASSUME NEW u \in People, NEW r \in ItemIds, NEW t \in ItemIds, W!EnsureWorkspace(u, r, t)
      PROVE  WorkInv'
  BY <1>3, EnsureKeeps
<1>4. ASSUME NEW u \in People, NEW i \in ItemIds,
             \/ W!CreateFolder(u, i) \/ W!CreateTable(u, i) \/ W!CreateDashboard(u, i)
             \/ W!CopyTable(u, i) \/ W!CopyDashboard(u, i)
      PROVE  WorkInv'
  BY <1>4, CreationsKeep
<1>5. ASSUME NEW u \in People, W!FillTable(u) \/ W!FillDashboard(u) \/ W!InstallProfile(u)
      PROVE  WorkInv'
  BY <1>5, FillsKeep
<1>6. ASSUME NEW u \in People, W!MoveItem(u) PROVE WorkInv'
  BY <1>6, MoveKeeps
<1>7. ASSUME NEW u \in People, W!ReadSubtree(u) \/ W!BeginDrop(u) PROVE WorkInv'
  BY <1>7, ReadsKeep, DropsBegin
<1>8. ASSUME NEW u \in People, NEW i \in ItemIds, W!EmptyTable(u, i) \/ W!EmptyDashboard(u, i)
      PROVE  WorkInv'
  BY <1>8, EmptyingKeeps
<1>9. ASSUME NEW u \in People, W!DeleteRows(u) \/ W!DropRows(u) PROVE WorkInv'
  BY <1>9, DeletesKeep
<1>10. ASSUME NEW u \in People, W!DeleteProfiles(u) \/ W!Die(u) PROVE WorkInv'
  BY <1>10, EndsKeep
<1>11. CASE UNCHANGED W!varsWorkspaces
  <2>1. UNCHANGED <<item, content, profile, role, grant, call, cut, contested, calls>>
    BY <1>11 DEF W!varsWorkspaces
  <2>2. \A i \in ItemIds : ItemInv(i)'
    BY <2>1, SameItems, Unmoved DEF WorkInv, SameStage
  <2> QED
    BY <2>1, <2>2 DEF WorkInv, WorkTypes
<1> QED
  BY <1>1, <1>2, <1>3, <1>4, <1>5, <1>6, <1>7, <1>8, <1>9, <1>10, <1>11 DEF W!NextWorkspaces

LEMMA WorkSafe == WorkInv => W!TablesAreWhole
<1> SUFFICES ASSUME WorkInv, NEW i \in ItemIds \ (cut \cup contested),
                    \A u \in People : call[u].op # "none" => i \notin call[u].on
             PROVE  /\ W!Present(i) => (W!HasContent(i) <=> i \in content)
                    /\ i \in content \cup profile => W!Present(i)
  BY DEF W!TablesAreWhole
<1>1. \A u \in People : ~ Busy(call[u], i)
  BY DEF Busy
<1>2. Whole(i)
  BY <1>1 DEF WorkInv, ItemInv
<1> QED
  BY <1>2 DEF Whole

(* What is stored of a workspace item stays together with its row: a table   *)
(* or a dashboard has its content, no content and no task profile outlives   *)
(* its item, however creations, moves, deletes and dropped workspaces        *)
(* interleave; the items a request was cut off at, or that two requests had  *)
(* in hand at once, are set apart (create_workspace_item and                 *)
(* delete_workspace_item of db_ops.py and the mutations around them, which   *)
(* commit the row, the content and the profile one after the other).         *)
THEOREM TablesStayWhole ==
  ASSUME EmptyIsNoNode
  PROVE  W!InitWorkspaces /\ [][W!NextWorkspaces]_(W!varsWorkspaces) => []W!TablesAreWhole
<1>1. WorkInv /\ [W!NextWorkspaces]_(W!varsWorkspaces) => WorkInv'
  BY WorkStep
<1> QED  BY WorkInit, <1>1, WorkSafe, PTL

OneCallMore == calls' = calls \/ (calls < MaxCalls /\ calls' = calls + 1)

(* Requests are counted up to their bound. *)
LEMMA CallsAreCounted ==
  ASSUME MaxCalls \in Nat, calls \in 0..MaxCalls, [W!NextWorkspaces]_(W!varsWorkspaces)
  PROVE  calls' \in 0..MaxCalls
<1>1. ASSUME NEW u \in People,
             \/ W!Claim(u) \/ W!FinishClaim(u) \/ W!Refused(u) \/ W!InviteUser(u)
             \/ W!BeginLeave(u) \/ W!LeaveWorkspace(u) \/ W!BeginDrop(u) \/ W!DropRows(u)
             \/ \E v \in People, l \in W!Levels : W!SetItemPermission(u, v, l)
             \/ \E v \in People : W!RemoveItemPermission(u, v)
             \/ \E v \in People, r \in {"owner", "editor", "viewer"} : W!BeginInvite(u, v, r)
      PROVE  OneCallMore
  BY <1>1 DEF OneCallMore, W!Claim, W!FinishClaim, W!Refused, W!InviteUser, W!BeginLeave, W!LeaveWorkspace,
     W!BeginDrop, W!DropRows, W!SetItemPermission, W!RemoveItemPermission, W!BeginInvite, W!Starts
<1>2. ASSUME NEW u \in People, NEW i \in ItemIds, NEW p \in ItemIds,
             \/ W!BeginFolder(u, p) \/ W!BeginTable(u, p) \/ W!BeginDashboard(u, p)
             \/ W!BeginMove(u, i, p) \/ W!BeginCopy(u, i, p) \/ W!BeginDelete(u, i) \/ W!BeginGrant(u, i)
      PROVE  OneCallMore
  BY <1>2 DEF OneCallMore, W!BeginFolder, W!BeginTable, W!BeginDashboard, W!BeginMove, W!BeginCopy,
     W!BeginDelete, W!BeginGrant, W!Begin, W!Starts
<1>3. ASSUME NEW u \in People, NEW r \in ItemIds, NEW t \in ItemIds, W!EnsureWorkspace(u, r, t)
      PROVE  OneCallMore
  BY <1>3 DEF OneCallMore, W!EnsureWorkspace, W!Starts
<1>4. ASSUME NEW u \in People, NEW i \in ItemIds,
             \/ W!CreateFolder(u, i) \/ W!CreateTable(u, i) \/ W!CreateDashboard(u, i)
             \/ W!CopyTable(u, i) \/ W!CopyDashboard(u, i)
      PROVE  OneCallMore
  BY <1>4 DEF OneCallMore, W!CreateFolder, W!CreateTable, W!CreateDashboard, W!CopyTable, W!CopyDashboard,
     W!CopyItem
<1>5. ASSUME NEW u \in People, NEW i \in ItemIds, W!EmptyTable(u, i) \/ W!EmptyDashboard(u, i)
      PROVE  OneCallMore
  BY <1>5 DEF OneCallMore, W!EmptyTable, W!EmptyDashboard, W!EmptyItem
<1>6. ASSUME NEW u \in People,
             \/ W!FillTable(u) \/ W!FillDashboard(u) \/ W!InstallProfile(u) \/ W!MoveItem(u)
             \/ W!ReadSubtree(u) \/ W!DeleteRows(u) \/ W!DeleteProfiles(u) \/ W!Die(u)
      PROVE  OneCallMore
  BY <1>6 DEF OneCallMore, W!FillTable, W!FillDashboard, W!InstallProfile, W!MoveItem, W!ReadSubtree,
     W!DeleteRows, W!DeleteProfiles, W!Die
<1>7. ASSUME UNCHANGED W!varsWorkspaces PROVE OneCallMore
  BY <1>7 DEF OneCallMore, W!varsWorkspaces
<1>8. ASSUME W!NextWorkspaces PROVE OneCallMore
  <2>1. PICK u \in People :
              \/ W!Claim(u) \/ W!FinishClaim(u)
              \/ \E r, t \in ItemIds : W!EnsureWorkspace(u, r, t)
              \/ \E p \in ItemIds : W!BeginFolder(u, p) \/ W!BeginTable(u, p) \/ W!BeginDashboard(u, p)
              \/ \E i, p \in ItemIds : W!BeginMove(u, i, p) \/ W!BeginCopy(u, i, p)
              \/ \E i \in ItemIds : W!BeginDelete(u, i) \/ W!BeginGrant(u, i)
              \/ \E i \in ItemIds :
                   \/ W!CreateFolder(u, i) \/ W!CreateTable(u, i) \/ W!CreateDashboard(u, i)
                   \/ W!CopyTable(u, i) \/ W!CopyDashboard(u, i)
              \/ W!FillTable(u) \/ W!FillDashboard(u) \/ W!InstallProfile(u) \/ W!MoveItem(u)
              \/ W!ReadSubtree(u)
              \/ \E i \in ItemIds : W!EmptyTable(u, i) \/ W!EmptyDashboard(u, i)
              \/ W!DeleteRows(u) \/ W!DeleteProfiles(u) \/ W!BeginDrop(u) \/ W!DropRows(u)
              \/ \E v \in People, l \in W!Levels : W!SetItemPermission(u, v, l)
              \/ \E v \in People : W!RemoveItemPermission(u, v)
              \/ \E v \in People, r \in {"owner", "editor", "viewer"} : W!BeginInvite(u, v, r)
              \/ W!InviteUser(u) \/ W!BeginLeave(u) \/ W!LeaveWorkspace(u)
              \/ W!Refused(u) \/ W!Die(u)
    BY <1>8 DEF W!NextWorkspaces
  <2> QED
    BY <1>1, <1>2, <1>3, <1>4, <1>5, <1>6, <2>1
<1> QED
  BY <1>7, <1>8 DEF OneCallMore

LEMMA WorkTyped ==
  ASSUME WorkInv, calls \in 0..MaxCalls
  PROVE  W!TypeOKWorkspaces
<1>1. \A u \in People : call[u] = W!NoCall \/ (call[u].op \in W!Ops /\ call[u].on \subseteq ItemIds)
  BY DEF WorkInv, WorkTypes, Calls, Asked, Making, Clearing, Dropping, Elsewhere, W!Ops
<1> QED
  BY <1>1 DEF WorkInv, WorkTypes, W!TypeOKWorkspaces

-----------------------------------------------------------------------------
(* TableViews, for any views, filters and requests.                          *)
(*                                                                           *)
(* The argument: without overlaps at most one request is busy, and what it   *)
(* read when it began is still so when it goes on: the name it found free,   *)
(* the other view that stays, the filters it saw.  The default view is one   *)
(* of the views, or a deletion is just about to choose it.                   *)

CONSTANTS ViewIds, NoView, Items, Viewers, MaxViewCalls
VARIABLES view, defaultView, items, wanted, viewCall, tangled, viewCalls
V == INSTANCE TableViews

ViewCalls ==
    {V!NoViewCall}
    \cup [op : {"insert"}, name : Nat \ {0}, from : ViewIds \cup {NoView}]
    \cup [op : {"delete", "only"}, id : ViewIds]
    \cup [op : {"first"}]
    \cup [op : {"replace"}, seen : SUBSET Items, new : SUBSET Items]

ViewTypes ==
    /\ view \in [ViewIds -> Nat] /\ IsFiniteSet(V!Views)
    /\ defaultView \in ViewIds
    /\ items \subseteq Items /\ wanted \subseteq Items
    /\ viewCall \in [Viewers -> ViewCalls]
    /\ tangled \in BOOLEAN

OneBusy ==
    \A c, d \in Viewers : viewCall[c] # V!NoViewCall /\ viewCall[d] # V!NoViewCall => c = d
NamesApart == \A v, w \in V!Views : view[v] = view[w] => v = w
DefaultThere ==
    \/ defaultView \in V!Views
    \/ \E c \in Viewers : viewCall[c].op = "first"

(* What the request c read, or did, still holds. *)
StillTrue(c) ==
    /\ viewCall[c].op = "insert" => viewCall[c].name \notin V!Names
    /\ viewCall[c].op = "delete" => \E v \in V!Views : v # viewCall[c].id
    /\ viewCall[c].op = "only" => viewCall[c].id \in V!Views
    /\ viewCall[c].op = "first" => V!Views # {}
    /\ viewCall[c].op = "replace" => viewCall[c].seen = items

InTurn ==
    /\ OneBusy /\ NamesApart /\ DefaultThere /\ items = wanted
    /\ \A c \in Viewers : StillTrue(c)

ViewInv == ViewTypes /\ (~tangled => InTurn)

LEMMA CountedAlike == \A S : V!Cardinality(S) = Cardinality(S)
BY DEF V!Cardinality, Cardinality

(* There is a first free name, and it is free. *)
LEMMA FirstFree ==
  ASSUME NEW names \in SUBSET Nat, IsFiniteSet(names)
  PROVE  V!NextViewName(names) \in 1..(Cardinality(names) + 1) /\ V!NextViewName(names) \notin names
<1> DEFINE k == Cardinality(names)
           free == (1..(k + 1)) \ names
<1>1. k \in Nat
  BY FS_CardinalityType
<1>2. free # {}
  <2> SUFFICES ASSUME free = {} PROVE FALSE
    OBVIOUS
  <2>1. (1..(k + 1)) \subseteq names
    OBVIOUS
  <2>2. Cardinality(1..(k + 1)) = k + 1
    BY <1>1, FS_Interval
  <2>3. Cardinality(1..(k + 1)) <= k
    BY <2>1, FS_Subset
  <2> QED
    BY <1>1, <2>2, <2>3
<1>3. PICK n \in free : \A m \in free : n <= m
  <2>1. free \in SUBSET Nat
    OBVIOUS
  <2> QED
    BY <1>2, <2>1, LeastOf
<1>4. n \in 1..(k + 1) /\ n \notin names /\ \A m \in 1..(n - 1) : m \in names
  <2>1. n \in 1..(k + 1) /\ n \notin names
    OBVIOUS
  <2>2. ASSUME NEW m \in 1..(n - 1) PROVE m \in names
    <3>1. m \in 1..(k + 1) /\ m < n
      BY <1>1, <2>1
    <3> QED
      BY <1>1, <1>3, <3>1
  <2> QED
    BY <2>1, <2>2
<1>5. V!NextViewName(names) \in 1..(k + 1) /\ V!NextViewName(names) \notin names
  BY <1>4, CountedAlike DEF V!NextViewName
<1> QED
  BY <1>5

LEMMA FreeName ==
  ASSUME NEW names \in SUBSET Nat, IsFiniteSet(names)
  PROVE  V!NextViewName(names) \in Nat \ {0} /\ V!NextViewName(names) \notin names
BY FirstFree, FS_CardinalityType

LEMMA NamesFinite ==
  ASSUME ViewTypes
  PROVE  /\ V!Names \in SUBSET Nat /\ IsFiniteSet(V!Names)
         /\ NamesApart => Cardinality(V!Names) = Cardinality(V!Views)
<1> DEFINE f == [v \in V!Views |-> view[v]]
<1>1. V!Views \subseteq ViewIds
  BY DEF V!Views
<1>2. V!Names \in SUBSET Nat
  BY <1>1 DEF ViewTypes, V!Names
<1>3. f \in Surjection(V!Views, V!Names)
  BY DEF Surjection, V!Names
<1>4. IsFiniteSet(V!Names) /\ (Cardinality(V!Names) = Cardinality(V!Views) <=> f \in Injection(V!Views, V!Names))
  <2> HIDE DEF f
  <2> QED
    BY <1>3, FS_Surjection DEF ViewTypes
<1>5. NamesApart => f \in Injection(V!Views, V!Names)
  BY <1>3 DEF Injection, IsInjective, Surjection, NamesApart
<1> QED
  BY <1>2, <1>4, <1>5

LEMMA ViewInit == V!InitViews => ViewInv
<1> SUFFICES ASSUME V!InitViews PROVE ViewInv
  OBVIOUS
<1>1. PICK v \in ViewIds : view = [w \in ViewIds |-> IF w = v THEN 1 ELSE 0] /\ defaultView = v
  BY DEF V!InitViews
<1>2. V!Views = {v}
  BY <1>1 DEF V!Views
<1>3. ViewTypes
  BY <1>1, <1>2, FS_Singleton DEF ViewTypes, ViewCalls, V!InitViews
<1>4. InTurn
  BY <1>1, <1>2 DEF InTurn, OneBusy, NamesApart, DefaultThere, StillTrue, V!InitViews, V!NoViewCall
<1> QED
  BY <1>3, <1>4 DEF ViewInv

(* A request begins: what it read is so. *)
LEMMA CallBegins ==
  ASSUME ViewInv, NEW c \in Viewers, NEW e \in ViewCalls, V!BeginCall(c, e),
         e.op = "insert" => e.name \notin V!Names,
         e.op = "delete" => \E v \in V!Views : v # e.id,
         e.op \notin {"only", "first"},
         e.op = "replace" => e.seen = items
  PROVE  ViewInv'
<1>1. /\ UNCHANGED <<view, defaultView, items, wanted>>
      /\ viewCall' = [viewCall EXCEPT ![c] = e]
      /\ viewCall[c] = V!NoViewCall
      /\ tangled' = (tangled \/ \E d \in Viewers : viewCall[d] # V!NoViewCall)
  BY DEF V!BeginCall
<1>2. V!Views' = V!Views /\ V!Names' = V!Names
  BY <1>1 DEF V!Views, V!Names
<1>3. ViewTypes'
  BY <1>1, <1>2 DEF ViewInv, ViewTypes
<1>4. ASSUME ~tangled' PROVE InTurn'
  <2>1. ~tangled /\ \A d \in Viewers : viewCall[d] = V!NoViewCall
    BY <1>1, <1>4
  <2>2. \A d \in Viewers : viewCall'[d] = IF d = c THEN e ELSE V!NoViewCall
    BY <1>1, <2>1 DEF ViewInv, ViewTypes
  <2>3. InTurn
    BY <2>1 DEF ViewInv
  <2>4. defaultView \in V!Views
    BY <2>1, <2>3 DEF InTurn, DefaultThere, V!NoViewCall
  <2>5. ASSUME NEW d \in Viewers PROVE StillTrue(d)'
    <3>1. CASE d = c
      BY <1>1, <1>2, <2>2, <3>1 DEF StillTrue
    <3>2. CASE d # c
      BY <2>2, <3>2 DEF StillTrue, V!NoViewCall
    <3> QED
      BY <3>1, <3>2
  <2>6. OneBusy'
    BY <2>2 DEF OneBusy
  <2> QED
    BY <1>1, <1>2, <2>3, <2>4, <2>5, <2>6 DEF InTurn, NamesApart, DefaultThere
<1> QED
  BY <1>3, <1>4 DEF ViewInv

(* When a request goes on in its turn, it is the only busy one. *)
LEMMA AloneInTurn ==
  ASSUME ViewInv, ~tangled, NEW c \in Viewers, viewCall[c].op # "none", NEW e,
         viewCall' = [viewCall EXCEPT ![c] = e]
  PROVE  /\ InTurn
         /\ \A d \in Viewers : viewCall'[d] = IF d = c THEN e ELSE V!NoViewCall
         /\ defaultView \in V!Views \/ viewCall[c].op = "first"
         /\ OneBusy'
<1>1. InTurn
  BY DEF ViewInv
<1>2. viewCall[c] # V!NoViewCall
  BY DEF V!NoViewCall
<1>3. \A d \in Viewers : d # c => viewCall[d] = V!NoViewCall
  BY <1>1, <1>2 DEF InTurn, OneBusy
<1>4. \A d \in Viewers : viewCall'[d] = IF d = c THEN e ELSE V!NoViewCall
  BY <1>3 DEF ViewInv, ViewTypes
<1>5. defaultView \in V!Views \/ viewCall[c].op = "first"
  BY <1>1, <1>3 DEF InTurn, DefaultThere, V!NoViewCall
<1>6. OneBusy'
  BY <1>4 DEF OneBusy
<1> QED
  BY <1>1, <1>4, <1>5, <1>6

LEMMA InsertKeeps ==
  ASSUME ViewInv, NEW c \in Viewers, NEW v \in ViewIds, V!CreateView(c, v) \/ V!CopyView(c, v)
  PROVE  ViewInv'
<1> DEFINE e == IF viewCall[c].from = NoView THEN [op |-> "only", id |-> v] ELSE V!NoViewCall
           n == viewCall[c].name
<1>1. /\ viewCall[c].op = "insert" /\ view[v] = 0
      /\ viewCall' = [viewCall EXCEPT ![c] = e]
      /\ view' = [view EXCEPT ![v] = n] \/ (view' = view /\ e = V!NoViewCall)
      /\ UNCHANGED <<defaultView, items, wanted, tangled>>
  BY DEF V!CreateView, V!CopyView, V!Step, V!GoOn
<1>2. n \in Nat \ {0}
  BY <1>1 DEF ViewInv, ViewTypes, ViewCalls, V!NoViewCall
<1>3. e \in ViewCalls
  BY DEF ViewCalls
<1> HIDE DEF e, n
<1>4. /\ view' = [view EXCEPT ![v] = n] => V!Views' = V!Views \cup {v} /\ V!Names' = V!Names \cup {n}
      /\ view' = view => V!Views' = V!Views /\ V!Names' = V!Names
  <2>1. ASSUME view' = [view EXCEPT ![v] = n]
        PROVE  V!Views' = V!Views \cup {v} /\ V!Names' = V!Names \cup {n}
    <3>1. \A w \in ViewIds : view'[w] = IF w = v THEN n ELSE view[w]
      BY <2>1 DEF ViewInv, ViewTypes
    <3>2. V!Views' = V!Views \cup {v}
      BY <1>2, <3>1 DEF V!Views
    <3>3. v \notin V!Views
      BY <1>1 DEF V!Views
    <3>4. \A w \in V!Views : w \in ViewIds
      BY DEF V!Views
    <3>5. V!Names' = {view'[w] : w \in V!Views \cup {v}}
      BY <3>2 DEF V!Names
    <3> QED
      BY <3>1, <3>2, <3>3, <3>4, <3>5 DEF V!Names
  <2>2. view' = view => V!Views' = V!Views /\ V!Names' = V!Names
    BY DEF V!Views, V!Names
  <2> QED
    BY <2>1, <2>2
<1>5. ViewTypes'
  <2>1. view' \in [ViewIds -> Nat]
    BY <1>1, <1>2 DEF ViewInv, ViewTypes
  <2>2. IsFiniteSet(V!Views')
    BY <1>1, <1>4, FS_AddElement DEF ViewInv, ViewTypes
  <2> QED
    BY <1>1, <1>3, <2>1, <2>2 DEF ViewInv, ViewTypes
<1>6. ASSUME ~tangled' PROVE InTurn'
  <2>1. /\ InTurn /\ OneBusy' /\ defaultView \in V!Views
        /\ \A d \in Viewers : viewCall'[d] = IF d = c THEN e ELSE V!NoViewCall
    BY <1>1, <1>6, AloneInTurn
  <2>2. n \notin V!Names
    BY <1>1, <2>1 DEF InTurn, StillTrue, n
  <2>3. NamesApart'
    <3>1. CASE view' = view
      BY <1>4, <2>1, <3>1 DEF InTurn, NamesApart
    <3>2. CASE view' = [view EXCEPT ![v] = n]
      <4>1. \A w \in ViewIds : view'[w] = IF w = v THEN n ELSE view[w]
        BY <3>2 DEF ViewInv, ViewTypes
      <4>2. \A w \in V!Views : w \in ViewIds /\ view[w] # n
        BY <2>2 DEF V!Names, V!Views
      <4> QED
        BY <1>4, <2>1, <3>2, <4>1, <4>2 DEF InTurn, NamesApart
    <3> QED
      BY <1>1, <3>1, <3>2
  <2>4. ASSUME NEW d \in Viewers PROVE StillTrue(d)'
    <3>1. viewCall'[d] = V!NoViewCall \/ (viewCall'[d] = [op |-> "only", id |-> v] /\ v \in V!Views')
      BY <1>1, <1>4, <2>1 DEF e
    <3> QED
      BY <3>1 DEF StillTrue, V!NoViewCall
  <2> QED
    BY <1>1, <1>4, <2>1, <2>3, <2>4 DEF InTurn, DefaultThere
<1> QED
  BY <1>5, <1>6 DEF ViewInv

LEMMA DeletionKeeps ==
  ASSUME ViewInv, NEW c \in Viewers, V!DeleteView(c)
  PROVE  ViewInv'
<1> DEFINE v == viewCall[c].id
           e == IF v \in V!Views THEN [op |-> "first"] ELSE V!NoViewCall
<1>1. /\ viewCall[c].op = "delete"
      /\ viewCall' = [viewCall EXCEPT ![c] = e]
      /\ view' = [view EXCEPT ![v] = 0]
      /\ UNCHANGED <<defaultView, items, wanted, tangled>>
  BY DEF V!DeleteView, V!Step, V!GoOn
<1>2. v \in ViewIds
  BY <1>1 DEF ViewInv, ViewTypes, ViewCalls, V!NoViewCall
<1>3. e \in ViewCalls
  BY DEF ViewCalls
<1>4. \A w \in ViewIds : view'[w] = IF w = v THEN 0 ELSE view[w]
  BY <1>1 DEF ViewInv, ViewTypes
<1>5. V!Views' = V!Views \ {v}
  BY <1>4 DEF V!Views
<1>6. ViewTypes'
  <2>1. view' \in [ViewIds -> Nat]
    BY <1>1 DEF ViewInv, ViewTypes
  <2>2. IsFiniteSet(V!Views')
    BY <1>5, FS_RemoveElement DEF ViewInv, ViewTypes
  <2> QED
    BY <1>1, <1>3, <2>1, <2>2 DEF ViewInv, ViewTypes
<1>7. ASSUME ~tangled' PROVE InTurn'
  <2>0. viewCall'[c] = e /\ ~tangled /\ viewCall[c].op # "none" /\ viewCall[c].op # "first"
    BY <1>1, <1>7 DEF ViewInv, ViewTypes
  <2>1. /\ InTurn /\ OneBusy' /\ defaultView \in V!Views
        /\ \A d \in Viewers : viewCall'[d] = IF d = c THEN e ELSE V!NoViewCall
    <3> HIDE DEF e
    <3> QED
      BY <1>1, <2>0, AloneInTurn
  <2>2. PICK w \in V!Views : w # v
    BY <1>1, <2>1 DEF InTurn, StillTrue
  <2>3. V!Views' # {}
    BY <1>5, <2>2
  <2>4. NamesApart'
    <3>1. \A x \in V!Views' : x \in V!Views /\ view'[x] = view[x]
      BY <1>4, <1>5 DEF V!Views
    <3> QED
      BY <2>1, <3>1 DEF InTurn, NamesApart
  <2>5. ASSUME NEW d \in Viewers PROVE StillTrue(d)'
    BY <2>1, <2>3 DEF StillTrue, V!NoViewCall
  <2>6. DefaultThere'
    <3>1. CASE v \in V!Views
      <4>1. viewCall'[c].op = "first"
        BY <2>0, <3>1
      <4> QED
        BY <4>1 DEF DefaultThere
    <3>2. CASE v \notin V!Views
      BY <1>1, <1>5, <2>1, <3>2 DEF DefaultThere
    <3> QED
      BY <3>1, <3>2
  <2> QED
    BY <1>1, <2>1, <2>4, <2>5, <2>6 DEF InTurn
<1> QED
  BY <1>6, <1>7 DEF ViewInv

LEMMA DefaultsKeep ==
  ASSUME ViewInv, NEW c \in Viewers, V!DefaultOnlyView(c) \/ V!DefaultFirstView(c)
  PROVE  ViewInv'
<1>1. /\ viewCall[c].op \in {"only", "first"}
      /\ viewCall' = [viewCall EXCEPT ![c] = V!NoViewCall]
      /\ UNCHANGED <<view, items, wanted, tangled>>
      /\ viewCall[c].op = "only" => defaultView' \in {defaultView, viewCall[c].id}
      /\ viewCall[c].op = "first" =>
           IF V!Views = {} THEN defaultView' = defaultView ELSE defaultView' \in V!Views
  BY DEF V!DefaultOnlyView, V!DefaultFirstView, V!Step, V!GoOn
<1>2. V!Views' = V!Views /\ V!Views \subseteq ViewIds
  BY <1>1 DEF V!Views
<1>3. viewCall[c].op = "only" => viewCall[c].id \in ViewIds
  BY DEF ViewInv, ViewTypes, ViewCalls, V!NoViewCall
<1>4. ViewTypes'
  <2>1. defaultView' \in ViewIds
    BY <1>1, <1>2, <1>3 DEF ViewInv, ViewTypes
  <2>2. viewCall' \in [Viewers -> ViewCalls]
    BY <1>1 DEF ViewInv, ViewTypes, ViewCalls
  <2> QED
    BY <1>1, <1>2, <2>1, <2>2 DEF ViewInv, ViewTypes
<1>5. ASSUME ~tangled' PROVE InTurn'
  <2>0. /\ ~tangled /\ viewCall[c].op # "none"
        /\ viewCall' = [viewCall EXCEPT ![c] = V!NoViewCall]
    BY <1>1, <1>5
  <2>1. /\ InTurn /\ OneBusy' /\ (defaultView \in V!Views \/ viewCall[c].op = "first")
        /\ \A d \in Viewers : viewCall'[d] = V!NoViewCall
    BY <2>0, AloneInTurn
  <2>2. StillTrue(c)
    BY <2>1 DEF InTurn
  <2>3. defaultView' \in V!Views
    BY <1>1, <2>1, <2>2 DEF StillTrue
  <2>4. \A d \in Viewers : StillTrue(d)'
    BY <2>1 DEF StillTrue, V!NoViewCall
  <2> QED
    BY <1>1, <1>2, <2>1, <2>3, <2>4 DEF InTurn, NamesApart, DefaultThere
<1> QED
  BY <1>4, <1>5 DEF ViewInv

LEMMA ItemsKeep ==
  ASSUME ViewInv, NEW c \in Viewers,
         \/ V!ReplaceItems(c) \/ V!ClearItems(c)
         \/ \E i \in Items : V!AddItem(c, i) \/ V!DeleteItem(c, i)
  PROVE  ViewInv'
<1>1. CASE V!ReplaceItems(c)
  <2>1. /\ viewCall[c].op = "replace"
        /\ viewCall' = [viewCall EXCEPT ![c] = V!NoViewCall]
        /\ items' = (items \ viewCall[c].seen) \cup viewCall[c].new /\ wanted' = viewCall[c].new
        /\ UNCHANGED <<view, defaultView, tangled>>
    BY <1>1 DEF V!ReplaceItems, V!Step, V!GoOn
  <2>2. viewCall[c].new \subseteq Items
    BY <2>1 DEF ViewInv, ViewTypes, ViewCalls, V!NoViewCall
  <2>3. V!Views' = V!Views
    BY <2>1 DEF V!Views
  <2>4. ViewTypes'
    <3>1. viewCall' \in [Viewers -> ViewCalls]
      BY <2>1 DEF ViewInv, ViewTypes, ViewCalls
    <3> QED
      BY <2>1, <2>2, <2>3, <3>1 DEF ViewInv, ViewTypes
  <2>5. ASSUME ~tangled' PROVE InTurn'
    <3>0. ~tangled /\ viewCall[c].op # "none" /\ viewCall[c].op # "first"
      BY <2>1, <2>5
    <3>1. /\ InTurn /\ OneBusy' /\ defaultView \in V!Views
          /\ \A d \in Viewers : viewCall'[d] = V!NoViewCall
      BY <2>1, <3>0, AloneInTurn
    <3>2. items' = wanted'
      BY <2>1, <3>1 DEF InTurn, StillTrue
    <3>3. \A d \in Viewers : StillTrue(d)'
      BY <3>1 DEF StillTrue, V!NoViewCall
    <3> QED
      BY <2>1, <2>3, <3>1, <3>2, <3>3 DEF InTurn, NamesApart, DefaultThere
  <2> QED
    BY <2>4, <2>5 DEF ViewInv
<1>2. ASSUME NEW new \in SUBSET Items, NEW asked \in SUBSET Items, V!EditItems(c, new, asked),
             items = wanted => new = asked
      PROVE  ViewInv'
  <2>1. /\ UNCHANGED <<view, defaultView, viewCall>> /\ items' = new /\ wanted' = asked
        /\ tangled' = (tangled \/ \E d \in Viewers : viewCall[d] # V!NoViewCall)
    BY <1>2 DEF V!EditItems
  <2>2. V!Views' = V!Views
    BY <2>1 DEF V!Views
  <2>3. ViewTypes'
    BY <2>1, <2>2 DEF ViewInv, ViewTypes
  <2>4. ASSUME ~tangled' PROVE InTurn'
    <3>1. InTurn /\ \A d \in Viewers : viewCall'[d] = V!NoViewCall
      BY <2>1, <2>4 DEF ViewInv
    <3>2. items' = wanted'
      BY <1>2, <2>1, <3>1 DEF InTurn
    <3>3. \A d \in Viewers : StillTrue(d)'
      BY <3>1 DEF StillTrue, V!NoViewCall
    <3> QED
      BY <2>1, <2>2, <3>1, <3>2, <3>3 DEF InTurn, OneBusy, NamesApart, DefaultThere
  <2> QED
    BY <2>3, <2>4 DEF ViewInv
<1>3. items \subseteq Items /\ wanted \subseteq Items
  BY DEF ViewInv, ViewTypes
<1>4. CASE V!ClearItems(c)
  BY <1>2, <1>4 DEF V!ClearItems
<1>5. ASSUME NEW i \in Items, V!AddItem(c, i) PROVE ViewInv'
  BY <1>2, <1>3, <1>5 DEF V!AddItem
<1>6. ASSUME NEW i \in Items, V!DeleteItem(c, i) PROVE ViewInv'
  BY <1>2, <1>3, <1>6 DEF V!DeleteItem
<1> QED
  BY <1>1, <1>4, <1>5, <1>6

LEMMA ViewStep ==
  ASSUME ViewInv, [V!NextViews]_(V!varsViews)
  PROVE  ViewInv'
<1>0. V!Names \in SUBSET Nat /\ IsFiniteSet(V!Names)
  BY NamesFinite DEF ViewInv
<1>1. ASSUME NEW c \in Viewers,
             V!BeginCreateView(c) \/ \E v \in ViewIds : V!BeginCopyView(c, v)
      PROVE  ViewInv'
  <2> DEFINE e(from) == [op |-> "insert", name |-> V!NextViewName(V!Names), from |-> from]
  <2>1. V!NextViewName(V!Names) \in Nat \ {0} /\ V!NextViewName(V!Names) \notin V!Names
    BY <1>0, FreeName
  <2>2. PICK from \in ViewIds \cup {NoView} : V!BeginCall(c, e(from))
    BY <1>1 DEF V!BeginCreateView, V!BeginCopyView
  <2>3. e(from) \in ViewCalls
    BY <2>1 DEF ViewCalls
  <2> QED
    BY <2>1, <2>2, <2>3, CallBegins
<1>2. ASSUME NEW c \in Viewers, NEW v \in ViewIds, V!BeginDeleteView(c, v) PROVE ViewInv'
  <2> DEFINE e == [op |-> "delete", id |-> v]
  <2>1. V!BeginCall(c, e) /\ Cardinality(V!Views) > 1
    BY <1>2, CountedAlike DEF V!BeginDeleteView
  <2>2. \E w \in V!Views : w # v
    <3> SUFFICES ASSUME V!Views \subseteq {v} PROVE FALSE
      OBVIOUS
    <3>1. Cardinality(V!Views) <= Cardinality({v}) /\ Cardinality({v}) = 1
      BY FS_Singleton, FS_Subset
    <3>2. Cardinality(V!Views) \in Nat
      BY FS_CardinalityType DEF ViewInv, ViewTypes
    <3> QED
      BY <2>1, <3>1, <3>2
  <2>3. e \in ViewCalls
    BY DEF ViewCalls
  <2> QED
    BY <2>1, <2>2, <2>3, CallBegins
<1>3. ASSUME NEW c \in Viewers, NEW new \in SUBSET Items, V!BeginReplace(c, new) PROVE ViewInv'
  <2> DEFINE e == [op |-> "replace", seen |-> items, new |-> new]
  <2>1. V!BeginCall(c, e)
    BY <1>3 DEF V!BeginReplace
  <2>2. e \in ViewCalls
    BY DEF ViewCalls, ViewInv, ViewTypes
  <2> QED
    BY <2>1, <2>2, CallBegins
<1>4. ASSUME NEW c \in Viewers, V!ViewerDies(c) PROVE ViewInv'
  <2>1. /\ UNCHANGED <<view, defaultView, items, wanted>> /\ tangled' = TRUE
        /\ viewCall' = [viewCall EXCEPT ![c] = V!NoViewCall]
    BY <1>4 DEF V!ViewerDies, V!GoOn
  <2>2. V!Views' = V!Views
    BY <2>1 DEF V!Views
  <2>3. viewCall' \in [Viewers -> ViewCalls]
    BY <2>1 DEF ViewInv, ViewTypes, ViewCalls
  <2> QED
    BY <2>1, <2>2, <2>3 DEF ViewInv, ViewTypes
<1>5. CASE UNCHANGED V!varsViews
  <2>1. UNCHANGED <<view, defaultView, items, wanted, viewCall, tangled>>
    BY <1>5 DEF V!varsViews
  <2>2. V!Views' = V!Views /\ V!Names' = V!Names
    BY <2>1 DEF V!Views, V!Names
  <2>3. ViewTypes' = ViewTypes
    BY <2>1, <2>2 DEF ViewTypes
  <2>4. InTurn => InTurn'
    BY <2>1, <2>2 DEF InTurn, OneBusy, NamesApart, DefaultThere, StillTrue
  <2> QED
    BY <2>1, <2>3, <2>4 DEF ViewInv
<1> QED
  BY <1>1, <1>2, <1>3, <1>4, <1>5, InsertKeeps, DeletionKeeps, DefaultsKeep, ItemsKeep DEF V!NextViews

LEMMA ViewSafe == ViewInv => V!ViewsStayUsable
<1> SUFFICES ASSUME ViewInv, ~tangled, \A c \in Viewers : viewCall[c] = V!NoViewCall
             PROVE  /\ defaultView \in V!Views
                    /\ V!Cardinality(V!Names) = V!Cardinality(V!Views)
                    /\ items = wanted
  BY DEF V!ViewsStayUsable
<1>1. InTurn /\ ViewTypes
  BY DEF ViewInv
<1>2. Cardinality(V!Names) = Cardinality(V!Views)
  BY <1>1, NamesFinite DEF InTurn
<1>3. defaultView \in V!Views
  BY <1>1 DEF InTurn, DefaultThere, V!NoViewCall
<1> QED
  BY <1>1, <1>2, <1>3, CountedAlike DEF InTurn

(* As long as requests about the views of a table do not overlap and none    *)
(* dies half way, the table has a view whenever no request is running, its   *)
(* default view is one of them, no two share a name, and the filters are     *)
(* those last asked for, for any number of requests, although each commits   *)
(* in two steps (create_view, copy_view, delete_view, update_filters).       *)
THEOREM TablesKeepUsableViews ==
    V!InitViews /\ [][V!NextViews]_(V!varsViews) => []V!ViewsStayUsable
<1>1. ViewInv /\ [V!NextViews]_(V!varsViews) => ViewInv'
  BY ViewStep
<1> QED  BY ViewInit, <1>1, ViewSafe, PTL

ViewConstants == IsFiniteSet(ViewIds) /\ MaxViewCalls \in Nat
MostNames == Cardinality(ViewIds) + 1
ViewBounds ==
    /\ viewCalls \in 0..MaxViewCalls
    /\ \A v \in ViewIds : view[v] <= MostNames
    /\ \A c \in Viewers : viewCall[c].op = "insert" => viewCall[c].name <= MostNames

LEMMA NamesBounded ==
  ASSUME ViewConstants, ViewInv
  PROVE  V!NextViewName(V!Names) \in Nat /\ V!NextViewName(V!Names) <= MostNames /\ MostNames \in Nat
<1> DEFINE k == Cardinality(V!Names)  n == Cardinality(ViewIds)
<1>1. V!Names \in SUBSET Nat /\ IsFiniteSet(V!Names) /\ k \in Nat /\ n \in Nat
  BY NamesFinite, FS_CardinalityType DEF ViewInv, ViewConstants
<1>2. k <= n
  <2> DEFINE f == [v \in V!Views |-> view[v]]
  <2>1. V!Views \in SUBSET ViewIds /\ IsFiniteSet(V!Views)
    BY DEF V!Views, ViewInv, ViewTypes
  <2>2. f \in Surjection(V!Views, V!Names)
    BY DEF Surjection, V!Names
  <2> HIDE DEF f
  <2>3. k <= Cardinality(V!Views)
    BY <2>1, <2>2, FS_Surjection
  <2>4. Cardinality(V!Views) <= n /\ Cardinality(V!Views) \in Nat
    BY <2>1, FS_Subset, FS_CardinalityType DEF ViewConstants
  <2> QED
    BY <1>1, <2>3, <2>4
<1>3. V!NextViewName(V!Names) \in 1..(k + 1)
  BY <1>1, FirstFree
<1> QED
  BY <1>1, <1>2, <1>3 DEF MostNames

LEMMA ViewBoundsStep ==
  ASSUME ViewConstants, ViewInv, ViewBounds, [V!NextViews]_(V!varsViews)
  PROVE  ViewBounds'
<1> DEFINE Fits(e) == e.op = "insert" => e.name <= MostNames
<1>1. MostNames \in Nat /\ V!NextViewName(V!Names) <= MostNames /\ viewCall \in [Viewers -> ViewCalls]
      /\ view \in [ViewIds -> Nat] /\ viewCalls \in 0..MaxViewCalls /\ MaxViewCalls \in Nat
  BY NamesBounded DEF ViewInv, ViewTypes, ViewConstants, ViewBounds
<1>2. ASSUME NEW c \in Viewers, NEW e, viewCall' = [viewCall EXCEPT ![c] = e], Fits(e)
      PROVE  \A d \in Viewers : viewCall'[d].op = "insert" => viewCall'[d].name <= MostNames
  BY <1>1, <1>2 DEF ViewBounds
<1>3. ASSUME NEW c \in Viewers, NEW e, V!BeginCall(c, e), Fits(e) PROVE ViewBounds'
  BY <1>1, <1>2, <1>3 DEF V!BeginCall, ViewBounds, MostNames
<1>4. ASSUME NEW c \in Viewers,
             \/ V!BeginCreateView(c)
             \/ \E v \in ViewIds : V!BeginCopyView(c, v) \/ V!BeginDeleteView(c, v)
             \/ \E new \in SUBSET Items : V!BeginReplace(c, new)
      PROVE  ViewBounds'
  BY <1>1, <1>3, <1>4 DEF V!BeginCreateView, V!BeginCopyView, V!BeginDeleteView, V!BeginReplace
<1>5. ASSUME NEW c \in Viewers, NEW v \in ViewIds, V!CreateView(c, v) \/ V!CopyView(c, v) PROVE ViewBounds'
  BY <1>1, <1>2, <1>5 DEF V!CreateView, V!CopyView, V!GoOn, V!Step, V!NoViewCall, ViewBounds, MostNames
<1>6. ASSUME NEW c \in Viewers,
             \/ V!DefaultOnlyView(c) \/ V!DeleteView(c) \/ V!DefaultFirstView(c) \/ V!ReplaceItems(c)
             \/ V!ViewerDies(c)
      PROVE  ViewBounds'
  BY <1>1, <1>2, <1>6 DEF V!DefaultOnlyView, V!DeleteView, V!DefaultFirstView, V!ReplaceItems, V!ViewerDies,
     V!GoOn, V!Step, V!NoViewCall, ViewBounds, MostNames
<1>7. ASSUME NEW c \in Viewers, V!ClearItems(c) \/ \E i \in Items : V!AddItem(c, i) \/ V!DeleteItem(c, i)
      PROVE  ViewBounds'
  BY <1>1, <1>7 DEF V!ClearItems, V!AddItem, V!DeleteItem, V!EditItems, ViewBounds, MostNames
<1>8. CASE UNCHANGED V!varsViews
  BY <1>8 DEF V!varsViews, ViewBounds, MostNames
<1> QED
  BY <1>4, <1>5, <1>6, <1>7, <1>8 DEF V!NextViews

LEMMA ViewBoundsInit ==
  ASSUME ViewConstants, V!InitViews
  PROVE  ViewBounds
<1>1. Cardinality(ViewIds) \in Nat
  BY FS_CardinalityType DEF ViewConstants
<1> QED
  BY <1>1 DEF V!InitViews, ViewBounds, ViewConstants, V!NoViewCall, MostNames

LEMMA ViewsTyped ==
  ASSUME ViewConstants, ViewInv, ViewBounds
  PROVE  V!TypeOKViews
<1>1. Cardinality(ViewIds) \in Nat /\ V!Cardinality(ViewIds) = Cardinality(ViewIds)
  BY FS_CardinalityType, CountedAlike DEF ViewConstants
<1>2. view \in [ViewIds -> 0..MostNames]
  BY <1>1 DEF ViewInv, ViewTypes, ViewBounds, MostNames
<1> QED
  BY <1>1, <1>2 DEF ViewInv, ViewTypes, ViewBounds, MostNames, V!TypeOKViews

-----------------------------------------------------------------------------
(* SkillRegistry, for any skills, workspaces, registrations and requests.    *)
(*                                                                           *)
(* The argument: without overlaps a writer is alone, so that the row it      *)
(* loaded is the row it writes, and a skill it did not find is new.  Every   *)
(* skill then has one row, whose current version is the only one and says    *)
(* the same, and what is cached, or was read to be cached, is what the rows  *)
(* say, unless a writer has still to drop it.                                *)

CONSTANTS Names, Builtins, Spaces, Slugs, Versions, SkillContents, BrokenContents, Payloads, Switches, Callers,
          Keys, MaxWrites
VARIABLES entries, versions, categories, cache, catCache, work, writes, interleaved
SR == INSTANCE SkillRegistry WITH Workers <- Callers, Contents <- SkillContents,
    Broken <- BrokenContents, overlapped <- interleaved

SkillConstants ==
    /\ IsFiniteSet(Builtins) /\ Builtins \subseteq Names
    /\ Payloads \subseteq [name : Names, ws : Spaces \cup {SR!Global}, cat : Slugs \cup {SR!BuiltinSlug},
                           version : Versions \cup {SR!BuiltinVersion}, content : SkillContents]
    /\ Switches \subseteq SR!Statuses

SameSkill(e, f) == e.name = f.name /\ e.ws = f.ws
VersionRows == [entry : Nat, version : Versions \cup {SR!BuiltinVersion},
                content : SkillContents \cup {SR!BuiltinContent}, current : BOOLEAN]

Stage(t) ==
    /\ t.at \in {"idle", "register", "invalidate", "entries", "store"}
    /\ t.at = "idle" => t = SR!Idle
    /\ t.at = "register" => t.wanted \in SR!Rows /\ t.entry \in Nat
    /\ t.at \in {"entries", "store"} => t.key \in Keys

(* The row a registration loaded is still a row of the same skill. *)
LoadedRow(w) ==
    work[w].at = "register" /\ work[w].entry # SR!NoRow =>
        /\ work[w].entry \in DOMAIN entries /\ work[w].loaded \in SR!Rows
        /\ SameSkill(entries[work[w].entry], work[w].wanted)
        /\ SameSkill(work[w].loaded, work[w].wanted)

SkillTypes ==
    /\ entries \in Seq(SR!Rows)
    /\ versions \in Seq(VersionRows)
    /\ \A k \in DOMAIN versions : versions[k].entry \in DOMAIN entries
    /\ DOMAIN cache = Keys /\ cache = [k \in Keys |-> cache[k]]
    /\ DOMAIN work = Callers /\ work = [w \in Callers |-> work[w]]
    /\ \A w \in Callers : Stage(work[w]) /\ LoadedRow(w)
    /\ interleaved \in BOOLEAN

Writer(v) == work[v].at \in {"register", "invalidate"}
WritersAlone == \A v, u \in Callers : Writer(v) /\ u # v => work[u] = SR!Idle

SkillsApart == \A i, j \in DOMAIN entries : SameSkill(entries[i], entries[j]) => i = j
LoadedIsNow ==
    \A w \in Callers : work[w].at = "register" =>
        IF work[w].entry = SR!NoRow THEN \A i \in DOMAIN entries : ~ SameSkill(entries[i], work[w].wanted)
                                   ELSE work[w].loaded = entries[work[w].entry]

VersionsApart ==
    \A k, m \in DOMAIN versions :
        versions[k].entry = versions[m].entry /\ versions[k].version = versions[m].version => k = m
CurrentSays(i) ==
    \E k \in DOMAIN versions :
        /\ versions[k].entry = i /\ versions[k].current
        /\ versions[k].version = entries[i].version
        /\ versions[k].content = entries[i].content
        /\ \A m \in DOMAIN versions \ {k} : versions[m].entry = i => ~versions[m].current

Own(i) == entries[i].ws = SR!Global /\ entries[i].name \in Builtins
OwnVersion(i) == \E k \in DOMAIN versions : versions[k].entry = i /\ versions[k].version = SR!BuiltinVersion
OwnThere == \A n \in Builtins : \E i \in DOMAIN entries : entries[i].name = n /\ entries[i].ws = SR!Global

RowsExact ==
    /\ SkillsApart /\ VersionsApart /\ OwnThere
    /\ \A i \in DOMAIN entries : CurrentSays(i) /\ (Own(i) => OwnVersion(i))
Exact ==
    /\ \A k \in Keys : cache[k] # SR!None => cache[k].list = SR!Manifest(k, categories)
    /\ catCache # SR!None => catCache.cats = categories
    /\ \A w \in Callers : work[w].at = "entries" => work[w].cats = categories
    /\ \A w \in Callers, k \in Keys :
         work[w].at = "store" /\ work[w].key = k => work[w].list = SR!Manifest(k, categories)
ListsExact == (\A v \in Callers : ~ Writer(v)) => Exact

SkillInv ==
    /\ SkillTypes
    /\ ~interleaved => WritersAlone /\ LoadedIsNow /\ RowsExact /\ ListsExact

-----------------------------------------------------------------------------
LEMMA RowParts ==
  ASSUME NEW e \in SR!Rows
  PROVE  /\ DOMAIN e = {"name", "ws", "cat", "version", "content", "source", "status", "enabled"}
         /\ e.version \in Versions \cup {SR!BuiltinVersion}
         /\ e.content \in SkillContents \cup {SR!BuiltinContent}
BY DEF SR!Rows

LEMMA SameRow ==
  ASSUME NEW e \in SR!Rows, NEW f,
         DOMAIN f = DOMAIN e, f = [x \in DOMAIN e |-> e[x]]
  PROVE  f = e
BY DEF SR!Rows

LEMMA ChangedRow ==
  ASSUME NEW l \in SR!Rows, NEW e \in SR!Rows, NEW r \in SR!Rows
  PROVE  /\ SR!ChangedOnly(l, e, r) \in SR!Rows
         /\ SameSkill(l, e) => SameSkill(SR!ChangedOnly(l, e, r), r)
         /\ r = l => SR!ChangedOnly(l, e, r) = e
<1> DEFINE c == SR!ChangedOnly(l, e, r)
<1>1. c = [f \in DOMAIN r |-> IF e[f] # l[f] THEN e[f] ELSE r[f]]
  BY DEF SR!ChangedOnly
<1>2. DOMAIN r = DOMAIN e /\ DOMAIN l = DOMAIN e
  BY RowParts
<1> HIDE DEF c
<1>3. /\ c = [f \in {"name", "ws", "cat", "version", "content", "source", "status", "enabled"} |->
                  IF e[f] # l[f] THEN e[f] ELSE r[f]]
  BY <1>1, RowParts
<1>4. c = [name |-> c.name, ws |-> c.ws, cat |-> c.cat, version |-> c.version, content |-> c.content,
           source |-> c.source, status |-> c.status, enabled |-> c.enabled]
  BY <1>3
<1>5. /\ c.name \in {e.name, r.name} /\ c.ws \in {e.ws, r.ws} /\ c.cat \in {e.cat, r.cat}
      /\ c.version \in {e.version, r.version} /\ c.content \in {e.content, r.content}
      /\ c.source \in {e.source, r.source} /\ c.status \in {e.status, r.status}
      /\ c.enabled \in {e.enabled, r.enabled}
  BY <1>3
<1>6. c \in SR!Rows
  BY <1>4, <1>5 DEF SR!Rows
<1>7. SameSkill(l, e) => SameSkill(c, r)
  BY <1>3 DEF SameSkill
<1>8. r = l => c = e
  <2> SUFFICES ASSUME r = l PROVE c = e
    OBVIOUS
  <2>1. c = [f \in DOMAIN e |-> e[f]]
    BY <1>1, <1>2
  <2> QED
    BY <2>1, SameRow
<1> QED
  BY <1>6, <1>7, <1>8 DEF c

LEMMA CountsAlike == \A A : SR!Cardinality(A) = Cardinality(A)
BY DEF SR!Cardinality, Cardinality

(* The code's own skills in some order, each once. *)
LEMMA OwnInOrder ==
  ASSUME IsFiniteSet(Builtins)
  PROVE  /\ Cardinality(Builtins) \in Nat
         /\ SR!SetToSeq(Builtins) \in Bijection(1..Cardinality(Builtins), Builtins)
<1>1. Cardinality(Builtins) \in Nat /\ ExistsBijection(1..Cardinality(Builtins), Builtins)
  BY FS_CardinalityType
<1>2. PICK f : f \in Bijection(1..Cardinality(Builtins), Builtins)
  BY <1>1 DEF ExistsBijection
<1>3. f \in [1..Cardinality(Builtins) -> Builtins] /\ SR!IsInjective(f)
  BY <1>2 DEF Bijection, Injection, Surjection, SR!IsInjective, IsInjective
<1>4. /\ SR!SetToSeq(Builtins) \in [1..Cardinality(Builtins) -> Builtins]
      /\ SR!IsInjective(SR!SetToSeq(Builtins))
  BY <1>3, CountsAlike DEF SR!SetToSeq
<1>5. SR!SetToSeq(Builtins) \in Injection(1..Cardinality(Builtins), Builtins)
  BY <1>4 DEF Injection, SR!IsInjective, IsInjective
<1>6. SR!SetToSeq(Builtins) \in Surjection(1..Cardinality(Builtins), Builtins)
  <2>1. IsFiniteSet(Builtins) /\ Cardinality(1..Cardinality(Builtins)) = Cardinality(Builtins)
    BY <1>1, FS_Interval
  <2> QED
    BY <1>5, <2>1, FS_Injection
<1> QED
  BY <1>1, <1>5, <1>6 DEF Bijection

LEMMA SkillInit == SkillConstants /\ SR!Init => SkillInv
<1> SUFFICES ASSUME SkillConstants, SR!Init PROVE SkillInv
  OBVIOUS
<1> DEFINE n == Cardinality(Builtins)
           s == SR!SetToSeq(Builtins)
<1>1. n \in Nat /\ s \in Bijection(1..n, Builtins)
  BY OwnInOrder DEF SkillConstants
<1>2. /\ \A i \in 1..n : s[i] \in Builtins
      /\ \A i, j \in 1..n : s[i] = s[j] => i = j
      /\ \A b \in Builtins : \E i \in 1..n : s[i] = b
  BY <1>1 DEF Bijection, Injection, Surjection, IsInjective
<1> HIDE DEF n, s
<1>3. /\ entries = [i \in 1..n |-> SR!EntryOf(SR!BuiltinRequest(s[i]), "builtin")]
      /\ versions = [i \in 1..n |->
                      [entry |-> i, version |-> SR!BuiltinVersion, content |-> SR!BuiltinContent,
                       current |-> TRUE]]
  BY CountsAlike DEF SR!Init, n, s
<1>4. \A i \in 1..n :
        /\ SR!EntryOf(SR!BuiltinRequest(s[i]), "builtin") \in SR!Rows
        /\ entries[i].name = s[i] /\ entries[i].ws = SR!Global
        /\ entries[i].version = SR!BuiltinVersion /\ entries[i].content = SR!BuiltinContent
  BY <1>2, <1>3 DEF SkillConstants, SR!EntryOf, SR!BuiltinRequest, SR!Rows, SR!Statuses
<1>5. entries \in [1..n -> SR!Rows] /\ versions \in [1..n -> VersionRows]
  BY <1>3, <1>4 DEF VersionRows
<1>6. entries \in Seq(SR!Rows) /\ versions \in Seq(VersionRows)
  BY <1>1, <1>5
<1>7. \A i \in 1..n : /\ versions[i].entry = i /\ versions[i].version = SR!BuiltinVersion
                      /\ versions[i].content = SR!BuiltinContent /\ versions[i].current
  BY <1>3
<1>8. DOMAIN entries = 1..n /\ DOMAIN versions = 1..n
  BY <1>3
<1>9. \A w \in Callers : work[w] = SR!Idle
  BY DEF SR!Init
<1>10. SkillTypes
  <2>1. \A w \in Callers : Stage(work[w]) /\ LoadedRow(w)
    BY <1>9 DEF Stage, LoadedRow, SR!Idle
  <2> QED
    BY <1>6, <1>7, <1>8, <2>1 DEF SkillTypes, SR!Init
<1>11. WritersAlone /\ LoadedIsNow
  BY <1>9 DEF WritersAlone, Writer, LoadedIsNow, SR!Idle
<1>12. RowsExact
  <2>1. SkillsApart
    BY <1>2, <1>4, <1>8 DEF SkillsApart, SameSkill
  <2>2. VersionsApart
    BY <1>7, <1>8 DEF VersionsApart
  <2>3. OwnThere
    BY <1>2, <1>4, <1>8 DEF OwnThere
  <2>4. ASSUME NEW i \in DOMAIN entries PROVE CurrentSays(i) /\ OwnVersion(i)
    BY <1>4, <1>7, <1>8 DEF CurrentSays, OwnVersion
  <2> QED
    BY <2>1, <2>2, <2>3, <2>4 DEF RowsExact
<1>13. ListsExact
  BY <1>9 DEF ListsExact, Exact, SR!Init, SR!Idle
<1> QED
  BY <1>10, <1>11, <1>12, <1>13 DEF SkillInv

LEMMA StageMoves ==
  ASSUME SkillTypes, NEW w \in Callers, NEW t, work' = [work EXCEPT ![w] = t]
  PROVE  /\ DOMAIN work' = Callers /\ work' = [u \in Callers |-> work'[u]]
         /\ \A u \in Callers : work'[u] = IF u = w THEN t ELSE work[u]
BY DEF SkillTypes

(* After an upsert the version registered is there, alone if it was, and the *)
(* only current one; the others keep what they say.                         *)
Fresh(r, i, v) == {k \in DOMAIN r : k \in DOMAIN versions => versions[k].entry = i /\ versions[k].version = v}
LEMMA VersionUpserted ==
  ASSUME versions \in Seq(VersionRows), NEW i \in Nat, NEW v \in Versions \cup {SR!BuiltinVersion},
         NEW c \in SkillContents \cup {SR!BuiltinContent}, NEW r, r = SR!UpsertVersion(versions, i, v, c)
  PROVE  /\ r \in Seq(VersionRows) /\ DOMAIN versions \subseteq DOMAIN r
         /\ Fresh(r, i, v) # {} /\ (VersionsApart => \A k, m \in Fresh(r, i, v) : k = m)
         /\ \A k \in Fresh(r, i, v) : r[k].entry = i /\ r[k].version = v /\ r[k].content = c /\ r[k].current
         /\ \A k \in DOMAIN r \ Fresh(r, i, v) :
              /\ k \in DOMAIN versions
              /\ r[k].entry = versions[k].entry /\ r[k].version = versions[k].version
              /\ r[k].content = versions[k].content
              /\ r[k].current = (versions[k].current /\ versions[k].entry # i)
<1> DEFINE new == [entry |-> i, version |-> v, content |-> c, current |-> TRUE]
           reset == [k \in DOMAIN versions |->
                       IF versions[k].entry = i THEN [versions[k] EXCEPT !.current = FALSE] ELSE versions[k]]
           mine == {k \in DOMAIN versions : versions[k].entry = i /\ versions[k].version = v}
<1>1. r = IF mine = {} THEN Append(reset, new)
          ELSE [k \in DOMAIN versions |-> IF k \in mine THEN new ELSE reset[k]]
  BY DEF SR!UpsertVersion
<1>2. new \in VersionRows /\ new.entry = i /\ new.version = v /\ new.content = c /\ new.current
  BY DEF VersionRows
<1>3. DOMAIN versions = 1..Len(versions) /\ Len(versions) \in Nat
  OBVIOUS
<1>4. \A k \in DOMAIN versions :
        /\ reset[k] \in VersionRows
        /\ reset[k].entry = versions[k].entry /\ reset[k].version = versions[k].version
        /\ reset[k].content = versions[k].content
        /\ reset[k].current = (versions[k].current /\ versions[k].entry # i)
  <2> SUFFICES ASSUME NEW k \in DOMAIN versions
               PROVE  /\ reset[k] \in VersionRows
                      /\ reset[k].entry = versions[k].entry /\ reset[k].version = versions[k].version
                      /\ reset[k].content = versions[k].content
                      /\ reset[k].current = (versions[k].current /\ versions[k].entry # i)
    OBVIOUS
  <2>1. versions[k] \in VersionRows
    OBVIOUS
  <2>2. CASE versions[k].entry = i
    <3>1. reset[k] = [versions[k] EXCEPT !.current = FALSE]
      BY <2>2
    <3> QED
      BY <2>1, <2>2, <3>1 DEF VersionRows
  <2>3. CASE versions[k].entry # i
    <3>1. reset[k] = versions[k]
      BY <2>3
    <3>2. versions[k].current \in BOOLEAN
      BY <2>1 DEF VersionRows
    <3> QED
      BY <2>1, <2>3, <3>1, <3>2
  <2> QED
    BY <2>2, <2>3
<1>5. DOMAIN reset = DOMAIN versions /\ mine \subseteq DOMAIN versions
  OBVIOUS
<1>6. reset \in Seq(VersionRows) /\ Len(reset) = Len(versions)
  <2>1. reset \in [1..Len(versions) -> VersionRows]
    <3>1. reset = [k \in 1..Len(versions) |-> reset[k]]
      BY <1>3
    <3> QED
      BY <1>3, <1>4, <3>1
  <2> HIDE DEF reset
  <2> QED
    BY <1>3, <1>5, <2>1
<1>a. Fresh(r, i, v) = {k \in DOMAIN r : k \in DOMAIN versions => k \in mine}
  BY DEF Fresh
<1>b. VersionsApart => \A k, m \in mine : k = m
  BY DEF VersionsApart
<1> HIDE DEF new, reset
<1>7. CASE mine = {}
  <2>1. r = Append(reset, new)
    BY <1>1, <1>7
  <2>2. /\ r \in Seq(VersionRows) /\ DOMAIN r = 1..(Len(versions) + 1)
        /\ \A k \in 1..Len(versions) : r[k] = reset[k]
        /\ r[Len(versions) + 1] = new
    BY <1>2, <1>3, <1>6, <2>1
  <2>3. Fresh(r, i, v) = {Len(versions) + 1}
    BY <1>3, <1>7, <1>a, <2>2
  <2> QED
    BY <1>2, <1>3, <1>4, <2>2, <2>3
<1>8. CASE mine # {}
  <2>1. r = [k \in DOMAIN versions |-> IF k \in mine THEN new ELSE reset[k]]
    BY <1>1, <1>8
  <2>2. DOMAIN r = DOMAIN versions /\ \A k \in DOMAIN versions : r[k] = IF k \in mine THEN new ELSE reset[k]
    BY <2>1
  <2>3. r \in Seq(VersionRows)
    <3>1. r \in [1..Len(versions) -> VersionRows]
      BY <1>2, <1>3, <1>4, <2>1
    <3> QED
      BY <1>3, <3>1
  <2>4. Fresh(r, i, v) = mine
    BY <1>5, <1>a, <2>2
  <2> HIDE DEF mine
  <2> QED
    BY <1>2, <1>4, <1>5, <1>8, <1>b, <2>2, <2>3, <2>4
<1> QED
  BY <1>7, <1>8

(* A write is made: every skill keeps its row, and until the lists are       *)
(* dropped the writer stays alone.                                          *)
LEMMA WriteMade ==
  ASSUME SkillInv, NEW w \in Callers, work' = [work EXCEPT ![w] = [at |-> "invalidate"]], cache' = cache,
         entries' \in Seq(SR!Rows), DOMAIN entries \subseteq DOMAIN entries',
         \A i \in DOMAIN entries : SameSkill(entries'[i], entries[i]),
         versions' \in Seq(VersionRows), \A k \in DOMAIN versions' : versions'[k].entry \in DOMAIN entries',
         interleaved' \in BOOLEAN,
         ~interleaved' => RowsExact' /\ \A u \in Callers \ {w} : work[u] = SR!Idle
  PROVE  SkillInv'
<1>1. SkillTypes
  BY DEF SkillInv
<1>2. /\ DOMAIN work' = Callers /\ work' = [u \in Callers |-> work'[u]]
      /\ \A u \in Callers : work'[u] = IF u = w THEN [at |-> "invalidate"] ELSE work[u]
  BY <1>1, StageMoves
<1>3. ASSUME NEW u \in Callers PROVE Stage(work'[u]) /\ LoadedRow(u)'
  <2>1. CASE u = w
    BY <1>2, <2>1 DEF Stage, LoadedRow, SR!Idle
  <2>2. CASE u # w
    <3>1. work'[u] = work[u] /\ Stage(work[u]) /\ LoadedRow(u)
      BY <1>1, <1>2, <2>2 DEF SkillTypes
    <3> QED
      BY <3>1 DEF LoadedRow, SameSkill
  <2> QED
    BY <2>1, <2>2
<1>4. SkillTypes'
  BY <1>1, <1>2, <1>3 DEF SkillTypes
<1>5. ASSUME ~interleaved' PROVE WritersAlone' /\ LoadedIsNow' /\ ListsExact'
  <2>1. \A u \in Callers : work'[u] = IF u = w THEN [at |-> "invalidate"] ELSE SR!Idle
    BY <1>2, <1>5
  <2>2. WritersAlone' /\ LoadedIsNow'
    BY <2>1 DEF WritersAlone, LoadedIsNow, Writer, SR!Idle
  <2>3. ListsExact'
    BY <2>1 DEF ListsExact, Writer
  <2> QED
    BY <2>2, <2>3
<1> QED
  BY <1>4, <1>5 DEF SkillInv

(* The row a registration writes, and what is there afterwards. *)
Target(w) == IF work[w].entry = SR!NoRow THEN Len(entries) + 1 ELSE work[w].entry
LEMMA RowRegistered ==
  ASSUME SkillInv, NEW w \in Callers, SR!CommitRegister(w)
  PROVE  /\ entries' \in Seq(SR!Rows) /\ DOMAIN entries' = DOMAIN entries \cup {Target(w)} /\ Target(w) \in Nat
         /\ \A j \in DOMAIN entries \ {Target(w)} : entries'[j] = entries[j]
         /\ Target(w) \in DOMAIN entries => SameSkill(entries'[Target(w)], entries[Target(w)])
         /\ Target(w) \in DOMAIN entries <=> work[w].entry # SR!NoRow
         /\ Target(w) \notin DOMAIN entries => entries'[Target(w)] = work[w].wanted
         /\ Target(w) \in DOMAIN entries /\ work[w].loaded = entries[Target(w)]
              => entries'[Target(w)] = work[w].wanted
<1> DEFINE e == work[w].wanted
           i == Target(w)
<1>1. /\ work[w].at = "register"
      /\ entries' = IF work[w].entry = SR!NoRow THEN Append(entries, e)
                    ELSE [entries EXCEPT ![i] = SR!ChangedOnly(work[w].loaded, e, @)]
  BY DEF SR!CommitRegister, Target
<1>2. SkillTypes /\ Stage(work[w]) /\ LoadedRow(w)
  BY DEF SkillInv, SkillTypes
<1>3. e \in SR!Rows /\ work[w].entry \in Nat
  BY <1>1, <1>2 DEF Stage
<1>4. DOMAIN entries = 1..Len(entries) /\ Len(entries) \in Nat /\ \A j \in DOMAIN entries : entries[j] \in SR!Rows
  BY <1>2 DEF SkillTypes
<1>t. i = IF work[w].entry = SR!NoRow THEN Len(entries) + 1 ELSE work[w].entry
  BY DEF Target
<1> HIDE DEF i
<1>5. /\ entries' \in Seq(SR!Rows) /\ DOMAIN entries' = DOMAIN entries \cup {i} /\ i \in Nat
      /\ \A j \in DOMAIN entries \ {i} : entries'[j] = entries[j]
      /\ i \in DOMAIN entries => SameSkill(entries'[i], entries[i])
      /\ i \in DOMAIN entries <=> work[w].entry # SR!NoRow
      /\ i \notin DOMAIN entries => entries'[i] = e
      /\ i \in DOMAIN entries /\ work[w].loaded = entries[i] => entries'[i] = e
  <2>1. CASE work[w].entry = SR!NoRow
    <3>1. entries' = Append(entries, e) /\ i = Len(entries) + 1
      BY <1>1, <1>t, <2>1
    <3>2. /\ entries' \in Seq(SR!Rows) /\ DOMAIN entries' = 1..(Len(entries) + 1)
          /\ \A j \in 1..Len(entries) : entries'[j] = entries[j]
          /\ entries'[Len(entries) + 1] = e
      BY <1>2, <1>3, <3>1 DEF SkillTypes
    <3> QED
      BY <1>4, <2>1, <3>1, <3>2 DEF SameSkill
  <2>2. CASE work[w].entry # SR!NoRow
    <3>1. i = work[w].entry /\ entries' = [entries EXCEPT ![i] = SR!ChangedOnly(work[w].loaded, e, entries[i])]
      BY <1>1, <1>t, <2>2
    <3>2. i \in DOMAIN entries /\ work[w].loaded \in SR!Rows /\ SameSkill(entries[i], e) /\ SameSkill(work[w].loaded, e)
      BY <1>1, <1>2, <2>2, <3>1 DEF LoadedRow
    <3> DEFINE c == SR!ChangedOnly(work[w].loaded, e, entries[i])
    <3>3. c \in SR!Rows /\ SameSkill(c, entries[i]) /\ (work[w].loaded = entries[i] => c = e)
      <4>1. entries[i] \in SR!Rows
        BY <1>4, <3>2
      <4> QED
        BY <1>3, <3>2, <4>1, ChangedRow
    <3> HIDE DEF c
    <3>4. entries' = [entries EXCEPT ![i] = c]
      BY <3>1 DEF c
    <3>5. /\ entries' \in Seq(SR!Rows) /\ DOMAIN entries' = DOMAIN entries
          /\ \A j \in DOMAIN entries : entries'[j] = IF j = i THEN c ELSE entries[j]
      BY <1>2, <3>2, <3>3, <3>4 DEF SkillTypes
    <3> QED
      BY <1>4, <2>2, <3>1, <3>2, <3>3, <3>5 DEF SameSkill
  <2> QED
    BY <2>1, <2>2
<1> QED
  BY <1>5 DEF e, i

LEMMA RegisterCommits ==
  ASSUME SkillConstants, SkillInv, NEW w \in Callers, SR!CommitRegister(w)
  PROVE  SkillInv'
<1> DEFINE e == work[w].wanted
           i == Target(w)
<1>1. /\ work[w].at = "register"
      /\ versions' = SR!UpsertVersion(versions, i, e.version, e.content)
      /\ work' = [work EXCEPT ![w] = [at |-> "invalidate"]]
      /\ UNCHANGED <<cache, interleaved>>
  BY DEF SR!CommitRegister, Target
<1>2. SkillTypes /\ Stage(work[w]) /\ LoadedRow(w)
  BY DEF SkillInv, SkillTypes
<1>3. e \in SR!Rows
  BY <1>1, <1>2 DEF Stage
<1>5. /\ entries' \in Seq(SR!Rows) /\ DOMAIN entries' = DOMAIN entries \cup {i} /\ i \in Nat
      /\ \A j \in DOMAIN entries \ {i} : entries'[j] = entries[j]
      /\ i \in DOMAIN entries => SameSkill(entries'[i], entries[i])
      /\ i \in DOMAIN entries <=> work[w].entry # SR!NoRow
      /\ i \notin DOMAIN entries => entries'[i] = e
      /\ i \in DOMAIN entries /\ work[w].loaded = entries[i] => entries'[i] = e
  BY RowRegistered
<1> HIDE DEF e, i
<1> DEFINE fresh == Fresh(versions', i, e.version)
<1>6. /\ versions' \in Seq(VersionRows) /\ DOMAIN versions \subseteq DOMAIN versions'
      /\ fresh # {} /\ (VersionsApart => \A k, m \in fresh : k = m)
      /\ \A k \in fresh : /\ versions'[k].entry = i /\ versions'[k].version = e.version
                          /\ versions'[k].content = e.content /\ versions'[k].current
      /\ \A k \in DOMAIN versions' \ fresh :
           /\ k \in DOMAIN versions
           /\ versions'[k].entry = versions[k].entry /\ versions'[k].version = versions[k].version
           /\ versions'[k].content = versions[k].content
           /\ versions'[k].current = (versions[k].current /\ versions[k].entry # i)
  <2>1. e.version \in Versions \cup {SR!BuiltinVersion} /\ e.content \in SkillContents \cup {SR!BuiltinContent}
    BY <1>3, RowParts
  <2>2. versions \in Seq(VersionRows)
    BY <1>2 DEF SkillTypes
  <2>3. versions' = SR!UpsertVersion(versions, i, e.version, e.content) /\ i \in Nat
    BY <1>1, <1>5
  <2> QED
    BY <2>1, <2>2, <2>3, VersionUpserted
<1>f. /\ fresh \subseteq DOMAIN versions'
      /\ \A k \in fresh : k \in DOMAIN versions => versions[k].entry = i /\ versions[k].version = e.version
      /\ \A k \in DOMAIN versions' \ fresh : ~ (versions[k].entry = i /\ versions[k].version = e.version)
  BY DEF Fresh
<1> HIDE DEF fresh
<1>7. \A k \in DOMAIN versions : versions'[k].entry = versions[k].entry /\ versions'[k].version = versions[k].version
  BY <1>6, <1>f
<1>8. \A k \in DOMAIN versions' : versions'[k].entry \in DOMAIN entries'
  BY <1>2, <1>5, <1>6 DEF SkillTypes
<1>9. \A j \in DOMAIN entries : j \in DOMAIN entries' /\ SameSkill(entries'[j], entries[j])
  BY <1>5 DEF SameSkill
<1>10. ASSUME ~interleaved' PROVE RowsExact' /\ \A u \in Callers \ {w} : work[u] = SR!Idle
  <2>1. WritersAlone /\ LoadedIsNow /\ RowsExact
    BY <1>1, <1>10 DEF SkillInv
  <2>2. \A u \in Callers \ {w} : work[u] = SR!Idle
    BY <1>1, <2>1 DEF WritersAlone, Writer
  <2>3. i \notin DOMAIN entries => \A j \in DOMAIN entries : ~ SameSkill(entries[j], e)
    BY <1>1, <1>5, <2>1 DEF LoadedIsNow, e
  <2>4. entries'[i] = e
    BY <1>1, <1>5, <2>1 DEF LoadedIsNow, i, Target
  <2>5. SkillsApart'
    <3> SUFFICES ASSUME NEW j \in DOMAIN entries', NEW k \in DOMAIN entries',
                        SameSkill(entries'[j], entries'[k]), j # k
                 PROVE  FALSE
      BY DEF SkillsApart
    <3>1. CASE j \in DOMAIN entries /\ k \in DOMAIN entries
      <4>1. SameSkill(entries[j], entries[k])
        BY <1>9, <3>1 DEF SameSkill
      <4> QED
        BY <2>1, <3>1, <4>1 DEF RowsExact, SkillsApart
    <3>2. CASE j \notin DOMAIN entries
      <4>1. j = i /\ k \in DOMAIN entries
        BY <1>5, <3>2
      <4>2. SameSkill(entries[k], e)
        BY <1>9, <2>4, <4>1 DEF SameSkill
      <4> QED
        BY <2>3, <3>2, <4>1, <4>2
    <3>3. CASE k \notin DOMAIN entries
      <4>1. k = i /\ j \in DOMAIN entries
        BY <1>5, <3>3
      <4>2. SameSkill(entries[j], e)
        BY <1>9, <2>4, <4>1 DEF SameSkill
      <4> QED
        BY <2>3, <3>3, <4>1, <4>2
    <3> QED
      BY <3>1, <3>2, <3>3
  <2>6. VersionsApart'
    <3>1. VersionsApart /\ \A k, m \in fresh : k = m
      BY <1>6, <2>1 DEF RowsExact
    <3> SUFFICES ASSUME NEW k \in DOMAIN versions', NEW m \in DOMAIN versions',
                        versions'[k].entry = versions'[m].entry, versions'[k].version = versions'[m].version
                 PROVE  k = m
      BY DEF VersionsApart
    <3>2. CASE k \in fresh \/ m \in fresh
      BY <1>6, <1>f, <3>1, <3>2
    <3>3. CASE k \notin fresh /\ m \notin fresh
      BY <1>6, <3>1, <3>3 DEF VersionsApart
    <3> QED
      BY <3>2, <3>3
  <2>7. OwnThere'
    <3> SUFFICES ASSUME NEW n \in Builtins
                 PROVE  \E j \in DOMAIN entries' : entries'[j].name = n /\ entries'[j].ws = SR!Global
      BY DEF OwnThere
    <3>1. PICK j \in DOMAIN entries : entries[j].name = n /\ entries[j].ws = SR!Global
      BY <2>1 DEF RowsExact, OwnThere
    <3> QED
      BY <1>9, <3>1 DEF SameSkill
  <2>8. ASSUME NEW j \in DOMAIN entries' PROVE CurrentSays(j)'
    <3>1. CASE j = i
      <4>1. PICK k \in fresh : TRUE
        BY <1>6
      <4>2. /\ k \in DOMAIN versions' /\ versions'[k].entry = j /\ versions'[k].current
            /\ versions'[k].version = entries'[j].version /\ versions'[k].content = entries'[j].content
        BY <1>6, <1>f, <2>4, <3>1, <4>1
      <4>3. ASSUME NEW m \in DOMAIN versions' \ {k}, versions'[m].entry = j PROVE ~versions'[m].current
        <5>1. m \notin fresh
          BY <1>6, <2>1 DEF RowsExact
        <5> QED
          BY <1>6, <3>1, <4>3, <5>1
      <4> QED
        BY <4>2, <4>3 DEF CurrentSays
    <3>2. CASE j # i
      <4>1. j \in DOMAIN entries /\ entries'[j] = entries[j] /\ CurrentSays(j)
        BY <1>5, <2>1, <3>2 DEF RowsExact
      <4>2. PICK k \in DOMAIN versions :
              /\ versions[k].entry = j /\ versions[k].current
              /\ versions[k].version = entries[j].version /\ versions[k].content = entries[j].content
              /\ \A m \in DOMAIN versions \ {k} : versions[m].entry = j => ~versions[m].current
        BY <4>1 DEF CurrentSays
      <4>3. k \in DOMAIN versions' \ fresh
        BY <1>6, <1>f, <3>2, <4>2
      <4>4. /\ versions'[k].entry = j /\ versions'[k].current
            /\ versions'[k].version = entries'[j].version /\ versions'[k].content = entries'[j].content
        BY <1>6, <3>2, <4>1, <4>2, <4>3
      <4>5. \A m \in DOMAIN versions' \ {k} : versions'[m].entry = j => ~versions'[m].current
        BY <1>6, <3>2, <4>2
      <4> QED
        BY <4>3, <4>4, <4>5 DEF CurrentSays
    <3> QED
      BY <3>1, <3>2
  <2>9. ASSUME NEW j \in DOMAIN entries', Own(j)' PROVE OwnVersion(j)'
    <3>1. j \in DOMAIN entries
      <4> SUFFICES ASSUME j \notin DOMAIN entries PROVE FALSE
        OBVIOUS
      <4>1. j = i /\ e.ws = SR!Global /\ e.name \in Builtins
        BY <1>5, <2>4, <2>9 DEF Own
      <4>2. PICK k \in DOMAIN entries : entries[k].name = e.name /\ entries[k].ws = SR!Global
        BY <2>1, <4>1 DEF RowsExact, OwnThere
      <4> QED
        BY <2>3, <4>1, <4>2 DEF SameSkill
    <3>2. Own(j)
      BY <1>9, <2>9, <3>1 DEF Own, SameSkill
    <3>3. PICK k \in DOMAIN versions : versions[k].entry = j /\ versions[k].version = SR!BuiltinVersion
      BY <2>1, <3>1, <3>2 DEF RowsExact, OwnVersion
    <3> QED
      BY <1>6, <1>7, <3>3 DEF OwnVersion
  <2> QED
    BY <2>2, <2>5, <2>6, <2>7, <2>8, <2>9 DEF RowsExact
<1>11. interleaved' \in BOOLEAN
  BY <1>1, <1>2 DEF SkillTypes
<1>12. DOMAIN entries \subseteq DOMAIN entries' /\ cache' = cache
  BY <1>1, <1>5
<1> QED
  BY <1>1, <1>5, <1>6, <1>8, <1>9, <1>10, <1>11, <1>12, WriteMade

LEMMA WriteBegins ==
  ASSUME SkillInv, NEW w \in Callers, SR!BeginWrite(w)
  PROVE  /\ work[w] = SR!Idle /\ interleaved' \in BOOLEAN
         /\ ~interleaved' => ~interleaved /\ \A u \in Callers : work[u] = SR!Idle
BY DEF SR!BeginWrite, SR!Alone, SkillInv, SkillTypes

LEMMA StatusKeeps ==
  ASSUME SkillConstants, SkillInv, NEW w \in Callers, NEW i \in DOMAIN entries, NEW on \in BOOLEAN,
         NEW status \in Switches, SR!SetStatus(w, i, on, status)
  PROVE  SkillInv'
<1> DEFINE s == IF ~on /\ status = "active" THEN "disabled" ELSE status
<1>1. /\ SR!BeginWrite(w)
      /\ entries' = [entries EXCEPT ![i].enabled = on, ![i].status = s]
      /\ work' = [work EXCEPT ![w] = [at |-> "invalidate"]]
      /\ UNCHANGED <<versions, categories, cache, catCache>>
  BY DEF SR!SetStatus
<1>2. SkillTypes /\ entries[i] \in SR!Rows
  BY DEF SkillInv, SkillTypes
<1>3. s \in SR!Statuses
  BY DEF SkillConstants, SR!Statuses
<1> HIDE DEF s
<1>4. /\ DOMAIN entries' = DOMAIN entries
      /\ entries'[i] = [entries[i] EXCEPT !.enabled = on, !.status = s]
      /\ \A j \in DOMAIN entries \ {i} : entries'[j] = entries[j]
      /\ entries' = [j \in DOMAIN entries |-> entries'[j]]
  BY <1>1
<1>5. /\ entries'[i] \in SR!Rows /\ SameSkill(entries'[i], entries[i])
      /\ entries'[i].version = entries[i].version /\ entries'[i].content = entries[i].content
  BY <1>2, <1>3, <1>4 DEF SR!Rows, SameSkill
<1>6. /\ \A j \in DOMAIN entries : /\ entries'[j] \in SR!Rows /\ SameSkill(entries'[j], entries[j])
                                   /\ entries'[j].version = entries[j].version
                                   /\ entries'[j].content = entries[j].content
  <2> SUFFICES ASSUME NEW j \in DOMAIN entries
               PROVE  /\ entries'[j] \in SR!Rows /\ SameSkill(entries'[j], entries[j])
                      /\ entries'[j].version = entries[j].version /\ entries'[j].content = entries[j].content
    OBVIOUS
  <2>1. entries[j] \in SR!Rows
    BY <1>2 DEF SkillTypes
  <2> QED
    BY <1>4, <1>5, <2>1 DEF SameSkill
<1>7. entries' \in Seq(SR!Rows)
  <2>1. DOMAIN entries = 1..Len(entries) /\ Len(entries) \in Nat
    BY <1>2 DEF SkillTypes
  <2>2. entries' \in [1..Len(entries) -> SR!Rows]
    BY <1>4, <1>6, <2>1
  <2> QED
    BY <2>1, <2>2
<1>8. ASSUME ~interleaved' PROVE RowsExact' /\ \A u \in Callers \ {w} : work[u] = SR!Idle
  <2>1. RowsExact /\ \A u \in Callers \ {w} : work[u] = SR!Idle
    BY <1>1, <1>8, WriteBegins DEF SkillInv
  <2>2. SkillsApart' /\ VersionsApart' /\ OwnThere'
    BY <1>1, <1>4, <1>6, <2>1 DEF RowsExact, SkillsApart, VersionsApart, OwnThere, SameSkill
  <2>3. ASSUME NEW j \in DOMAIN entries' PROVE CurrentSays(j)' /\ (Own(j)' => OwnVersion(j)')
    <3>1. /\ j \in DOMAIN entries /\ CurrentSays(j) /\ (Own(j) => OwnVersion(j)) /\ versions' = versions
          /\ entries'[j].version = entries[j].version /\ entries'[j].content = entries[j].content
          /\ SameSkill(entries'[j], entries[j])
      BY <1>1, <1>4, <1>6, <2>1 DEF RowsExact
    <3>2. CurrentSays(j)'
      BY <3>1 DEF CurrentSays
    <3>3. Own(j)' => Own(j)
      BY <3>1 DEF Own, SameSkill
    <3> QED
      BY <3>1, <3>2, <3>3 DEF OwnVersion
  <2> QED
    BY <2>1, <2>2, <2>3 DEF RowsExact
<1>9. /\ versions' \in Seq(VersionRows) /\ \A k \in DOMAIN versions' : versions'[k].entry \in DOMAIN entries'
      /\ cache' = cache /\ DOMAIN entries \subseteq DOMAIN entries'
  BY <1>1, <1>2, <1>4 DEF SkillTypes
<1>10. interleaved' \in BOOLEAN
  BY <1>1, WriteBegins
<1> QED
  BY <1>1, <1>6, <1>7, <1>8, <1>9, <1>10, WriteMade

LEMMA SyncKeeps ==
  ASSUME SkillConstants, SkillInv, NEW w \in Callers, SR!SyncBuiltins(w)
  PROVE  SkillInv'
<1> DEFINE own == {i \in DOMAIN entries : entries[i].ws = SR!Global /\ entries[i].name \in Builtins}
           e(i) == SR!EntryOf(SR!BuiltinRequest(entries[i].name), "builtin")
           v(k) == [versions[k] EXCEPT !.current = (versions[k].version = SR!BuiltinVersion),
                                       !.content = IF versions[k].version = SR!BuiltinVersion
                                                   THEN SR!BuiltinContent ELSE versions[k].content]
<1>1. /\ SR!BeginWrite(w)
      /\ entries' = [i \in DOMAIN entries |-> IF i \in own THEN e(i) ELSE entries[i]]
      /\ versions' = [k \in DOMAIN versions |-> IF versions[k].entry \in own THEN v(k) ELSE versions[k]]
      /\ work' = [work EXCEPT ![w] = [at |-> "invalidate"]]
      /\ UNCHANGED <<categories, cache, catCache>>
  BY DEF SR!SyncBuiltins
<1>2. SkillTypes
  BY DEF SkillInv
<1>3. ASSUME NEW i \in own
      PROVE  /\ e(i) \in SR!Rows /\ SameSkill(e(i), entries[i])
             /\ e(i).version = SR!BuiltinVersion /\ e(i).content = SR!BuiltinContent
  BY DEF SkillConstants, SR!EntryOf, SR!BuiltinRequest, SR!Rows, SR!Statuses, SameSkill
<1>4. ASSUME NEW k \in DOMAIN versions
      PROVE  /\ v(k) \in VersionRows /\ v(k).entry = versions[k].entry /\ v(k).version = versions[k].version
             /\ v(k).current = (versions[k].version = SR!BuiltinVersion)
             /\ versions[k].version = SR!BuiltinVersion => v(k).content = SR!BuiltinContent
  <2>1. versions[k] \in VersionRows
    BY <1>2 DEF SkillTypes
  <2> QED
    BY <2>1 DEF VersionRows
<1>o. own = {i \in DOMAIN entries : Own(i)}
  BY DEF Own
<1> HIDE DEF own, e, v
<1>5. /\ DOMAIN entries' = DOMAIN entries /\ DOMAIN versions' = DOMAIN versions
      /\ \A i \in DOMAIN entries : entries'[i] = IF i \in own THEN e(i) ELSE entries[i]
      /\ \A k \in DOMAIN versions : versions'[k] = IF versions[k].entry \in own THEN v(k) ELSE versions[k]
  BY <1>1
<1>6. \A i \in DOMAIN entries : entries'[i] \in SR!Rows /\ SameSkill(entries'[i], entries[i])
  <2> SUFFICES ASSUME NEW i \in DOMAIN entries
               PROVE  entries'[i] \in SR!Rows /\ SameSkill(entries'[i], entries[i])
    OBVIOUS
  <2>1. entries[i] \in SR!Rows
    BY <1>2 DEF SkillTypes
  <2> QED
    BY <1>3, <1>5, <2>1 DEF SameSkill
<1>7. \A k \in DOMAIN versions : /\ versions'[k] \in VersionRows /\ versions'[k].entry = versions[k].entry
                                 /\ versions'[k].version = versions[k].version
  <2> SUFFICES ASSUME NEW k \in DOMAIN versions
               PROVE  /\ versions'[k] \in VersionRows /\ versions'[k].entry = versions[k].entry
                      /\ versions'[k].version = versions[k].version
    OBVIOUS
  <2>1. versions[k] \in VersionRows
    BY <1>2 DEF SkillTypes
  <2> QED
    BY <1>4, <1>5, <2>1
<1>8. entries' \in Seq(SR!Rows) /\ versions' \in Seq(VersionRows)
  <2>1. /\ DOMAIN entries = 1..Len(entries) /\ Len(entries) \in Nat
        /\ DOMAIN versions = 1..Len(versions) /\ Len(versions) \in Nat
    BY <1>2 DEF SkillTypes
  <2>2. entries' = [i \in DOMAIN entries |-> entries'[i]] /\ versions' = [k \in DOMAIN versions |-> versions'[k]]
    BY <1>1
  <2>3. entries' \in [1..Len(entries) -> SR!Rows]
    BY <1>6, <2>1, <2>2
  <2>4. versions' \in [1..Len(versions) -> VersionRows]
    BY <1>7, <2>1, <2>2
  <2> QED
    BY <2>1, <2>3, <2>4
<1>9. \A k \in DOMAIN versions' : versions'[k].entry \in DOMAIN entries'
  BY <1>2, <1>5, <1>7 DEF SkillTypes
<1>10. ASSUME ~interleaved' PROVE RowsExact' /\ \A u \in Callers \ {w} : work[u] = SR!Idle
  <2>1. RowsExact /\ \A u \in Callers \ {w} : work[u] = SR!Idle
    BY <1>1, <1>10, WriteBegins DEF SkillInv
  <2>2. SkillsApart' /\ OwnThere'
    BY <1>5, <1>6, <2>1 DEF RowsExact, SkillsApart, OwnThere, SameSkill
  <2>3. VersionsApart'
    BY <1>5, <1>7, <2>1 DEF RowsExact, VersionsApart
  <2>4. ASSUME NEW i \in DOMAIN entries' PROVE CurrentSays(i)'
    <3>0. i \in DOMAIN entries
      BY <1>5
    <3>1. CASE i \in own
      <4>1. PICK k \in DOMAIN versions : versions[k].entry = i /\ versions[k].version = SR!BuiltinVersion
        BY <1>o, <2>1, <3>1 DEF RowsExact, OwnVersion
      <4>2. /\ k \in DOMAIN versions' /\ versions'[k].entry = i /\ versions'[k].current
            /\ versions'[k].version = entries'[i].version /\ versions'[k].content = entries'[i].content
        <5>1. versions'[k] = v(k) /\ entries'[i] = e(i) /\ k \in DOMAIN versions'
          BY <1>5, <3>0, <3>1, <4>1
        <5>2. v(k).current = (versions[k].version = SR!BuiltinVersion)
          BY <1>4
        <5>3. v(k).current
          BY <4>1, <5>2
        <5>4. v(k).entry = i /\ v(k).version = SR!BuiltinVersion /\ v(k).content = SR!BuiltinContent
          BY <1>4, <4>1
        <5>5. e(i).version = SR!BuiltinVersion /\ e(i).content = SR!BuiltinContent
          BY <1>3, <3>1
        <5> QED
          BY <5>1, <5>3, <5>4, <5>5
      <4>3. ASSUME NEW m \in DOMAIN versions' \ {k}, versions'[m].entry = i PROVE ~versions'[m].current
        <5>1. m \in DOMAIN versions /\ versions[m].entry = i
          BY <1>5, <1>7, <4>3
        <5>2. versions[m].version # SR!BuiltinVersion
          BY <2>1, <4>1, <5>1 DEF RowsExact, VersionsApart
        <5>3. versions'[m] = v(m) /\ v(m).current = (versions[m].version = SR!BuiltinVersion)
          BY <1>4, <1>5, <3>1, <5>1
        <5> QED
          BY <5>2, <5>3
      <4> QED
        BY <4>2, <4>3 DEF CurrentSays
    <3>2. CASE i \notin own
      <4>1. PICK k \in DOMAIN versions :
              /\ versions[k].entry = i /\ versions[k].current
              /\ versions[k].version = entries[i].version /\ versions[k].content = entries[i].content
              /\ \A m \in DOMAIN versions \ {k} : versions[m].entry = i => ~versions[m].current
        BY <2>1, <3>0 DEF RowsExact, CurrentSays
      <4>2. entries'[i] = entries[i] /\ \A m \in DOMAIN versions : versions'[m].entry = i => versions'[m] = versions[m]
        BY <1>5, <1>7, <3>0, <3>2
      <4>3. versions'[k] = versions[k]
        BY <1>5, <3>2, <4>1
      <4> QED
        BY <1>5, <1>7, <4>1, <4>2, <4>3 DEF CurrentSays
    <3> QED
      BY <3>1, <3>2
  <2>5. ASSUME NEW i \in DOMAIN entries', Own(i)' PROVE OwnVersion(i)'
    <3>1. i \in DOMAIN entries /\ Own(i)
      BY <1>5, <1>6, <2>5 DEF Own, SameSkill
    <3> QED
      BY <1>5, <1>7, <2>1, <3>1 DEF RowsExact, OwnVersion
  <2> QED
    BY <2>1, <2>2, <2>3, <2>4, <2>5 DEF RowsExact
<1>11. interleaved' \in BOOLEAN
  BY <1>1, WriteBegins
<1>12. cache' = cache /\ DOMAIN entries \subseteq DOMAIN entries'
  BY <1>1, <1>5
<1> QED
  BY <1>1, <1>6, <1>8, <1>9, <1>10, <1>11, <1>12, WriteMade

(* Steps that change no row. *)
LEMMA RowsKeep ==
  ASSUME UNCHANGED <<entries, versions>>
  PROVE  RowsExact => RowsExact'
<1>1. entries' = entries /\ versions' = versions
  OBVIOUS
<1>2. \A i : (CurrentSays(i) => CurrentSays(i)') /\ (Own(i)' => Own(i)) /\ (OwnVersion(i) => OwnVersion(i)')
  BY <1>1 DEF CurrentSays, Own, OwnVersion
<1>3. SkillsApart /\ VersionsApart /\ OwnThere => (SkillsApart /\ VersionsApart /\ OwnThere)'
  BY <1>1 DEF SkillsApart, VersionsApart, OwnThere
<1> QED
  BY <1>1, <1>2, <1>3 DEF RowsExact

LEMMA ListsSame ==
  ASSUME entries' = entries, categories' = categories
  PROVE  \A key : SR!Manifest(key, categories)' = SR!Manifest(key, categories)
BY DEF SR!Manifest, SR!Serialized, SR!VisibleIn

LEMMA RegisterBegins ==
  ASSUME SkillConstants, SkillInv, NEW w \in Callers, NEW r \in Payloads, NEW source \in {"plugin", "builtin"},
         SR!BeginRegister(w, r, source)
  PROVE  SkillInv'
<1> DEFINE e == SR!EntryOf(r, source)
           t(i) == [at |-> "register", entry |-> i, wanted |-> e,
                    loaded |-> IF i = SR!NoRow THEN SR!None ELSE entries[i]]
<1>1. PICK i \in IF SR!Matching(r.name, r.ws) = {} THEN {SR!NoRow} ELSE SR!Matching(r.name, r.ws) :
        work' = [work EXCEPT ![w] = t(i)]
  BY DEF SR!BeginRegister
<1>2. UNCHANGED <<entries, versions, categories, cache, catCache>> /\ SR!BeginWrite(w)
  BY DEF SR!BeginRegister
<1>3. e \in SR!Rows /\ e.name = r.name /\ e.ws = r.ws
  BY DEF SkillConstants, SR!EntryOf, SR!Rows, SR!Statuses
<1>4. SkillTypes /\ DOMAIN entries \subseteq Nat \ {0} /\ \A j \in DOMAIN entries : entries[j] \in SR!Rows
  BY DEF SkillInv, SkillTypes
<1> HIDE DEF e
<1>5. /\ i \in Nat
      /\ i # SR!NoRow => i \in DOMAIN entries /\ SameSkill(entries[i], e)
      /\ i = SR!NoRow => \A j \in DOMAIN entries : ~ SameSkill(entries[j], e)
  <2>1. SR!Matching(r.name, r.ws) = {j \in DOMAIN entries : SameSkill(entries[j], e)}
    BY <1>3 DEF SR!Matching, SameSkill
  <2> QED
    BY <1>1, <1>4, <2>1 DEF SR!NoRow
<1>6. /\ t(i).at = "register" /\ t(i).entry = i /\ t(i).wanted = e
      /\ i # SR!NoRow => t(i).loaded = entries[i]
  OBVIOUS
<1> HIDE DEF t
<1>7. /\ DOMAIN work' = Callers /\ work' = [u \in Callers |-> work'[u]]
      /\ \A u \in Callers : work'[u] = IF u = w THEN t(i) ELSE work[u]
  BY <1>1, <1>4, StageMoves
<1>8. ASSUME NEW u \in Callers PROVE Stage(work'[u]) /\ LoadedRow(u)'
  <2>1. CASE u = w
    <3>1. Stage(t(i))
      BY <1>3, <1>5, <1>6 DEF Stage
    <3>2. i # SR!NoRow => /\ i \in DOMAIN entries' /\ t(i).loaded \in SR!Rows
                         /\ SameSkill(entries'[i], e) /\ SameSkill(t(i).loaded, e)
      BY <1>2, <1>4, <1>5, <1>6
    <3> QED
      BY <1>6, <1>7, <2>1, <3>1, <3>2 DEF LoadedRow
  <2>2. CASE u # w
    <3>1. work'[u] = work[u] /\ Stage(work[u]) /\ LoadedRow(u) /\ entries' = entries
      BY <1>2, <1>4, <1>7, <2>2 DEF SkillTypes
    <3> QED
      BY <3>1 DEF LoadedRow, SameSkill
  <2> QED
    BY <2>1, <2>2
<1>9. interleaved' \in BOOLEAN /\ (~interleaved' => ~interleaved /\ \A u \in Callers : work[u] = SR!Idle)
  BY <1>2, WriteBegins
<1>10. SkillTypes'
  BY <1>2, <1>4, <1>7, <1>8, <1>9 DEF SkillTypes
<1>11. ASSUME ~interleaved' PROVE WritersAlone' /\ LoadedIsNow' /\ RowsExact' /\ ListsExact'
  <2>1. RowsExact /\ \A u \in Callers : work'[u] = IF u = w THEN t(i) ELSE SR!Idle
    BY <1>7, <1>9, <1>11 DEF SkillInv
  <2>2. WritersAlone'
    BY <2>1 DEF WritersAlone, Writer, SR!Idle
  <2>3. LoadedIsNow'
    BY <1>2, <1>5, <1>6, <2>1 DEF LoadedIsNow, SameSkill, SR!Idle
  <2>4. RowsExact'
    BY <1>2, <2>1, RowsKeep
  <2>5. ListsExact'
    BY <1>6, <2>1 DEF ListsExact, Writer
  <2> QED
    BY <2>2, <2>3, <2>4, <2>5
<1> QED
  BY <1>10, <1>11 DEF SkillInv

(* Lists and caches: nobody else's stage is disturbed. *)
LEMMA ReaderMoves ==
  ASSUME SkillInv, NEW w \in Callers, NEW t, work' = [work EXCEPT ![w] = t], Stage(t), t.at # "register",
         UNCHANGED <<entries, versions, categories>>, DOMAIN cache' = Keys, cache' = [k \in Keys |-> cache'[k]],
         interleaved' \in BOOLEAN, ~interleaved' => ~interleaved /\ WritersAlone' /\ ListsExact'
  PROVE  SkillInv'
<1>1. SkillTypes
  BY DEF SkillInv
<1>2. /\ DOMAIN work' = Callers /\ work' = [u \in Callers |-> work'[u]]
      /\ \A u \in Callers : work'[u] = IF u = w THEN t ELSE work[u]
  BY <1>1, StageMoves
<1>3. ASSUME NEW u \in Callers PROVE Stage(work'[u]) /\ LoadedRow(u)'
  <2>1. CASE u = w
    BY <1>2, <2>1 DEF LoadedRow
  <2>2. CASE u # w
    <3>1. work'[u] = work[u] /\ Stage(work[u]) /\ LoadedRow(u) /\ entries' = entries
      BY <1>1, <1>2, <2>2 DEF SkillTypes
    <3> QED
      BY <3>1 DEF LoadedRow, SameSkill
  <2> QED
    BY <2>1, <2>2
<1>4. SkillTypes'
  BY <1>1, <1>2, <1>3 DEF SkillTypes
<1>5. ASSUME ~interleaved' PROVE LoadedIsNow' /\ RowsExact'
  <2>1. LoadedIsNow /\ RowsExact
    BY <1>5 DEF SkillInv
  <2>2. RowsExact'
    BY <2>1, RowsKeep
  <2>3. ASSUME NEW u \in Callers, work'[u].at = "register"
        PROVE  IF work'[u].entry = SR!NoRow THEN \A i \in DOMAIN entries' : ~ SameSkill(entries'[i], work'[u].wanted)
                                           ELSE work'[u].loaded = entries'[work'[u].entry]
    <3>1. u # w /\ work'[u] = work[u] /\ entries' = entries
      BY <1>2, <2>3
    <3> QED
      BY <2>1, <2>3, <3>1 DEF LoadedIsNow
  <2> QED
    BY <2>2, <2>3 DEF LoadedIsNow, SameSkill
<1> QED
  BY <1>4, <1>5 DEF SkillInv

LEMMA InvalidateKeeps ==
  ASSUME SkillInv, NEW w \in Callers, SR!Invalidate(w)
  PROVE  SkillInv'
<1>1. /\ work[w].at = "invalidate" /\ cache' = [k \in Keys |-> SR!None] /\ catCache' = SR!None
      /\ work' = [work EXCEPT ![w] = SR!Idle]
      /\ UNCHANGED <<entries, versions, categories, interleaved>>
  BY DEF SR!Invalidate, SR!Invalidated
<1>2. SkillTypes
  BY DEF SkillInv
<1>3. Stage(SR!Idle) /\ SR!Idle.at = "idle"
  BY DEF Stage, SR!Idle
<1>4. \A u \in Callers : work'[u] = IF u = w THEN SR!Idle ELSE work[u]
  BY <1>1, <1>2, StageMoves
<1>5. ASSUME ~interleaved' PROVE ~interleaved /\ WritersAlone' /\ ListsExact'
  <2>1. ~interleaved /\ WritersAlone
    BY <1>1, <1>5 DEF SkillInv
  <2>2. \A u \in Callers : work'[u] = SR!Idle
    BY <1>1, <1>4, <2>1 DEF WritersAlone, Writer
  <2>3. WritersAlone'
    BY <2>2 DEF WritersAlone
  <2>4. ListsExact'
    BY <1>1, <1>3, <2>2 DEF ListsExact, Exact
  <2> QED
    BY <2>1, <2>3, <2>4
<1>6. interleaved' \in BOOLEAN /\ DOMAIN cache' = Keys /\ cache' = [k \in Keys |-> cache'[k]]
  BY <1>1, <1>2 DEF SkillTypes
<1> QED
  BY <1>1, <1>3, <1>5, <1>6, ReaderMoves

(* While somebody lists, nobody writes, and what is cached is exact. *)
LEMMA NoWriter ==
  ASSUME SkillInv, NEW w \in Callers, ~interleaved,
         work[w].at \in {"entries", "store"} \/ \A v \in Callers : ~ Writer(v)
  PROVE  Exact /\ \A v \in Callers : ~ Writer(v)
<1>1. WritersAlone /\ ListsExact
  BY DEF SkillInv
<1>2. \A v \in Callers : ~ Writer(v)
  BY <1>1 DEF WritersAlone, Writer, SR!Idle
<1> QED
  BY <1>1, <1>2 DEF ListsExact

LEMMA ListBegins ==
  ASSUME SkillInv, NEW w \in Callers, NEW key \in Keys, SR!BeginList(w, key)
  PROVE  SkillInv'
<1> DEFINE t == [at |-> "entries", key |-> key,
                 cats |-> IF catCache = SR!None THEN categories ELSE catCache.cats]
<1>1. /\ work' = [work EXCEPT ![w] = t]
      /\ interleaved' = (interleaved \/ \E v \in Callers : Writer(v))
      /\ entries' = entries /\ versions' = versions /\ categories' = categories
      /\ cache' = cache /\ catCache' = catCache
  BY DEF SR!BeginList, SR!Writing, Writer
<1>2. SkillTypes
  BY DEF SkillInv
<1>3. /\ t.at = "entries" /\ t.key = key /\ Stage(t)
      /\ t.cats = IF catCache = SR!None THEN categories ELSE catCache.cats
  BY DEF Stage
<1> HIDE DEF t
<1>4. \A u \in Callers : work'[u] = IF u = w THEN t ELSE work[u]
  BY <1>1, <1>2, StageMoves
<1>5. ASSUME ~interleaved' PROVE ~interleaved /\ WritersAlone' /\ ListsExact'
  <2>1. ~interleaved /\ \A v \in Callers : ~ Writer(v)
    BY <1>1, <1>5
  <2>2. Exact
    BY <2>1, NoWriter
  <2>3. WritersAlone'
    BY <1>3, <1>4, <2>1 DEF WritersAlone, Writer
  <2>4. \A k : SR!Manifest(k, categories)' = SR!Manifest(k, categories)
    BY <1>1, ListsSame
  <2>5. t.cats = categories
    BY <1>3, <2>2 DEF Exact
  <2>6. ASSUME NEW u \in Callers
        PROVE  /\ work'[u].at = "entries" => work'[u].cats = categories'
               /\ \A k \in Keys : work'[u].at = "store" /\ work'[u].key = k
                                    => work'[u].list = SR!Manifest(k, categories)'
    <3>1. CASE u = w
      BY <1>1, <1>3, <1>4, <2>5, <3>1
    <3>2. CASE u # w
      BY <1>1, <1>4, <2>2, <2>4, <3>2 DEF Exact
    <3> QED
      BY <3>1, <3>2
  <2>7. ASSUME NEW k \in Keys, cache'[k] # SR!None PROVE cache'[k].list = SR!Manifest(k, categories)'
    BY <1>1, <2>2, <2>4, <2>7 DEF Exact
  <2>8. Exact'
    BY <1>1, <2>2, <2>6, <2>7 DEF Exact
  <2>9. ListsExact'
    BY <2>8 DEF ListsExact
  <2> QED
    BY <2>1, <2>3, <2>9
<1>6. interleaved' \in BOOLEAN /\ DOMAIN cache' = Keys /\ cache' = [k \in Keys |-> cache'[k]]
  BY <1>1, <1>2 DEF SkillTypes
<1> QED
  BY <1>1, <1>3, <1>5, <1>6, ReaderMoves

LEMMA EntriesRead ==
  ASSUME SkillInv, NEW w \in Callers, SR!ReadEntries(w)
  PROVE  SkillInv'
<1> DEFINE t == [at |-> "store", key |-> work[w].key, list |-> SR!Manifest(work[w].key, work[w].cats)]
<1>1. /\ work[w].at = "entries" /\ work' = [work EXCEPT ![w] = t]
      /\ catCache' = [kind |-> "cats", cats |-> work[w].cats]
      /\ entries' = entries /\ versions' = versions /\ categories' = categories
      /\ cache' = cache /\ interleaved' = interleaved
  BY DEF SR!ReadEntries
<1>2. SkillTypes /\ Stage(work[w])
  BY DEF SkillInv, SkillTypes
<1>3. /\ t.at = "store" /\ t.key = work[w].key /\ Stage(t)
      /\ t.list = SR!Manifest(work[w].key, work[w].cats)
  BY <1>1, <1>2 DEF Stage
<1> HIDE DEF t
<1>4. \A u \in Callers : work'[u] = IF u = w THEN t ELSE work[u]
  BY <1>1, <1>2, StageMoves
<1>5. ASSUME ~interleaved' PROVE ~interleaved /\ WritersAlone' /\ ListsExact'
  <2>1. ~interleaved /\ Exact /\ \A v \in Callers : ~ Writer(v)
    BY <1>1, <1>5, NoWriter
  <2>3. WritersAlone'
    BY <1>3, <1>4, <2>1 DEF WritersAlone, Writer
  <2>4. \A k : SR!Manifest(k, categories)' = SR!Manifest(k, categories)
    BY <1>1, ListsSame
  <2>5. work[w].cats = categories
    BY <1>1, <2>1 DEF Exact
  <2>6. t.list = SR!Manifest(t.key, categories) /\ catCache'.cats = categories
    BY <1>1, <1>3, <2>5
  <2>7. ASSUME NEW u \in Callers
        PROVE  /\ work'[u].at = "entries" => work'[u].cats = categories'
               /\ \A k \in Keys : work'[u].at = "store" /\ work'[u].key = k
                                    => work'[u].list = SR!Manifest(k, categories)'
    <3>1. CASE u = w
      BY <1>3, <1>4, <2>4, <2>6, <3>1
    <3>2. CASE u # w
      BY <1>1, <1>4, <2>1, <2>4, <3>2 DEF Exact
    <3> QED
      BY <3>1, <3>2
  <2>8. ASSUME NEW k \in Keys, cache'[k] # SR!None PROVE cache'[k].list = SR!Manifest(k, categories)'
    BY <1>1, <2>1, <2>4, <2>8 DEF Exact
  <2>9. Exact'
    BY <2>6, <1>1, <2>7, <2>8 DEF Exact
  <2>10. ListsExact'
    BY <2>9 DEF ListsExact
  <2> QED
    BY <2>1, <2>3, <2>10
<1>6. interleaved' \in BOOLEAN /\ DOMAIN cache' = Keys /\ cache' = [k \in Keys |-> cache'[k]]
  BY <1>1, <1>2 DEF SkillTypes
<1> QED
  BY <1>1, <1>3, <1>5, <1>6, ReaderMoves

LEMMA ListStored ==
  ASSUME SkillInv, NEW w \in Callers, SR!StoreList(w)
  PROVE  SkillInv'
<1> DEFINE key == work[w].key
           l == [kind |-> "list", list |-> work[w].list]
<1>1. /\ work[w].at = "store" /\ work' = [work EXCEPT ![w] = SR!Idle]
      /\ cache' = [cache EXCEPT ![key] = l]
      /\ entries' = entries /\ versions' = versions /\ categories' = categories
      /\ catCache' = catCache /\ interleaved' = interleaved
  BY DEF SR!StoreList, SR!CacheKey
<1>2. SkillTypes /\ Stage(work[w])
  BY DEF SkillInv, SkillTypes
<1>3. Stage(SR!Idle) /\ SR!Idle.at = "idle" /\ key \in Keys /\ l.list = work[w].list
  BY <1>1, <1>2 DEF Stage, SR!Idle
<1> HIDE DEF l, key
<1>4. /\ \A u \in Callers : work'[u] = IF u = w THEN SR!Idle ELSE work[u]
      /\ \A k \in Keys : cache'[k] = IF k = key THEN l ELSE cache[k]
      /\ DOMAIN cache' = Keys /\ cache' = [k \in Keys |-> cache'[k]]
  <2>1. \A u \in Callers : work'[u] = IF u = w THEN SR!Idle ELSE work[u]
    BY <1>1, <1>2, StageMoves
  <2>2. DOMAIN cache = Keys
    BY <1>2 DEF SkillTypes
  <2> QED
    BY <1>1, <2>1, <2>2
<1>5. ASSUME ~interleaved' PROVE ~interleaved /\ WritersAlone' /\ ListsExact'
  <2>1. ~interleaved /\ Exact /\ \A v \in Callers : ~ Writer(v)
    BY <1>1, <1>5, NoWriter
  <2>3. WritersAlone'
    BY <1>3, <1>4, <2>1 DEF WritersAlone, Writer
  <2>4. \A k : SR!Manifest(k, categories)' = SR!Manifest(k, categories)
    BY <1>1, ListsSame
  <2>5. l.list = SR!Manifest(key, categories)
    BY <1>1, <1>3, <2>1 DEF Exact, key
  <2>6. ASSUME NEW k \in Keys, cache'[k] # SR!None PROVE cache'[k].list = SR!Manifest(k, categories)'
    BY <1>4, <2>1, <2>4, <2>5, <2>6 DEF Exact
  <2>7. ASSUME NEW u \in Callers
        PROVE  /\ work'[u].at = "entries" => work'[u].cats = categories'
               /\ \A k \in Keys : work'[u].at = "store" /\ work'[u].key = k
                                    => work'[u].list = SR!Manifest(k, categories)'
    <3>1. CASE u = w
      BY <1>3, <1>4, <3>1
    <3>2. CASE u # w
      BY <1>1, <1>4, <2>1, <2>4, <3>2 DEF Exact
    <3> QED
      BY <3>1, <3>2
  <2>8. Exact'
    BY <1>1, <2>1, <2>6, <2>7 DEF Exact
  <2>9. ListsExact'
    BY <2>8 DEF ListsExact
  <2> QED
    BY <2>1, <2>3, <2>9
<1>6. interleaved' \in BOOLEAN
  BY <1>1, <1>2 DEF SkillTypes
<1> QED
  BY <1>1, <1>3, <1>4, <1>5, <1>6, ReaderMoves

(* A cached value goes, or nothing happens. *)
LEMMA CachesShrink ==
  ASSUME SkillInv, UNCHANGED <<entries, versions, categories, work, interleaved>>,
         catCache' \in {catCache, SR!None}, DOMAIN cache' = Keys, cache' = [k \in Keys |-> cache'[k]],
         \A k \in Keys : cache'[k] \in {cache[k], SR!None}
  PROVE  SkillInv'
<1>1. entries' = entries /\ versions' = versions /\ categories' = categories /\ work' = work
      /\ interleaved' = interleaved
  OBVIOUS
<1>2. SkillTypes'
  BY <1>1 DEF SkillInv, SkillTypes, LoadedRow, SameSkill
<1>3. ASSUME ~interleaved' PROVE WritersAlone' /\ LoadedIsNow' /\ RowsExact' /\ ListsExact'
  <2>1. WritersAlone /\ LoadedIsNow /\ RowsExact /\ ListsExact
    BY <1>1, <1>3 DEF SkillInv
  <2>2. WritersAlone' /\ LoadedIsNow'
    BY <1>1, <2>1 DEF WritersAlone, Writer, LoadedIsNow, SameSkill
  <2>3. RowsExact'
    BY <2>1, RowsKeep
  <2>4. \A k : SR!Manifest(k, categories)' = SR!Manifest(k, categories)
    BY <1>1, ListsSame
  <2>5. ASSUME Exact PROVE Exact'
    <3>1. ASSUME NEW u \in Callers, NEW k \in Keys, work'[u].at = "store", work'[u].key = k
          PROVE  work'[u].list = SR!Manifest(k, categories)'
      BY <1>1, <2>4, <2>5, <3>1 DEF Exact
    <3>2. ASSUME NEW k \in Keys, cache'[k] # SR!None PROVE cache'[k].list = SR!Manifest(k, categories)'
      BY <2>4, <2>5, <3>2 DEF Exact
    <3>3. catCache' # SR!None => catCache'.cats = categories'
      BY <1>1, <2>5 DEF Exact
    <3>4. \A u \in Callers : work'[u].at = "entries" => work'[u].cats = categories'
      BY <1>1, <2>5 DEF Exact
    <3> QED
      BY <3>1, <3>2, <3>3, <3>4 DEF Exact
  <2>6. (\A v \in Callers : ~ Writer(v)') => (\A v \in Callers : ~ Writer(v))
    BY <1>1 DEF Writer
  <2>7. ListsExact'
    BY <2>1, <2>5, <2>6 DEF ListsExact
  <2> QED
    BY <2>1, <2>2, <2>3, <2>7
<1> QED
  BY <1>2, <1>3 DEF SkillInv

LEMMA SkillStep ==
  ASSUME SkillConstants, SkillInv, [SR!Next]_(SR!vars)
  PROVE  SkillInv'
<1>1. DOMAIN cache = Keys /\ cache = [k \in Keys |-> cache[k]]
  BY DEF SkillInv, SkillTypes
<1>2. ASSUME NEW k \in Keys, SR!Expire(k) PROVE SkillInv'
  <2>1. cache' = [cache EXCEPT ![k] = SR!None] /\ UNCHANGED <<entries, versions, categories, work, interleaved>>
        /\ catCache' = catCache
    BY <1>2 DEF SR!Expire
  <2>2. DOMAIN cache' = Keys /\ cache' = [m \in Keys |-> cache'[m]]
        /\ \A m \in Keys : cache'[m] \in {cache[m], SR!None}
    BY <1>1, <2>1
  <2> QED
    BY <2>1, <2>2, CachesShrink
<1>3. ASSUME SR!ExpireCategories PROVE SkillInv'
  <2>1. catCache' = SR!None /\ UNCHANGED <<entries, versions, categories, work, interleaved>> /\ cache' = cache
    BY <1>3 DEF SR!ExpireCategories
  <2> QED
    BY <1>1, <2>1, CachesShrink
<1>4. CASE UNCHANGED SR!vars
  <2>1. catCache' = catCache /\ UNCHANGED <<entries, versions, categories, work, interleaved>> /\ cache' = cache
    BY <1>4 DEF SR!vars
  <2> QED
    BY <1>1, <2>1, CachesShrink
<1>5. ASSUME NEW w \in Callers, SR!CommitRegister(w) \/ SR!SyncBuiltins(w) \/ SR!Invalidate(w)
                                \/ SR!ReadEntries(w) \/ SR!StoreList(w)
      PROVE  SkillInv'
  BY <1>5, RegisterCommits, SyncKeeps, InvalidateKeeps, EntriesRead, ListStored
<1>6. ASSUME NEW w \in Callers, NEW key \in Keys, SR!BeginList(w, key) PROVE SkillInv'
  BY <1>6, ListBegins
<1>7. ASSUME NEW w \in Callers, NEW r \in Payloads, NEW source \in {"plugin", "builtin"},
             SR!BeginRegister(w, r, source)
      PROVE  SkillInv'
  BY <1>7, RegisterBegins
<1>8. ASSUME NEW w \in Callers, NEW i \in DOMAIN entries, NEW on \in BOOLEAN, NEW status \in Switches,
             SR!SetStatus(w, i, on, status)
      PROVE  SkillInv'
  BY <1>8, StatusKeeps
<1> QED
  BY <1>2, <1>3, <1>4, <1>5, <1>6, <1>7, <1>8 DEF SR!Next

LEMMA SkillSafe == SkillInv => SR!QuietRegistryExact
<1> SUFFICES ASSUME SkillInv, ~interleaved PROVE SR!QuietRegistryExact
  BY DEF SR!QuietRegistryExact
<1>1. RowsExact /\ ListsExact
  BY DEF SkillInv
<1>2. \A i, j \in DOMAIN entries :
        entries[i].name = entries[j].name /\ entries[i].ws = entries[j].ws => i = j
  BY <1>1 DEF RowsExact, SkillsApart, SameSkill
<1>3. \A i \in DOMAIN entries : CurrentSays(i)
  BY <1>1 DEF RowsExact
<1>4. (\A w \in Callers : work[w] = SR!Idle) =>
        \A k \in Keys : cache[k] # SR!None => cache[k].list = SR!Manifest(k, categories)
  BY <1>1 DEF ListsExact, Exact, Writer, SR!Idle
<1> QED
  BY <1>2, <1>3, <1>4 DEF SR!QuietRegistryExact, CurrentSays

-----------------------------------------------------------------------------
(* A write changes one row, or rows of the code's own skills. *)
LEMMA OneRowChanges ==
  ASSUME NEW ws, NEW i, DOMAIN entries' = DOMAIN entries \cup {i},
         \A j \in DOMAIN entries \ {i} : entries'[j] = entries[j],
         ~ SR!VisibleIn(entries'[i], ws),
         i \in DOMAIN entries => ~ SR!VisibleIn(entries[i], ws)
  PROVE  /\ \A n \in Names : SR!Runnable(ws, n)' = SR!Runnable(ws, n)
         /\ \A k \in Keys : k.ws = ws => SR!Manifest(k, Slugs)' = SR!Manifest(k, Slugs)
<1> DEFINE seen == {j \in DOMAIN entries : SR!VisibleIn(entries[j], ws)}
<1>1. /\ \A j \in seen : j \in DOMAIN entries' /\ entries'[j] = entries[j] /\ SR!VisibleIn(entries'[j], ws)
      /\ \A j \in DOMAIN entries' : SR!VisibleIn(entries'[j], ws) => j \in seen
  OBVIOUS
<1>2. ASSUME NEW n \in Names PROVE SR!Runnable(ws, n)' = SR!Runnable(ws, n)
  <2> DEFINE rows == {j \in DOMAIN entries :
                        /\ SR!VisibleIn(entries[j], ws) /\ entries[j].name = n
                        /\ entries[j].enabled /\ entries[j].status = "active"
                        /\ entries[j].source # "builtin" /\ SR!Loads(entries[j])}
  <2>1. SR!Runnable(ws, n) = IF rows # {} THEN {entries[j].content : j \in rows}
                            ELSE IF n \in Builtins THEN {SR!BuiltinContent} ELSE {}
    BY DEF SR!Runnable
  <2>2. SR!Runnable(ws, n)' = IF rows' # {} THEN {entries'[j].content : j \in rows'}
                             ELSE IF n \in Builtins THEN {SR!BuiltinContent} ELSE {}
    BY DEF SR!Runnable, SR!VisibleIn, SR!Loads
  <2>3. rows' = rows
    BY <1>1 DEF SR!VisibleIn, SR!Loads
  <2>4. rows \subseteq seen
    OBVIOUS
  <2> HIDE DEF rows, seen
  <2>5. {entries'[j].content : j \in rows} = {entries[j].content : j \in rows}
    BY <1>1, <2>4
  <2> QED
    BY <2>1, <2>2, <2>3, <2>5
<1>3. ASSUME NEW k \in Keys, k.ws = ws PROVE SR!Manifest(k, Slugs)' = SR!Manifest(k, Slugs)
  <2> DEFINE rows == {j \in DOMAIN entries :
                        /\ SR!VisibleIn(entries[j], k.ws)
                        /\ ~k.disabled => entries[j].enabled /\ entries[j].status \in {"active", "deprecated"}
                        /\ k.cat # SR!All => entries[j].cat = k.cat /\ entries[j].cat \in Slugs}
  <2>1. /\ SR!Manifest(k, Slugs) = {SR!Serialized(j, Slugs) : j \in rows}
        /\ SR!Manifest(k, Slugs)' = {SR!Serialized(j, Slugs)' : j \in rows'}
    BY DEF SR!Manifest, SR!Serialized, SR!VisibleIn
  <2>2. rows' = rows
    BY <1>1, <1>3 DEF SR!VisibleIn
  <2>3. rows \subseteq seen
    BY <1>3
  <2> HIDE DEF rows, seen
  <2>4. \A j \in rows : SR!Serialized(j, Slugs)' = SR!Serialized(j, Slugs)
    BY <1>1, <2>3 DEF SR!Serialized
  <2> QED
    BY <2>1, <2>2, <2>4
<1> QED
  BY <1>2, <1>3

LEMMA OthersStep ==
  ASSUME SkillConstants, SkillInv, [SR!Next]_(SR!vars)
  PROVE  SR!OthersUntouchedStep
<1> SUFFICES ASSUME NEW ws \in Spaces, NEW i \in DOMAIN entries',
                    i \in DOMAIN entries => entries'[i] # entries[i],
                    ~ SR!VisibleIn(entries'[i], ws)
             PROVE  /\ \A n \in Names : SR!Runnable(ws, n)' = SR!Runnable(ws, n)
                    /\ \A k \in Keys : k.ws = ws => SR!Manifest(k, Slugs)' = SR!Manifest(k, Slugs)
  BY DEF SR!OthersUntouchedStep, SR!VisibleIn
<1> USE DEF SameSkill
<1>1. CASE entries' = entries
  BY <1>1
<1>2. ASSUME NEW w \in Callers, SR!CommitRegister(w)
      PROVE  /\ \A n \in Names : SR!Runnable(ws, n)' = SR!Runnable(ws, n)
             /\ \A k \in Keys : k.ws = ws => SR!Manifest(k, Slugs)' = SR!Manifest(k, Slugs)
  <2>1. /\ DOMAIN entries' = DOMAIN entries \cup {Target(w)}
        /\ \A j \in DOMAIN entries \ {Target(w)} : entries'[j] = entries[j]
        /\ Target(w) \in DOMAIN entries => SameSkill(entries'[Target(w)], entries[Target(w)])
    BY <1>2, RowRegistered
  <2>2. i = Target(w)
    BY <2>1
  <2>3. i \in DOMAIN entries => ~ SR!VisibleIn(entries[i], ws)
    BY <2>1, <2>2 DEF SR!VisibleIn
  <2> QED
    BY <2>1, <2>2, <2>3, OneRowChanges
<1>3. ASSUME NEW w \in Callers, NEW m \in DOMAIN entries, NEW on \in BOOLEAN, NEW status \in Switches,
             SR!SetStatus(w, m, on, status)
      PROVE  /\ \A n \in Names : SR!Runnable(ws, n)' = SR!Runnable(ws, n)
             /\ \A k \in Keys : k.ws = ws => SR!Manifest(k, Slugs)' = SR!Manifest(k, Slugs)
  <2> DEFINE s == IF ~on /\ status = "active" THEN "disabled" ELSE status
  <2>1. entries' = [entries EXCEPT ![m].enabled = on, ![m].status = s]
    BY <1>3 DEF SR!SetStatus
  <2> HIDE DEF s
  <2>2. /\ DOMAIN entries' = DOMAIN entries
        /\ entries'[m] = [entries[m] EXCEPT !.enabled = on, !.status = s]
        /\ \A j \in DOMAIN entries \ {m} : entries'[j] = entries[j]
    BY <2>1
  <2>3. entries'[m].ws = entries[m].ws
    <3>1. entries[m] \in SR!Rows
      BY DEF SkillInv, SkillTypes
    <3> QED
      BY <2>2, <3>1 DEF SR!Rows
  <2>4. i = m
    BY <2>2
  <2>5. ~ SR!VisibleIn(entries[i], ws) /\ DOMAIN entries' = DOMAIN entries \cup {i}
    BY <2>2, <2>3, <2>4 DEF SR!VisibleIn
  <2> QED
    BY <2>2, <2>4, <2>5, OneRowChanges
<1>4. ASSUME NEW w \in Callers, SR!SyncBuiltins(w) PROVE FALSE
  <2> DEFINE own == {j \in DOMAIN entries : entries[j].ws = SR!Global /\ entries[j].name \in Builtins}
  <2>1. entries' = [j \in DOMAIN entries |->
                      IF j \in own THEN SR!EntryOf(SR!BuiltinRequest(entries[j].name), "builtin") ELSE entries[j]]
    BY <1>4 DEF SR!SyncBuiltins
  <2>2. i \in own /\ entries'[i] = SR!EntryOf(SR!BuiltinRequest(entries[i].name), "builtin")
    BY <2>1
  <2>3. entries'[i].ws = SR!Global
    BY <2>2 DEF SR!EntryOf, SR!BuiltinRequest
  <2> QED
    BY <2>3 DEF SR!VisibleIn
<1>5. ASSUME NEW w \in Callers,
             \/ \E r \in Payloads, source \in {"plugin", "builtin"} : SR!BeginRegister(w, r, source)
             \/ SR!Invalidate(w) \/ SR!ReadEntries(w) \/ SR!StoreList(w)
             \/ \E key \in Keys : SR!BeginList(w, key)
      PROVE  entries' = entries
  BY <1>5 DEF SR!BeginRegister, SR!Invalidate, SR!ReadEntries, SR!StoreList, SR!BeginList
<1>6. ASSUME (\E k \in Keys : SR!Expire(k)) \/ SR!ExpireCategories \/ UNCHANGED SR!vars
      PROVE  entries' = entries
  BY <1>6 DEF SR!Expire, SR!ExpireCategories, SR!vars
<1> QED
  BY <1>1, <1>2, <1>3, <1>4, <1>5, <1>6 DEF SR!Next

(* As long as no write overlaps another request, a skill has one row in its  *)
(* workspace and one current version, the one its row names and carries, and *)
(* once the caches are dropped every cached list is what the rows say, for   *)
(* any registrations, switches, synchronisations and lists (register_skill,  *)
(* set_skill_status, sync_builtin_registry_entries, list_manifest).          *)
THEOREM QuietRegistriesAreExact ==
  ASSUME SkillConstants
  PROVE  SR!Spec => []SR!QuietRegistryExact
<1>1. SkillInv /\ [SR!Next]_(SR!vars) => SkillInv'
  BY SkillStep
<1>2. SR!Init => SkillInv
  BY SkillInit
<1> QED  BY <1>1, <1>2, SkillSafe, PTL DEF SR!Spec

(* However registrations overlap, none changes what a call runs in another   *)
(* workspace, nor what a list there is made of: a registration that loaded a *)
(* row writes that row, whose name and workspace never change.               *)
THEOREM OtherWorkspacesUntouched ==
  ASSUME SkillConstants
  PROVE  SR!Spec => SR!OthersUntouched
<1>1. SkillInv /\ [SR!Next]_(SR!vars) => SkillInv'
  BY SkillStep
<1>2. SR!Init => SkillInv
  BY SkillInit
<1>3. SkillInv /\ [SR!Next]_(SR!vars) => [SR!OthersUntouchedStep]_(SR!vars)
  BY OthersStep
<1> QED  BY <1>1, <1>2, <1>3, PTL DEF SR!Spec, SR!OthersUntouched

RowsOnly(list) == \A m \in list : m.row \in SR!Rows
SkillLists ==
    /\ categories \subseteq Slugs \cup {SR!BuiltinSlug}
    /\ \A k \in Keys : cache[k] = SR!None \/ RowsOnly(cache[k].list)
    /\ \A w \in Callers : work[w].at = "store" => RowsOnly(work[w].list)

LEMMA SkillListsInit == SR!Init => SkillLists
BY DEF SR!Init, SkillLists, SR!Idle

LEMMA SkillListsStep ==
  ASSUME SkillConstants, SkillInv, SkillLists, [SR!Next]_(SR!vars)
  PROVE  SkillLists'
<1>1. /\ DOMAIN cache = Keys /\ cache = [k \in Keys |-> cache[k]]
      /\ DOMAIN work = Callers /\ work = [w \in Callers |-> work[w]]
      /\ \A i \in DOMAIN entries : entries[i] \in SR!Rows
  BY DEF SkillInv, SkillTypes
<1>2. ASSUME NEW w \in Callers, NEW t, work' = [work EXCEPT ![w] = t], t.at = "store" => RowsOnly(t.list)
      PROVE  \A v \in Callers : work'[v].at = "store" => RowsOnly(work'[v].list)
  BY <1>1, <1>2 DEF SkillLists
<1>3. ASSUME NEW w \in Callers, NEW r \in Payloads, NEW source \in {"plugin", "builtin"},
             SR!BeginRegister(w, r, source)
      PROVE  SkillLists'
  BY <1>2, <1>3 DEF SR!BeginRegister, SkillLists
<1>4. ASSUME NEW w \in Callers, SR!CommitRegister(w) PROVE SkillLists'
  <2>1. work[w].wanted \in SR!Rows
    BY <1>4 DEF SR!CommitRegister, SkillInv, SkillTypes, Stage
  <2>2. work[w].wanted.cat \in Slugs \cup {SR!BuiltinSlug}
    BY <2>1 DEF SR!Rows
  <2> QED
    BY <1>2, <1>4, <2>2 DEF SR!CommitRegister, SkillLists
<1>5. ASSUME NEW w \in Callers,
             SR!SyncBuiltins(w) \/ \E i \in DOMAIN entries, on \in BOOLEAN, s \in Switches : SR!SetStatus(w, i, on, s)
      PROVE  SkillLists'
  BY <1>2, <1>5 DEF SR!SyncBuiltins, SR!SetStatus, SkillLists
<1>6. ASSUME NEW w \in Callers, SR!Invalidate(w) PROVE SkillLists'
  BY <1>2, <1>6 DEF SR!Invalidate, SR!Invalidated, SR!Idle, SkillLists
<1>7. ASSUME NEW w \in Callers, NEW key \in Keys, SR!BeginList(w, key) PROVE SkillLists'
  BY <1>2, <1>7 DEF SR!BeginList, SkillLists
<1>8. ASSUME NEW w \in Callers, SR!ReadEntries(w) PROVE SkillLists'
  <2> DEFINE t == [at |-> "store", key |-> work[w].key, list |-> SR!Manifest(work[w].key, work[w].cats)]
  <2>1. RowsOnly(SR!Manifest(work[w].key, work[w].cats))
    BY <1>1 DEF SR!Manifest, SR!Serialized, RowsOnly
  <2>2. t.at = "store" => RowsOnly(t.list)
    BY <2>1
  <2>3. work' = [work EXCEPT ![w] = t] /\ categories' = categories /\ cache' = cache
    BY <1>8 DEF SR!ReadEntries
  <2> HIDE DEF t
  <2> QED
    BY <1>2, <2>2, <2>3 DEF SkillLists
<1>9. ASSUME NEW w \in Callers, SR!StoreList(w) PROVE SkillLists'
  <2>1. /\ work' = [work EXCEPT ![w] = SR!Idle] /\ categories' = categories
        /\ cache' = [cache EXCEPT ![work[w].key] = [kind |-> "list", list |-> work[w].list]]
    BY <1>9 DEF SR!StoreList, SR!CacheKey
  <2>2. RowsOnly(work[w].list)
    BY <1>9 DEF SR!StoreList, SkillLists
  <2>3. \A k \in Keys : cache'[k] = SR!None \/ RowsOnly(cache'[k].list)
    BY <1>1, <2>1, <2>2 DEF SkillLists
  <2> QED
    BY <1>2, <2>1, <2>3 DEF SkillLists, SR!Idle
<1>10. ASSUME (\E k \in Keys : SR!Expire(k)) \/ SR!ExpireCategories PROVE SkillLists'
  BY <1>1, <1>10 DEF SR!Expire, SR!ExpireCategories, SkillLists
<1>11. CASE UNCHANGED SR!vars
  BY <1>11 DEF SR!vars, SkillLists
<1> QED
  BY <1>3, <1>4, <1>5, <1>6, <1>7, <1>8, <1>9, <1>10, <1>11 DEF SR!Next

LEMMA SkillsTyped ==
  ASSUME SkillInv, SkillLists
  PROVE  SR!TypeOKSkills
BY DEF SkillInv, SkillTypes, SkillLists, RowsOnly, SR!TypeOKSkills

-----------------------------------------------------------------------------
(* TableDesign, for any fields, requests and edits.                          *)
(*                                                                           *)
(* The argument: without overlaps one edit is in progress at most, so that   *)
(* what it was validated against is still there when it commits.             *)

FieldConstants ==
    /\ IsFiniteSet(FieldIds) /\ MaxEdits \in Nat
    /\ Absent \notin Definitions /\ Absent \notin {"ok", "#REF", "#CYCLE"}

Schemas == [FieldIds -> Definitions \cup {Absent}]
EditsInProgress ==
    {NoEdit} \cup [op : {"add", "update"}, id : FieldIds, def : Definitions]
             \cup [op : {"delete"}, id : FieldIds] \cup [op : {"policy"}, policy : Policies]
             \cup [op : {"cell"}, ids : SUBSET FieldIds]

DesignTypes ==
    /\ field \in Schemas
    /\ policy \in Policies
    /\ cells \in [FieldIds -> {"none", "raw", "member"}]
    /\ edit \in [Designers -> EditsInProgress]
    /\ overlapped \in BOOLEAN
    /\ edits \in 0..MaxEdits

IsMember(f) == Exists(field, f) /\ field[f].type = "member"
PolicyThere == policy.mode = "member_field" => IsMember(policy.field)
CellsThere == \A f \in FieldIds : cells[f] # "none" =>
                 Exists(field, f) /\ (field[f].type = "member" => cells[f] = "member")

(* What the edit e was accepted for still holds. *)
StillAccepted(e) ==
    /\ e.op = "add" => ~Exists(field, e.id) /\ ValidSchema([field EXCEPT ![e.id] = e.def])
    /\ e.op = "update" => /\ Exists(field, e.id) /\ PolicyAllows(e.id, FALSE, e.def.type)
                          /\ ValidSchema([field EXCEPT ![e.id] = e.def])
    /\ e.op = "delete" => PolicyAllows(e.id, TRUE, Absent) /\ FormulaDependents(field, e.id) = {}
    /\ e.op = "policy" => (e.policy.mode = "member_field" => IsMember(e.policy.field))
    /\ e.op = "cell" => \A f \in e.ids : Exists(field, f) /\ ~IsFormula(field, f)

DesignInTurn ==
    /\ \A c, d \in Designers : edit[c] # NoEdit /\ edit[d] # NoEdit => c = d
    /\ ValidSchema(field) /\ PolicyThere /\ CellsThere
    /\ \A d \in Designers : StillAccepted(edit[d])

DesignInv == DesignTypes /\ (~overlapped => DesignInTurn)

-----------------------------------------------------------------------------
(* Fields and what they refer to. *)

LEMMA DefinitionShape ==
  ASSUME NEW def \in Definitions
  PROVE  /\ def.type \in {"text", "member", "formula"}
         /\ def.refs \in Seq(FieldIds)
<1>1. Refs \subseteq Seq(FieldIds)
  <2>1. <<>> \in Seq(FieldIds) /\ \A f \in FieldIds : <<f>> \in Seq(FieldIds)
    OBVIOUS
  <2>2. \A f, g \in FieldIds : <<f, g>> \in Seq(FieldIds)
    OBVIOUS
  <2> QED
    BY <2>1, <2>2 DEF Refs
<1>2. def = Plain("text") \/ def = Plain("member")
        \/ \E r \in Refs : def = [type |-> "formula", refs |-> r]
  BY DEF Definitions
<1>3. <<>> \in Seq(FieldIds)
  OBVIOUS
<1>4. CASE def = Plain("text") \/ def = Plain("member")
  <2>1. def.type \in {"text", "member"} /\ def.refs = <<>>
    BY <1>4 DEF Plain
  <2> QED
    BY <1>3, <2>1
<1>5. CASE \E r \in Refs : def = [type |-> "formula", refs |-> r]
  BY <1>1, <1>5
<1> QED
  BY <1>2, <1>4, <1>5

LEMMA RefsAreFields ==
  ASSUME NEW fs \in Schemas, NEW f \in FieldIds, Exists(fs, f)
  PROVE  RefsOf(fs, f) \subseteq FieldIds /\ fs[f] \in Definitions /\ fs[f].refs \in Seq(FieldIds)
<1>1. fs[f] \in Definitions
  BY DEF Schemas, Exists
<1>2. fs[f].refs \in Seq(FieldIds)
  BY <1>1, DefinitionShape
<1> QED
  BY <1>1, <1>2 DEF RefsOf

LEMMA DependenciesAreFormulas ==
  ASSUME NEW fs \in Schemas, NEW f \in FieldIds, Exists(fs, f)
  PROVE  Dependencies(fs, f) \subseteq Formulas(fs)
BY RefsAreFields DEF Dependencies, Formulas

LEMMA FormulaExists ==
  ASSUME NEW fs, NEW f \in Formulas(fs)
  PROVE  f \in FieldIds /\ Exists(fs, f) /\ IsFormula(fs, f)
BY DEF Formulas, IsFormula

(* What a formula depends on is a closed set, and the least one. *)
LEMMA ReachesIsClosed ==
  ASSUME NEW fs \in Schemas, NEW f \in Formulas(fs)
  PROVE  /\ Reaches(fs, f) \subseteq Formulas(fs)
         /\ Dependencies(fs, f) \subseteq Reaches(fs, f)
         /\ \A h \in Reaches(fs, f) : Dependencies(fs, h) \subseteq Reaches(fs, f)
<1>1. Reaches(fs, f) \subseteq Formulas(fs)
  BY DEF Reaches
<1>2. \A h \in Formulas(fs) : Dependencies(fs, h) \subseteq Formulas(fs)
  BY FormulaExists, DependenciesAreFormulas
<1>3. Dependencies(fs, f) \subseteq Reaches(fs, f)
  BY <1>2 DEF Reaches
<1>4. ASSUME NEW h \in Reaches(fs, f), NEW g \in Dependencies(fs, h)
      PROVE  g \in Reaches(fs, f)
  <2>1. g \in Formulas(fs)
    BY <1>1, <1>2, <1>4
  <2> QED
    BY <1>4, <2>1 DEF Reaches
<1> QED
  BY <1>1, <1>3, <1>4

LEMMA ReachesIsLeast ==
  ASSUME NEW fs, NEW f, NEW S, S \subseteq Formulas(fs),
         Dependencies(fs, f) \subseteq S, \A h \in S : Dependencies(fs, h) \subseteq S
  PROVE  Reaches(fs, f) \subseteq S
BY DEF Reaches

LEMMA ReachesIsTransitive ==
  ASSUME NEW fs \in Schemas, NEW f \in Formulas(fs), NEW g \in Reaches(fs, f)
  PROVE  Reaches(fs, g) \subseteq Reaches(fs, f)
BY ReachesIsClosed, ReachesIsLeast

(* What is reached is reached through a dependency. *)
LEMMA ReachesByOneStep ==
  ASSUME NEW fs \in Schemas, NEW f \in Formulas(fs), NEW g \in Reaches(fs, f)
  PROVE  \E h \in Dependencies(fs, f) : g = h \/ g \in Reaches(fs, h)
<1> DEFINE S == {x \in Formulas(fs) : \E h \in Dependencies(fs, f) : x = h \/ x \in Reaches(fs, h)}
<1>1. Dependencies(fs, f) \subseteq Formulas(fs)
  BY ReachesIsClosed
<1>2. ASSUME NEW x \in S PROVE Dependencies(fs, x) \subseteq S
  <2>1. PICK h \in Dependencies(fs, f) : x = h \/ x \in Reaches(fs, h)
    OBVIOUS
  <2>2. h \in Formulas(fs) /\ x \in Formulas(fs)
    BY <1>1
  <2>3. Dependencies(fs, x) \subseteq Reaches(fs, h)
    BY <2>1, <2>2, ReachesIsClosed
  <2>4. Dependencies(fs, x) \subseteq Formulas(fs)
    BY <2>2, ReachesIsClosed
  <2> QED
    BY <2>3, <2>4
<1>3. Reaches(fs, f) \subseteq S
  <2>1. S \subseteq Formulas(fs) /\ Dependencies(fs, f) \subseteq S
    BY <1>1
  <2> HIDE DEF S
  <2> QED
    BY <1>2, <2>1, ReachesIsLeast
<1> QED
  BY <1>3

(* Fewer dependencies reach less. *)
LEMMA LessReachesLess ==
  ASSUME NEW fs \in Schemas, NEW gs \in Schemas, Formulas(gs) \subseteq Formulas(fs),
         \A h \in Formulas(gs) : Dependencies(gs, h) \subseteq Dependencies(fs, h),
         NEW f \in Formulas(gs)
  PROVE  Reaches(gs, f) \subseteq Reaches(fs, f)
<1> DEFINE S == Reaches(fs, f) \cap Formulas(gs)
<1>1. f \in Formulas(fs)
  OBVIOUS
<1>2. \A h \in Formulas(gs) : Dependencies(gs, h) \subseteq Formulas(gs)
  BY ReachesIsClosed
<1>3. Dependencies(gs, f) \subseteq S
  BY <1>1, <1>2, ReachesIsClosed
<1>4. ASSUME NEW h \in S PROVE Dependencies(gs, h) \subseteq S
  BY <1>1, <1>2, ReachesIsClosed
<1> HIDE DEF S
<1>5. Reaches(gs, f) \subseteq S
  BY <1>3, <1>4, ReachesIsLeast DEF S
<1> QED
  BY <1>5 DEF S

(* In a valid schema no formula shows an error. *)
LEMMA ValidIsUnbroken ==
  ASSUME field \in Schemas, ValidSchema(field), NEW f \in Formulas(field)
  PROVE  ~BrokenFormula(f)
<1>1. Reaches(field, f) \cup {f} \subseteq Formulas(field)
  BY ReachesIsClosed
<1>2. ASSUME NEW g \in Formulas(field)
      PROVE  g \notin Reaches(field, g) /\ \A r \in RefsOf(field, g) : Exists(field, r)
  BY FormulaExists DEF ValidSchema
<1> QED
  BY <1>1, <1>2 DEF BrokenFormula

(* A schema stays valid without a field that no formula refers to. *)
LEMMA ValidWithout ==
  ASSUME field \in Schemas, ValidSchema(field), NEW f \in FieldIds,
         FormulaDependents(field, f) = {}
  PROVE  ValidSchema([field EXCEPT ![f] = Absent])
<1> DEFINE gs == [field EXCEPT ![f] = Absent]
<1>1. gs \in Schemas /\ \A g \in FieldIds : gs[g] = IF g = f THEN Absent ELSE field[g]
  BY DEF Schemas
<1> HIDE DEF gs
<1>2. ASSUME NEW g \in FieldIds
      PROVE  /\ Exists(gs, g) <=> g # f /\ Exists(field, g)
             /\ IsFormula(gs, g) <=> g # f /\ IsFormula(field, g)
             /\ g # f => RefsOf(gs, g) = RefsOf(field, g)
  BY <1>1 DEF Exists, IsFormula, RefsOf
<1>3. Formulas(gs) \subseteq Formulas(field)
  BY <1>2 DEF Formulas
<1>4. ASSUME NEW g \in Formulas(gs) PROVE Dependencies(gs, g) \subseteq Dependencies(field, g)
  <2>1. g \in FieldIds /\ g # f /\ Exists(gs, g) /\ Exists(field, g)
    BY <1>2, FormulaExists
  <2>2. RefsOf(gs, g) = RefsOf(field, g) /\ RefsOf(gs, g) \subseteq FieldIds
    BY <1>1, <1>2, <2>1, RefsAreFields
  <2> QED
    BY <1>2, <2>2 DEF Dependencies
<1>5. ASSUME NEW g \in FieldIds, IsFormula(gs, g)
      PROVE  (\A r \in RefsOf(gs, g) : Exists(gs, r)) /\ g \notin Reaches(gs, g)
  <2>1. g # f /\ IsFormula(field, g) /\ RefsOf(gs, g) = RefsOf(field, g)
    BY <1>2, <1>5
  <2>2. RefsOf(field, g) \subseteq FieldIds /\ f \notin RefsOf(field, g)
    BY <2>1, RefsAreFields DEF FormulaDependents, IsFormula
  <2>3. g \in Formulas(gs) /\ Reaches(gs, g) \subseteq Reaches(field, g)
    BY <1>1, <1>3, <1>4, <1>5, LessReachesLess DEF Formulas
  <2>4. \A r \in RefsOf(field, g) : Exists(field, r)
    BY <2>1 DEF ValidSchema
  <2>5. g \notin Reaches(field, g)
    BY <2>1 DEF ValidSchema
  <2> QED
    BY <1>2, <2>1, <2>2, <2>3, <2>4, <2>5
<1> QED
  BY <1>5 DEF ValidSchema, gs

-----------------------------------------------------------------------------
(* The edits of a design. *)

LEMMA DesignInit ==
  ASSUME FieldConstants, InitDesign
  PROVE  DesignInv
<1>1. \A f \in FieldIds : ~Exists(field, f)
  BY DEF InitDesign, Exists
<1>2. ValidSchema(field)
  BY <1>1 DEF ValidSchema, IsFormula
<1>3. DesignInTurn
  BY <1>1, <1>2 DEF DesignInTurn, PolicyThere, CellsThere, StillAccepted, InitDesign, NoEdit, AllRows
<1>4. DesignTypes
  <2>1. field \in Schemas /\ cells \in [FieldIds -> {"none", "raw", "member"}]
    BY DEF InitDesign, Schemas
  <2>2. policy \in Policies /\ edit \in [Designers -> EditsInProgress]
    BY DEF InitDesign, Policies, EditsInProgress
  <2>3. edits \in 0..MaxEdits
    BY DEF InitDesign, FieldConstants
  <2>4. overlapped \in BOOLEAN
    BY DEF InitDesign
  <2> QED
    BY <2>1, <2>2, <2>3, <2>4 DEF DesignTypes
<1> QED
  BY <1>3, <1>4 DEF DesignInv

(* An edit is accepted: what it was checked against is there. *)
LEMMA EditBegins ==
  ASSUME FieldConstants, DesignInv, NEW d \in Designers, NEW e \in EditsInProgress, Begin(d, e),
         StillAccepted(e)
  PROVE  DesignInv'
<1>1. /\ edit[d] = NoEdit /\ edit' = [edit EXCEPT ![d] = e] /\ edits < MaxEdits /\ edits' = edits + 1
      /\ overlapped' = (overlapped \/ \E other \in Designers : edit[other] # NoEdit)
      /\ UNCHANGED <<field, policy, cells>>
  BY DEF Begin
<1>2. DesignTypes'
  BY <1>1 DEF DesignInv, DesignTypes, FieldConstants
<1>3. ASSUME ~overlapped' PROVE DesignInTurn'
  <2>1. DesignInTurn /\ \A c \in Designers : edit[c] = NoEdit
    BY <1>1, <1>3 DEF DesignInv
  <2>2. \A c \in Designers : edit'[c] = IF c = d THEN e ELSE NoEdit
    BY <1>1, <2>1 DEF DesignInv, DesignTypes
  <2>3. (ValidSchema(field) /\ PolicyThere /\ CellsThere)'
    BY <1>1, <2>1 DEF DesignInTurn, ValidSchema, Exists, IsFormula, RefsOf, Reaches, Dependencies, Formulas,
       PolicyThere, IsMember, CellsThere
  <2>4. ASSUME NEW c \in Designers PROVE StillAccepted(edit[c])'
    BY <1>1, <2>2 DEF StillAccepted, PolicyAllows, ValidSchema, Exists, IsFormula, RefsOf, Reaches,
       Dependencies, Formulas, FormulaDependents, IsMember, NoEdit
  <2> QED
    BY <2>2, <2>3, <2>4 DEF DesignInTurn
<1> QED
  BY <1>2, <1>3 DEF DesignInv

(* An edit ends: nothing is in progress, and what it leaves is in order. *)
LEMMA EditEnds ==
  ASSUME DesignInv, NEW d \in Designers, edit[d] # NoEdit, Finish(d),
         field' \in Schemas, policy' \in Policies, cells' \in [FieldIds -> {"none", "raw", "member"}],
         DesignInTurn => (ValidSchema(field) /\ PolicyThere /\ CellsThere)'
  PROVE  DesignInv'
<1>1. edit' = [edit EXCEPT ![d] = NoEdit] /\ UNCHANGED <<overlapped, edits>>
  BY DEF Finish
<1>2. DesignTypes'
  BY <1>1 DEF DesignInv, DesignTypes, EditsInProgress
<1>3. ASSUME ~overlapped' PROVE DesignInTurn'
  <2>1. DesignInTurn
    BY <1>1, <1>3 DEF DesignInv
  <2>2. \A c \in Designers : edit'[c] = NoEdit
    BY <1>1, <2>1 DEF DesignInv, DesignTypes, DesignInTurn
  <2>3. ASSUME NEW c \in Designers PROVE StillAccepted(edit[c])'
    <3>1. edit'[c].op = "none"
      BY <2>2 DEF NoEdit
    <3> QED
      BY <3>1 DEF StillAccepted
  <2> QED
    BY <2>1, <2>2, <2>3 DEF DesignInTurn
<1> QED
  BY <1>2, <1>3 DEF DesignInv

LEMMA EditShape ==
  ASSUME DesignTypes, NEW d \in Designers
  PROVE  LET e == edit[d] IN
         /\ e.op = "none" => e = NoEdit
         /\ e.op \in {"add", "update"} => e.id \in FieldIds /\ e.def \in Definitions
         /\ e.op = "delete" => e.id \in FieldIds
         /\ e.op = "policy" => e.policy \in Policies
         /\ e.op = "cell" => e.ids \subseteq FieldIds
         /\ e.op \in {"none", "add", "update", "delete", "policy", "cell"}
         /\ e.op # "none" => e # NoEdit
BY DEF DesignTypes, EditsInProgress, NoEdit

LEMMA AddKeeps ==
  ASSUME FieldConstants, DesignInv, NEW d \in Designers, CommitAdd(d)
  PROVE  DesignInv'
<1> DEFINE e == edit[d]
<1>1. /\ e.op = "add" /\ e.id \in FieldIds /\ e.def \in Definitions /\ e # NoEdit
      /\ field' = IF Exists(field, e.id) THEN field ELSE [field EXCEPT ![e.id] = e.def]
      /\ Finish(d) /\ policy' = policy /\ cells' = cells
  BY EditShape DEF CommitAdd, DesignInv
<1> HIDE DEF e
<1>2. field' \in Schemas
  BY <1>1 DEF DesignInv, DesignTypes, Schemas
<1>3. ASSUME DesignInTurn PROVE (ValidSchema(field) /\ PolicyThere /\ CellsThere)'
  <2>1. StillAccepted(e)
    BY <1>3 DEF DesignInTurn, e
  <2>2. ~Exists(field, e.id) /\ field' = [field EXCEPT ![e.id] = e.def] /\ ValidSchema(field')
    BY <1>1, <2>1 DEF StillAccepted
  <2>3. \A f \in FieldIds : Exists(field, f) => field'[f] = field[f] /\ Exists(field', f)
    BY <2>2 DEF DesignInv, DesignTypes, Schemas, Exists
  <2>4. policy.mode = "member_field" => policy.field \in FieldIds
    BY DEF DesignInv, DesignTypes, Policies, AllRows
  <2>5. PolicyThere'
    BY <1>1, <1>3, <2>3, <2>4 DEF DesignInTurn, PolicyThere, IsMember
  <2>6. CellsThere'
    BY <1>1, <1>3, <2>3 DEF DesignInTurn, CellsThere
  <2> QED
    BY <2>2, <2>5, <2>6 DEF ValidSchema, Exists, IsFormula, RefsOf, Reaches, Dependencies, Formulas
<1>4. policy' \in Policies /\ cells' \in [FieldIds -> {"none", "raw", "member"}]
  BY <1>1 DEF DesignInv, DesignTypes
<1> QED
  BY <1>1, <1>2, <1>3, <1>4, EditEnds DEF e

LEMMA UpdateKeeps ==
  ASSUME FieldConstants, DesignInv, NEW d \in Designers, CommitUpdate(d)
  PROVE  DesignInv'
<1> DEFINE e == edit[d]  f == e.id  def == e.def
<1>1. /\ e.op = "update" /\ f \in FieldIds /\ def \in Definitions /\ e # NoEdit
      /\ Finish(d) /\ policy' = policy
  BY EditShape DEF CommitUpdate, DesignInv
<1>2. \/ UNCHANGED <<field, cells>>
      \/ /\ Exists(field, f) /\ MemberChangeSafe(f, def)
         /\ field' = [field EXCEPT ![f] = def]
         /\ cells' = IF def.type # "member" /\ cells[f] = "member"
                     THEN [cells EXCEPT ![f] = "raw"] ELSE cells
  BY DEF CommitUpdate
<1>3. StillAccepted(e) \/ ~DesignInTurn
  BY DEF DesignInTurn
<1> HIDE DEF e, f, def
<1>4. policy' \in Policies /\ cells' \in [FieldIds -> {"none", "raw", "member"}] /\ field' \in Schemas
  BY <1>1, <1>2 DEF DesignInv, DesignTypes, Schemas
<1>5. ASSUME DesignInTurn PROVE (ValidSchema(field) /\ PolicyThere /\ CellsThere)'
  <2>1. CASE UNCHANGED <<field, cells>>
    BY <1>1, <1>5, <2>1 DEF DesignInTurn, ValidSchema, Exists, IsFormula, RefsOf, Reaches, Dependencies,
       Formulas, PolicyThere, IsMember, CellsThere
  <2>2. CASE /\ Exists(field, f) /\ MemberChangeSafe(f, def)
             /\ field' = [field EXCEPT ![f] = def]
             /\ cells' = IF def.type # "member" /\ cells[f] = "member"
                         THEN [cells EXCEPT ![f] = "raw"] ELSE cells
    <3>1. PolicyAllows(f, FALSE, def.type) /\ ValidSchema(field')
      BY <1>1, <1>3, <1>5, <2>2 DEF StillAccepted, f, def
    <3>2. /\ field'[f] = def /\ \A g \in FieldIds \ {f} : field'[g] = field[g] /\ cells'[g] = cells[g]
          /\ Exists(field', f) /\ \A g \in FieldIds \ {f} : Exists(field', g) <=> Exists(field, g)
      BY <1>1, <2>2 DEF DesignInv, DesignTypes, Schemas, Exists, FieldConstants
    <3>3. policy.mode = "member_field" => policy.field \in FieldIds /\ (policy.field = f => def.type = "member")
      BY <3>1 DEF DesignInv, DesignTypes, Policies, AllRows, PolicyAllows
    <3>4. PolicyThere'
      BY <1>1, <1>5, <3>2, <3>3 DEF DesignInTurn, PolicyThere, IsMember
    <3>5. cells'[f] # "none" /\ field'[f].type = "member" => cells'[f] = "member"
      BY <1>1, <1>5, <2>2, <3>2 DEF DesignInTurn, CellsThere, MemberChangeSafe, DesignInv, DesignTypes
    <3>6. CellsThere'
      BY <1>1, <1>5, <3>2, <3>5 DEF DesignInTurn, CellsThere
    <3> QED
      BY <3>1, <3>4, <3>6 DEF ValidSchema, Exists, IsFormula, RefsOf, Reaches, Dependencies, Formulas
  <2> QED
    BY <1>2, <2>1, <2>2
<1> QED
  BY <1>1, <1>4, <1>5, EditEnds DEF e

LEMMA DeleteKeeps ==
  ASSUME FieldConstants, DesignInv, NEW d \in Designers, CommitDelete(d)
  PROVE  DesignInv'
<1> DEFINE e == edit[d]
<1>1. /\ e.op = "delete" /\ e.id \in FieldIds /\ e # NoEdit
      /\ field' = [field EXCEPT ![e.id] = Absent]
      /\ cells' = IF Exists(field, e.id) THEN [cells EXCEPT ![e.id] = "none"] ELSE cells
      /\ Finish(d) /\ policy' = policy
  BY EditShape DEF CommitDelete, DesignInv
<1>2. StillAccepted(e) \/ ~DesignInTurn
  BY DEF DesignInTurn
<1> HIDE DEF e
<1>3. policy' \in Policies /\ cells' \in [FieldIds -> {"none", "raw", "member"}] /\ field' \in Schemas
  BY <1>1 DEF DesignInv, DesignTypes, Schemas
<1>4. ASSUME DesignInTurn PROVE (ValidSchema(field) /\ PolicyThere /\ CellsThere)'
  <2>1. PolicyAllows(e.id, TRUE, Absent) /\ FormulaDependents(field, e.id) = {}
    BY <1>1, <1>2, <1>4 DEF StillAccepted
  <2>2. ValidSchema(field')
    BY <1>1, <1>4, <2>1, ValidWithout DEF DesignInTurn, DesignInv, DesignTypes
  <2>3. /\ \A g \in FieldIds \ {e.id} : field'[g] = field[g] /\ cells'[g] = cells[g]
        /\ cells'[e.id] = "none"
    BY <1>1, <1>4 DEF DesignInv, DesignTypes, Schemas, DesignInTurn, CellsThere
  <2>4. policy.mode = "member_field" => policy.field \in FieldIds \ {e.id}
    BY <2>1 DEF DesignInv, DesignTypes, Policies, AllRows, PolicyAllows
  <2>5. PolicyThere'
    BY <1>1, <1>4, <2>3, <2>4 DEF DesignInTurn, PolicyThere, IsMember, Exists
  <2>6. CellsThere'
    BY <1>4, <2>3 DEF DesignInTurn, CellsThere, Exists
  <2> QED
    BY <2>2, <2>5, <2>6 DEF ValidSchema, Exists, IsFormula, RefsOf, Reaches, Dependencies, Formulas
<1> QED
  BY <1>1, <1>3, <1>4, EditEnds DEF e

LEMMA PolicyKeeps ==
  ASSUME DesignInv, NEW d \in Designers, CommitPolicy(d)
  PROVE  DesignInv'
<1>1. /\ edit[d].op = "policy" /\ edit[d].policy \in Policies /\ edit[d] # NoEdit
      /\ policy' = edit[d].policy /\ Finish(d) /\ field' = field /\ cells' = cells
  BY EditShape DEF CommitPolicy, DesignInv
<1>2. ASSUME DesignInTurn PROVE (ValidSchema(field) /\ PolicyThere /\ CellsThere)'
  <2>1. StillAccepted(edit[d])
    BY <1>2 DEF DesignInTurn
  <2> QED
    BY <1>1, <1>2, <2>1 DEF StillAccepted, DesignInTurn, ValidSchema, Exists, IsFormula, RefsOf, Reaches,
       Dependencies, Formulas, PolicyThere, IsMember, CellsThere
<1> QED
  BY <1>1, <1>2, EditEnds DEF DesignInv, DesignTypes

LEMMA CellsKeep ==
  ASSUME DesignInv, NEW d \in Designers, CommitCells(d)
  PROVE  DesignInv'
<1>1. /\ edit[d].op = "cell" /\ edit[d].ids \subseteq FieldIds /\ edit[d] # NoEdit
      /\ cells' = [f \in FieldIds |->
            IF f \notin edit[d].ids THEN cells[f]
            ELSE IF Exists(field, f) /\ field[f].type = "member" /\ cells[f] # "raw"
                 THEN "member" ELSE "raw"]
      /\ Finish(d) /\ field' = field /\ policy' = policy
  BY EditShape DEF CommitCells, DesignInv
<1>2. ASSUME DesignInTurn PROVE (ValidSchema(field) /\ PolicyThere /\ CellsThere)'
  <2>1. \A f \in edit[d].ids : Exists(field, f)
    BY <1>1, <1>2 DEF DesignInTurn, StillAccepted
  <2>2. CellsThere'
    BY <1>1, <1>2, <2>1 DEF DesignInTurn, CellsThere, DesignInv, DesignTypes, Exists
  <2> QED
    BY <1>1, <1>2, <2>2 DEF DesignInTurn, ValidSchema, Exists, IsFormula, RefsOf, Reaches,
       Dependencies, Formulas, PolicyThere, IsMember
<1>3. cells' \in [FieldIds -> {"none", "raw", "member"}]
  BY <1>1 DEF DesignInv, DesignTypes
<1> QED
  BY <1>1, <1>2, <1>3, EditEnds DEF DesignInv, DesignTypes

LEMMA DesignStep ==
  ASSUME FieldConstants, DesignInv, [NextDesign]_varsDesign
  PROVE  DesignInv'
<1>1. ASSUME NEW d \in Designers, NEW f \in FieldIds, NEW def \in Definitions, BeginAddField(d, f, def)
      PROVE  DesignInv'
  <2> DEFINE e == [op |-> "add", id |-> f, def |-> def]
  <2>1. e \in EditsInProgress /\ StillAccepted(e) /\ Begin(d, e)
    BY <1>1 DEF EditsInProgress, StillAccepted, BeginAddField
  <2> QED
    BY <2>1, EditBegins
<1>2. ASSUME NEW d \in Designers, NEW f \in FieldIds, NEW def \in Definitions, BeginUpdateField(d, f, def)
      PROVE  DesignInv'
  <2> DEFINE e == [op |-> "update", id |-> f, def |-> def]
  <2>1. e \in EditsInProgress /\ StillAccepted(e) /\ Begin(d, e)
    BY <1>2 DEF EditsInProgress, StillAccepted, BeginUpdateField
  <2> QED
    BY <2>1, EditBegins
<1>3. ASSUME NEW d \in Designers, NEW f \in FieldIds, BeginDeleteField(d, f)
      PROVE  DesignInv'
  <2> DEFINE e == [op |-> "delete", id |-> f]
  <2>1. e \in EditsInProgress /\ StillAccepted(e) /\ Begin(d, e)
    BY <1>3 DEF EditsInProgress, StillAccepted, BeginDeleteField
  <2> QED
    BY <2>1, EditBegins
<1>4. ASSUME NEW d \in Designers, NEW f \in FieldIds, BeginWriteCell(d, f)
      PROVE  DesignInv'
  <2> DEFINE e == [op |-> "cell", ids |-> {f}]
  <2>1. e \in EditsInProgress /\ StillAccepted(e) /\ Begin(d, e)
    BY <1>4 DEF EditsInProgress, StillAccepted, BeginWriteCell
  <2> QED
    BY <2>1, EditBegins
<1>5. ASSUME NEW d \in Designers, NEW p \in Policies, BeginSetPolicy(d, p)
      PROVE  DesignInv'
  <2> DEFINE e == [op |-> "policy", policy |-> p]
  <2>1. e \in EditsInProgress /\ StillAccepted(e) /\ Begin(d, e)
    BY <1>5 DEF EditsInProgress, StillAccepted, BeginSetPolicy, IsMember
  <2> QED
    BY <2>1, EditBegins
<1>6. ASSUME NEW d \in Designers, NEW mapping \in SUBSET FieldIds, BeginImportCsv(d, mapping)
      PROVE  DesignInv'
  <2> DEFINE e == [op |-> "cell", ids |-> mapping]
  <2>1. e \in EditsInProgress /\ StillAccepted(e) /\ Begin(d, e)
    BY <1>6 DEF EditsInProgress, StillAccepted, BeginImportCsv
  <2> QED
    BY <2>1, EditBegins
<1>7. ASSUME NEW d \in Designers, DesignerDies(d)
      PROVE  DesignInv'
  <2>1. edit[d] # NoEdit /\ Finish(d) /\ UNCHANGED <<field, policy, cells>>
    BY <1>7 DEF DesignerDies
  <2>2. DesignInTurn => (ValidSchema(field) /\ PolicyThere /\ CellsThere)'
    BY <2>1 DEF DesignInTurn, ValidSchema, Exists, IsFormula, RefsOf, Reaches, Dependencies, Formulas,
       PolicyThere, IsMember, CellsThere
  <2> QED
    BY <2>1, <2>2, EditEnds DEF DesignInv, DesignTypes
<1>8. CASE UNCHANGED varsDesign
  BY <1>8 DEF varsDesign, DesignInv, DesignTypes, DesignInTurn, ValidSchema, Exists, IsFormula, RefsOf,
     Reaches, Dependencies, Formulas, PolicyThere, IsMember, CellsThere, StillAccepted, PolicyAllows,
     FormulaDependents
<1>9. CASE NextDesign
  BY <1>1, <1>2, <1>3, <1>4, <1>5, <1>6, <1>7, <1>9, AddKeeps, UpdateKeeps, DeleteKeeps, PolicyKeeps,
     CellsKeep DEF NextDesign
<1> QED
  BY <1>8, <1>9

LEMMA DesignSafe == DesignInv => TypeOKDesign /\ QuietEditsKeepDesign
<1>1. DesignInv => TypeOKDesign
  BY EditShape DEF DesignInv, DesignTypes, TypeOKDesign, Schemas
<1>2. DesignInv => QuietEditsKeepDesign
  BY ValidIsUnbroken DEF DesignInv, DesignTypes, DesignInTurn, QuietEditsKeepDesign, PolicyThere, CellsThere,
     IsMember, Formulas
<1> QED
  BY <1>1, <1>2

(* As long as edits do not overlap, every formula refers to fields that      *)
(* exist and depends on no circle, the row permissions name a member field,  *)
(* and no cell outlives its field (validate_formula_schema and the checks of *)
(* row_permissions.py and member_field.py, each of which reads without a     *)
(* lock what the commit later relies on).                                    *)
THEOREM QuietEditsLeaveNoBrokenFormula ==
  ASSUME FieldConstants
  PROVE  InitDesign /\ [][NextDesign]_varsDesign => [](TypeOKDesign /\ QuietEditsKeepDesign)
<1> QED
  BY DesignSafe, DesignInit, DesignStep, PTL

-----------------------------------------------------------------------------
(* What the evaluation of formulas computes. *)

LEMMA MinIsLeast ==
  ASSUME NEW T \in SUBSET Nat, T # {}
  PROVE  Min(T) \in T /\ \A m \in T : Min(T) <= m
<1>1. PICK n \in T : \A m \in T : n <= m
  BY LeastOf
<1> QED
  BY <1>1 DEF Min

(* Stepping a bounded number of times from a state of X defines a function.  *)
StepsFrom(f, X, a, G, N) ==
    f \in [0..N -> X] /\ f = [n \in 0..N |-> IF n = 0 THEN a ELSE G[f[n - 1]]]
LEMMA StepsDefineAFunction ==
  ASSUME NEW X, NEW a \in X, NEW G \in [X -> X], NEW N \in Nat
  PROVE  \E f : StepsFrom(f, X, a, G, N)
<1> DEFINE Runs(n) == {f \in [0..n -> X] : f = [k \in 0..n |-> IF k = 0 THEN a ELSE G[f[k - 1]]]}
           bad == {n \in Nat : Runs(n) = {}}
<1>1. [k \in 0..0 |-> a] \in Runs(0)
  OBVIOUS
<1>2. ASSUME NEW n \in Nat, n # 0, Runs(n - 1) # {} PROVE Runs(n) # {}
  <2>1. PICK f \in Runs(n - 1) : TRUE
    BY <1>2
  <2>2. f \in [0..(n - 1) -> X] /\ n - 1 \in 0..(n - 1)
    BY <1>2
  <2> DEFINE g == [k \in 0..n |-> IF k = n THEN G[f[n - 1]] ELSE f[k]]
  <2>3. f = [k \in 0..(n - 1) |-> IF k = 0 THEN a ELSE G[f[k - 1]]]
    BY <2>1
  <2> HIDE DEF Runs
  <2>4. g \in [0..n -> X]
    BY <1>2, <2>2
  <2>5. ASSUME NEW k \in 0..n PROVE g[k] = IF k = 0 THEN a ELSE G[g[k - 1]]
    <3>1. CASE k = n
      <4>1. g[k] = G[f[n - 1]] /\ g[k - 1] = f[n - 1]
        BY <1>2, <3>1
      <4> QED
        BY <1>2, <3>1, <4>1
    <3>2. CASE k # n /\ k # 0
      <4>1. k \in 0..(n - 1) /\ k - 1 \in 0..(n - 1)
        BY <1>2, <3>2
      <4>2. f[k] = G[f[k - 1]]
        BY <2>3, <3>2, <4>1
      <4>3. g[k] = f[k] /\ g[k - 1] = f[k - 1]
        BY <1>2, <3>2, <4>1
      <4> QED
        BY <3>2, <4>2, <4>3
    <3>3. CASE k # n /\ k = 0
      <4>1. 0 \in 0..(n - 1) /\ g[0] = f[0]
        BY <1>2, <3>3
      <4>2. f[0] = a
        BY <2>3, <4>1
      <4> QED
        BY <3>3, <4>1, <4>2
    <3> QED
      BY <3>1, <3>2, <3>3
  <2>6. g \in Runs(n)
    <3>1. g = [k \in 0..n |-> g[k]]
      BY <2>4
    <3>2. [k \in 0..n |-> g[k]] = [k \in 0..n |-> IF k = 0 THEN a ELSE G[g[k - 1]]]
      BY <2>5
    <3> HIDE DEF g
    <3> QED
      BY <2>4, <3>1, <3>2 DEF Runs
  <2> QED
    BY <2>6
<1>3. bad = {}
  <2> SUFFICES ASSUME bad # {} PROVE FALSE
    OBVIOUS
  <2>1. bad \in SUBSET Nat
    OBVIOUS
  <2> HIDE DEF Runs
  <2>2. PICK n \in bad : \A m \in bad : n <= m
    <3> HIDE DEF bad
    <3> QED
      BY <2>1, LeastOf
  <2>3. n \in Nat /\ n # 0 /\ Runs(n) = {}
    BY <1>1
  <2>4. n - 1 \in Nat /\ ~ (n <= n - 1)
    BY <2>3
  <2>5. Runs(n - 1) # {}
    BY <2>2, <2>4
  <2> QED
    BY <1>2, <2>3, <2>5
<1>4. PICK f \in Runs(N) : TRUE
  BY <1>3
<1> QED
  BY <1>4 DEF StepsFrom

-----------------------------------------------------------------------------
(* The result a formula should have: the error of its first reference that   *)
(* has one, "#REF" if that chain ends in a field that is gone.               *)
Problem(g) == ~Exists(field, g) \/ (g \in Formulas(field) /\ BrokenFormula(g))
FirstProblem(f, g) ==
    \E k \in DOMAIN field[f].refs : /\ field[f].refs[k] = g /\ Problem(g)
                                    /\ \A l \in 1..(k - 1) : ~Problem(field[f].refs[l])
LeadsToGap(f) ==
    \A S \in SUBSET FieldIds :
        (\A h \in Formulas(field), g \in FieldIds :
            FirstProblem(h, g) /\ (~Exists(field, g) \/ g \in S) => h \in S) => f \in S
Result(f) == IF ~BrokenFormula(f) THEN "ok" ELSE IF LeadsToGap(f) THEN "#REF" ELSE "#CYCLE"

LEMMA RefAt ==
  ASSUME field \in Schemas, NEW f \in Formulas(field), NEW k \in DOMAIN field[f].refs
  PROVE  /\ field[f].refs \in Seq(FieldIds) /\ DOMAIN field[f].refs \in SUBSET Nat
         /\ field[f].refs[k] \in FieldIds /\ field[f].refs[k] \in RefsOf(field, f)
         /\ \A l \in 1..(k - 1) : l \in DOMAIN field[f].refs
BY FormulaExists, RefsAreFields DEF RefsOf

LEMMA BrokenBy ==
  ASSUME field \in Schemas, NEW f \in Formulas(field), NEW g \in RefsOf(field, f), Problem(g)
  PROVE  BrokenFormula(f)
<1>1. CASE ~Exists(field, g)
  BY <1>1 DEF BrokenFormula
<1>2. CASE g \in Formulas(field) /\ BrokenFormula(g)
  <2>1. g \in Reaches(field, f)
    BY <1>2, ReachesIsClosed, FormulaExists DEF Dependencies
  <2>2. Reaches(field, g) \cup {g} \subseteq Reaches(field, f)
    BY <2>1, ReachesIsTransitive
  <2> QED
    BY <1>2, <2>2 DEF BrokenFormula
<1> QED
  BY <1>1, <1>2 DEF Problem

LEMMA BrokenHasProblem ==
  ASSUME field \in Schemas, NEW f \in Formulas(field), BrokenFormula(f)
  PROVE  \E g \in RefsOf(field, f) : Problem(g)
<1>1. PICK g \in Reaches(field, f) \cup {f} :
         g \in Reaches(field, g) \/ \E r \in RefsOf(field, g) : ~Exists(field, r)
  BY DEF BrokenFormula
<1>2. Dependencies(field, f) \subseteq Formulas(field) /\ Dependencies(field, f) \subseteq RefsOf(field, f)
  BY ReachesIsClosed DEF Dependencies
<1>3. CASE g = f /\ \E r \in RefsOf(field, g) : ~Exists(field, r)
  BY <1>3 DEF Problem
<1>4. CASE g \in Reaches(field, f)
  <2>1. PICK h \in Dependencies(field, f) : g = h \/ g \in Reaches(field, h)
    BY <1>4, ReachesByOneStep
  <2>2. BrokenFormula(h)
    BY <1>1, <2>1 DEF BrokenFormula
  <2> QED
    BY <1>2, <2>1, <2>2 DEF Problem
<1> QED
  BY <1>1, <1>3, <1>4

LEMMA FirstIsUnique ==
  ASSUME field \in Schemas, NEW f \in Formulas(field), NEW g, NEW h,
         FirstProblem(f, g), FirstProblem(f, h)
  PROVE  g = h
<1>1. PICK k \in DOMAIN field[f].refs : /\ field[f].refs[k] = g /\ Problem(g)
                                        /\ \A l \in 1..(k - 1) : ~Problem(field[f].refs[l])
  BY DEF FirstProblem
<1>2. PICK m \in DOMAIN field[f].refs : /\ field[f].refs[m] = h /\ Problem(h)
                                        /\ \A l \in 1..(m - 1) : ~Problem(field[f].refs[l])
  BY DEF FirstProblem
<1>3. k \in Nat \ {0} /\ m \in Nat \ {0}
  BY RefAt
<1>4. ~(k \in 1..(m - 1)) /\ ~(m \in 1..(k - 1))
  BY <1>1, <1>2
<1> QED
  BY <1>1, <1>2, <1>3, <1>4

LEMMA FirstBreaks ==
  ASSUME field \in Schemas, NEW f \in Formulas(field), NEW g, FirstProblem(f, g)
  PROVE  BrokenFormula(f) /\ g \in FieldIds
BY RefAt, BrokenBy DEF FirstProblem

(* The chain of first problems ends in a gap ... *)
LEMMA GapIsRef ==
  ASSUME field \in Schemas, NEW f \in Formulas(field), NEW g, FirstProblem(f, g), ~Exists(field, g)
  PROVE  Result(f) = "#REF"
BY FirstBreaks DEF LeadsToGap, Result

(* ... or goes on ... *)
LEMMA ErrorIsPassedOn ==
  ASSUME field \in Schemas, NEW f \in Formulas(field), NEW g, FirstProblem(f, g), Exists(field, g)
  PROVE  Result(f) = Result(g)
<1>1. BrokenFormula(f) /\ g \in FieldIds
  BY FirstBreaks
<1>2. BrokenFormula(g)
  BY DEF FirstProblem, Problem
<1> DEFINE Closed(S) == \A h \in Formulas(field), x \in FieldIds :
                           FirstProblem(h, x) /\ (~Exists(field, x) \/ x \in S) => h \in S
<1>3. ASSUME LeadsToGap(g) PROVE LeadsToGap(f)
  <2> SUFFICES ASSUME NEW S \in SUBSET FieldIds, Closed(S) PROVE f \in S
    BY DEF LeadsToGap
  <2>1. g \in S
    BY <1>3 DEF LeadsToGap
  <2> QED
    BY <1>1, <2>1
<1>4. ASSUME LeadsToGap(f), NEW S \in SUBSET FieldIds, Closed(S), g \notin S PROVE FALSE
  <2>1. Closed(S \ {f})
    <3> SUFFICES ASSUME NEW h \in Formulas(field), NEW x \in FieldIds, FirstProblem(h, x),
                        ~Exists(field, x) \/ x \in S \ {f}
                 PROVE  h \in S \ {f}
      OBVIOUS
    <3>1. h \in S
      BY <1>4
    <3>2. h # f
      BY <1>4, FirstIsUnique
    <3> QED
      BY <3>1, <3>2
  <2>2. S \ {f} \in SUBSET FieldIds
    OBVIOUS
  <2> QED
    BY <1>4, <2>1, <2>2 DEF LeadsToGap
<1>5. LeadsToGap(f) => LeadsToGap(g)
  BY <1>4 DEF LeadsToGap
<1> QED
  BY <1>1, <1>2, <1>3, <1>5 DEF Result

(* ... or runs in a circle. *)
LEMMA CircleIsCycle ==
  ASSUME field \in Schemas, NEW P \in SUBSET Formulas(field),
         \A h \in P : \E g \in P : FirstProblem(h, g),
         NEW f \in P
  PROVE  Result(f) = "#CYCLE"
<1>1. P \subseteq FieldIds /\ \A g \in P : Exists(field, g)
  BY FormulaExists
<1>2. BrokenFormula(f)
  BY FirstBreaks
<1>3. ASSUME NEW h \in Formulas(field), NEW g \in FieldIds, FirstProblem(h, g),
             ~Exists(field, g) \/ g \in FieldIds \ P
      PROVE  h \in FieldIds \ P
  <2>1. g \notin P
    BY <1>1, <1>3
  <2>2. h \notin P
    BY <1>3, <2>1, FirstIsUnique
  <2> QED
    BY <2>2, FormulaExists
<1>4. ~LeadsToGap(f)
  <2>1. FieldIds \ P \in SUBSET FieldIds
    OBVIOUS
  <2> QED
    BY <1>3, <2>1 DEF LeadsToGap
<1> QED
  BY <1>2, <1>4 DEF Result

(* Reaching a reference that no earlier one made unnecessary. *)
ComesTo(f, g) ==
    \E k \in DOMAIN field[f].refs : /\ field[f].refs[k] = g
                                    /\ \A l \in 1..(k - 1) : ~Problem(field[f].refs[l])

(* What holds in the middle of an evaluation: the path leads from formula to *)
(* formula through references that had to be evaluated, and a result that is *)
(* in the memo is the right one.                                             *)
Results == {Absent, "ok", "#REF", "#CYCLE"}
OnTheWay(s) ==
    /\ \A i \in DOMAIN s.path : s.path[i] \in Formulas(field) /\ s.memo[s.path[i]] = Absent
    /\ \A f \in FieldIds : s.memo[f] # Absent => f \in Formulas(field) /\ s.memo[f] = Result(f)
    /\ \A i \in DOMAIN s.path : i + 1 \in DOMAIN s.path => ComesTo(s.path[i], s.path[i + 1])
    /\ \A i, j \in DOMAIN s.path :
          i < j => s.path[j] # s.path[i] /\ s.path[j] \in Reaches(field, s.path[i])
EvalStates == {s \in [path : Seq(FieldIds), memo : [FieldIds -> Results]] : OnTheWay(s)}

(* Formulas without a result, and those of them that are not begun. *)
OpenOf(s) == {f \in Formulas(field) : s.memo[f] = Absent}
OffPath(s) == {f \in OpenOf(s) : \A i \in DOMAIN s.path : s.path[i] # f}
Work(s) == Cardinality(OpenOf(s)) + Cardinality(OffPath(s))

LEMMA FrontElements ==
  ASSUME NEW S, NEW p \in Seq(S), p # <<>>
  PROVE  /\ Front(p) \in Seq(S) /\ Len(p) \in Nat \ {0} /\ Len(Front(p)) = Len(p) - 1
         /\ DOMAIN p = 1..Len(p) /\ DOMAIN Front(p) = 1..(Len(p) - 1)
         /\ \A i \in 1..(Len(p) - 1) : Front(p)[i] = p[i]
         /\ Last(p) = p[Len(p)] /\ Last(p) \in S
<1>1. Len(p) \in Nat \ {0} /\ DOMAIN p = 1..Len(p)
  OBVIOUS
<1>2. Last(p) = p[Len(p)] /\ Front(p) = SubSeq(p, 1, Len(p) - 1)
  BY DEF Last, Front
<1>3. p[Len(p)] \in S
  BY <1>1
<1>4. /\ SubSeq(p, 1, Len(p) - 1) \in Seq(S) /\ Len(SubSeq(p, 1, Len(p) - 1)) = Len(p) - 1
      /\ \A i \in 1..(Len(p) - 1) : SubSeq(p, 1, Len(p) - 1)[i] = p[i]
  BY <1>1
<1>5. DOMAIN SubSeq(p, 1, Len(p) - 1) = 1..(Len(p) - 1)
  BY <1>1, <1>4
<1> QED
  BY <1>1, <1>2, <1>3, <1>4, <1>5

LEMMA AppendElements ==
  ASSUME NEW S, NEW p \in Seq(S), NEW x \in S
  PROVE  /\ Append(p, x) \in Seq(S) /\ Len(p) \in Nat
         /\ DOMAIN p = 1..Len(p) /\ DOMAIN Append(p, x) = 1..(Len(p) + 1)
         /\ \A i \in 1..Len(p) : Append(p, x)[i] = p[i]
         /\ Append(p, x)[Len(p) + 1] = x
OBVIOUS

LEMMA EvalStateIs ==
  ASSUME NEW s \in EvalStates
  PROVE  /\ s.path \in Seq(FieldIds) /\ s.memo \in [FieldIds -> Results] /\ OnTheWay(s)
         /\ \A q : [s EXCEPT !.path = q] = [path |-> q, memo |-> s.memo]
<1> DEFINE A == Seq(FieldIds)  B == [FieldIds -> Results]
<1>1. s \in [path : A, memo : B] /\ OnTheWay(s)
  BY DEF EvalStates
<1> HIDE DEF A, B
<1>2. \A q : [s EXCEPT !.path = q] = [path |-> q, memo |-> s.memo]
  BY <1>1
<1>3. s.path \in A /\ s.memo \in B
  BY <1>1
<1> QED
  BY <1>1, <1>2, <1>3 DEF A, B

(* A formula is begun ... *)
LEMMA BeginKeeps ==
  ASSUME field \in Schemas, NEW s \in EvalStates, NEW g \in Formulas(field), s.memo[g] = Absent,
         \A i \in DOMAIN s.path : s.path[i] # g, s.path # <<>> => ComesTo(Last(s.path), g)
  PROVE  [s EXCEPT !.path = Append(@, g)] \in EvalStates
<1> DEFINE p == s.path  q == Append(p, g)  t == [path |-> q, memo |-> s.memo]
<1>1. /\ p \in Seq(FieldIds) /\ s.memo \in [FieldIds -> Results] /\ OnTheWay(s)
      /\ [s EXCEPT !.path = Append(p, g)] = t
  BY EvalStateIs
<1>2. g \in FieldIds
  BY FormulaExists
<1>3. /\ q \in Seq(FieldIds) /\ Len(p) \in Nat /\ DOMAIN p = 1..Len(p) /\ DOMAIN q = 1..(Len(p) + 1)
      /\ \A i \in 1..Len(p) : q[i] = p[i]
      /\ q[Len(p) + 1] = g
  BY <1>1, <1>2, AppendElements
<1> HIDE DEF q
<1>4. t.path = q /\ t.memo = s.memo /\ t \in [path : Seq(FieldIds), memo : [FieldIds -> Results]]
  BY <1>1, <1>3
<1>5. \A i \in DOMAIN q : q[i] \in Formulas(field) /\ s.memo[q[i]] = Absent
  <2> TAKE i \in DOMAIN q
  <2>1. CASE i = Len(p) + 1
    BY <1>3, <2>1
  <2>2. CASE i \in DOMAIN p
    BY <1>1, <1>3, <2>2 DEF OnTheWay
  <2> QED
    BY <1>3, <2>1, <2>2
<1>6. \A f \in FieldIds : s.memo[f] # Absent => f \in Formulas(field) /\ s.memo[f] = Result(f)
  BY <1>1 DEF OnTheWay
<1>7. p # <<>> => Last(p) = p[Len(p)] /\ Len(p) \in DOMAIN p
  BY <1>1, <1>3 DEF Last
<1>8. \A i \in DOMAIN q : i + 1 \in DOMAIN q => ComesTo(q[i], q[i + 1])
  <2> TAKE i \in DOMAIN q
  <2> SUFFICES ASSUME i + 1 \in DOMAIN q PROVE ComesTo(q[i], q[i + 1])
    OBVIOUS
  <2>1. CASE i = Len(p)
    <3>1. p # <<>> /\ q[i] = p[Len(p)] /\ q[i + 1] = g
      BY <1>1, <1>3, <2>1
    <3> QED
      BY <1>7, <3>1
  <2>2. CASE i + 1 \in DOMAIN p
    <3>1. i \in DOMAIN p /\ q[i] = p[i] /\ q[i + 1] = p[i + 1]
      BY <1>3, <2>2
    <3> QED
      BY <1>1, <2>2, <3>1 DEF OnTheWay
  <2> QED
    BY <1>3, <2>1, <2>2
<1>9. \A i, j \in DOMAIN q : i < j => q[j] # q[i] /\ q[j] \in Reaches(field, q[i])
  <2> TAKE i, j \in DOMAIN q
  <2> SUFFICES ASSUME i < j PROVE q[j] # q[i] /\ q[j] \in Reaches(field, q[i])
    OBVIOUS
  <2>1. i \in DOMAIN p /\ q[i] = p[i]
    BY <1>3
  <2>2. CASE j \in DOMAIN p
    BY <1>1, <1>3, <2>1, <2>2 DEF OnTheWay
  <2>3. CASE j = Len(p) + 1
    <3>1. p # <<>>
      BY <1>3, <2>1
    <3>2. ComesTo(p[Len(p)], g) /\ p[Len(p)] \in Formulas(field)
      BY <1>1, <1>7, <3>1 DEF OnTheWay
    <3>3. g \in RefsOf(field, p[Len(p)])
      BY <3>2 DEF ComesTo, RefsOf
    <3>4. g \in Dependencies(field, p[Len(p)])
      BY <3>3, FormulaExists DEF Dependencies
    <3>5. g \in Reaches(field, p[Len(p)])
      BY <3>2, <3>4, ReachesIsClosed
    <3>6. CASE i = Len(p)
      BY <1>3, <2>1, <2>3, <3>5, <3>6
    <3>7. CASE i < Len(p)
      <4>1. p[Len(p)] \in Reaches(field, p[i]) /\ p[i] \in Formulas(field)
        BY <1>1, <1>7, <2>1, <3>1, <3>7 DEF OnTheWay
      <4>2. g \in Reaches(field, p[i])
        BY <3>5, <4>1, ReachesIsTransitive
      <4> QED
        BY <1>3, <2>1, <2>3, <4>2
    <3> QED
      BY <1>3, <2>1, <3>6, <3>7
  <2> QED
    BY <1>3, <2>2, <2>3
<1>10. OnTheWay(t)
  BY <1>4, <1>5, <1>6, <1>8, <1>9 DEF OnTheWay
<1> QED
  BY <1>1, <1>4, <1>10 DEF EvalStates

(* ... and it ends with its result. *)
LEMMA EndKeeps ==
  ASSUME field \in Schemas, FieldConstants, NEW s \in EvalStates, s.path # <<>>, NEW value \in Results \ {Absent},
         value = Result(Last(s.path))
  PROVE  Ends(s, value) \in EvalStates
<1> DEFINE p == s.path  q == Front(p)  memo == [s.memo EXCEPT ![Last(p)] = value]
           t == [path |-> q, memo |-> memo]
<1>1. /\ p \in Seq(FieldIds) /\ s.memo \in [FieldIds -> Results] /\ OnTheWay(s)
  BY EvalStateIs
<1>2. /\ q \in Seq(FieldIds) /\ Len(p) \in Nat \ {0} /\ DOMAIN p = 1..Len(p) /\ DOMAIN q = 1..(Len(p) - 1)
      /\ \A i \in 1..(Len(p) - 1) : q[i] = p[i]
      /\ Last(p) = p[Len(p)] /\ Last(p) \in FieldIds
  BY <1>1, FrontElements
<1>3. memo \in [FieldIds -> Results] /\ \A f \in FieldIds : memo[f] = IF f = Last(p) THEN value ELSE s.memo[f]
  BY <1>1, <1>2
<1> HIDE DEF q, memo
<1>4. t.path = q /\ t.memo = memo /\ t \in [path : Seq(FieldIds), memo : [FieldIds -> Results]]
  BY <1>2, <1>3
<1>5. \A i \in DOMAIN q : i \in DOMAIN p /\ q[i] = p[i] /\ p[i] # Last(p) /\ p[i] \in FieldIds
  <2> TAKE i \in DOMAIN q
  <2>1. i \in DOMAIN p /\ Len(p) \in DOMAIN p /\ i < Len(p) /\ q[i] = p[i] /\ p[i] \in FieldIds
    BY <1>1, <1>2
  <2>2. p[Len(p)] # p[i]
    BY <1>1, <2>1 DEF OnTheWay
  <2> QED
    BY <1>2, <2>1, <2>2
<1>6. \A i \in DOMAIN q : q[i] \in Formulas(field) /\ memo[q[i]] = Absent
  BY <1>1, <1>3, <1>5 DEF OnTheWay
<1>7. Last(p) \in Formulas(field)
  BY <1>1, <1>2 DEF OnTheWay
<1>8. \A f \in FieldIds : memo[f] # Absent => f \in Formulas(field) /\ memo[f] = Result(f)
  BY <1>1, <1>3, <1>7 DEF OnTheWay
<1>9. \A i \in DOMAIN q : i + 1 \in DOMAIN q => ComesTo(q[i], q[i + 1])
  BY <1>1, <1>5 DEF OnTheWay
<1>10. \A i, j \in DOMAIN q : i < j => q[j] # q[i] /\ q[j] \in Reaches(field, q[i])
  BY <1>1, <1>5 DEF OnTheWay
<1>11. OnTheWay(t)
  BY <1>4, <1>6, <1>8, <1>9, <1>10 DEF OnTheWay
<1> QED
  <2>1. Ends(s, value) = t
    BY DEF Ends, q, memo
  <2> QED
    BY <1>4, <1>11, <2>1 DEF EvalStates

(* The evaluation of a formula: which case arises, and what it does. *)
LEMMA EarlierHaveValues ==
  ASSUME field \in Schemas, FieldConstants, NEW s \in EvalStates, NEW f \in Formulas(field),
         NEW k \in DOMAIN field[f].refs, HasValue(field, s.memo, field[f].refs[k])
  PROVE  ~Problem(field[f].refs[k])
<1> DEFINE g == field[f].refs[k]
<1>1. g \in FieldIds
  BY RefAt
<1>2. CASE g \in Formulas(field)
  <2>1. s.memo[g] = "ok"
    BY <1>2 DEF HasValue, Formulas
  <2>2. Result(g) = "ok"
    BY <1>1, <2>1, EvalStateIs DEF OnTheWay, FieldConstants
  <2>3. ~BrokenFormula(g)
    BY <2>2 DEF Result
  <2> QED
    BY <2>3 DEF Problem, HasValue
<1>3. CASE g \notin Formulas(field)
  BY <1>3 DEF Problem, HasValue
<1> QED
  BY <1>2, <1>3

LEMMA FirstOpen ==
  ASSUME field \in Schemas, FieldConstants, NEW s \in EvalStates, NEW f \in Formulas(field),
         NEW open, open = {i \in DOMAIN field[f].refs : ~HasValue(field, s.memo, field[f].refs[i])},
         open # {}
  PROVE  /\ Min(open) \in DOMAIN field[f].refs /\ field[f].refs[Min(open)] \in FieldIds
         /\ ~HasValue(field, s.memo, field[f].refs[Min(open)])
         /\ ComesTo(f, field[f].refs[Min(open)])
<1>1. DOMAIN field[f].refs \in SUBSET Nat
  <2>1. field[f].refs \in Seq(FieldIds)
    BY FormulaExists, RefsAreFields
  <2> QED
    BY <2>1
<1>2. open \in SUBSET Nat
  BY <1>1
<1>3. Min(open) \in open /\ \A m \in open : Min(open) <= m
  BY <1>2, MinIsLeast
<1> DEFINE k == Min(open)
<1>4. k \in DOMAIN field[f].refs /\ k \in Nat /\ ~HasValue(field, s.memo, field[f].refs[k])
  BY <1>1, <1>3
<1>8. \A m \in open : k <= m
  BY <1>3
<1> HIDE DEF k
<1>5. field[f].refs[k] \in FieldIds /\ \A l \in 1..(k - 1) : l \in DOMAIN field[f].refs
  BY <1>4, RefAt
<1>6. ASSUME NEW l \in 1..(k - 1) PROVE ~Problem(field[f].refs[l])
  <2>1. l \in DOMAIN field[f].refs /\ ~(k <= l)
    BY <1>4, <1>5
  <2>2. l \notin open
    BY <1>8, <2>1
  <2> QED
    BY <2>1, <2>2, EarlierHaveValues
<1>7. ComesTo(f, field[f].refs[k])
  BY <1>4, <1>6 DEF ComesTo
<1> QED
  BY <1>4, <1>5, <1>7 DEF k

(* A formula that is on the path and is come to again closes a circle.       *)
LEMMA OnPathIsCycle ==
  ASSUME field \in Schemas, NEW s \in EvalStates, s.path # <<>>,
         NEW j \in DOMAIN s.path, ComesTo(Last(s.path), s.path[j])
  PROVE  Result(Last(s.path)) = "#CYCLE"
<1> DEFINE p == s.path  n == Len(p)  P == {p[i] : i \in j..n}
<1>1. p \in Seq(FieldIds) /\ OnTheWay(s)
  BY EvalStateIs
<1>2. n \in Nat \ {0} /\ DOMAIN p = 1..n /\ Last(p) = p[n] /\ j \in 1..n
  BY <1>1, FrontElements
<1> HIDE DEF n, p
<1>3. \A i \in 1..n : p[i] \in Formulas(field)
  BY <1>1, <1>2 DEF OnTheWay, p
<1>4. p[j] \in Reaches(field, p[n])
  <2>1. p[j] \in RefsOf(field, p[n]) /\ ComesTo(p[n], p[j])
    BY <1>2 DEF ComesTo, RefsOf, p
  <2>2. p[j] \in Dependencies(field, p[n])
    BY <1>2, <1>3, <2>1, FormulaExists DEF Dependencies
  <2> QED
    BY <1>2, <1>3, <2>2, ReachesIsClosed
<1>5. ASSUME NEW i \in j..n PROVE p[i] \in Formulas(field) /\ BrokenFormula(p[i])
  <2>1. i \in 1..n /\ i \in Nat /\ n \in 1..n
    BY <1>2
  <2>2. p[i] \in Reaches(field, p[j]) \cup {p[j]}
    <3>1. CASE i = j
      BY <3>1
    <3>2. CASE j < i
      BY <1>1, <1>2, <2>1, <3>2 DEF OnTheWay, p
    <3> QED
      BY <1>2, <3>1, <3>2
  <2>3. p[n] \in Reaches(field, p[i]) \cup {p[i]}
    <3>1. CASE i = n
      BY <3>1
    <3>2. CASE i < n
      BY <1>1, <1>2, <2>1, <3>2 DEF OnTheWay, p
    <3> QED
      BY <1>2, <3>1, <3>2
  <2>4. p[i] \in Reaches(field, p[n])
    BY <1>2, <1>3, <1>4, <2>1, <2>2, ReachesIsTransitive
  <2>5. p[i] \in Reaches(field, p[i])
    BY <1>3, <2>1, <2>3, <2>4, ReachesIsTransitive
  <2> QED
    BY <1>3, <2>1, <2>5 DEF BrokenFormula
<1>6. ASSUME NEW i \in j..n, NEW g, g \in P, ComesTo(p[i], g) PROVE FirstProblem(p[i], g)
  <2>1. Problem(g)
    BY <1>5, <1>6 DEF Problem
  <2> QED
    BY <1>6, <2>1 DEF ComesTo, FirstProblem
<1>7. ASSUME NEW h \in P PROVE \E g \in P : FirstProblem(h, g)
  <2>1. PICK i \in j..n : h = p[i]
    OBVIOUS
  <2>2. CASE i = n
    <3>1. p[j] \in P /\ ComesTo(p[n], p[j])
      BY <1>2 DEF p
    <3> QED
      BY <1>6, <2>1, <2>2, <3>1
  <2>3. CASE i # n
    <3>1. i \in 1..n /\ i + 1 \in 1..n /\ i + 1 \in j..n
      BY <1>2, <2>3
    <3>2. p[i + 1] \in P /\ ComesTo(p[i], p[i + 1])
      BY <1>1, <1>2, <3>1 DEF OnTheWay, p
    <3> QED
      BY <1>6, <2>1, <3>2
  <2> QED
    BY <2>2, <2>3
<1>8. P \in SUBSET Formulas(field) /\ p[n] \in P
  BY <1>2, <1>5
<1> HIDE DEF P
<1>9. Result(p[n]) = "#CYCLE"
  BY <1>7, <1>8, CircleIsCycle
<1> QED
  BY <1>2, <1>9 DEF p

(* A step of the evaluation ends the innermost formula or begins another.    *)
LEMMA EvaluateIs ==
  ASSUME field \in Schemas, FieldConstants, NEW s \in EvalStates, s.path # <<>>
  PROVE  \/ /\ Result(Last(s.path)) \in Results \ {Absent}
            /\ Evaluate(field, s) = Ends(s, Result(Last(s.path)))
         \/ \E g \in Formulas(field) :
               /\ s.memo[g] = Absent /\ \A i \in DOMAIN s.path : s.path[i] # g
               /\ ComesTo(Last(s.path), g)
               /\ Evaluate(field, s) = [s EXCEPT !.path = Append(@, g)]
<1> DEFINE f == Last(s.path)
           open == {i \in DOMAIN field[f].refs : ~HasValue(field, s.memo, field[f].refs[i])}
           g == field[f].refs[Min(open)]
<1>1. f \in Formulas(field) /\ f \in FieldIds
  <2>1. s.path \in Seq(FieldIds) /\ OnTheWay(s)
    BY EvalStateIs
  <2>2. /\ Len(s.path) \in Nat \ {0} /\ DOMAIN s.path = 1..Len(s.path)
        /\ Last(s.path) = s.path[Len(s.path)]
    BY <2>1, FrontElements
  <2>3. Len(s.path) \in DOMAIN s.path
    BY <2>2
  <2> QED
    BY <2>1, <2>2, <2>3, FormulaExists DEF OnTheWay
<1>2. Result(f) \in Results \ {Absent}
  BY DEF Result, Results, FieldConstants
<1> DEFINE result == Evaluate(field, s)
<1>3. result =
         CASE open = {} -> Ends(s, "ok")
           [] open # {} /\ ~Exists(field, g) -> Ends(s, "#REF")
           [] open # {} /\ Exists(field, g) /\ s.memo[g] # Absent -> Ends(s, s.memo[g])
           [] open # {} /\ Exists(field, g) /\ s.memo[g] = Absent /\ g \in ToSet(s.path) -> Ends(s, "#CYCLE")
           [] OTHER -> [s EXCEPT !.path = Append(@, g)]
  BY DEF Evaluate
<1> HIDE DEF result
<1>4. CASE open = {}
  <2>1. result = Ends(s, "ok")
    BY <1>3, <1>4
  <2>2. ASSUME NEW r \in RefsOf(field, f) PROVE ~Problem(r)
    BY <1>1, <1>4, EarlierHaveValues DEF RefsOf
  <2>3. ~BrokenFormula(f)
    BY <1>1, <2>2, BrokenHasProblem
  <2> QED
    BY <1>2, <2>1, <2>3 DEF Result, result
<1>5. CASE open # {}
  <2>1. g \in FieldIds /\ ~HasValue(field, s.memo, g) /\ ComesTo(f, g)
    BY <1>1, <1>5, FirstOpen
  <2> HIDE DEF g, open
  <2>2. CASE ~Exists(field, g)
    <3>1. result = Ends(s, "#REF")
      BY <1>3, <1>5, <2>2
    <3>2. FirstProblem(f, g)
      BY <2>1, <2>2 DEF FirstProblem, ComesTo, Problem
    <3>3. Result(f) = "#REF"
      BY <1>1, <2>2, <3>2, GapIsRef
    <3> QED
      BY <1>2, <3>1, <3>3 DEF result
  <2>3. CASE Exists(field, g) /\ s.memo[g] # Absent
    <3>1. result = Ends(s, s.memo[g])
      BY <1>3, <1>5, <2>3
    <3>2. g \in Formulas(field) /\ s.memo[g] = Result(g) /\ s.memo[g] # "ok"
      BY <2>1, <2>3, EvalStateIs DEF OnTheWay, HasValue
    <3>3. FirstProblem(f, g)
      BY <2>1, <3>2 DEF FirstProblem, ComesTo, Problem, Result
    <3>4. Result(f) = Result(g)
      BY <1>1, <2>3, <3>3, ErrorIsPassedOn
    <3> QED
      BY <1>2, <3>1, <3>2, <3>4 DEF result
  <2>4. CASE Exists(field, g) /\ s.memo[g] = Absent /\ g \in ToSet(s.path)
    <3>1. result = Ends(s, "#CYCLE")
      BY <1>3, <1>5, <2>4
    <3>2. PICK j \in DOMAIN s.path : g = s.path[j]
      BY <2>4 DEF ToSet
    <3>3. Result(f) = "#CYCLE"
      BY <2>1, <3>2, OnPathIsCycle
    <3> QED
      BY <1>2, <3>1, <3>3 DEF result
  <2>5. CASE Exists(field, g) /\ s.memo[g] = Absent /\ g \notin ToSet(s.path)
    <3>1. result = [s EXCEPT !.path = Append(@, g)]
      BY <1>3, <1>5, <2>5
    <3>2. \A i \in DOMAIN s.path : s.path[i] # g
      BY <2>5 DEF ToSet
    <3>3. g \in Formulas(field)
      BY <2>1, <2>5 DEF HasValue, Formulas
    <3> QED
      BY <2>1, <2>5, <3>1, <3>2, <3>3 DEF result
  <2> QED
    BY <2>2, <2>3, <2>4, <2>5
<1> QED
  BY <1>4, <1>5

(* The number of steps that are left goes down until all formulas have their *)
(* results.                                                                  *)
LEMMA WorkIsFinite ==
  ASSUME field \in Schemas, FieldConstants, NEW s
  PROVE  /\ IsFiniteSet(OpenOf(s)) /\ IsFiniteSet(OffPath(s))
         /\ Cardinality(OpenOf(s)) \in Nat /\ Cardinality(OffPath(s)) \in Nat
         /\ Work(s) <= EvaluationSteps /\ EvaluationSteps \in Nat
<1>1. IsFiniteSet(FieldIds)
  BY DEF FieldConstants
<1>2. OpenOf(s) \in SUBSET FieldIds /\ OffPath(s) \in SUBSET FieldIds
  BY FormulaExists DEF OpenOf, OffPath
<1> HIDE DEF FieldConstants
<1>3. /\ IsFiniteSet(OpenOf(s)) /\ Cardinality(OpenOf(s)) <= Cardinality(FieldIds)
      /\ IsFiniteSet(OffPath(s)) /\ Cardinality(OffPath(s)) <= Cardinality(FieldIds)
  BY <1>1, <1>2, FS_Subset
<1>4. /\ Cardinality(FieldIds) \in Nat /\ Cardinality(OpenOf(s)) \in Nat
      /\ Cardinality(OffPath(s)) \in Nat
  BY <1>1, <1>3, FS_CardinalityType
<1> QED
  BY <1>3, <1>4 DEF Work, EvaluationSteps

LEMMA BeginWorks ==
  ASSUME field \in Schemas, FieldConstants, NEW s \in EvalStates, NEW g \in Formulas(field),
         s.memo[g] = Absent, \A i \in DOMAIN s.path : s.path[i] # g
  PROVE  Work([s EXCEPT !.path = Append(@, g)]) = Work(s) - 1
<1> DEFINE t == [s EXCEPT !.path = Append(@, g)]  q == Append(s.path, g)
<1>1. t.memo = s.memo /\ t.path = q /\ s.path \in Seq(FieldIds)
  BY EvalStateIs
<1>2. /\ Len(s.path) \in Nat /\ DOMAIN s.path = 1..Len(s.path) /\ DOMAIN q = 1..(Len(s.path) + 1)
      /\ \A i \in 1..Len(s.path) : q[i] = s.path[i]
      /\ q[Len(s.path) + 1] = g
  BY <1>1, FormulaExists, AppendElements
<1> HIDE DEF q, t
<1>3. OpenOf(t) = OpenOf(s)
  BY <1>1 DEF OpenOf
<1>4. OffPath(t) = OffPath(s) \ {g}
  <2>1. ASSUME NEW h PROVE (\A i \in DOMAIN q : q[i] # h) <=> h # g /\ \A i \in DOMAIN s.path : s.path[i] # h
    <3>1. DOMAIN q = DOMAIN s.path \cup {Len(s.path) + 1}
      BY <1>2
    <3> QED
      BY <1>2, <3>1
  <2>2. ASSUME NEW h PROVE h \in OffPath(t) <=> h \in OpenOf(t) /\ \A i \in DOMAIN q : q[i] # h
    BY <1>1 DEF OffPath
  <2>3. ASSUME NEW h PROVE h \in OffPath(s) <=> h \in OpenOf(s) /\ \A i \in DOMAIN s.path : s.path[i] # h
    BY DEF OffPath
  <2> QED
    BY <1>3, <2>1, <2>2, <2>3
<1>5. g \in OffPath(s)
  BY DEF OffPath, OpenOf
<1>6. Cardinality(OffPath(t)) = Cardinality(OffPath(s)) - 1
  BY <1>4, <1>5, WorkIsFinite, FS_RemoveElement
<1>7. Work(t) = Work(s) - 1
  BY <1>3, <1>6, WorkIsFinite DEF Work
<1> QED
  BY <1>7 DEF t

LEMMA EndWorks ==
  ASSUME field \in Schemas, FieldConstants, NEW s \in EvalStates, s.path # <<>>,
         NEW value \in Results \ {Absent}
  PROVE  Work(Ends(s, value)) = Work(s) - 1
<1> DEFINE p == s.path  f == Last(p)  t == Ends(s, value)  q == Front(p)
<1>1. s.path \in Seq(FieldIds) /\ s.memo \in [FieldIds -> Results] /\ OnTheWay(s)
  BY EvalStateIs
<1>2. /\ t.path = q /\ t.memo = [s.memo EXCEPT ![f] = value]
  BY DEF Ends
<1>3. /\ Len(p) \in Nat \ {0} /\ DOMAIN p = 1..Len(p) /\ DOMAIN q = 1..(Len(p) - 1)
      /\ \A i \in 1..(Len(p) - 1) : q[i] = p[i]
      /\ f = p[Len(p)] /\ f \in FieldIds
  BY <1>1, FrontElements
<1> HIDE DEF q, f, t
<1>4. f \in Formulas(field) /\ s.memo[f] = Absent
  BY <1>1, <1>3 DEF OnTheWay
<1>5. \A h \in FieldIds : t.memo[h] = IF h = f THEN value ELSE s.memo[h]
  BY <1>1, <1>2
<1>6. OpenOf(t) = OpenOf(s) \ {f} /\ f \in OpenOf(s)
  BY <1>4, <1>5, FormulaExists DEF OpenOf
<1>7. OffPath(t) = OffPath(s)
  <2>1. ASSUME NEW h, h # f PROVE (\A i \in DOMAIN q : q[i] # h) <=> \A i \in DOMAIN p : p[i] # h
    <3>1. DOMAIN p = DOMAIN q \cup {Len(p)}
      BY <1>3
    <3> QED
      BY <1>3, <2>1, <3>1
  <2>2. f \notin OffPath(s)
    BY <1>3 DEF OffPath
  <2> QED
    BY <1>2, <1>6, <2>1, <2>2 DEF OffPath
<1>8. Cardinality(OpenOf(t)) = Cardinality(OpenOf(s)) - 1
  BY <1>6, WorkIsFinite, FS_RemoveElement
<1>9. Work(t) = Work(s) - 1
  BY <1>7, <1>8, WorkIsFinite DEF Work
<1> QED
  BY <1>9 DEF t

(* A step of the evaluation of a record.                                     *)
LEMMA OrderCovers ==
  ASSUME FieldConstants, NEW order \in Orders, NEW f \in FieldIds
  PROVE  \E i \in DOMAIN order : order[i] = f
<1> DEFINE n == Cardinality(FieldIds)
<1>1. IsFiniteSet(FieldIds) /\ n \in Nat
  BY FS_CardinalityType DEF FieldConstants
<1>2. order \in [1..n -> FieldIds] /\ \A i, j \in 1..n : i # j => order[i] # order[j]
  BY DEF Orders
<1> HIDE DEF n
<1>3. order \in Injection(1..n, FieldIds)
  BY <1>2 DEF Injection, IsInjective
<1>4. Cardinality(1..n) = n
  BY <1>1, FS_Interval
<1>5. order \in Surjection(1..n, FieldIds)
  BY <1>1, <1>3, <1>4, FS_Injection DEF n
<1> QED
  BY <1>2, <1>5 DEF Surjection

LEMMA OrdersExist ==
  ASSUME FieldConstants
  PROVE  Orders # {}
<1>1. PICK order : order \in Bijection(1..Cardinality(FieldIds), FieldIds)
  BY FS_CardinalityType DEF FieldConstants, ExistsBijection
<1>2. order \in Injection(1..Cardinality(FieldIds), FieldIds)
  BY <1>1 DEF Bijection
<1>3. order \in Orders
  BY <1>2 DEF Injection, IsInjective, Orders
<1> QED
  BY <1>3

LEMMA MaterializeStep ==
  ASSUME field \in Schemas, FieldConstants, NEW order \in Orders, NEW s \in EvalStates
  PROVE  /\ MaterializeNext(field, order, s) \in EvalStates
         /\ Work(MaterializeNext(field, order, s)) \in {0, Work(s) - 1}
<1> DEFINE t == MaterializeNext(field, order, s)
           todo == {i \in DOMAIN order : IsFormula(field, order[i]) /\ s.memo[order[i]] = Absent}
<1>1. s.path \in Seq(FieldIds) /\ OnTheWay(s)
  BY EvalStateIs
<1>2. CASE s.path # <<>>
  <2>1. t = Evaluate(field, s)
    BY <1>2 DEF MaterializeNext
  <2> HIDE DEF t
  <2>2. CASE /\ Result(Last(s.path)) \in Results \ {Absent}
             /\ Evaluate(field, s) = Ends(s, Result(Last(s.path)))
    BY <1>2, <2>1, <2>2, EndKeeps, EndWorks DEF t
  <2>3. CASE \E g \in Formulas(field) :
               /\ s.memo[g] = Absent /\ \A i \in DOMAIN s.path : s.path[i] # g
               /\ ComesTo(Last(s.path), g)
               /\ Evaluate(field, s) = [s EXCEPT !.path = Append(@, g)]
    BY <1>2, <2>1, <2>3, BeginKeeps, BeginWorks DEF t
  <2> QED
    BY <1>2, <2>2, <2>3, EvaluateIs
<1>3. CASE s.path = <<>> /\ todo # {}
  <2> DEFINE g == order[Min(todo)]
  <2>1. DOMAIN order \in SUBSET Nat /\ order \in [DOMAIN order -> FieldIds]
    BY DEF Orders
  <2>2. Min(todo) \in todo
    BY <1>3, <2>1, MinIsLeast
  <2>3. g \in FieldIds /\ g \in Formulas(field) /\ s.memo[g] = Absent
    BY <2>1, <2>2 DEF Formulas
  <2>4. t = [s EXCEPT !.path = <<g>>]
    BY <1>3 DEF MaterializeNext
  <2> HIDE DEF g, t, todo
  <2>5. Append(s.path, g) = <<g>> /\ DOMAIN s.path = {}
    BY <1>3
  <2>6. t = [s EXCEPT !.path = Append(@, g)] /\ \A i \in DOMAIN s.path : s.path[i] # g
    BY <2>4, <2>5
  <2> QED
    BY <1>3, <2>3, <2>6, BeginKeeps, BeginWorks DEF t
<1>4. CASE s.path = <<>> /\ todo = {}
  <2>1. t = s
    BY <1>4 DEF MaterializeNext
  <2>2. OpenOf(s) = {}
    <3> SUFFICES ASSUME NEW f \in OpenOf(s) PROVE FALSE
      OBVIOUS
    <3>1. f \in FieldIds /\ IsFormula(field, f) /\ s.memo[f] = Absent
      BY FormulaExists DEF OpenOf
    <3>2. PICK i \in DOMAIN order : order[i] = f
      BY <3>1, OrderCovers
    <3>3. i \in todo
      BY <3>1, <3>2
    <3> QED
      BY <1>4, <3>3
  <2>3. OffPath(s) = {}
    BY <2>2 DEF OffPath
  <2>4. Work(s) = 0
    BY <2>2, <2>3, FS_EmptySet DEF Work
  <2> QED
    BY <2>1, <2>4
<1> QED
  BY <1>2, <1>3, <1>4

-----------------------------------------------------------------------------
(* What a record shows for its formulas.                                     *)
Shown == [f \in FieldIds |-> IF f \in Formulas(field) THEN Result(f) ELSE Absent]

LEMMA MaterializeIsExact ==
  ASSUME field \in Schemas, FieldConstants, NEW order \in Orders
  PROVE  MaterializeRecord(field, order) = Shown
<1> DEFINE a == [path |-> <<>>, memo |-> [f \in FieldIds |-> Absent]]
           N == EvaluationSteps
           G == [s \in EvalStates |-> MaterializeNext(field, order, s)]
           IsRun(r) == r = [n \in 0..N |-> IF n = 0 THEN a
                                            ELSE MaterializeNext(field, order, r[n - 1])]
           state == CHOOSE r : IsRun(r)
<1>1. N \in Nat /\ Work(a) \in Nat /\ Work(a) <= N
  BY WorkIsFinite DEF Work
<1>2. a \in EvalStates
  <2>1. a.path = <<>> /\ a.memo = [f \in FieldIds |-> Absent] /\ DOMAIN a.path = {}
    OBVIOUS
  <2>2. a \in [path : Seq(FieldIds), memo : [FieldIds -> Results]]
    BY DEF Results
  <2>3. OnTheWay(a)
    BY <2>1 DEF OnTheWay
  <2> QED
    BY <2>2, <2>3 DEF EvalStates
<1>3. G \in [EvalStates -> EvalStates]
  BY MaterializeStep
<1> HIDE DEF a, N, G
<1>4. PICK f : StepsFrom(f, EvalStates, a, G, N)
  BY <1>1, <1>2, <1>3, StepsDefineAFunction
<1>5. IsRun(f)
  <2>1. ASSUME NEW n \in 0..N, n # 0 PROVE G[f[n - 1]] = MaterializeNext(field, order, f[n - 1])
    <3>1. n - 1 \in 0..N
      BY <1>1, <2>1
    <3>2. f[n - 1] \in EvalStates
      BY <1>4, <3>1 DEF StepsFrom
    <3> QED
      BY <3>2 DEF G
  <2>2. [n \in 0..N |-> IF n = 0 THEN a ELSE G[f[n - 1]]]
          = [n \in 0..N |-> IF n = 0 THEN a ELSE MaterializeNext(field, order, f[n - 1])]
    BY <2>1
  <2> QED
    BY <1>4, <2>2 DEF StepsFrom
<1>6. IsRun(state)
  BY <1>5
<1> HIDE DEF state
<1>7. state[0] = a
  BY <1>1, <1>6
<1>8. ASSUME NEW n \in 0..N, n # 0 PROVE state[n] = MaterializeNext(field, order, state[n - 1])
  BY <1>6, <1>8
<1> HIDE DEF IsRun
<1> DEFINE Good(n) == state[n] \in EvalStates /\ Work(state[n]) <= N - n
           bad == {n \in 0..N : ~Good(n)}
<1>9. Good(0)
  BY <1>1, <1>2, <1>7
<1>10. ASSUME NEW n \in 0..N, n # 0, Good(n - 1) PROVE Good(n)
  <2>1. /\ state[n] \in EvalStates
        /\ Work(state[n]) \in {0, Work(state[n - 1]) - 1}
    BY <1>8, <1>10, MaterializeStep
  <2>2. Work(state[n]) \in Nat /\ Work(state[n - 1]) \in Nat
    BY WorkIsFinite DEF Work
  <2> QED
    BY <1>1, <1>10, <2>1, <2>2
<1>11. bad = {}
  <2> SUFFICES ASSUME bad # {} PROVE FALSE
    OBVIOUS
  <2> HIDE DEF Good
  <2>1. bad \in SUBSET Nat
    BY <1>1
  <2>2. PICK n \in bad : \A m \in bad : n <= m
    <3> HIDE DEF bad
    <3> QED
      BY <2>1, LeastOf
  <2>3. n \in 0..N /\ ~Good(n) /\ n # 0
    BY <1>9
  <2>4. n - 1 \in 0..N /\ ~(n <= n - 1)
    BY <1>1, <2>3
  <2>5. Good(n - 1)
    BY <2>2, <2>4
  <2> QED
    BY <1>10, <2>3, <2>5
<1>12. state[N] \in EvalStates /\ Work(state[N]) <= 0
  BY <1>1, <1>11
<1> DEFINE memo == state[N].memo
<1>13. OpenOf(state[N]) = {}
  BY <1>12, WorkIsFinite, FS_EmptySet DEF Work
<1>14. memo \in [FieldIds -> Results] /\ OnTheWay(state[N])
  BY <1>12, EvalStateIs
<1>15. ASSUME NEW f1 \in FieldIds PROVE memo[f1] = Shown[f1]
  <2>1. CASE f1 \in Formulas(field)
    BY <1>13, <1>14, <2>1 DEF OnTheWay, OpenOf, Shown
  <2>2. CASE f1 \notin Formulas(field)
    BY <1>14, <2>2 DEF OnTheWay, Shown
  <2> QED
    BY <2>1, <2>2
<1>16. memo = Shown
  BY <1>14, <1>15 DEF Shown
<1>17. MaterializeRecord(field, order) = memo
  BY DEF MaterializeRecord, state, IsRun, N, a
<1> QED
  BY <1>16, <1>17

(* In every schema the errors are the ones there should be. *)
LEMMA ErrorsAreExact ==
  ASSUME field \in Schemas, FieldConstants
  PROVE  FormulaErrorsExact
<1> DEFINE shown == MaterializeRecord(field, CHOOSE order \in Orders : TRUE)
<1>1. shown = Shown
  BY OrdersExist, MaterializeIsExact
<1>2. \A order \in Orders : MaterializeRecord(field, order) = Shown
  BY MaterializeIsExact
<1>3. \A f \in FieldIds : IsFormula(field, f) => (Shown[f] = "ok") = ~BrokenFormula(f)
  BY DEF Shown, Formulas, Result
<1> QED
  BY <1>1, <1>2, <1>3 DEF FormulaErrorsExact

LEMMA ErrorsSafe ==
  ASSUME FieldConstants, DesignInv
  PROVE  FormulaErrorsExact
BY ErrorsAreExact DEF DesignInv, DesignTypes

(* Whatever the order of the fields, a formula shows an error exactly when   *)
(* it depends on a field that is gone or on a circle (formula_engine.py,     *)
(* materialize_record), after any edits.                                     *)
THEOREM FormulaErrorsAreExact ==
  ASSUME FieldConstants
  PROVE  InitDesign /\ [][NextDesign]_varsDesign => []FormulaErrorsExact
<1>1. DesignInv => FormulaErrorsExact
  BY ErrorsSafe
<1> QED
  BY <1>1, DesignInit, DesignStep, PTL

-----------------------------------------------------------------------------
(* Boards, for any cards, fields and requests.                              *)
(*                                                                           *)
(* The argument: a move locks its card, its anchors and, to renumber, its    *)
(* whole cell, so that when it commits the anchors are still in the cell and *)
(* the rank it chose is between theirs. A renumbering keeps the order of the *)
(* cards it writes.                                                          *)

BoardConstants ==
    /\ NCards \in Nat /\ MinGap \in Nat /\ MinGap >= 1 /\ RankStep \in Nat /\ RankStep >= 2
    /\ NoCard \notin Cards /\ NoField \notin Fields /\ Keep \notin Contents

Grids == [Cards -> [Fields -> Contents]]
Placements == [Cards -> [rank : Int, rev : Nat]]
ValidConfigs == {cfg \in [group : Fields, lane : Fields \cup {NoField}] : cfg.lane # cfg.group}

(* A move that is on its way knows what it has read ... *)
MoveShape(e) ==
    /\ e.card \in Cards /\ e.before \in Cards \cup {NoCard} /\ e.after \in Cards \cup {NoCard}
    /\ e.card \notin Anchors(e)
    /\ e.cfg \in ValidConfigs /\ e.cell \in Contents \X Contents /\ e.setLane \in BOOLEAN
    /\ e.rank \in Int
    /\ e.seen.data \in Grids /\ e.seen.live \subseteq Cards /\ e.seen.placed \in Placements
    /\ e.setLane => e.cfg.lane # NoField

(* ... and, if it renumbers the cell, in which order. *)
OthersSeen(e) == {x \in e.seen.live : CellIn(e.seen.data, e.cfg, x) = e.cell} \ {e.card}
Position(rows, S, x) == Cardinality({y \in S : y = x \/ AheadIn(rows, y, x)})
Renumbering(e) ==
    \/ e.fresh = [x \in {} |-> 0]
    \/ e.fresh = [x \in OthersSeen(e) |-> RankStep * Position(e.seen.placed, OthersSeen(e), x)]

(* What it has locked is still as it was: the lane the card stays in, the    *)
(* cell of the anchors, and the room between them.                           *)
RankOf(e, x) == IF x \in DOMAIN e.fresh THEN e.fresh[x] ELSE Rank(x)
StillHolds(e) ==
    /\ e.card \in live /\ Anchors(e) \subseteq live
    /\ e.cfg.lane = NoField => e.cell[2] = NoValue
    /\ e.cfg.lane # NoField /\ ~e.setLane => data[e.card][e.cfg.lane] = e.cell[2]
    /\ \A x \in Anchors(e) : CellIn(data, e.cfg, x) = e.cell
    /\ e.before # NoCard => RankOf(e, e.before) < e.rank
    /\ e.after # NoCard => e.rank < RankOf(e, e.after)

BoardsInv ==
    /\ config \in ValidConfigs /\ data \in Grids /\ live \subseteq Cards /\ placed \in Placements
    /\ DOMAIN moving = Movers
    /\ \A m \in Movers : moving[m] # Resting =>
          MoveShape(moving[m]) /\ Renumbering(moving[m]) /\ StillHolds(moving[m])
    /\ \A m, n \in Movers : m # n => Locks(m) \cap Locks(n) = {}

(* The cards of a cell are numbered in the order they are shown in. *)
LEMMA AheadIsAnOrder ==
  ASSUME NCards \in Nat, NEW rows \in Placements, RankStep \in Nat
  PROVE  /\ \A x \in Cards : RankIn(rows, x) \in Int
         /\ \A x, y, z \in Cards : AheadIn(rows, x, y) /\ AheadIn(rows, y, z) => AheadIn(rows, x, z)
         /\ \A x, y \in Cards : x = y \/ AheadIn(rows, x, y) \/ AheadIn(rows, y, x)
         /\ \A x, y \in Cards : ~(AheadIn(rows, x, y) /\ AheadIn(rows, y, x))
         /\ \A x \in Cards : ~AheadIn(rows, x, x)
<1>1. ASSUME NEW x \in Cards PROVE RankIn(rows, x) \in Int /\ x \in Int
  <2>1. x * RankStep \in Int /\ rows[x].rank \in Int /\ x \in Int
    BY DEF Cards, Placements
  <2> QED
    BY <2>1 DEF RankIn
<1> QED
  BY <1>1 DEF AheadIn

LEMMA PositionsAreOrdered ==
  ASSUME NCards \in Nat, NEW rows \in Placements, RankStep \in Nat, NEW S \in SUBSET Cards,
         NEW x \in S, NEW y \in S
  PROVE  /\ Position(rows, S, x) \in Nat
         /\ AheadIn(rows, x, y) => Position(rows, S, x) < Position(rows, S, y)
         /\ Position(rows, S, x) = Position(rows, S, y) => x = y
         /\ AheadIn(rows, x, y) <=> Position(rows, S, x) < Position(rows, S, y)
<1> DEFINE Up(z) == {w \in S : w = z \/ AheadIn(rows, w, z)}
<1>1. IsFiniteSet(S)
  <2>1. IsFiniteSet(Cards)
    BY FS_Interval DEF Cards
  <2> QED
    BY <2>1, FS_Subset
<1>2. ASSUME NEW z \in S PROVE IsFiniteSet(Up(z)) /\ Cardinality(Up(z)) \in Nat
  <2>1. Up(z) \in SUBSET S
    OBVIOUS
  <2> HIDE DEF Up
  <2> QED
    BY <1>1, <2>1, FS_Subset, FS_CardinalityType
<1>3. \A z \in S : Position(rows, S, z) = Cardinality(Up(z))
  BY DEF Position
<1>4. ASSUME NEW u \in S, NEW v \in S, AheadIn(rows, u, v)
      PROVE  Cardinality(Up(u)) < Cardinality(Up(v))
  <2>1. Up(u) \in SUBSET Up(v) /\ v \in Up(v) /\ v \notin Up(u)
    BY <1>4, AheadIsAnOrder
  <2> HIDE DEF Up
  <2>2. Cardinality(Up(u)) <= Cardinality(Up(v)) /\ Up(u) # Up(v)
    BY <1>2, <2>1, FS_Subset
  <2>3. Cardinality(Up(u)) # Cardinality(Up(v))
    BY <1>2, <2>1, <2>2, FS_Subset
  <2> QED
    BY <1>2, <2>2, <2>3
<1> HIDE DEF Up
<1>5. x = y \/ AheadIn(rows, x, y) \/ AheadIn(rows, y, x)
  BY AheadIsAnOrder
<1>6. ~AheadIn(rows, x, x)
  BY AheadIsAnOrder
<1> QED
  BY <1>2, <1>3, <1>4, <1>5, <1>6

(* The middle of a gap is inside it. *)
LEMMA Middle ==
  ASSUME NEW a \in Int, NEW b \in Int, a + 2 <= b
  PROVE  a < (a + b) \div 2 /\ (a + b) \div 2 < b
OBVIOUS

LEMMA StepsApart ==
  ASSUME NEW k \in Nat, k >= 2, NEW a \in Nat, NEW b \in Nat, a < b
  PROVE  k * a + 2 <= k * b
<1>1. PICK c \in Nat : b = a + 1 + c
  <2>1. b - a - 1 \in Nat /\ b = a + 1 + (b - a - 1)
    OBVIOUS
  <2> QED
    BY <2>1
<1>2. k * b = k * a + k + k * c
  BY <1>1
<1>3. k * c \in Nat /\ k * a \in Nat
  OBVIOUS
<1> QED
  BY <1>2, <1>3

(* Ranks have a greatest one. *)
LEMMA GreatestRank ==
  ASSUME NCards \in Nat, NEW S \in SUBSET Cards, S # {}, NEW rank, \A x \in S : rank[x] \in Int
  PROVE  \E n \in {rank[x] : x \in S} : \A x \in S : rank[x] <= n
<1> DEFINE Over(x) == {y \in S : rank[x] < rank[y]}
<1>1. IsFiniteSet(S)
  <2>1. IsFiniteSet(Cards)
    BY FS_Interval DEF Cards
  <2> QED
    BY <2>1, FS_Subset
<1>2. ASSUME NEW x \in S PROVE IsFiniteSet(Over(x)) /\ Cardinality(Over(x)) \in Nat
  <2>1. Over(x) \in SUBSET S
    OBVIOUS
  <2> HIDE DEF Over
  <2> QED
    BY <1>1, <2>1, FS_Subset, FS_CardinalityType
<1> DEFINE counts == {Cardinality(Over(x)) : x \in S}
<1>3. counts \in SUBSET Nat /\ counts # {}
  <2> HIDE DEF Over
  <2> QED
    BY <1>2
<1>4. PICK n \in counts : \A k \in counts : n <= k
  <2> HIDE DEF counts
  <2> QED
    BY <1>3, LeastOf
<1>5. PICK x \in S : n = Cardinality(Over(x))
  OBVIOUS
<1>6. ASSUME NEW y \in S, ~(rank[y] <= rank[x]) PROVE FALSE
  <2>1. y \in Over(x) /\ y \notin Over(y) /\ Over(y) \in SUBSET Over(x)
    BY <1>6
  <2>2. Cardinality(Over(x)) <= Cardinality(Over(y))
    BY <1>4, <1>5
  <2> HIDE DEF Over
  <2>3. Cardinality(Over(y)) <= Cardinality(Over(x)) /\ (Cardinality(Over(y)) = Cardinality(Over(x)) => Over(y) = Over(x))
    BY <1>2, <2>1, FS_Subset
  <2> QED
    BY <1>2, <2>1, <2>2, <2>3
<1> QED
  BY <1>6

(* A move keeps what it relies on while nobody writes what it has locked.    *)
LEMMA HoldsWhileLocked ==
  ASSUME NEW e, MoveShape(e), StillHolds(e),
         \A x \in {e.card} \cup Anchors(e) :
            data'[x] = data[x] /\ placed'[x] = placed[x] /\ x \in live'
  PROVE  StillHolds(e)'
<1>1. /\ e.card \in {e.card} \cup Anchors(e)
      /\ e.before # NoCard => e.before \in Anchors(e)
      /\ e.after # NoCard => e.after \in Anchors(e)
  BY DEF Anchors
<1>2. \A x \in Anchors(e) : CellIn(data', e.cfg, x) = CellIn(data, e.cfg, x)
  BY DEF CellIn
<1>3. \A x \in Anchors(e) : RankOf(e, x)' = RankOf(e, x)
  BY DEF RankOf, Rank, RankIn
<1> QED
  BY <1>1, <1>2, <1>3 DEF StillHolds

LEMMA MovesAreKept ==
  ASSUME BoardsInv, NEW M \in SUBSET Movers,
         config' \in ValidConfigs, data' \in Grids, live' \subseteq Cards, placed' \in Placements,
         DOMAIN moving' = Movers,
         \A n \in M : /\ moving'[n] = moving[n]
                       /\ \A x \in Locks(n) :
                            data'[x] = data[x] /\ placed'[x] = placed[x] /\ x \in live',
         \A m \in Movers \ M :
            \/ moving'[m] = Resting
            \/ /\ MoveShape(moving'[m]) /\ Renumbering(moving'[m]) /\ StillHolds(moving[m])'
               /\ \A n \in M : ({moving'[m].card} \cup Anchors(moving'[m])) \cap Locks(n) = {},
         \A m, n \in Movers \ M : m # n => moving'[m] = Resting \/ moving'[n] = Resting
  PROVE  BoardsInv'
<1>1. ASSUME NEW n \in M, moving[n] # Resting
      PROVE  MoveShape(moving'[n]) /\ Renumbering(moving'[n]) /\ StillHolds(moving[n])'
  <2>1. PICK e : e = moving[n] /\ e = moving'[n]
    OBVIOUS
  <2>2. MoveShape(e) /\ Renumbering(e) /\ StillHolds(e)
    BY <1>1, <2>1 DEF BoardsInv
  <2>3. Locks(n) = {e.card} \cup Anchors(e)
    BY <1>1, <2>1 DEF Locks
  <2>4. StillHolds(e)'
    BY <2>2, <2>3, HoldsWhileLocked
  <2> QED
    BY <2>1, <2>2, <2>4 DEF StillHolds, RankOf
<1>2. \A m \in Movers : moving'[m] # Resting =>
         MoveShape(moving'[m]) /\ Renumbering(moving'[m]) /\ StillHolds(moving[m])'
  BY <1>1
<1>3. \A n \in M : Locks(n)' = Locks(n)
  BY DEF Locks
<1>4. \A m \in Movers \ M, n \in M : Locks(m)' \cap Locks(n) = {}
  BY DEF Locks
<1>5. \A m, n \in Movers : m # n => Locks(m)' \cap Locks(n)' = {}
  <2> TAKE m, n \in Movers
  <2> SUFFICES ASSUME m # n PROVE Locks(m)' \cap Locks(n)' = {}
    OBVIOUS
  <2>1. CASE m \in M /\ n \in M
    BY <1>3, <2>1 DEF BoardsInv
  <2>2. CASE m \in M /\ n \notin M
    BY <1>3, <1>4, <2>2
  <2>3. CASE m \notin M /\ n \in M
    BY <1>3, <1>4, <2>3
  <2>4. CASE m \notin M /\ n \notin M
    <3>1. moving'[m] = Resting \/ moving'[n] = Resting
      BY <2>4
    <3> QED
      BY <3>1 DEF Locks
  <2> QED
    BY <2>1, <2>2, <2>3, <2>4
<1> QED
  BY <1>2, <1>5 DEF BoardsInv

LEMMA BoardsInit ==
  ASSUME BoardConstants, InitBoards
  PROVE  BoardsInv
<1>1. \A m \in Movers : moving[m] = Resting
  BY DEF InitBoards
<1>2. config \in ValidConfigs
  BY DEF InitBoards, ValidConfigs, BoardConstants
<1>3. data \in Grids /\ live \subseteq Cards
  BY DEF InitBoards, Grids, Contents
<1>4. placed \in Placements
  BY DEF InitBoards, Placements, NoRow
<1>5. \A m, n \in Movers : Locks(m) \cap Locks(n) = {}
  BY <1>1 DEF Locks
<1> QED
  BY <1>1, <1>2, <1>3, <1>4, <1>5 DEF BoardsInv, InitBoards

(* Everything but moves leaves what is locked alone. *)
LEMMA OtherWritesKeep ==
  ASSUME BoardConstants, BoardsInv,
         \/ \E g \in Fields, l \in Fields \cup {NoField} : ConfigureBoard(g, l)
         \/ \E x \in Cards, f \in Fields, v \in Contents : EditRecord(x, f, v)
         \/ \E x \in Cards : DeleteRecord(x) \/ CreateRecord(x)
  PROVE  BoardsInv'
<1>1. /\ config \in ValidConfigs /\ data \in Grids /\ live \subseteq Cards /\ placed \in Placements
      /\ DOMAIN moving = Movers
  BY DEF BoardsInv
<1>2. \A n \in Movers : Locks(n) \subseteq Locked
  BY DEF Locked
<1>3. \A n \in Movers : Locks(n) \subseteq live
  BY DEF Locks, BoardsInv, StillHolds
<1>4. ASSUME config' \in ValidConfigs, data' \in Grids, live' \subseteq Cards, placed' \in Placements,
             moving' = moving,
             \A x \in Locked \cap live : data'[x] = data[x] /\ placed'[x] = placed[x] /\ x \in live'
      PROVE  BoardsInv'
  BY <1>1, <1>2, <1>3, <1>4, MovesAreKept
<1>5. CASE \E g \in Fields, l \in Fields \cup {NoField} : ConfigureBoard(g, l)
  <2>1. config' \in ValidConfigs /\ UNCHANGED <<data, live, placed, moving>>
    BY <1>5 DEF ConfigureBoard, ValidBoard, ValidConfigs, BoardConstants
  <2> QED
    BY <1>1, <1>4, <2>1
<1>6. CASE \E x \in Cards, f \in Fields, v \in Contents : EditRecord(x, f, v)
  <2>1. PICK x \in Cards, f \in Fields, v \in Contents : EditRecord(x, f, v)
    BY <1>6
  <2>2. x \notin Locked /\ data' = [data EXCEPT ![x][f] = v] /\ UNCHANGED <<config, live, placed, moving>>
    BY <2>1 DEF EditRecord
  <2>3. data' \in Grids /\ \A y \in Cards : y # x => data'[y] = data[y]
    BY <1>1, <2>2 DEF Grids
  <2> QED
    BY <1>1, <1>4, <2>2, <2>3
<1>7. CASE \E x \in Cards : DeleteRecord(x)
  <2>1. PICK x \in Cards : DeleteRecord(x)
    BY <1>7
  <2>2. /\ x \notin Locked /\ live' = live \ {x} /\ placed' = [placed EXCEPT ![x] = NoRow]
        /\ UNCHANGED <<config, data, moving>>
    BY <2>1 DEF DeleteRecord
  <2>3. placed' \in Placements /\ \A y \in Cards : y # x => placed'[y] = placed[y]
    BY <1>1, <2>2 DEF Placements, NoRow
  <2> QED
    BY <1>1, <1>4, <2>2, <2>3
<1>8. CASE \E x \in Cards : CreateRecord(x)
  <2>1. PICK x \in Cards : CreateRecord(x)
    BY <1>8
  <2>2. /\ x \notin live /\ live' = live \cup {x} /\ data' = [data EXCEPT ![x] = [f \in Fields |-> NoValue]]
        /\ UNCHANGED <<config, placed, moving>>
    BY <2>1 DEF CreateRecord
  <2>3. data' \in Grids /\ \A y \in Cards : y # x => data'[y] = data[y]
    BY <1>1, <2>2 DEF Grids, Contents
  <2> QED
    BY <1>1, <1>4, <2>2, <2>3
<1> QED
  BY <1>5, <1>6, <1>7, <1>8

-----------------------------------------------------------------------------
(* A move that begins is put between its anchors. *)
LEMMA PlaceIsBetween ==
  ASSUME BoardConstants, NEW rank \in [Cards -> Int],
         NEW before \in Cards \cup {NoCard}, NEW after \in Cards \cup {NoCard},
         NEW others \in SUBSET Cards,
         before # NoCard /\ after # NoCard => rank[before] + 2 <= rank[after]
  PROVE  /\ PlaceBetween(rank, before, after, others) \in Int
         /\ before # NoCard => rank[before] < PlaceBetween(rank, before, after, others)
         /\ after # NoCard => PlaceBetween(rank, before, after, others) < rank[after]
<1> DEFINE place == PlaceBetween(rank, before, after, others)
<1>1. RankStep \in Nat /\ RankStep >= 2 /\ NCards \in Nat
  BY DEF BoardConstants
<1>2. CASE before # NoCard /\ after # NoCard
  <2>1. place = (rank[before] + rank[after]) \div 2
    BY <1>2 DEF PlaceBetween
  <2>2. rank[before] \in Int /\ rank[after] \in Int
    BY <1>2
  <2> HIDE DEF place
  <2>3. rank[before] < place /\ place < rank[after] /\ place \in Int
    BY <1>2, <2>1, <2>2, Middle
  <2> QED
    BY <2>3 DEF place
<1>3. CASE before # NoCard /\ after = NoCard
  <2>1. place = rank[before] + RankStep
    BY <1>3 DEF PlaceBetween
  <2> QED
    BY <1>1, <1>3, <2>1
<1>4. CASE before = NoCard /\ after # NoCard
  <2>1. place = rank[after] - RankStep
    BY <1>4 DEF PlaceBetween
  <2> QED
    BY <1>1, <1>4, <2>1
<1>5. CASE before = NoCard /\ after = NoCard
  <2> DEFINE all == {rank[x] : x \in others}
             top == CHOOSE n \in all : \A x \in others : rank[x] <= n
  <2>1. place = RankStep + (IF others = {} THEN 0 ELSE top)
    BY <1>5 DEF PlaceBetween
  <2>2. others # {} => top \in all
    <3>1. others # {} => \E n \in all : \A x \in others : rank[x] <= n
      BY <1>1, GreatestRank
    <3> HIDE DEF all
    <3> QED
      BY <3>1
  <2>3. all \subseteq Int
    OBVIOUS
  <2> HIDE DEF all, top, place
  <2>4. (IF others = {} THEN 0 ELSE top) \in Int
    <3>1. CASE others = {}
      BY <3>1
    <3>2. CASE others # {}
      <4>1. top \in Int
        BY <2>2, <2>3, <3>2
      <4> QED
        BY <3>2, <4>1
    <3> QED
      BY <3>1, <3>2
  <2>5. place \in Int
    BY <1>1, <2>1, <2>4
  <2> QED
    BY <1>5, <2>5 DEF place
<1> QED
  BY <1>2, <1>3, <1>4, <1>5

LEMMA BeginMoveKeeps ==
  ASSUME BoardConstants, BoardsInv, NEW m \in Movers, NEW card \in Cards, NEW col \in Contents,
         NEW lane \in Contents \cup {Keep}, NEW before \in Cards \cup {NoCard},
         NEW after \in Cards \cup {NoCard}, BeginMove(m, card, col, lane, before, after)
  PROVE  BoardsInv'
<1> DEFINE cell == <<col, IF config.lane = NoField THEN NoValue
                          ELSE IF lane = Keep THEN data[card][config.lane] ELSE lane>>
           others == InCell(config, cell) \ {card}
           fresh == IF Crowded(before, after) THEN Rebalanced(others) ELSE [x \in {} |-> 0]
           rank == [x \in Cards |-> IF x \in DOMAIN fresh THEN fresh[x] ELSE Rank(x)]
           place == PlaceBetween(rank, before, after, others)
           e == [card |-> card, before |-> before, after |-> after, cfg |-> config,
                 cell |-> cell, setLane |-> lane # Keep, fresh |-> fresh, rank |-> place,
                 seen |-> [data |-> data, live |-> live, placed |-> placed]]
<1>1. /\ moving[m] = Resting /\ card \in live \ Locked
      /\ {before, after} \ {NoCard} \subseteq others \ Locked
      /\ lane # Keep => config.lane # NoField
      /\ (before # NoCard /\ after # NoCard) => rank[before] < rank[after]
      /\ moving' = [moving EXCEPT ![m] = e]
      /\ UNCHANGED <<config, data, live, placed>>
  BY DEF BeginMove
<1>2. /\ config \in ValidConfigs /\ data \in Grids /\ live \subseteq Cards /\ placed \in Placements
      /\ DOMAIN moving = Movers
  BY DEF BoardsInv
<1>3. /\ NCards \in Nat /\ RankStep \in Nat /\ RankStep >= 2 /\ MinGap \in Nat /\ MinGap >= 1
      /\ NoCard \notin Cards
  BY DEF BoardConstants
<1>4. others \subseteq Cards /\ card \notin others /\ \A x \in others : x \in live /\ CellIn(data, config, x) = cell
  BY <1>2 DEF InCell, CellOf
<1>5. cell \in Contents \X Contents
  BY <1>2 DEF ValidConfigs, Grids, Contents
<1>6. /\ config.lane = NoField => cell[2] = NoValue
      /\ config.lane # NoField /\ lane = Keep => data[card][config.lane] = cell[2]
  OBVIOUS
<1>7. others = {x \in live : CellIn(data, config, x) = cell} \ {card}
  BY DEF InCell, CellOf
<1> HIDE DEF cell, others
<1>8. fresh \in {[x \in {} |-> 0], [x \in others |-> RankStep * Position(placed, others, x)]}
  BY DEF Rebalanced, Position, Ahead
<1>9. Crowded(before, after) => fresh = [x \in others |-> RankStep * Position(placed, others, x)]
  BY DEF Rebalanced, Position, Ahead
<1>10. ~Crowded(before, after) => fresh = [x \in {} |-> 0]
  OBVIOUS
<1> HIDE DEF fresh
<1>11. \A x \in others : Position(placed, others, x) \in Nat
  BY <1>2, <1>3, <1>4, PositionsAreOrdered
<1>12. \A x \in Cards : Rank(x) \in Int
  BY <1>2, <1>3, AheadIsAnOrder DEF Rank
<1>13. rank \in [Cards -> Int]
  <2>1. \A x \in Cards : x \in DOMAIN fresh => fresh[x] \in Int
    BY <1>3, <1>8, <1>11
  <2> QED
    BY <1>12, <2>1
<1>14. before # NoCard /\ after # NoCard => rank[before] + 2 <= rank[after]
  <2> SUFFICES ASSUME before # NoCard, after # NoCard PROVE rank[before] + 2 <= rank[after]
    OBVIOUS
  <2>1. before \in others /\ after \in others /\ before \in Cards /\ after \in Cards
    BY <1>1, <1>4
  <2>2. CASE Crowded(before, after)
    <3> DEFINE a == Position(placed, others, before)  b == Position(placed, others, after)
    <3>1. rank[before] = RankStep * a /\ rank[after] = RankStep * b
      BY <1>9, <2>1, <2>2
    <3>2. a \in Nat /\ b \in Nat
      BY <1>11, <2>1
    <3>3. RankStep * a < RankStep * b
      BY <1>1, <3>1
    <3> HIDE DEF a, b, rank
    <3>4. a < b
      <4>1. CASE b <= a
        <5>1. b = a \/ b < a
          BY <3>2, <4>1
        <5>2. b < a => RankStep * b + 2 <= RankStep * a
          BY <1>3, <3>2, StepsApart
        <5>3. RankStep * a \in Nat /\ RankStep * b \in Nat
          BY <1>3, <3>2
        <5> QED
          BY <3>3, <5>1, <5>2, <5>3
      <4> QED
        BY <3>2, <4>1
    <3> QED
      BY <1>3, <3>1, <3>2, <3>4, StepsApart
  <2>3. CASE ~Crowded(before, after)
    <3>1. rank[before] = Rank(before) /\ rank[after] = Rank(after)
      BY <1>10, <2>1, <2>3
    <3>2. ~(Rank(after) - Rank(before) <= MinGap)
      BY <2>3 DEF Crowded
    <3> QED
      BY <1>3, <1>12, <2>1, <3>1, <3>2
  <2> QED
    BY <2>2, <2>3
<1> HIDE DEF rank
<1>15. /\ place \in Int
       /\ before # NoCard => rank[before] < place
       /\ after # NoCard => place < rank[after]
  BY <1>4, <1>13, <1>14, PlaceIsBetween
<1> HIDE DEF place
<1>16. PICK new : new = e
  OBVIOUS
<1>17. /\ new.card = card /\ new.before = before /\ new.after = after /\ new.cfg = config
       /\ new.cell = cell /\ new.fresh = fresh /\ new.rank = place
       /\ new.seen.data = data /\ new.seen.live = live /\ new.seen.placed = placed
  BY <1>16
<1>18. new.setLane = (lane # Keep)
  BY <1>16
<1> HIDE DEF e
<1>19. Anchors(new) = {before, after} \ {NoCard} /\ card \notin Anchors(new)
  BY <1>1, <1>4, <1>17 DEF Anchors
<1>20. MoveShape(new)
  BY <1>1, <1>2, <1>5, <1>15, <1>17, <1>18, <1>19 DEF MoveShape
<1>21. Renumbering(new)
  <2>1. OthersSeen(new) = others
    BY <1>7, <1>17 DEF OthersSeen
  <2> QED
    BY <1>8, <1>17, <2>1 DEF Renumbering
<1>22. StillHolds(new)
  <2>1. \A x \in Cards : RankOf(new, x) = rank[x]
    BY <1>17 DEF RankOf, rank
  <2>2. \A x \in Anchors(new) : x \in live /\ CellIn(data, config, x) = cell
    BY <1>1, <1>4, <1>19
  <2> QED
    BY <1>1, <1>6, <1>15, <1>17, <1>18, <2>1, <2>2 DEF StillHolds
<1>23. moving'[m] = new /\ DOMAIN moving' = Movers /\ \A n \in Movers \ {m} : moving'[n] = moving[n]
  BY <1>1, <1>2, <1>16 DEF e
<1>24. StillHolds(moving[m])'
  BY <1>1, <1>22, <1>23 DEF StillHolds, RankOf, Rank, RankIn
<1>25. \A n \in Movers : ({new.card} \cup Anchors(new)) \cap Locks(n) = {}
  BY <1>1, <1>17, <1>19 DEF Locked
<1>26. \A n \in Movers : \A x \in Locks(n) : x \in live
  BY DEF Locks, BoardsInv, StillHolds
<1> QED
  <2> DEFINE M == Movers \ {m}
  <2>1. /\ M \in SUBSET Movers
        /\ \A n \in M : /\ moving'[n] = moving[n]
                         /\ \A x \in Locks(n) :
                              data'[x] = data[x] /\ placed'[x] = placed[x] /\ x \in live'
    BY <1>1, <1>23, <1>26
  <2>2. \A k \in Movers \ M :
           /\ MoveShape(moving'[k]) /\ Renumbering(moving'[k]) /\ StillHolds(moving[k])'
           /\ \A n \in M : ({moving'[k].card} \cup Anchors(moving'[k])) \cap Locks(n) = {}
    BY <1>20, <1>21, <1>23, <1>24, <1>25
  <2>3. \A k, n \in Movers \ M : k = n
    OBVIOUS
  <2>4. config' \in ValidConfigs /\ data' \in Grids /\ live' \subseteq Cards /\ placed' \in Placements
    BY <1>1, <1>2
  <2> HIDE DEF M
  <2> QED
    BY <1>23, <2>1, <2>2, <2>3, <2>4, MovesAreKept

(* What a committed move writes. *)
Writes(m, e) ==
    /\ moving[m] # Resting /\ moving'[m] = Resting /\ MoveShape(e) /\ Renumbering(e) /\ StillHolds(e)
    /\ DOMAIN moving' = Movers /\ \A n \in Movers \ {m} : moving'[n] = moving[n]
    /\ config' = config /\ live' = live
    /\ data' \in Grids /\ placed' \in Placements
    /\ \A x \in Cards : x # e.card => data'[x] = data[x]
    /\ data'[e.card] = IF e.setLane THEN [data[e.card] EXCEPT ![e.cfg.group] = e.cell[1], ![e.cfg.lane] = e.cell[2]]
                       ELSE [data[e.card] EXCEPT ![e.cfg.group] = e.cell[1]]
    /\ RankIn(placed', e.card) = e.rank
    /\ \A x \in Cards : x # e.card => RankIn(placed', x) = RankOf(e, x)
    /\ \A x \in Cards : x # e.card /\ x \notin DOMAIN e.fresh => placed'[x] = placed[x]
    /\ DOMAIN e.fresh \cap LockedByOthers(m) = {} /\ e.card \notin DOMAIN e.fresh

LEMMA CommitWrites ==
  ASSUME BoardConstants, BoardsInv, NEW m \in Movers, CommitMove(m), NEW e, e = moving[m]
  PROVE  Writes(m, e)
<1> DEFINE moved == [data[e.card] EXCEPT ![e.cfg.group] = e.cell[1]]
           row(x, rank) == [rank |-> rank, rev |-> e.seen.placed[x].rev + 1]
<1>1. /\ e # Resting /\ moving' = [moving EXCEPT ![m] = Resting]
      /\ DOMAIN e.fresh \cap LockedByOthers(m) = {}
      /\ placed' = [x \in Cards |-> CASE x = e.card -> row(x, e.rank)
                                      [] x \in DOMAIN e.fresh -> row(x, e.fresh[x])
                                      [] OTHER -> placed[x]]
      /\ data' = [data EXCEPT ![e.card] =
              IF e.setLane THEN [moved EXCEPT ![e.cfg.lane] = e.cell[2]] ELSE moved]
      /\ config' = config /\ live' = live
  BY DEF CommitMove
<1>2. /\ config \in ValidConfigs /\ data \in Grids /\ live \subseteq Cards /\ placed \in Placements
      /\ DOMAIN moving = Movers
      /\ MoveShape(e) /\ Renumbering(e) /\ StillHolds(e)
  BY <1>1 DEF BoardsInv
<1>3. /\ e.card \in Cards /\ e.cfg.group \in Fields /\ e.cfg.lane \in Fields \cup {NoField} /\ e.rank \in Int
      /\ e.setLane => e.cfg.lane \in Fields
      /\ e.cell[1] \in Contents /\ e.cell[2] \in Contents
      /\ e.seen.placed \in Placements /\ e.seen.live \subseteq Cards
  BY <1>2 DEF MoveShape, ValidConfigs
<1>4. data[e.card] \in [Fields -> Contents] /\ moved \in [Fields -> Contents]
  BY <1>2, <1>3 DEF Grids
<1>5. [moved EXCEPT ![e.cfg.lane] = e.cell[2]]
        = [data[e.card] EXCEPT ![e.cfg.group] = e.cell[1], ![e.cfg.lane] = e.cell[2]]
  OBVIOUS
<1>6. data' \in Grids
  <2>1. (IF e.setLane THEN [moved EXCEPT ![e.cfg.lane] = e.cell[2]] ELSE moved) \in [Fields -> Contents]
    BY <1>3, <1>4
  <2> QED
    BY <1>1, <1>2, <1>3, <2>1 DEF Grids
<1>7. /\ \A x \in Cards : x # e.card => data'[x] = data[x]
      /\ data'[e.card] = IF e.setLane THEN [moved EXCEPT ![e.cfg.lane] = e.cell[2]] ELSE moved
  BY <1>1, <1>2, <1>3 DEF Grids
<1>8. DOMAIN e.fresh \subseteq Cards /\ e.card \notin DOMAIN e.fresh /\ \A x \in DOMAIN e.fresh : e.fresh[x] \in Int
  <2>1. CASE e.fresh = [x \in {} |-> 0]
    BY <2>1
  <2>2. CASE e.fresh = [x \in OthersSeen(e) |-> RankStep * Position(e.seen.placed, OthersSeen(e), x)]
    <3>1. OthersSeen(e) \subseteq Cards /\ e.card \notin OthersSeen(e)
      BY <1>3 DEF OthersSeen
    <3>2. \A x \in OthersSeen(e) : Position(e.seen.placed, OthersSeen(e), x) \in Nat
      BY <1>3, <3>1, PositionsAreOrdered DEF BoardConstants
    <3> QED
      BY <2>2, <3>1, <3>2 DEF BoardConstants
  <2> QED
    BY <1>2, <2>1, <2>2 DEF Renumbering
<1>9. \A x \in Cards : e.seen.placed[x].rev \in Nat /\ placed[x] \in [rank : Int, rev : Nat]
  BY <1>2, <1>3 DEF Placements
<1>10. /\ \A x \in Cards : x # e.card /\ x \notin DOMAIN e.fresh => placed'[x] = placed[x]
       /\ \A x \in DOMAIN e.fresh : placed'[x] = row(x, e.fresh[x])
       /\ placed'[e.card] = row(e.card, e.rank)
  BY <1>1, <1>3, <1>8
<1>11. \A x \in Cards : placed'[x] \in [rank : Int, rev : Nat]
  <2>1. \A x \in Cards, k \in Int : row(x, k) \in [rank : Int, rev : Nat]
    BY <1>9
  <2> HIDE DEF row
  <2> TAKE x \in Cards
  <2>2. CASE x = e.card
    BY <1>3, <1>10, <2>1, <2>2
  <2>3. CASE x \in DOMAIN e.fresh
    BY <1>8, <1>10, <2>1, <2>3
  <2>4. CASE x # e.card /\ x \notin DOMAIN e.fresh
    BY <1>9, <1>10, <2>4
  <2> QED
    BY <2>2, <2>3, <2>4
<1>12. placed' \in Placements
  BY <1>1, <1>11 DEF Placements
<1>13. ASSUME NEW x \in Cards, NEW k \in Int PROVE row(x, k) # NoRow /\ row(x, k).rank = k
  <2>1. row(x, k).rev = e.seen.placed[x].rev + 1 /\ NoRow.rev = 0
    BY DEF NoRow
  <2>2. row(x, k).rev # NoRow.rev
    BY <1>9, <2>1
  <2> QED
    BY <2>2
<1> HIDE DEF row
<1>14. RankIn(placed', e.card) = e.rank
  BY <1>3, <1>10, <1>13 DEF RankIn
<1>15. ASSUME NEW x \in Cards, x # e.card PROVE RankIn(placed', x) = RankOf(e, x)
  <2>1. CASE x \in DOMAIN e.fresh
    <3>1. placed'[x] # NoRow /\ placed'[x].rank = e.fresh[x]
      BY <1>8, <1>10, <1>13, <2>1
    <3> QED
      BY <2>1, <3>1 DEF RankIn, RankOf
  <2>2. CASE x \notin DOMAIN e.fresh
    BY <1>10, <1>15, <2>2 DEF RankIn, RankOf, Rank
  <2> QED
    BY <2>1, <2>2
<1>16. moving'[m] = Resting /\ DOMAIN moving' = Movers /\ \A n \in Movers \ {m} : moving'[n] = moving[n]
  BY <1>1, <1>2
<1> QED
  BY <1>1, <1>2, <1>5, <1>6, <1>7, <1>8, <1>10, <1>12, <1>14, <1>15, <1>16 DEF Writes

LEMMA CommitMoveKeeps ==
  ASSUME BoardConstants, BoardsInv, NEW m \in Movers, CommitMove(m)
  PROVE  BoardsInv'
<1>1. PICK e : e = moving[m]
  OBVIOUS
<1>2. /\ moving[m] # Resting /\ moving'[m] = Resting /\ MoveShape(e)
      /\ DOMAIN moving' = Movers /\ \A n \in Movers \ {m} : moving'[n] = moving[n]
      /\ config' = config /\ live' = live
      /\ data' \in Grids /\ placed' \in Placements
      /\ \A x \in Cards : x # e.card => data'[x] = data[x]
      /\ \A x \in Cards : x # e.card /\ x \notin DOMAIN e.fresh => placed'[x] = placed[x]
      /\ DOMAIN e.fresh \cap LockedByOthers(m) = {}
  <2>1. Writes(m, e)
    BY <1>1, CommitWrites
  <2> QED
    BY <2>1 DEF Writes
<1> DEFINE M == Movers \ {m}
<1>3. config \in ValidConfigs /\ live \subseteq Cards
  BY DEF BoardsInv
<1>4. e.card \in Locks(m)
  BY <1>1, <1>2 DEF Locks
<1>5. \A n \in M : Locks(n) \cap Locks(m) = {}
  BY DEF BoardsInv
<1>6. \A n \in M : Locks(n) \subseteq LockedByOthers(m) /\ Locks(n) \subseteq live
  BY DEF LockedByOthers, Locks, BoardsInv, StillHolds
<1>7. \A n \in M : \A x \in Locks(n) : data'[x] = data[x] /\ placed'[x] = placed[x] /\ x \in live'
  <2> TAKE n \in M
  <2> TAKE x \in Locks(n)
  <2>1. x \in live /\ x \in Cards /\ x # e.card /\ x \notin DOMAIN e.fresh
    BY <1>2, <1>3, <1>4, <1>5, <1>6
  <2> QED
    BY <1>2, <2>1
<1>8. M \in SUBSET Movers /\ \A k, n \in Movers \ M : k = n /\ k = m
  OBVIOUS
<1> HIDE DEF M
<1>9. \A n \in M : moving'[n] = moving[n]
  BY <1>2 DEF M
<1> QED
  BY <1>2, <1>3, <1>7, <1>8, <1>9, MovesAreKept

LEMMA AbandonMoveKeeps ==
  ASSUME BoardsInv, NEW m \in Movers, AbandonMove(m)
  PROVE  BoardsInv'
<1> DEFINE M == Movers \ {m}
<1>1. /\ moving' = [moving EXCEPT ![m] = Resting] /\ UNCHANGED <<config, data, live, placed>>
  BY DEF AbandonMove
<1>2. /\ config \in ValidConfigs /\ data \in Grids /\ live \subseteq Cards /\ placed \in Placements
      /\ DOMAIN moving = Movers
  BY DEF BoardsInv
<1>3. \A n \in Movers : \A x \in Locks(n) : x \in live
  BY DEF Locks, BoardsInv, StillHolds
<1>4. M \in SUBSET Movers /\ \A k, n \in Movers \ M : k = n /\ moving'[k] = Resting
  BY <1>1, <1>2
<1>5. DOMAIN moving' = Movers /\ \A n \in M : moving'[n] = moving[n]
  BY <1>1, <1>2
<1> HIDE DEF M
<1>6. \A n \in M : \A x \in Locks(n) : data'[x] = data[x] /\ placed'[x] = placed[x] /\ x \in live'
  BY <1>1, <1>3, <1>4
<1> QED
  BY <1>1, <1>2, <1>4, <1>5, <1>6, MovesAreKept

LEMMA BoardsSteps ==
  ASSUME BoardConstants, BoardsInv, [NextBoards]_varsBoards
  PROVE  BoardsInv'
<1>1. CASE UNCHANGED varsBoards
  BY <1>1 DEF varsBoards, BoardsInv, StillHolds, RankOf, Rank, RankIn, Locks
<1>2. CASE \E m \in Movers, card \in Cards, col \in Contents, lane \in Contents \cup {Keep},
              before, after \in Cards \cup {NoCard} : BeginMove(m, card, col, lane, before, after)
  BY <1>2, BeginMoveKeeps
<1>3. CASE \E m \in Movers : CommitMove(m) \/ AbandonMove(m)
  BY <1>3, CommitMoveKeeps, AbandonMoveKeeps
<1> QED
  BY <1>1, <1>2, <1>3, OtherWritesKeep DEF NextBoards

(* Only a commit writes places and ends a move. *)
LEMMA MoveLands ==
  ASSUME BoardConstants, BoardsInv, [NextBoards]_varsBoards
  PROVE  MovesLandInPlaceStep
<1> SUFFICES ASSUME NEW m \in Movers, moving[m] # Resting, moving'[m] = Resting, placed' # placed,
                    NEW e, e = moving[m]
             PROVE  /\ CellIn(data', e.cfg, e.card) = e.cell
                    /\ e.before # NoCard => RankIn(placed', e.before) < RankIn(placed', e.card)
                    /\ e.after # NoCard => RankIn(placed', e.card) < RankIn(placed', e.after)
                    /\ \A x \in Anchors(e) : CellIn(data', e.cfg, x) = e.cell
                    /\ e.seen = [data |-> data, live |-> live, placed |-> placed] =>
                         \A x, y \in live \ {e.card} :
                            /\ x \in live' /\ CellIn(data', e.cfg, x) = CellIn(data, e.cfg, x)
                            /\ CellIn(data, e.cfg, x) = CellIn(data, e.cfg, y) =>
                                  (AheadIn(placed', x, y) <=> AheadIn(placed, x, y))
  BY DEF MovesLandInPlaceStep
<1>1. CommitMove(m)
  <2>1. ASSUME NEW n \in Movers, CommitMove(n) PROVE n = m
    BY <2>1 DEF CommitMove, BoardsInv
  <2>2. UNCHANGED varsBoards => placed' = placed
    BY DEF varsBoards
  <2>3. \A g, l : ~ConfigureBoard(g, l)
    BY DEF ConfigureBoard
  <2>4. \A x, f, v : ~EditRecord(x, f, v)
    BY DEF EditRecord
  <2>5. \A x : ~DeleteRecord(x) /\ ~CreateRecord(x)
    BY DEF DeleteRecord, CreateRecord
  <2>6. \A n, card, col, lane, before, after : ~BeginMove(n, card, col, lane, before, after)
    BY DEF BeginMove
  <2>7. \A n : ~AbandonMove(n)
    BY DEF AbandonMove
  <2>8. \E n \in Movers : CommitMove(n)
    BY <2>2, <2>3, <2>4, <2>5, <2>6, <2>7 DEF NextBoards
  <2> QED
    BY <2>1, <2>8
<1>2. /\ MoveShape(e) /\ Renumbering(e) /\ StillHolds(e)
      /\ live' = live
      /\ \A x \in Cards : x # e.card => data'[x] = data[x]
      /\ data'[e.card] = IF e.setLane THEN [data[e.card] EXCEPT ![e.cfg.group] = e.cell[1], ![e.cfg.lane] = e.cell[2]]
                          ELSE [data[e.card] EXCEPT ![e.cfg.group] = e.cell[1]]
      /\ RankIn(placed', e.card) = e.rank
      /\ \A x \in Cards : x # e.card => RankIn(placed', x) = RankOf(e, x)
  <2>1. Writes(m, e)
    BY <1>1, CommitWrites
  <2> QED
    BY <2>1 DEF Writes
<1>3. /\ e.card \in Cards /\ e.cfg.group \in Fields /\ e.cfg.lane \in Fields \cup {NoField}
      /\ e.cfg.lane # e.cfg.group /\ e.setLane => e.cfg.lane # NoField
      /\ e.cell \in Contents \X Contents /\ e.card \notin Anchors(e)
      /\ e.before \in Cards \cup {NoCard} /\ e.after \in Cards \cup {NoCard}
  BY <1>2 DEF MoveShape, ValidConfigs
<1>4. data \in Grids /\ live \subseteq Cards /\ placed \in Placements
  BY DEF BoardsInv
<1>5. CellIn(data', e.cfg, e.card) = e.cell
  <2>1. data[e.card] \in [Fields -> Contents]
    BY <1>3, <1>4 DEF Grids
  <2>2. data'[e.card][e.cfg.group] = e.cell[1]
    BY <1>2, <1>3, <2>1
  <2>3. e.cfg.lane # NoField => data'[e.card][e.cfg.lane] = e.cell[2]
    BY <1>2, <1>3, <2>1 DEF StillHolds
  <2>4. e.cfg.lane = NoField => e.cell[2] = NoValue
    BY <1>2 DEF StillHolds
  <2>5. e.cell = <<e.cell[1], e.cell[2]>>
    BY <1>3
  <2> QED
    BY <2>2, <2>3, <2>4, <2>5 DEF CellIn
<1>6. \A x \in Anchors(e) : x \in Cards /\ x # e.card
  BY <1>3 DEF Anchors
<1>7. \A x \in Cards : x # e.card => CellIn(data', e.cfg, x) = CellIn(data, e.cfg, x)
  BY <1>2 DEF CellIn
<1>8. \A x \in Anchors(e) : CellIn(data', e.cfg, x) = e.cell
  BY <1>2, <1>6, <1>7 DEF StillHolds
<1>9. /\ e.before # NoCard => e.before \in Anchors(e)
      /\ e.after # NoCard => e.after \in Anchors(e)
  BY DEF Anchors
<1>10. /\ e.before # NoCard => RankIn(placed', e.before) < RankIn(placed', e.card)
       /\ e.after # NoCard => RankIn(placed', e.card) < RankIn(placed', e.after)
  BY <1>2, <1>6, <1>9 DEF StillHolds
<1>11. ASSUME e.seen = [data |-> data, live |-> live, placed |-> placed],
              NEW x \in live \ {e.card}, NEW y \in live \ {e.card},
              CellIn(data, e.cfg, x) = CellIn(data, e.cfg, y)
       PROVE  AheadIn(placed', x, y) <=> AheadIn(placed, x, y)
  <2> DEFINE S == OthersSeen(e)
  <2>1. x \in Cards /\ y \in Cards /\ x \in Int /\ y \in Int
    BY <1>4 DEF Cards
  <2>2. e.seen.data = data /\ e.seen.live = live /\ e.seen.placed = placed
    BY <1>11
  <2>3. x \in S <=> y \in S
    BY <1>11, <2>2 DEF OthersSeen
  <2>4. S \in SUBSET Cards
    BY <1>4, <2>2 DEF OthersSeen
  <2>5. RankIn(placed', x) = RankOf(e, x) /\ RankIn(placed', y) = RankOf(e, y)
    BY <1>2, <2>1
  <2> HIDE DEF S
  <2>6. CASE x \in DOMAIN e.fresh /\ y \in DOMAIN e.fresh
    <3>1. e.fresh = [z \in S |-> RankStep * Position(placed, S, z)]
      BY <1>2, <2>2, <2>6 DEF Renumbering, S
    <3> DEFINE a == Position(placed, S, x)  b == Position(placed, S, y)
    <3>2. x \in S /\ y \in S /\ RankIn(placed', x) = RankStep * a /\ RankIn(placed', y) = RankStep * b
      BY <2>5, <2>6, <3>1 DEF RankOf
    <3>3. /\ a \in Nat /\ b \in Nat /\ (AheadIn(placed, x, y) <=> a < b)
          /\ (a = b => x = y)
      BY <1>4, <2>4, <3>2, PositionsAreOrdered DEF BoardConstants
    <3> HIDE DEF a, b
    <3>4. RankStep \in Nat /\ RankStep >= 2 /\ RankStep * a \in Nat /\ RankStep * b \in Nat
      BY <3>3 DEF BoardConstants
    <3>5. /\ a < b => RankStep * a + 2 <= RankStep * b
          /\ b < a => RankStep * b + 2 <= RankStep * a
      BY <3>3, <3>4, StepsApart
    <3>6. RankStep * a < RankStep * b <=> a < b
      <4>1. a < b \/ a = b \/ b < a
        BY <3>3
      <4> QED
        BY <3>3, <3>4, <3>5, <4>1
    <3>7. RankStep * a = RankStep * b => a = b
      BY <3>3, <3>4, <3>5
    <3>8. AheadIn(placed', x, y) <=> RankStep * a < RankStep * b \/ (RankStep * a = RankStep * b /\ x < y)
      BY <3>2 DEF AheadIn
    <3> QED
      BY <2>1, <3>3, <3>6, <3>7, <3>8
  <2>7. CASE x \notin DOMAIN e.fresh /\ y \notin DOMAIN e.fresh
    BY <2>5, <2>7 DEF RankOf, Rank, AheadIn
  <2>8. DOMAIN e.fresh = {} \/ DOMAIN e.fresh = S
    BY <1>2 DEF Renumbering, S
  <2> QED
    BY <2>3, <2>6, <2>7, <2>8
<1>12. e.seen = [data |-> data, live |-> live, placed |-> placed] =>
          \A x, y \in live \ {e.card} :
             /\ x \in live' /\ CellIn(data', e.cfg, x) = CellIn(data, e.cfg, x)
             /\ CellIn(data, e.cfg, x) = CellIn(data, e.cfg, y) =>
                   (AheadIn(placed', x, y) <=> AheadIn(placed, x, y))
  BY <1>2, <1>4, <1>7, <1>11
<1> QED
  BY <1>5, <1>8, <1>10, <1>12

LEMMA BoardsTyped ==
  ASSUME BoardConstants, BoardsInv
  PROVE  TypeOKBoards
<1>1. ValidBoard(config)
  BY DEF BoardsInv, ValidConfigs, ValidBoard
<1>2. \A m \in Movers : moving[m].card \in Cards \cup {NoCard}
  BY DEF BoardsInv, MoveShape, Resting
<1> QED
  BY <1>1, <1>2 DEF TypeOKBoards, BoardsInv, Grids, Placements

(* A card that is moved lands in its cell, strictly between the cards it was *)
(* dropped between, whatever is written, renumbered, created or deleted      *)
(* beside it, and if nothing else was, the other cards keep their order      *)
(* (board.py, move_board_card).                                              *)
THEOREM CardsLandWhereAsked ==
  ASSUME BoardConstants
  PROVE  SpecBoards => []TypeOKBoards /\ [][MovesLandInPlaceStep]_varsBoards
<1>1. InitBoards => BoardsInv
  BY BoardsInit
<1>2. BoardsInv /\ [NextBoards]_varsBoards => BoardsInv'
  BY BoardsSteps
<1>3. BoardsInv => TypeOKBoards
  BY BoardsTyped
<1>4. BoardsInv /\ [NextBoards]_varsBoards => [MovesLandInPlaceStep]_varsBoards
  BY MoveLands
<1> QED
  BY <1>1, <1>2, <1>3, <1>4, PTL DEF SpecBoards

-----------------------------------------------------------------------------
(* TaskTrees, for any answer and any decisions.                              *)
(*                                                                           *)
(* The argument: the path to a node tells it apart, so the new keys carry    *)
(* the dependencies; a search for circles that finds none has left every     *)
(* task, and a task is left only after all that depend on it; what accepting *)
(* writes is read off the decisions.                                         *)

TreeConstants ==
    /\ NNodes \in Nat \ {0} /\ MaxDepth \in Nat \ {0} /\ MaxChildren \in Nat /\ Attempts \in Nat
    /\ NoRecord \notin Old \cup Seq(Nat) /\ Old \cap Seq(Nat) = {}

TaskKeys == {k \in Seq(Nat) : k # <<>> /\ k[1] = 1}

LEMMA AppendIsInjective ==
  ASSUME NEW p \in Seq(Nat), NEW q \in Seq(Nat), NEW x \in Nat, NEW y \in Nat, Append(p, x) = Append(q, y)
  PROVE  p = q /\ x = y
<1>1. Len(p) \in Nat /\ Len(q) \in Nat /\ Len(Append(p, x)) = Len(p) + 1 /\ Len(Append(q, y)) = Len(q) + 1
  OBVIOUS
<1>2. Len(p) = Len(q)
  BY <1>1
<1>3. x = y
  BY <1>2, AppendElements
<1>4. \A i \in 1..Len(p) : p[i] = q[i]
  BY <1>2, AppendElements
<1>5. p = q
  BY <1>2, <1>4
<1> QED
  BY <1>3, <1>5

LEMMA AnswerShape ==
  ASSUME TreeConstants, raw \in Answers
  PROVE  /\ 1 \in Nodes /\ \A n \in Nodes : n # 1 => raw.parent[n] \in 1..(n - 1) /\ raw.parent[n] \in Nodes
         /\ raw.parent \in [Nodes -> 0..NNodes] /\ raw.needs \subseteq Nodes \X RawKeys
         /\ raw.key \in [Nodes -> RawKeys]
<1>1. /\ raw.parent \in {f \in [Nodes -> 0..NNodes] : f[1] = 0 /\ \A n \in 2..NNodes : f[n] \in 1..(n - 1)}
      /\ raw.key \in [Nodes -> RawKeys] /\ raw.needs \in Sized(Nodes \X RawKeys)
  BY DEF Answers
<1>2. NNodes \in Nat \ {0} /\ Nodes = 1..NNodes
  BY DEF TreeConstants, Nodes
<1>3. \A n \in Nodes : n # 1 => n \in 2..NNodes
  BY <1>2
<1> QED
  BY <1>1, <1>2, <1>3 DEF Sized

LEMMA IndexIsNat ==
  ASSUME TreeConstants, raw \in Answers, NEW n \in Nodes
  PROVE  Index(n) \in Nat
<1>1. IsFiniteSet(1..n) /\ {m \in 1..n : raw.parent[m] = raw.parent[n]} \in SUBSET (1..n)
  BY FS_Interval DEF Nodes, TreeConstants
<1> QED
  BY <1>1, FS_Subset, FS_CardinalityType DEF Index

LEMMA SiblingsDiffer ==
  ASSUME TreeConstants, raw \in Answers, NEW m \in Nodes, NEW n \in Nodes,
         m < n, raw.parent[m] = raw.parent[n]
  PROVE  Index(m) # Index(n)
<1> DEFINE A == {k \in 1..m : raw.parent[k] = raw.parent[m]}
           B == {k \in 1..n : raw.parent[k] = raw.parent[n]}
<1>1. m \in Nat /\ n \in Nat
  BY DEF Nodes, TreeConstants
<1>2. A \in SUBSET B /\ n \in B /\ n \notin A /\ B \in SUBSET (1..n)
  BY <1>1, AnswerShape DEF Nodes
<1>3. Index(m) = Cardinality(A) /\ Index(n) = Cardinality(B)
  BY DEF Index
<1> HIDE DEF A, B
<1>4. IsFiniteSet(B)
  <2>1. 1 \in Int /\ n \in Int
    BY <1>1
  <2>2. IsFiniteSet(1..n)
    BY <2>1, FS_Interval
  <2> QED
    BY <1>2, <2>2, FS_Subset
<1> QED
  BY <1>2, <1>3, <1>4, FS_Subset

(* The keys of the nodes are defined for every answer ... *)
LEMMA KeysFollow ==
  ASSUME TreeConstants, raw \in Answers
  PROVE  /\ NewKeys = [n \in Nodes |-> NewKeys[n]]
         /\ \A n \in Nodes : NewKeys[n] = IF n = 1 THEN <<1>> ELSE Append(NewKeys[raw.parent[n]], Index(n))
<1> DEFINE Runs(n) == {f \in [1..n -> Seq(Nat)] : \A i \in 1..n :
                          f[i] = IF i = 1 THEN <<1>> ELSE Append(f[raw.parent[i]], Index(i))}
           bad == {n \in 0..NNodes : Runs(n) = {}}
           IsKeys(f) == f = [n \in Nodes |-> IF n = 1 THEN <<1>> ELSE Append(f[raw.parent[n]], Index(n))]
<1>1. NNodes \in Nat /\ Nodes = 1..NNodes
  BY DEF TreeConstants, Nodes
<1>2. [i \in 1..0 |-> <<>>] \in Runs(0)
  OBVIOUS
<1>3. ASSUME NEW n \in 1..NNodes, Runs(n - 1) # {} PROVE Runs(n) # {}
  <2>1. PICK f \in [1..(n - 1) -> Seq(Nat)] : \A i \in 1..(n - 1) :
             f[i] = IF i = 1 THEN <<1>> ELSE Append(f[raw.parent[i]], Index(i))
    BY <1>3
  <2> DEFINE value == IF n = 1 THEN <<1>> ELSE Append(f[raw.parent[n]], Index(n))
             g == [i \in 1..n |-> IF i = n THEN value ELSE f[i]]
  <2>2. n \in Nodes /\ n \in Nat /\ n # 0
    BY <1>1
  <2>3. value \in Seq(Nat)
    <3>1. CASE n = 1
      <4>1. <<1>> \in Seq(Nat)
        OBVIOUS
      <4> QED
        BY <3>1, <4>1
    <3>2. CASE n # 1
      <4>1. f[raw.parent[n]] \in Seq(Nat) /\ Index(n) \in Nat
        BY <2>1, <2>2, <3>2, AnswerShape, IndexIsNat
      <4> QED
        BY <3>2, <4>1
    <3> QED
      BY <3>1, <3>2
  <2> HIDE DEF value
  <2>4. g \in [1..n -> Seq(Nat)]
    <3>1. \A i \in 1..n : i # n => i \in 1..(n - 1)
      BY <2>2
    <3> QED
      BY <2>1, <2>3, <3>1
  <2>5. ASSUME NEW i \in 1..n
        PROVE  g[i] = IF i = 1 THEN <<1>> ELSE Append(g[raw.parent[i]], Index(i))
    <3>1. i \in Nodes /\ (i # 1 => raw.parent[i] \in 1..(i - 1))
      BY <1>1, <2>2, AnswerShape
    <3>2. i # 1 => raw.parent[i] \in 1..(n - 1) /\ g[raw.parent[i]] = f[raw.parent[i]]
      BY <2>2, <3>1
    <3>3. CASE i = n
      BY <3>2, <3>3 DEF value
    <3>4. CASE i # n
      <4>1. i \in 1..(n - 1) /\ g[i] = f[i]
        BY <2>2, <3>4
      <4> HIDE DEF g
      <4> QED
        BY <2>1, <3>2, <4>1
    <3> QED
      BY <3>3, <3>4
  <2>6. g \in Runs(n)
    <3> HIDE DEF g
    <3> QED
      BY <2>4, <2>5
  <2> QED
    BY <2>6
<1>4. bad = {}
  <2> SUFFICES ASSUME bad # {} PROVE FALSE
    OBVIOUS
  <2> HIDE DEF Runs
  <2>1. bad \in SUBSET Nat
    BY <1>1
  <2>2. PICK n \in bad : \A m \in bad : n <= m
    <3> HIDE DEF bad
    <3> QED
      BY <2>1, LeastOf
  <2>3. n \in 0..NNodes /\ Runs(n) = {} /\ n # 0
    BY <1>2
  <2>4. n \in 1..NNodes /\ n - 1 \in 0..NNodes /\ ~(n <= n - 1)
    BY <1>1, <2>3
  <2>5. Runs(n - 1) # {}
    BY <2>2, <2>4
  <2> QED
    BY <1>3, <2>3, <2>4, <2>5
<1>5. PICK f \in [1..NNodes -> Seq(Nat)] : \A i \in 1..NNodes :
           f[i] = IF i = 1 THEN <<1>> ELSE Append(f[raw.parent[i]], Index(i))
  <2>1. Runs(NNodes) # {}
    <3> HIDE DEF Runs
    <3> QED
      BY <1>1, <1>4
  <2> QED
    BY <2>1
<1>6. IsKeys(f)
  <2>1. f = [n \in Nodes |-> f[n]]
    BY <1>1
  <2>2. [n \in Nodes |-> f[n]] = [n \in Nodes |-> IF n = 1 THEN <<1>> ELSE Append(f[raw.parent[n]], Index(n))]
    BY <1>1, <1>5
  <2> QED
    BY <2>1, <2>2
<1>7. IsKeys(NewKeys)
  <2>1. NewKeys = CHOOSE g : IsKeys(g)
    BY DEF NewKeys
  <2> HIDE DEF IsKeys
  <2> QED
    BY <1>6, <2>1
<1> QED
  BY <1>7

(* ... begin at the root ... *)
LEMMA KeysAreTaskKeys ==
  ASSUME TreeConstants, raw \in Answers
  PROVE  /\ NewKeys \in [Nodes -> TaskKeys] /\ NewKeys[1] = <<1>>
         /\ \A n \in Nodes : n # 1 => Len(NewKeys[n]) > 1
<1> DEFINE Good(n) == NewKeys[n] \in TaskKeys /\ (n # 1 => Len(NewKeys[n]) > 1)
           bad == {n \in Nodes : ~Good(n)}
<1>1. Nodes \subseteq Nat /\ 1 \in Nodes
  BY DEF Nodes, TreeConstants
<1>2. bad = {}
  <2> SUFFICES ASSUME bad # {} PROVE FALSE
    OBVIOUS
  <2> HIDE DEF Good
  <2>1. bad \in SUBSET Nat
    BY <1>1
  <2>2. PICK n \in bad : \A m \in bad : n <= m
    <3> HIDE DEF bad
    <3> QED
      BY <2>1, LeastOf
  <2>3. n \in Nodes /\ ~Good(n) /\ n \in Nat
    BY <1>1
  <2>4. CASE n = 1
    <3>1. NewKeys[n] = <<1>>
      BY <2>3, <2>4, KeysFollow
    <3>2. <<1>> \in TaskKeys
      <4>1. <<1>> \in Seq(Nat) /\ <<1>> # <<>> /\ <<1>>[1] = 1
        OBVIOUS
      <4> QED
        BY <4>1 DEF TaskKeys
    <3> QED
      BY <2>3, <2>4, <3>1, <3>2 DEF Good
  <2>5. CASE n # 1
    <3> DEFINE p == raw.parent[n]
    <3>1. p \in Nodes /\ p < n /\ p \in Nat
      BY <1>1, <2>3, <2>5, AnswerShape
    <3>2. Good(p)
      BY <2>2, <2>3, <3>1
    <3>3. NewKeys[p] \in TaskKeys /\ Index(n) \in Nat
      BY <2>3, <3>2, IndexIsNat DEF Good
    <3>4. NewKeys[n] = Append(NewKeys[p], Index(n))
      BY <2>3, <2>5, KeysFollow
    <3> DEFINE k == NewKeys[p]
    <3>5. k \in Seq(Nat) /\ k # <<>> /\ k[1] = 1
      BY <3>3 DEF TaskKeys
    <3> HIDE DEF k
    <3>6. /\ Append(k, Index(n)) \in Seq(Nat) /\ Append(k, Index(n)) # <<>>
          /\ Append(k, Index(n))[1] = 1 /\ Len(Append(k, Index(n))) > 1
      BY <3>3, <3>5
    <3>7. Good(n)
      BY <3>4, <3>6 DEF Good, TaskKeys, k
    <3> QED
      BY <2>3, <3>7
  <2> QED
    BY <2>4, <2>5
<1>3. NewKeys = [n \in Nodes |-> NewKeys[n]] /\ NewKeys[1] = <<1>>
  BY <1>1, KeysFollow
<1> QED
  BY <1>2, <1>3

(* ... and tell the nodes apart. *)
LEMMA KeysDiffer ==
  ASSUME TreeConstants, raw \in Answers, NEW m \in Nodes, NEW n \in Nodes, NewKeys[m] = NewKeys[n]
  PROVE  m = n
<1> DEFINE bad == {i \in Nodes : \E j \in Nodes : i # j /\ NewKeys[i] = NewKeys[j]}
<1>1. Nodes \subseteq Nat /\ 1 \in Nodes
  BY DEF Nodes, TreeConstants
<1>2. bad = {}
  <2> SUFFICES ASSUME bad # {} PROVE FALSE
    OBVIOUS
  <2>1. bad \in SUBSET Nat
    BY <1>1
  <2>2. PICK i \in bad : \A k \in bad : i <= k
    <3> HIDE DEF bad
    <3> QED
      BY <2>1, LeastOf
  <2>3. PICK j \in Nodes : i # j /\ NewKeys[i] = NewKeys[j]
    OBVIOUS
  <2>4. j \in bad /\ i \in Nodes /\ i \in Nat /\ j \in Nat
    BY <1>1, <2>3
  <2>5. i # 1 /\ j # 1
    <3>1. \A k \in Nodes : k # 1 => Len(NewKeys[k]) > 1
      BY KeysAreTaskKeys
    <3>2. NewKeys[1] = <<1>> /\ Len(<<1>>) = 1
      BY KeysAreTaskKeys
    <3>3. ~(1 > 1)
      OBVIOUS
    <3> QED
      BY <2>3, <2>4, <3>1, <3>2, <3>3
  <2> DEFINE p == raw.parent[i]  q == raw.parent[j]
  <2>6. p \in Nodes /\ q \in Nodes /\ p < i /\ p \in Nat
    BY <1>1, <2>4, <2>5, AnswerShape
  <2>7. /\ NewKeys[p] \in Seq(Nat) /\ NewKeys[q] \in Seq(Nat) /\ Index(i) \in Nat /\ Index(j) \in Nat
    BY <2>4, <2>6, KeysAreTaskKeys, IndexIsNat DEF TaskKeys
  <2>8. Append(NewKeys[p], Index(i)) = Append(NewKeys[q], Index(j))
    BY <2>3, <2>4, <2>5, KeysFollow
  <2> HIDE DEF p, q
  <2>9. NewKeys[p] = NewKeys[q] /\ Index(i) = Index(j)
    <3> DEFINE a == NewKeys[p]  b == NewKeys[q]  x == Index(i)  y == Index(j)
    <3>1. a \in Seq(Nat) /\ b \in Seq(Nat) /\ x \in Nat /\ y \in Nat /\ Append(a, x) = Append(b, y)
      BY <2>7, <2>8
    <3> HIDE DEF a, b, x, y
    <3>2. a = b /\ x = y
      BY <3>1, AppendIsInjective
    <3> QED
      BY <3>2 DEF a, b, x, y
  <2>10. p \notin bad
    BY <2>2, <2>4, <2>6
  <2>11. p = q
    BY <2>6, <2>9, <2>10
  <2>12. i < j \/ j < i
    BY <2>3, <2>4
  <2> QED
    BY <2>4, <2>9, <2>11, <2>12, SiblingsDiffer DEF p, q
<1> QED
  BY <1>2

-----------------------------------------------------------------------------
(* The search for circles.  What it has left is closed under the edges, and  *)
(* what it is in has not been left.                                          *)
Circular(E, S) == \A x \in S : \E y \in S : <<x, y>> \in E
SearchStates(E) ==
    {s \in [path : Seq(EndsOf(E)), visited : SUBSET EndsOf(E), cycle : BOOLEAN] :
        /\ \A i \in DOMAIN s.path : s.path[i] \notin s.visited
        /\ \A i, j \in DOMAIN s.path : i < j => s.path[i] # s.path[j]
        /\ \A x \in s.visited : Successors(E, x) \subseteq s.visited
        /\ \A S \in SUBSET EndsOf(E) : Circular(E, S) => S \cap s.visited = {}}
Unvisited(E, s) == EndsOf(E) \ s.visited
Unentered(E, s) == {x \in Unvisited(E, s) : \A i \in DOMAIN s.path : s.path[i] # x}
ToVisit(E, s) == Cardinality(Unvisited(E, s)) + Cardinality(Unentered(E, s))

LEMMA SearchStateIs ==
  ASSUME NEW E, NEW s \in SearchStates(E)
  PROVE  s.path \in Seq(EndsOf(E)) /\ s.visited \subseteq EndsOf(E) /\ s.cycle \in BOOLEAN
<1>1. s.path \in Seq(EndsOf(E)) /\ s.visited \in SUBSET EndsOf(E) /\ s.cycle \in BOOLEAN
  BY DEF SearchStates
<1> QED
  BY <1>1

Shape(E, t, p, v, c) ==
    /\ t.path = p /\ t.visited = v /\ t.cycle = c
    /\ t \in [path : Seq(EndsOf(E)), visited : SUBSET EndsOf(E), cycle : BOOLEAN]
LEMMA VisitingIs ==
  ASSUME NEW E, NEW p \in Seq(EndsOf(E)), NEW v \in SUBSET EndsOf(E), NEW c \in BOOLEAN
  PROVE  Shape(E, Visiting(p, v, c), p, v, c)
<1> DEFINE A == Seq(EndsOf(E))  B == SUBSET EndsOf(E)
<1>1. p \in A /\ v \in B
  OBVIOUS
<1> HIDE DEF A, B
<1>2. Visiting(p, v, c) \in [path : A, visited : B, cycle : BOOLEAN]
  BY <1>1 DEF Visiting
<1>3. Visiting(p, v, c).path = p /\ Visiting(p, v, c).visited = v /\ Visiting(p, v, c).cycle = c
  BY DEF Visiting
<1> QED
  BY <1>2, <1>3 DEF A, B, Shape

LEMMA ToVisitIsFinite ==
  ASSUME NEW E, IsFiniteSet(EndsOf(E)), NEW s
  PROVE  /\ IsFiniteSet(Unvisited(E, s)) /\ IsFiniteSet(Unentered(E, s))
         /\ Cardinality(Unvisited(E, s)) \in Nat /\ Cardinality(Unentered(E, s)) \in Nat
         /\ ToVisit(E, s) <= VisitSteps(E) /\ VisitSteps(E) \in Nat /\ ToVisit(E, s) \in Nat
<1>1. Unvisited(E, s) \in SUBSET EndsOf(E) /\ Unentered(E, s) \in SUBSET EndsOf(E)
  BY DEF Unvisited, Unentered
<1>2. /\ IsFiniteSet(Unvisited(E, s)) /\ Cardinality(Unvisited(E, s)) <= Cardinality(EndsOf(E))
      /\ IsFiniteSet(Unentered(E, s)) /\ Cardinality(Unentered(E, s)) <= Cardinality(EndsOf(E))
  BY <1>1, FS_Subset
<1>3. /\ Cardinality(EndsOf(E)) \in Nat /\ Cardinality(Unvisited(E, s)) \in Nat
      /\ Cardinality(Unentered(E, s)) \in Nat
  BY <1>2, FS_CardinalityType
<1> QED
  BY <1>2, <1>3 DEF ToVisit, VisitSteps

LEMMA EnterKeeps ==
  ASSUME NEW E, IsFiniteSet(EndsOf(E)), NEW s \in SearchStates(E), NEW x \in EndsOf(E) \ s.visited,
         \A i \in DOMAIN s.path : s.path[i] # x
  PROVE  LET t == Visiting(Append(s.path, x), s.visited, FALSE) IN
         t \in SearchStates(E) /\ ToVisit(E, t) = ToVisit(E, s) - 1
<1> DEFINE q == Append(s.path, x)  t == Visiting(q, s.visited, FALSE)
<1>1. s.path \in Seq(EndsOf(E)) /\ s.visited \subseteq EndsOf(E)
  BY SearchStateIs
<1>2. /\ q \in Seq(EndsOf(E)) /\ Len(s.path) \in Nat
      /\ DOMAIN s.path = 1..Len(s.path) /\ DOMAIN q = 1..(Len(s.path) + 1)
      /\ \A i \in 1..Len(s.path) : q[i] = s.path[i]
      /\ q[Len(s.path) + 1] = x
  BY <1>1, AppendElements
<1>3. /\ t.path = q /\ t.visited = s.visited
      /\ t \in [path : Seq(EndsOf(E)), visited : SUBSET EndsOf(E), cycle : BOOLEAN]
  <2> HIDE DEF q
  <2>1. s.visited \in SUBSET EndsOf(E)
    BY <1>1
  <2>2. Shape(E, t, q, s.visited, FALSE)
    BY <1>2, <2>1, VisitingIs
  <2> QED
    BY <2>2 DEF Shape
<1> HIDE DEF q, t
<1>4. DOMAIN q = DOMAIN s.path \cup {Len(s.path) + 1} /\ \A i \in DOMAIN s.path : i < Len(s.path) + 1
  BY <1>2
<1>5. t \in SearchStates(E)
  <2>1. \A i \in DOMAIN q : q[i] \notin s.visited
    BY <1>2, <1>4 DEF SearchStates
  <2>2. \A i, j \in DOMAIN q : i < j => q[i] # q[j]
    <3> TAKE i, j \in DOMAIN q
    <3>1. i < j => i \in DOMAIN s.path
      BY <1>2
    <3>2. CASE j \in DOMAIN s.path
      BY <1>2, <1>4, <3>1, <3>2 DEF SearchStates
    <3>3. CASE j = Len(s.path) + 1
      BY <1>2, <3>1, <3>3
    <3> QED
      BY <1>4, <3>2, <3>3
  <2>3. /\ \A y \in s.visited : Successors(E, y) \subseteq s.visited
        /\ \A S \in SUBSET EndsOf(E) : Circular(E, S) => S \cap s.visited = {}
    BY DEF SearchStates
  <2> QED
    BY <1>3, <2>1, <2>2, <2>3 DEF SearchStates
<1>6. Unvisited(E, t) = Unvisited(E, s)
  BY <1>3 DEF Unvisited
<1>7. Unentered(E, t) = Unentered(E, s) \ {x} /\ x \in Unentered(E, s)
  <2>1. ASSUME NEW y PROVE (\A i \in DOMAIN q : q[i] # y) <=> y # x /\ \A i \in DOMAIN s.path : s.path[i] # y
    BY <1>2, <1>4
  <2>2. \A y : y \in Unentered(E, t) <=> y \in Unvisited(E, t) /\ \A i \in DOMAIN q : q[i] # y
    BY <1>3 DEF Unentered
  <2>3. \A y : y \in Unentered(E, s) <=> y \in Unvisited(E, s) /\ \A i \in DOMAIN s.path : s.path[i] # y
    BY DEF Unentered
  <2>4. x \in Unvisited(E, s)
    BY DEF Unvisited
  <2> QED
    BY <1>6, <2>1, <2>2, <2>3, <2>4
<1>8. Cardinality(Unentered(E, t)) = Cardinality(Unentered(E, s)) - 1
  BY <1>7, ToVisitIsFinite, FS_RemoveElement
<1>9. ToVisit(E, t) = ToVisit(E, s) - 1
  BY <1>6, <1>8, ToVisitIsFinite DEF ToVisit
<1> QED
  BY <1>5, <1>9 DEF t, q

LEMMA LeaveKeeps ==
  ASSUME NEW E, IsFiniteSet(EndsOf(E)), NEW s \in SearchStates(E), s.path # <<>>,
         Successors(E, Last(s.path)) \subseteq s.visited
  PROVE  LET t == Visiting(Front(s.path), s.visited \cup {Last(s.path)}, FALSE) IN
         t \in SearchStates(E) /\ ToVisit(E, t) = ToVisit(E, s) - 1
<1> DEFINE k == Last(s.path)  q == Front(s.path)  v == s.visited \cup {k}
           t == Visiting(q, v, FALSE)
<1>1. s.path \in Seq(EndsOf(E)) /\ s.visited \subseteq EndsOf(E)
  BY SearchStateIs
<1>2. /\ q \in Seq(EndsOf(E)) /\ Len(s.path) \in Nat \ {0}
      /\ DOMAIN s.path = 1..Len(s.path) /\ DOMAIN q = 1..(Len(s.path) - 1)
      /\ \A i \in 1..(Len(s.path) - 1) : q[i] = s.path[i]
      /\ k = s.path[Len(s.path)] /\ k \in EndsOf(E)
  BY <1>1, FrontElements
<1>3. /\ t.path = q /\ t.visited = v
      /\ t \in [path : Seq(EndsOf(E)), visited : SUBSET EndsOf(E), cycle : BOOLEAN]
  <2>1. v \in SUBSET EndsOf(E)
    BY <1>1, <1>2
  <2> HIDE DEF q, v
  <2>2. Shape(E, t, q, v, FALSE)
    BY <1>2, <2>1, VisitingIs
  <2> QED
    BY <2>2 DEF Shape
<1> HIDE DEF q, t, k
<1>4. DOMAIN s.path = DOMAIN q \cup {Len(s.path)} /\ \A i \in DOMAIN q : i < Len(s.path) /\ i \in DOMAIN s.path
  BY <1>2
<1>5. \A i \in DOMAIN q : q[i] # k
  BY <1>2, <1>4 DEF SearchStates
<1>6. k \notin s.visited
  BY <1>2, <1>4 DEF SearchStates
<1>7. t \in SearchStates(E)
  <2>1. \A i \in DOMAIN q : q[i] \notin v
    BY <1>2, <1>4, <1>5 DEF SearchStates
  <2>2. \A i, j \in DOMAIN q : i < j => q[i] # q[j]
    BY <1>2, <1>4 DEF SearchStates
  <2>3. \A y \in v : Successors(E, y) \subseteq v
    BY DEF SearchStates, k
  <2>4. ASSUME NEW S \in SUBSET EndsOf(E), Circular(E, S) PROVE S \cap v = {}
    <3>1. S \cap s.visited = {}
      BY <2>4 DEF SearchStates
    <3>2. ASSUME k \in S PROVE FALSE
      <4>1. PICK y \in S : <<k, y>> \in E
        BY <2>4, <3>2 DEF Circular
      <4>2. y \in Successors(E, k)
        BY <4>1 DEF Successors
      <4> QED
        BY <3>1, <4>1, <4>2 DEF k
    <3> QED
      BY <3>1, <3>2
  <2> QED
    BY <1>3, <2>1, <2>2, <2>3, <2>4 DEF SearchStates
<1>8. Unvisited(E, t) = Unvisited(E, s) \ {k} /\ k \in Unvisited(E, s)
  BY <1>2, <1>3, <1>6 DEF Unvisited
<1>9. Unentered(E, t) = Unentered(E, s)
  <2>1. \A y : y # k => ((\A i \in DOMAIN q : q[i] # y) <=> \A i \in DOMAIN s.path : s.path[i] # y)
    BY <1>2, <1>4
  <2>2. \A y : y \in Unentered(E, t) <=> y \in Unvisited(E, t) /\ \A i \in DOMAIN q : q[i] # y
    BY <1>3 DEF Unentered
  <2>3. \A y : y \in Unentered(E, s) <=> y \in Unvisited(E, s) /\ \A i \in DOMAIN s.path : s.path[i] # y
    BY DEF Unentered
  <2>4. k \notin Unentered(E, s)
    BY <1>2, <1>4, <2>3
  <2>5. k \notin Unentered(E, t)
    BY <1>8, <2>2
  <2>6. ASSUME NEW y, y # k PROVE y \in Unentered(E, t) <=> y \in Unentered(E, s)
    BY <1>8, <2>1, <2>2, <2>3, <2>6
  <2> QED
    BY <2>4, <2>5, <2>6
<1>10. Cardinality(Unvisited(E, t)) = Cardinality(Unvisited(E, s)) - 1
  BY <1>8, ToVisitIsFinite, FS_RemoveElement
<1>11. ToVisit(E, t) = ToVisit(E, s) - 1
  BY <1>9, <1>10, ToVisitIsFinite DEF ToVisit
<1> QED
  BY <1>7, <1>11 DEF t, k, q

LEMMA VisitNextKeeps ==
  ASSUME NEW E, IsFiniteSet(EndsOf(E)), NEW s \in SearchStates(E)
  PROVE  LET t == VisitNext(E, s) IN
         t \in SearchStates(E) /\ (t.cycle \/ ToVisit(E, t) \in {0, ToVisit(E, s) - 1})
<1> DEFINE open == (IF s.path = <<>> THEN {e[1] : e \in E} ELSE Successors(E, Last(s.path))) \ s.visited
           next == CHOOSE x \in open : TRUE
           t == VisitNext(E, s)
<1>1. t = CASE open = {} /\ s.path = <<>> -> s
            [] open = {} /\ s.path # <<>> ->
                 Visiting(Front(s.path), s.visited \cup {Last(s.path)}, FALSE)
            [] open # {} /\ next \in ToSet(s.path) -> Visiting(s.path, s.visited, TRUE)
            [] OTHER -> Visiting(Append(s.path, next), s.visited, FALSE)
  BY DEF VisitNext
<1>2. open \subseteq EndsOf(E) \ s.visited
  BY DEF EndsOf, Successors
<1> HIDE DEF t
<1>3. CASE open = {} /\ s.path = <<>>
  <2>1. t = s
    BY <1>1, <1>3
  <2>3. EndsOf(E) \subseteq s.visited
    <3>1. \A e \in E : e[1] \in s.visited
      BY <1>3
    <3>2. \A e \in E : e[2] \in s.visited
      BY <3>1 DEF SearchStates, Successors
    <3> QED
      BY <3>1, <3>2 DEF EndsOf
  <2>4. Unvisited(E, s) = {} /\ Unentered(E, s) = {}
    BY <2>3 DEF Unvisited, Unentered
  <2>5. ToVisit(E, s) = 0
    BY <2>4, FS_EmptySet DEF ToVisit
  <2> QED
    BY <2>1, <2>5 DEF t
<1>4. CASE open = {} /\ s.path # <<>>
  <2>1. t = Visiting(Front(s.path), s.visited \cup {Last(s.path)}, FALSE)
    BY <1>1, <1>4
  <2>2. Successors(E, Last(s.path)) \subseteq s.visited
    BY <1>4
  <2> QED
    BY <1>4, <2>1, <2>2, LeaveKeeps DEF t
<1>5. CASE open # {} /\ next \in ToSet(s.path)
  <2>1. t = Visiting(s.path, s.visited, TRUE)
    BY <1>1, <1>5
  <2>2. s.path \in Seq(EndsOf(E)) /\ s.visited \in SUBSET EndsOf(E)
    BY SearchStateIs
  <2>3. /\ t.path = s.path /\ t.visited = s.visited /\ t.cycle
        /\ t \in [path : Seq(EndsOf(E)), visited : SUBSET EndsOf(E), cycle : BOOLEAN]
    <3>1. Shape(E, t, s.path, s.visited, TRUE)
      BY <2>1, <2>2, VisitingIs
    <3> QED
      BY <3>1 DEF Shape
  <2>4. t \in SearchStates(E)
    BY <2>3 DEF SearchStates
  <2> QED
    BY <2>3, <2>4 DEF t
<1>6. CASE open # {} /\ next \notin ToSet(s.path)
  <2>1. t = Visiting(Append(s.path, next), s.visited, FALSE)
    BY <1>1, <1>6
  <2>2. next \in open
    BY <1>6
  <2>3. \A i \in DOMAIN s.path : s.path[i] # next
    BY <1>6 DEF ToSet
  <2> HIDE DEF next, open
  <2> QED
    BY <1>2, <2>1, <2>2, <2>3, EnterKeeps DEF t
<1> QED
  BY <1>3, <1>4, <1>5, <1>6

(* A search that finds nothing has left every task, so there is no circle.   *)
LEMMA NoCycleIsFound ==
  ASSUME NEW E, IsFiniteSet(EndsOf(E)), ~CycleDetected(E)
  PROVE  ~Cyclic(E)
<1> DEFINE X == SearchStates(E)
           a == Visiting(<<>>, {}, FALSE)
           N == VisitSteps(E)
           G == [s \in X |-> IF s.cycle THEN s ELSE VisitNext(E, s)]
           IsRun(r) == r = [n \in 0..N |-> IF n = 0 THEN a
                                            ELSE IF r[n - 1].cycle THEN r[n - 1] ELSE VisitNext(E, r[n - 1])]
           state == CHOOSE r : IsRun(r)
<1>1. N \in Nat /\ ToVisit(E, a) \in Nat /\ ToVisit(E, a) <= N
  BY ToVisitIsFinite
<1>2. a \in X
  <2>1. <<>> \in Seq(EndsOf(E)) /\ {} \in SUBSET EndsOf(E) /\ FALSE \in BOOLEAN
    OBVIOUS
  <2>2. Shape(E, a, <<>>, {}, FALSE)
    BY <2>1, VisitingIs
  <2> HIDE DEF a
  <2>4. a.path = <<>> /\ a.visited = {} /\ a.cycle = FALSE
    BY <2>2 DEF Shape
  <2>3. DOMAIN a.path = {} /\ a.visited = {}
    BY <2>4
  <2> QED
    BY <2>2, <2>3 DEF Shape, SearchStates
<1>3. G \in [X -> X]
  BY VisitNextKeeps
<1> HIDE DEF a, N, G, X
<1>4. PICK f : StepsFrom(f, X, a, G, N)
  BY <1>1, <1>2, <1>3, StepsDefineAFunction
<1>5. IsRun(f)
  <2>1. ASSUME NEW n \in 0..N, n # 0
        PROVE  G[f[n - 1]] = IF f[n - 1].cycle THEN f[n - 1] ELSE VisitNext(E, f[n - 1])
    <3>1. n - 1 \in 0..N
      BY <1>1, <2>1
    <3>2. f[n - 1] \in X
      BY <1>4, <3>1 DEF StepsFrom
    <3> QED
      BY <3>2 DEF G
  <2>2. [n \in 0..N |-> IF n = 0 THEN a ELSE G[f[n - 1]]]
          = [n \in 0..N |-> IF n = 0 THEN a
                            ELSE IF f[n - 1].cycle THEN f[n - 1] ELSE VisitNext(E, f[n - 1])]
    BY <2>1
  <2> QED
    BY <1>4, <2>2 DEF StepsFrom
<1>6. IsRun(state)
  BY <1>5
<1> HIDE DEF state
<1>7. state[0] = a
  BY <1>1, <1>6
<1>8. ASSUME NEW n \in 0..N, n # 0
      PROVE  state[n] = IF state[n - 1].cycle THEN state[n - 1] ELSE VisitNext(E, state[n - 1])
  BY <1>6, <1>8
<1> HIDE DEF IsRun
<1> DEFINE Good(n) == state[n] \in X /\ (state[n].cycle \/ ToVisit(E, state[n]) <= N - n)
           bad == {n \in 0..N : ~Good(n)}
<1>9. Good(0)
  BY <1>1, <1>2, <1>7
<1>10. ASSUME NEW n \in 0..N, n # 0, Good(n - 1) PROVE Good(n)
  <2>1. CASE state[n - 1].cycle
    BY <1>8, <1>10, <2>1
  <2>2. CASE ~state[n - 1].cycle
    <3> DEFINE s == state[n - 1]  t == state[n]
    <3>1. t = VisitNext(E, s) /\ s \in X /\ ToVisit(E, s) <= N - (n - 1)
      BY <1>8, <1>10, <2>2
    <3> HIDE DEF s, t
    <3>2. t \in X /\ (t.cycle \/ ToVisit(E, t) \in {0, ToVisit(E, s) - 1})
      BY <3>1, VisitNextKeeps DEF X
    <3>3. ToVisit(E, s) \in Nat /\ ToVisit(E, t) \in Nat
      BY ToVisitIsFinite
    <3>4. t.cycle \/ ToVisit(E, t) <= N - n
      BY <1>1, <3>1, <3>2, <3>3
    <3> QED
      BY <3>2, <3>4 DEF t
  <2> QED
    BY <2>1, <2>2
<1>11. bad = {}
  <2> SUFFICES ASSUME bad # {} PROVE FALSE
    OBVIOUS
  <2> HIDE DEF Good
  <2>1. bad \in SUBSET Nat
    BY <1>1
  <2>2. PICK n \in bad : \A m \in bad : n <= m
    <3> HIDE DEF bad
    <3> QED
      BY <2>1, LeastOf
  <2>3. n \in 0..N /\ ~Good(n) /\ n # 0
    BY <1>9
  <2>4. n - 1 \in 0..N /\ ~(n <= n - 1)
    BY <1>1, <2>3
  <2>5. Good(n - 1)
    BY <2>2, <2>4
  <2> QED
    BY <1>10, <2>3, <2>5
<1>12. Good(N)
  BY <1>1, <1>11
<1>13. CycleDetected(E) = state[N].cycle
  BY DEF CycleDetected, state, IsRun, N, a
<1>14. state[N] \in X /\ ToVisit(E, state[N]) <= 0
  BY <1>1, <1>12, <1>13
<1>15. Unvisited(E, state[N]) = {}
  <2>1. Cardinality(Unvisited(E, state[N])) = 0
    BY <1>14, ToVisitIsFinite DEF ToVisit
  <2> QED
    BY <2>1, ToVisitIsFinite, FS_EmptySet
<1> SUFFICES ASSUME NEW S \in SUBSET EndsOf(E), S # {}, Circular(E, S) PROVE FALSE
  BY DEF Cyclic, Circular
<1>16. S \cap state[N].visited = {}
  BY <1>14 DEF X, SearchStates
<1> QED
  BY <1>15, <1>16 DEF Unvisited

-----------------------------------------------------------------------------
(* The keys of an answer: every task has one of its own, so its edges join   *)
(* keys of the plan, and finitely many.                                      *)
LEMMA ValidKeysAre ==
  ASSUME TreeConstants, raw \in Answers
  PROVE  /\ ValidKeys \in SUBSET TaskKeys /\ IsFiniteSet(ValidKeys) /\ <<1>> \in ValidKeys
         /\ Edges \in SUBSET (ValidKeys \X ValidKeys)
<1>1. NewKeys \in [Nodes -> TaskKeys] /\ NewKeys[1] = <<1>> /\ KeptNodes \in SUBSET Nodes /\ 1 \in Nodes
  BY KeysAreTaskKeys, AnswerShape DEF KeptNodes
<1>2. ValidKeys \in SUBSET TaskKeys
  BY <1>1 DEF ValidKeys
<1>3. IsFiniteSet(ValidKeys)
  <2>1. IsFiniteSet(Nodes)
    BY FS_Interval DEF Nodes, TreeConstants
  <2>2. IsFiniteSet(KeptNodes)
    BY <1>1, <2>1, FS_Subset
  <2> DEFINE f == [n \in KeptNodes |-> NewKeys[n]]
  <2>3. f \in Surjection(KeptNodes, ValidKeys)
    BY DEF Surjection, ValidKeys
  <2> QED
    BY <2>2, <2>3, FS_Surjection
<1>4. 1 \in KeptNodes
  <2>1. Len(NewKeys[1]) = 1 /\ MaxDepth >= 1
    BY <1>1 DEF TreeConstants
  <2>2. \A i \in 2..Len(NewKeys[1]) : FALSE
    BY <2>1
  <2> QED
    BY <1>1, <2>1, <2>2 DEF KeptNodes, TreeConstants
<1>5. <<1>> \in ValidKeys
  BY <1>1, <1>4 DEF ValidKeys
<1>6. ASSUME NEW e \in Edges PROVE e \in ValidKeys \X ValidKeys
  <2>1. /\ e \in {<<Remapped(x[2]), NewKeys[x[1]]>> : x \in {y \in raw.needs : y[1] \in KeptNodes}}
        /\ e[1] \in ValidKeys
    BY DEF Edges
  <2>2. PICK x \in raw.needs : x[1] \in KeptNodes /\ e = <<Remapped(x[2]), NewKeys[x[1]]>>
    BY <2>1
  <2>3. NewKeys[x[1]] \in ValidKeys
    BY <2>2 DEF ValidKeys
  <2> QED
    BY <2>1, <2>2, <2>3
<1> QED
  BY <1>2, <1>3, <1>5, <1>6

LEMMA EndsAreFinite ==
  ASSUME NEW K, IsFiniteSet(K), NEW E \in SUBSET (K \X K)
  PROVE  IsFiniteSet(EndsOf(E))
<1>1. EndsOf(E) \in SUBSET K
  BY DEF EndsOf
<1> QED
  BY <1>1, FS_Subset

(* When every key tells its node apart, nothing was cut and every needed key *)
(* names a node, the edges are the needs of the answer.                      *)
LEMMA EdgesKeepTheirMeaning ==
  ASSUME TreeConstants, raw \in Answers, KeptNodes = Nodes,
         \A m, n \in Nodes : raw.key[m] = raw.key[n] => m = n,
         \A x \in raw.needs : \E n \in Nodes : raw.key[n] = x[2]
  PROVE  Edges = {<<NewKeys[p[1]], NewKeys[p[2]]>> :
                    p \in {q \in Nodes \X Nodes : q[1] # q[2] /\ <<q[2], raw.key[q[1]]>> \in raw.needs}}
<1> DEFINE Meant == {<<NewKeys[p[1]], NewKeys[p[2]]>> :
                    p \in {q \in Nodes \X Nodes : q[1] # q[2] /\ <<q[2], raw.key[q[1]]>> \in raw.needs}}
<1>1. raw.needs \subseteq Nodes \X RawKeys /\ Nodes \subseteq Nat
  BY AnswerShape DEF Nodes, TreeConstants
<1>2. ASSUME NEW a \in Nodes PROVE Remapped(raw.key[a]) = NewKeys[a]
  <2>1. {n \in KeptNodes : raw.key[n] = raw.key[a]} = {a}
    OBVIOUS
  <2>2. Max({a}) = a
    BY <1>1 DEF Max
  <2> QED
    BY <2>1, <2>2 DEF Remapped
<1>3. \A a \in Nodes : NewKeys[a] \in ValidKeys
  BY DEF ValidKeys
<1>4. ASSUME NEW e \in Edges PROVE e \in Meant
  <2>1. /\ e \in {<<Remapped(x[2]), NewKeys[x[1]]>> : x \in {y \in raw.needs : y[1] \in KeptNodes}}
        /\ e[1] # e[2]
    BY DEF Edges
  <2>2. PICK x \in raw.needs : e = <<Remapped(x[2]), NewKeys[x[1]]>>
    BY <2>1
  <2>3. PICK a \in Nodes : raw.key[a] = x[2]
    OBVIOUS
  <2>4. x = <<x[1], raw.key[a]>> /\ x[1] \in Nodes
    BY <1>1, <2>2, <2>3
  <2> DEFINE q == <<a, x[1]>>
  <2>5. e = <<NewKeys[q[1]], NewKeys[q[2]]>> /\ a # x[1]
    BY <1>2, <2>1, <2>2, <2>3
  <2>6. q \in Nodes \X Nodes /\ q[1] # q[2] /\ <<q[2], raw.key[q[1]]>> \in raw.needs
    BY <2>4, <2>5
  <2> QED
    BY <2>5, <2>6
<1>5. ASSUME NEW e \in Meant PROVE e \in Edges
  <2>1. PICK q \in Nodes \X Nodes : /\ q[1] # q[2] /\ <<q[2], raw.key[q[1]]>> \in raw.needs
                                    /\ e = <<NewKeys[q[1]], NewKeys[q[2]]>>
    OBVIOUS
  <2> DEFINE x == <<q[2], raw.key[q[1]]>>
  <2>2. q[1] \in Nodes /\ q[2] \in Nodes
    OBVIOUS
  <2>3. x \in raw.needs /\ x[1] \in KeptNodes /\ e = <<Remapped(x[2]), NewKeys[x[1]]>>
    BY <1>2, <2>1, <2>2
  <2>4. e \in {<<Remapped(y[2]), NewKeys[y[1]]>> : y \in {z \in raw.needs : z[1] \in KeptNodes}}
    BY <2>3
  <2>5. NewKeys[q[1]] # NewKeys[q[2]]
    BY <2>1, <2>2, KeysDiffer
  <2> QED
    BY <1>3, <2>1, <2>2, <2>4, <2>5 DEF Edges
<1> QED
  BY <1>4, <1>5

-----------------------------------------------------------------------------
(* What accepting writes.                                                    *)
RecordOf(d, k) == IF d[k].act = "create" THEN k ELSE d[k].rec

LEMMA DecidedRecords ==
  ASSUME TreeConstants, NEW T \in SUBSET TaskKeys, NEW d \in [T -> Decisions]
  PROVE  LET by == RecordsBy(d)  made == {k \in DOMAIN d : d[k].act = "create"} IN
         /\ DOMAIN by \subseteq T /\ made \subseteq DOMAIN by
         /\ \A k \in DOMAIN by : by[k] = RecordOf(d, k) /\ by[k] # NoRecord
         /\ \A k \in made : by[k] = k
         /\ \A k \in DOMAIN by : by[k] \in made => by[k] = k
<1> DEFINE by == RecordsBy(d)  made == {k \in DOMAIN d : d[k].act = "create"}
<1>1. by = [k \in {x \in DOMAIN d : d[x].act # "skip"} |-> RecordOf(d, k)] /\ DOMAIN d = T
  BY DEF RecordsBy, RecordOf
<1>2. \A k \in T : d[k] \in Decisions /\ k \in Seq(Nat) /\ k # NoRecord /\ k \notin Old
  BY DEF TaskKeys, TreeConstants
<1>3. ASSUME NEW k \in T, d[k].act # "skip" PROVE d[k].act = "create" \/ d[k].rec \in Old
  BY <1>2, <1>3 DEF Decisions
<1>4. \A r \in Old : r # NoRecord /\ r \notin T
  BY <1>2 DEF TreeConstants
<1> QED
  BY <1>1, <1>2, <1>3, <1>4 DEF RecordOf

LEMMA PrefixIs ==
  ASSUME NEW k \in Seq(Nat), NEW i \in 0..Len(k)
  PROVE  Prefix(k, i) \in Seq(Nat) /\ Len(Prefix(k, i)) = i
BY DEF Prefix

(* The nearest ancestor that became a record.                                *)
LEMMA NearestIs ==
  ASSUME NEW k \in TaskKeys, NEW by
  PROVE  LET up == {i \in 2..(Len(k) - 1) : Prefix(k, i) \in DOMAIN by} IN
         /\ up = {} => NearestParent(k, by) = NoRecord
         /\ up # {} => \E i \in up : NearestParent(k, by) = by[Prefix(k, i)]
<1> DEFINE up == {i \in 2..(Len(k) - 1) : Prefix(k, i) \in DOMAIN by}
<1>1. Len(k) \in Nat
  BY DEF TaskKeys
<1>2. ASSUME up # {} PROVE Max(up) \in up
  <2>1. up \in SUBSET Nat /\ \A i \in up : i <= Len(k)
    BY <1>1
  <2> DEFINE down == {Len(k) - i : i \in up}
  <2>2. down \in SUBSET Nat /\ down # {}
    BY <1>1, <1>2, <2>1
  <2>3. PICK n \in down : \A m \in down : n <= m
    <3> HIDE DEF down
    <3> QED
      BY <2>2, LeastOf
  <2>4. PICK x \in up : n = Len(k) - x
    BY <2>3
  <2>5. ASSUME NEW y \in up PROVE x >= y
    <3>1. Len(k) - x <= Len(k) - y /\ x \in Nat /\ y \in Nat
      BY <2>1, <2>3, <2>4
    <3> QED
      BY <1>1, <3>1
  <2> HIDE DEF up
  <2>6. Max(up) = CHOOSE z \in up : \A y \in up : z >= y
    BY DEF Max
  <2> QED
    BY <2>5, <2>6
<1> QED
  BY <1>2 DEF NearestParent

(* The records that accepting leaves.                                        *)
Carries(w, made, T, E) ==
    /\ made \subseteq T
    /\ \A j, k \in made : <<j, k>> \in E <=> j \in w[k].deps
    /\ \A k \in made : w[k].parent = NoRecord => \A j \in made : Len(j) >= Len(k) \/ Prefix(k, Len(j)) # j
    /\ \A k \in made : w[k].parent \in made => Prefix(k, Len(w[k].parent)) = w[k].parent
    /\ \A r \in Old : /\ table[r].parent # NoRecord => w[r].parent = table[r].parent
                      /\ table[r].deps # {} => w[r].deps = table[r].deps

LEMMA WrittenRecords ==
  ASSUME TreeConstants, NEW K \in SUBSET TaskKeys, NEW E \in SUBSET (K \X K),
         NEW T \in SUBSET Tasks(K), NEW d \in [T -> Decisions]
  PROVE  Carries(Written(d, E), {k \in DOMAIN d : d[k].act = "create"}, T, E)
<1> DEFINE by == RecordsBy(d)  w == Written(d, E)
           made == {k \in DOMAIN d : d[k].act = "create"}
<1>1. T \in SUBSET TaskKeys /\ T \in SUBSET K /\ <<1>> \notin T
  BY DEF Tasks
<1>2. /\ DOMAIN by \subseteq T /\ made \subseteq DOMAIN by
      /\ \A k \in DOMAIN by : by[k] # NoRecord
      /\ \A k \in made : by[k] = k
      /\ \A k \in DOMAIN by : by[k] \in made => by[k] = k
  BY <1>1, DecidedRecords
<1>3. ASSUME NEW k \in made
      PROVE  w[k].parent = NearestParent(k, by) /\ w[k].deps = Blockers(E, k, by)
  <2>1. w[k] = [parent |-> NearestParent(k, by), deps |-> Blockers(E, k, by)]
    BY DEF Written
  <2> HIDE DEF by, w
  <2> QED
    BY <2>1
<1>4. ASSUME NEW r \in Old PROVE w[r] = IF Merges(d, r) THEN Merged(r, d, E, by) ELSE table[r]
  <2>1. r \notin made
    BY <1>1, <1>2 DEF TreeConstants, TaskKeys
  <2> QED
    BY <2>1 DEF Written
<1> HIDE DEF by, w, made
<1>5. ASSUME NEW j \in made, NEW k \in made PROVE <<j, k>> \in E <=> j \in w[k].deps
  <2>1. w[k].deps = {by[e[1]] : e \in {x \in E : x[2] = k /\ x[1] \in DOMAIN by}}
    BY <1>3 DEF Blockers
  <2>2. ASSUME <<j, k>> \in E PROVE j \in w[k].deps
    <3>1. <<j, k>> \in {x \in E : x[2] = k /\ x[1] \in DOMAIN by} /\ by[<<j, k>>[1]] = j
      BY <1>2, <2>2
    <3> QED
      BY <2>1, <3>1
  <2>3. ASSUME j \in w[k].deps PROVE <<j, k>> \in E
    <3>1. PICK e \in E : e[2] = k /\ e[1] \in DOMAIN by /\ j = by[e[1]]
      BY <2>1, <2>3
    <3>2. e = <<e[1], e[2]>> /\ e[1] = j
      BY <1>2, <3>1
    <3> QED
      BY <3>1, <3>2
  <2> QED
    BY <2>2, <2>3
<1>6. ASSUME NEW k \in made, w[k].parent = NoRecord, NEW j \in made
      PROVE  Len(j) >= Len(k) \/ Prefix(k, Len(j)) # j
  <2> SUFFICES ASSUME ~(Len(j) >= Len(k)), Prefix(k, Len(j)) = j PROVE FALSE
    OBVIOUS
  <2>1. k \in TaskKeys /\ j \in TaskKeys /\ j # <<1>>
    BY <1>1, <1>2
  <2>2. Len(j) \in Nat /\ Len(k) \in Nat /\ Len(j) >= 2
    <3>1. j \in Seq(Nat) /\ j # <<>> /\ j[1] = 1 /\ k \in Seq(Nat)
      BY <2>1 DEF TaskKeys
    <3>2. Len(j) = 1 => j = <<1>>
      BY <3>1
    <3>3. Len(j) \in Nat /\ Len(k) \in Nat /\ Len(j) # 0
      BY <3>1
    <3> QED
      BY <2>1, <3>2, <3>3
  <2> DEFINE up == {i \in 2..(Len(k) - 1) : Prefix(k, i) \in DOMAIN by}
  <2>3. Len(j) \in up
    BY <1>2, <2>2
  <2>4. PICK i \in up : NearestParent(k, by) = by[Prefix(k, i)]
    BY <2>1, <2>3, NearestIs
  <2> QED
    BY <1>2, <1>3, <1>6, <2>4
<1>7. ASSUME NEW k \in made, w[k].parent \in made PROVE Prefix(k, Len(w[k].parent)) = w[k].parent
  <2>1. k \in TaskKeys /\ k \in Seq(Nat) /\ Len(k) \in Nat
    BY <1>1, <1>2 DEF TaskKeys
  <2> DEFINE up == {i \in 2..(Len(k) - 1) : Prefix(k, i) \in DOMAIN by}
  <2>2. w[k].parent = NearestParent(k, by) /\ w[k].parent # NoRecord
    <3>1. \A r \in made : r # NoRecord
      BY <1>2
    <3> QED
      BY <1>3, <1>7, <3>1
  <2>3. PICK i \in up : w[k].parent = by[Prefix(k, i)]
    BY <2>1, <2>2, NearestIs
  <2>4. w[k].parent = Prefix(k, i)
    BY <1>2, <1>7, <2>3
  <2>5. i \in 0..Len(k)
    BY <2>1
  <2> QED
    BY <2>1, <2>4, <2>5, PrefixIs
<1>8. ASSUME NEW r \in Old
      PROVE  /\ table[r].parent # NoRecord => w[r].parent = table[r].parent
             /\ table[r].deps # {} => w[r].deps = table[r].deps
  <2>1. CASE Merges(d, r)
    <3> DEFINE above == {k \in MergedInto(d, r) : NearestParent(k, by) # NoRecord}
               waits == {k \in MergedInto(d, r) : Blockers(E, k, by) # {}}
               parent == IF table[r].parent = NoRecord /\ above # {}
                         THEN NearestParent(FirstOf(above), by) ELSE table[r].parent
               deps == IF table[r].deps = {} /\ waits # {} THEN Blockers(E, FirstOf(waits), by)
                                                           ELSE table[r].deps
    <3>1. w[r] = [parent |-> parent, deps |-> deps]
      BY <1>4, <2>1 DEF Merged
    <3>2. table[r].parent # NoRecord => parent = table[r].parent
      OBVIOUS
    <3>3. table[r].deps # {} => deps = table[r].deps
      OBVIOUS
    <3> HIDE DEF parent, deps
    <3> QED
      BY <3>1, <3>2, <3>3
  <2>2. CASE ~Merges(d, r)
    BY <1>4, <2>2
  <2> QED
    BY <2>1, <2>2
<1>9. made \subseteq T
  BY <1>2
<1> QED
  BY <1>5, <1>6, <1>7, <1>8, <1>9 DEF w, made, Carries

(* A graph within one without circles has none.                              *)
LEMMA FewerEdges ==
  ASSUME NEW E, NEW F \in SUBSET E, ~Cyclic(E)
  PROVE  ~Cyclic(F)
<1> SUFFICES ASSUME NEW S \in SUBSET EndsOf(F), S # {}, \A x \in S : \E y \in S : <<x, y>> \in F PROVE FALSE
  BY DEF Cyclic
<1>1. EndsOf(F) \subseteq EndsOf(E)
  BY DEF EndsOf
<1>2. S \in SUBSET EndsOf(E) /\ \A x \in S : \E y \in S : <<x, y>> \in E
  BY <1>1
<1> QED
  BY <1>2 DEF Cyclic

TreesInv ==
    /\ raw \in Answers \cup {NoAnswer} /\ tried \in 0..Attempts
    /\ step \in {"asked", "previewed", "applied", "failed"}
    /\ step # "applied" => raw \in Answers
    /\ plan.keys \in SUBSET TaskKeys /\ IsFiniteSet(plan.keys)
    /\ plan.edges \in SUBSET (plan.keys \X plan.keys)
    /\ <<1>> \in plan.keys \/ plan = NoPlan
    /\ step = "previewed" => plan.keys = ValidKeys /\ plan.edges = Edges
    /\ step \in {"previewed", "applied"} => ~Cyclic(plan.edges)
    /\ RecordsCarryThePlan

LEMMA TreesInit ==
  ASSUME TreeConstants, InitTrees
  PROVE  TreesInv
<1>1. plan = NoPlan /\ plan.keys = {} /\ plan.edges = {}
  BY DEF InitTrees, NoPlan
<1>2. IsFiniteSet({})
  BY FS_EmptySet
<1> QED
  BY <1>1, <1>2 DEF InitTrees, TreesInv, RecordsCarryThePlan, TreeConstants

LEMMA PreviewKeepsTrees ==
  ASSUME TreeConstants, TreesInv, Preview
  PROVE  TreesInv' /\ MergeOnlyFillsStep
<1>1. raw \in Answers /\ raw' = raw /\ step' = "previewed" /\ tried' = tried + 1 /\ table' = table
  BY DEF Preview, TreesInv
<1>2. ~CycleDetected(Edges)
  BY DEF Preview, Accepts
<1>3. /\ ValidKeys \in SUBSET TaskKeys /\ IsFiniteSet(ValidKeys) /\ <<1>> \in ValidKeys
      /\ Edges \in SUBSET (ValidKeys \X ValidKeys)
  BY <1>1, ValidKeysAre
<1>4. ~Cyclic(Edges)
  BY <1>2, <1>3, EndsAreFinite, NoCycleIsFound
<1>5. plan'.keys = ValidKeys /\ plan'.edges = Edges
  <2>1. plan' = [keys |-> ValidKeys, edges |-> Edges]
    BY DEF Preview
  <2> QED
    BY <2>1
<1>6. ValidKeys' = ValidKeys /\ Edges' = Edges
  BY <1>1 DEF ValidKeys, Edges, Remapped, KeptNodes, NewKeys, Index
<1>7. tried' \in 0..Attempts
  BY DEF Preview, TreesInv, TreeConstants
<1>8. RecordsCarryThePlan'
  BY <1>1 DEF RecordsCarryThePlan
<1>9. Answers' = Answers
  BY DEF Answers
<1>10. (~Cyclic(plan.edges))'
  <2>1. (Cyclic(plan.edges))' = Cyclic(plan'.edges)
    BY DEF Cyclic, EndsOf
  <2> QED
    BY <1>4, <1>5, <2>1
<1>11. TreesInv'
  BY <1>1, <1>3, <1>5, <1>6, <1>7, <1>8, <1>9, <1>10 DEF TreesInv
<1> QED
  BY <1>1, <1>11 DEF MergeOnlyFillsStep

LEMMA AttemptFailsKeepsTrees ==
  ASSUME TreeConstants, TreesInv, AttemptFails
  PROVE  TreesInv' /\ MergeOnlyFillsStep
<1>1. plan' = plan /\ table' = table /\ raw \in Answers /\ step' \in {"asked", "failed"} /\ tried' \in 0..Attempts
  BY DEF AttemptFails, TreesInv, TreeConstants
<1>2. raw' \in Answers
  <2>1. CASE raw' = raw
    BY <1>1, <2>1
  <2>2. ASSUME NEW n \in Sized(Nodes \X RawKeys), raw' = [raw EXCEPT !.needs = n] PROVE raw' \in Answers
    BY <1>1, <2>2 DEF Answers
  <2> QED
    BY <2>1, <2>2 DEF AttemptFails
<1>3. RecordsCarryThePlan'
  BY <1>1 DEF RecordsCarryThePlan
<1>4. TreesInv'
  BY <1>1, <1>2, <1>3 DEF TreesInv
<1> QED
  BY <1>1, <1>4 DEF MergeOnlyFillsStep

LEMMA ApplyKeepsTrees ==
  ASSUME TreeConstants, TreesInv, NEW K \in SUBSET plan.keys,
         NEW E \in SUBSET (plan.keys \X plan.keys), Apply(K, E)
  PROVE  TreesInv' /\ MergeOnlyFillsStep
<1> DEFINE final == FinalEdges(K, E)  T == Tasks(K)
<1>1. /\ step' = "applied" /\ raw' = NoAnswer /\ tried' = tried /\ <<1>> \in K
      /\ ~CycleDetected(final) /\ plan' = [keys |-> K, edges |-> final]
  BY DEF Apply
<1>2. PICK d \in [T -> Decisions] : decided' = d /\ table' = Written(d, final)
  BY DEF Apply
<1>3. K \in SUBSET TaskKeys /\ IsFiniteSet(K)
  BY FS_Subset DEF TreesInv
<1>4. final \in SUBSET (K \X K)
  BY DEF FinalEdges
<1>5. T \in SUBSET Tasks(K)
  OBVIOUS
<1>6. ~Cyclic(final)
  BY <1>1, <1>3, <1>4, EndsAreFinite, NoCycleIsFound
<1> HIDE DEF final, T
<1>7. plan'.keys = K /\ plan'.edges = final
  BY <1>1
<1> DEFINE made == {k \in DOMAIN d : d[k].act = "create"}
<1>8. /\ made \subseteq T
      /\ \A j, k \in made : <<j, k>> \in final <=> j \in table'[k].deps
      /\ \A k \in made : table'[k].parent = NoRecord =>
           \A j \in made : Len(j) >= Len(k) \/ Prefix(k, Len(j)) # j
      /\ \A k \in made : table'[k].parent \in made => Prefix(k, Len(table'[k].parent)) = table'[k].parent
      /\ \A r \in Old : /\ table[r].parent # NoRecord => table'[r].parent = table[r].parent
                        /\ table[r].deps # {} => table'[r].deps = table[r].deps
  <2> DEFINE w == Written(d, final)
  <2>1. Carries(w, made, T, final)
    BY <1>3, <1>4, <1>5, WrittenRecords
  <2> HIDE DEF w, made
  <2>2. table' = w
    BY <1>2 DEF w
  <2> QED
    BY <2>1, <2>2 DEF Carries
<1>9. Created' = made
  BY <1>2 DEF Created
<1> HIDE DEF made
<1> DEFINE links == {e \in DependsOn(table') : e[1] \in made /\ e[2] \in made}
<1>10. links \in SUBSET final
  <2>1. ASSUME NEW e \in links PROVE e \in final
    <3>1. e = <<e[1], e[2]>> /\ e[1] \in table'[e[2]].deps /\ e[1] \in made /\ e[2] \in made
      BY DEF DependsOn
    <3> QED
      BY <1>8, <3>1
  <2> QED
    BY <2>1
<1>11. ~Cyclic(links)
  BY <1>6, <1>10, FewerEdges
<1>12. RecordsCarryThePlan'
  <2>1. (DependsOn(table))' = DependsOn(table')
    BY DEF DependsOn
  <2>2. (Cyclic({e \in DependsOn(table) : e[1] \in Created /\ e[2] \in Created}))' = Cyclic(links)
    BY <1>9, <2>1 DEF Cyclic, EndsOf
  <2> QED
    BY <1>7, <1>8, <1>9, <1>11, <2>2 DEF RecordsCarryThePlan
<1>13. (~Cyclic(plan.edges))'
  <2>1. (Cyclic(plan.edges))' = Cyclic(plan'.edges)
    BY DEF Cyclic, EndsOf
  <2> QED
    BY <1>6, <1>7, <2>1
<1>14. TreesInv'
  BY <1>1, <1>3, <1>4, <1>7, <1>12, <1>13 DEF TreesInv
<1> QED
  BY <1>8, <1>14 DEF MergeOnlyFillsStep

LEMMA TreesStep ==
  ASSUME TreeConstants, TreesInv, [NextTrees]_varsTrees
  PROVE  TreesInv' /\ (NextTrees => MergeOnlyFillsStep)
<1>1. ASSUME NextTrees PROVE TreesInv' /\ MergeOnlyFillsStep
  <2>1. CASE Preview
    BY <1>1, <2>1, PreviewKeepsTrees
  <2>2. CASE AttemptFails
    BY <1>1, <2>2, AttemptFailsKeepsTrees
  <2>3. ASSUME NEW K \in SUBSET plan.keys,
               NEW E \in {plan.edges} \cup {plan.edges \cup {e} : e \in K \X K}, Apply(K, E)
        PROVE  TreesInv' /\ MergeOnlyFillsStep
    <3>1. E \in SUBSET (plan.keys \X plan.keys)
      BY <1>1 DEF TreesInv
    <3> QED
      BY <1>1, <2>3, <3>1, ApplyKeepsTrees
  <2> QED
    BY <1>1, <2>1, <2>2, <2>3 DEF NextTrees
<1>2. UNCHANGED varsTrees => TreesInv'
  <2> SUFFICES ASSUME UNCHANGED varsTrees PROVE TreesInv'
    OBVIOUS
  <2>1. /\ raw' = raw /\ tried' = tried /\ plan' = plan /\ table' = table /\ used' = used
        /\ decided' = decided /\ step' = step
    BY DEF varsTrees
  <2>2. Answers' = Answers /\ ValidKeys' = ValidKeys /\ Edges' = Edges
    BY <2>1 DEF Answers, ValidKeys, Edges, Remapped, KeptNodes, NewKeys, Index
  <2>3. (Cyclic(plan.edges))' = Cyclic(plan.edges)
    BY <2>1 DEF Cyclic, EndsOf
  <2>4. RecordsCarryThePlan' = RecordsCarryThePlan
    BY <2>1 DEF RecordsCarryThePlan, Created, DependsOn, Cyclic, EndsOf
  <2> QED
    BY <2>1, <2>2, <2>3, <2>4 DEF TreesInv
<1> QED
  BY <1>1, <1>2

LEMMA TreesSafe ==
  ASSUME TreeConstants, TreesInv
  PROVE  TypeOKTrees /\ PlansKeepTheirMeaning /\ RecordsCarryThePlan
<1>1. TypeOKTrees
  BY DEF TreesInv, TypeOKTrees
<1>2. PlansKeepTheirMeaning
  BY EdgesKeepTheirMeaning DEF TreesInv, PlansKeepTheirMeaning
<1> QED
  BY <1>1, <1>2 DEF TreesInv

(* Plans keep their meaning and become the records they say, and a merge     *)
(* only fills what was empty (task_split.py, task_planning.py).              *)
THEOREM PlansBecomeTheirRecords ==
  ASSUME TreeConstants
  PROVE  SpecTrees => /\ [](TypeOKTrees /\ PlansKeepTheirMeaning /\ RecordsCarryThePlan)
                      /\ [][MergeOnlyFillsStep]_varsTrees
<1>1. InitTrees => TreesInv
  BY TreesInit
<1>2. TreesInv /\ [NextTrees]_varsTrees => [MergeOnlyFillsStep]_varsTrees /\ TreesInv'
  BY TreesStep
<1> QED
  BY <1>1, <1>2, TreesSafe, PTL DEF SpecTrees
=============================================================================
