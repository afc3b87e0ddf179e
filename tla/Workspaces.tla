----------------------------- MODULE Workspaces -----------------------------
(* One workspace: its tree of folders, tables and dashboards, the data       *)
(* behind the tables and dashboards, its members and their permissions.      *)
(*                                                                           *)
(* A request checks permissions, reads and writes in separate statements     *)
(* without locks, and the operations on tables and dashboards commit several *)
(* times: the tree, the data and the task profile of a table are written by  *)
(* different transactions.                                                   *)
EXTENDS Naturals, FiniteSets

CONSTANTS
    People,       \* users of the server
    ItemIds,      \* ids of workspace_items, the ones not used yet included
    NoItem,       \* no item; the parent of the root
    MaxGrants,    \* bound on the item permissions at any time
    MaxCalls      \* bound on the requests of a history

VARIABLES
    item,         \* workspace_items
    content,      \* ids with fields, records and views, or a dashboard row
    profile,      \* ids with a table_task_profiles row
    role,         \* workspace_members
    grant,        \* workspace_item_permissions: a set of <<item, user, level>>
    call,         \* the request each user has in progress
    cut,          \* items whose request died between two commits
    contested,    \* items that two overlapping requests worked on
    calls         \* requests so far

varsWorkspaces == <<item, content, profile, role, grant, call, cut, contested, calls>>

(* PERMISSION_ORDER; "none" is a user without membership. *)
Level == [none |-> 0, read |-> 1, update |-> 2, edit |-> 3, manage |-> 4]
Levels == {"read", "update", "edit", "manage"}
RolePermission == [owner |-> "manage", editor |-> "edit", viewer |-> "read",
                   none |-> "none"]
PermissionAllows(current, required) == Level[current] >= Level[required]

ItemTypes == {"folder", "table", "dashboard"}
Node == [type : ItemTypes, parent : ItemIds \cup {NoItem}]
Present(i) == i \in ItemIds /\ item[i] # NoItem
Root == {i \in ItemIds : Present(i) /\ item[i].parent = NoItem}
HasContent(i) == item[i].type \in {"table", "dashboard"}

NoCall == [op |-> "none"]
Ops == {"folder", "table", "dashboard", "move", "copy", "delete", "grant",
        "revoke", "leave", "invite", "drop", "claim"}

(* The items a path upwards meets; the walk stops where it has been before. *)
Upwards(i) ==
    LET up[n \in 0..Cardinality(ItemIds)] ==
          IF n = 0 THEN i
          ELSE IF Present(up[n - 1]) THEN item[up[n - 1]].parent ELSE NoItem
    IN  up

(* The nearest item permission on the way to the root, else the role. *)
EffectivePermission(u, i) ==
    LET up == Upwards(i)
        steps == {n \in DOMAIN up : Present(up[n])
                    /\ \E g \in grant : g[1] = up[n] /\ g[2] = u}
    IN  IF ~Present(i) \/ role[u] = "none" THEN "none"
        ELSE IF steps = {} THEN RolePermission[role[u]]
        ELSE LET n == CHOOSE m \in steps : \A k \in steps : m <= k
             IN  (CHOOSE g \in grant : g[1] = up[n] /\ g[2] = u)[3]

May(u, i, required) == PermissionAllows(EffectivePermission(u, i), required)

Below(i) == {j \in ItemIds : Present(j) /\ \E n \in DOMAIN Upwards(j) : Upwards(j)[n] = i}

(* Items in use by the requests of other people. *)
InUse(u) == UNION {call[v].on : v \in {w \in People \ {u} : call[w].op # "none"}}

InitWorkspaces ==
    /\ item = [i \in ItemIds |-> NoItem]
    /\ content = {} /\ profile = {} /\ grant = {} /\ cut = {} /\ contested = {}
    /\ role = [u \in People |-> "none"]
    /\ call = [u \in People |-> NoCall]
    /\ calls = 0
-----------------------------------------------------------------------------
(* A new request; between its statements other people's requests run. *)
Starts(u) == call[u] = NoCall /\ calls < MaxCalls /\ calls' = calls + 1

(* _require_workspace_member: the first caller of a workspace without        *)
(* members becomes its owner; the count and the insert are two statements.   *)
Claim(u) ==
    /\ Starts(u) /\ Root # {}
    /\ \A v \in People : role[v] = "none"
    /\ call' = [call EXCEPT ![u] = [op |-> "claim", on |-> {}]]
    /\ UNCHANGED <<item, content, profile, role, grant, cut, contested>>

FinishClaim(u) ==
    /\ call[u].op = "claim"
    /\ role' = [role EXCEPT ![u] = "owner"]
    /\ call' = [call EXCEPT ![u] = NoCall]
    /\ UNCHANGED <<item, content, profile, grant, cut, contested, calls>>

(* The root and its first table in one transaction, when a request finds no  *)
(* root: a new workspace, a default workspace, or a deleted one that a       *)
(* member lists again.                                                       *)
EnsureWorkspace(u, r, t) ==
    /\ Starts(u) /\ Root = {}
    /\ r # t /\ ~Present(r) /\ ~Present(t)
    /\ {r, t} \cap (content \cup profile \cup cut \cup contested \cup InUse(u)) = {}
    /\ item' = [item EXCEPT ![r] = [type |-> "folder", parent |-> NoItem],
                            ![t] = [type |-> "table", parent |-> r]]
    /\ content' = content \cup {t}
    /\ call' = [call EXCEPT ![u] =
         IF \A v \in People : role[v] = "none" THEN [op |-> "claim", on |-> {}] ELSE NoCall]
    /\ UNCHANGED <<profile, role, grant, cut, contested>>

(* A mutation passes its checks; what it works on is kept for the rest.      *)
Begin(u, op, i, j, required, requiredThere) ==
    /\ Starts(u) /\ role[u] # "none" /\ Root # {}
    /\ May(u, i, required)
    /\ j # NoItem => May(u, j, requiredThere)
    /\ call' = [call EXCEPT ![u] = [op |-> op, item |-> i, target |-> j, on |-> {i},
                                    todo |-> {}, step |-> "checked"]]
    /\ UNCHANGED <<item, content, profile, role, grant, cut, contested>>

BeginFolder(u, p) == Begin(u, "folder", p, NoItem, "edit", "edit")
BeginTable(u, p) == Begin(u, "table", p, NoItem, "edit", "edit")
BeginDashboard(u, p) == Begin(u, "dashboard", p, NoItem, "edit", "edit")
BeginMove(u, i, p) == Begin(u, "move", i, p, "manage", "edit")
BeginCopy(u, i, p) == Begin(u, "copy", i, p, "read", "edit")
BeginDelete(u, i) == Begin(u, "delete", i, NoItem, "manage", "edit")

At(u, op, step) == call[u].op = op /\ call[u].step = step
Done(u) == call' = [call EXCEPT ![u] = NoCall]

(* The request gives up without an effect: a guard, a rollback. *)
Refused(u) ==
    /\ call[u].op # "none" /\ call[u].op # "claim" /\ call[u].step = "checked"
    /\ Done(u)
    /\ UNCHANGED <<item, content, profile, role, grant, cut, contested, calls>>

Fresh(u, i) ==
    /\ ~Present(i)
    /\ i \notin content \cup profile \cup cut \cup contested \cup InUse(u)

(* The new item under its parent, read again without a lock. A copied table  *)
(* may also be put below a dashboard.                                        *)
Insert(i, type, p, parents) ==
    /\ Present(p) /\ item[p].type \in parents
    /\ item' = [item EXCEPT ![i] = [type |-> type, parent |-> p]]

Continue(u, i, type, step) ==
    call' = [call EXCEPT ![u].op = type, ![u].step = step, ![u].item = i, ![u].on = {i}]

CreateFolder(u, i) ==
    /\ At(u, "folder", "checked") /\ Fresh(u, i)
    /\ Insert(i, "folder", call[u].item, {"folder"})
    /\ Done(u)
    /\ UNCHANGED <<content, profile, role, grant, cut, contested, calls>>

(* The older flow that init_table_db still repairs: the item is committed    *)
(* although the template fails.                                              *)
CreateTableItemFirst(u, i) ==
    /\ At(u, "table", "checked") /\ Fresh(u, i)
    /\ Insert(i, "table", call[u].item, {"folder"})
    /\ \/ content' = content \cup {i} /\ Continue(u, i, "table", "profile")
       \/ content' = content /\ Done(u)
    /\ UNCHANGED <<profile, role, grant, cut, contested, calls>>

(* Item and schema are one transaction; the task profile is another. *)
CreateTable(u, i) ==
    /\ At(u, "table", "checked") /\ Fresh(u, i)
    /\ Insert(i, "table", call[u].item, {"folder"})
    /\ content' = content \cup {i}
    /\ Continue(u, i, "table", "profile")
    /\ UNCHANGED <<profile, role, grant, cut, contested, calls>>

CreateDashboard(u, i) ==
    /\ At(u, "dashboard", "checked") /\ Fresh(u, i)
    /\ Insert(i, "dashboard", call[u].item, {"folder"})
    /\ Continue(u, i, "dashboard", "fill")
    /\ UNCHANGED <<content, profile, role, grant, cut, contested, calls>>

CopyItem(u, i, type, parents) ==
    /\ At(u, "copy", "checked") /\ Fresh(u, i)
    /\ Present(call[u].item) /\ item[call[u].item].type = type
    /\ Insert(i, type, call[u].target, parents)
    /\ Continue(u, i, type, "fill")
    /\ UNCHANGED <<content, profile, role, grant, cut, contested, calls>>

CopyTable(u, i) == CopyItem(u, i, "table", {"folder", "dashboard"})
CopyDashboard(u, i) == CopyItem(u, i, "dashboard", {"folder"})

(* The data of a copied table, committed after its item; then the profile.   *)
FillTable(u) ==
    /\ At(u, "table", "fill")
    /\ content' = content \cup {call[u].item}
    /\ call' = [call EXCEPT ![u].step = "profile"]
    /\ UNCHANGED <<item, profile, role, grant, cut, contested, calls>>

FillDashboard(u) ==
    /\ At(u, "dashboard", "fill")
    /\ content' = content \cup {call[u].item}
    /\ Done(u)
    /\ UNCHANGED <<item, profile, role, grant, cut, contested, calls>>

(* install_profile_from_annotations writes a profile if the fields ask for   *)
(* one; if it fails the new table is deleted again.                          *)
InstallProfile(u) ==
    /\ At(u, "table", "profile")
    /\ \/ /\ \/ profile' = profile \cup {call[u].item}
             \/ profile' = profile
          /\ Done(u)
       \/ /\ call' = [call EXCEPT ![u].op = "delete", ![u].step = "checked"]
          /\ profile' = profile
    /\ UNCHANGED <<item, content, role, grant, cut, contested, calls>>
-----------------------------------------------------------------------------
(* No check that the new parent lies outside the moved subtree. *)
MoveItem(u) ==
    /\ At(u, "move", "checked")
    /\ Present(call[u].item) /\ Present(call[u].target)
    /\ item[call[u].target].type = "folder"
    /\ item' = [item EXCEPT ![call[u].item].parent = call[u].target]
    /\ Done(u)
    /\ UNCHANGED <<content, profile, role, grant, cut, contested, calls>>

(* The subtree is read once; the search of _delete_item_db does not end on a *)
(* cycle.                                                                    *)
ReadSubtree(u) ==
    /\ At(u, "delete", "checked") /\ Present(call[u].item)
    /\ LET i == call[u].item IN
       /\ \A j \in Below(i) : \E n \in DOMAIN Upwards(j) : Upwards(j)[n] = NoItem
       /\ call' = [call EXCEPT ![u].todo = Below(i), ![u].on = Below(i),
                               ![u].step = "emptying"]
       /\ contested' = contested \cup (Below(i) \cap InUse(u))
    /\ UNCHANGED <<item, content, profile, role, grant, cut, calls>>

Unfilled(u) == {i \in call[u].todo : i \in content}

(* The data of each table and dashboard is deleted in a commit of its own. *)
EmptyItem(u, i) ==
    /\ i \in Unfilled(u)
    /\ content' = content \ {i}
    /\ contested' = contested \cup ({i} \cap InUse(u))
    /\ UNCHANGED <<item, profile, role, grant, call, cut, calls>>

EmptyTable(u, i) ==
    /\ call[u].op \in {"delete", "drop"} /\ call[u].step = "emptying"
    /\ Present(i) => item[i].type = "table"
    /\ EmptyItem(u, i)

EmptyDashboard(u, i) ==
    /\ At(u, "delete", "emptying") /\ Present(i) /\ item[i].type = "dashboard"
    /\ EmptyItem(u, i)

DeleteRows(u) ==
    /\ At(u, "delete", "emptying") /\ Unfilled(u) = {}
    /\ item' = [i \in ItemIds |-> IF i \in call[u].todo THEN NoItem ELSE item[i]]
    /\ call' = [call EXCEPT ![u].step = "unprofile"]
    /\ UNCHANGED <<content, profile, role, grant, cut, contested, calls>>

DeleteProfiles(u) ==
    /\ call[u].op \in {"delete", "drop"} /\ call[u].step = "unprofile"
    /\ profile' = profile \ call[u].todo
    /\ Done(u)
    /\ UNCHANGED <<item, content, role, grant, cut, contested, calls>>

(* delete_workspace_db empties the tables only; dashboards keep their rows,  *)
(* members and permissions stay.                                             *)
BeginDrop(u) ==
    /\ Starts(u) /\ role[u] = "owner" /\ Root # {}
    /\ LET all == {i \in ItemIds : Present(i)} IN
       /\ call' = [call EXCEPT ![u] = [op |-> "drop", on |-> all, step |-> "emptying",
                     todo |-> {i \in all : item[i].type = "table"}]]
       /\ contested' = contested \cup (all \cap InUse(u))
    /\ UNCHANGED <<item, content, profile, role, grant, cut>>

DropRows(u) ==
    /\ At(u, "drop", "emptying") /\ Unfilled(u) = {}
    /\ item' = [i \in ItemIds |-> NoItem]
    /\ call' = [call EXCEPT ![u].step = "unprofile"]
    /\ cut' = cut \cup {i \in ItemIds : Present(i) /\ item[i].type = "dashboard"}
    /\ contested' = contested \cup {i \in ItemIds : Present(i) /\ i \notin call[u].on}
    /\ UNCHANGED <<content, profile, role, grant, calls>>
-----------------------------------------------------------------------------
(* Item permissions of members. *)
BeginGrant(u, i) == Begin(u, "grant", i, NoItem, "manage", "edit")

SetItemPermission(u, v, level) ==
    /\ At(u, "grant", "checked") /\ role[v] # "none"
    /\ Cardinality(grant) < MaxGrants
    /\ grant' = {g \in grant : ~(g[1] = call[u].item /\ g[2] = v)}
                \cup {<<call[u].item, v, level>>}
    /\ Done(u)
    /\ UNCHANGED <<item, content, profile, role, cut, contested, calls>>

RemoveItemPermission(u, v) ==
    /\ At(u, "grant", "checked")
    /\ \E g \in grant : g[1] = call[u].item /\ g[2] = v
    /\ grant' = {g \in grant : ~(g[1] = call[u].item /\ g[2] = v)}
    /\ Done(u)
    /\ UNCHANGED <<item, content, profile, role, cut, contested, calls>>

(* The owner check and the commit are separated by the delivery of the mail. *)
BeginInvite(u, v, r) ==
    /\ Starts(u) /\ role[u] = "owner" /\ Root # {}
    /\ call' = [call EXCEPT ![u] = [op |-> "invite", user |-> v, role |-> r, on |-> {},
                                    step |-> "checked"]]
    /\ UNCHANGED <<item, content, profile, role, grant, cut, contested>>

InviteUser(u) ==
    /\ At(u, "invite", "checked")
    /\ role' = [role EXCEPT ![call[u].user] = call[u].role]
    /\ Done(u)
    /\ UNCHANGED <<item, content, profile, grant, cut, contested, calls>>

(* leaveWorkspace counts the owners, then deletes the membership. *)
BeginLeave(u) ==
    /\ Starts(u) /\ role[u] # "none" /\ Root # {}
    /\ role[u] = "owner" => \E v \in People \ {u} : role[v] = "owner"
    /\ call' = [call EXCEPT ![u] = [op |-> "leave", on |-> {}, step |-> "checked"]]
    /\ UNCHANGED <<item, content, profile, role, grant, cut, contested>>

LeaveWorkspace(u) ==
    /\ At(u, "leave", "checked")
    /\ role' = [role EXCEPT ![u] = "none"]
    /\ Done(u)
    /\ UNCHANGED <<item, content, profile, grant, cut, contested, calls>>

(* The process ends between two statements of the request. *)
Die(u) ==
    /\ call[u].op # "none"
    /\ cut' = cut \cup (IF call[u].op = "claim" \/ call[u].step = "checked" THEN {} ELSE call[u].on)
    /\ Done(u)
    /\ UNCHANGED <<item, content, profile, role, grant, contested, calls>>

NextWorkspaces ==
    \E u \in People :
        \/ Claim(u) \/ FinishClaim(u)
        \/ \E r, t \in ItemIds : EnsureWorkspace(u, r, t)
        \/ \E p \in ItemIds : BeginFolder(u, p) \/ BeginTable(u, p) \/ BeginDashboard(u, p)
        \/ \E i, p \in ItemIds : BeginMove(u, i, p) \/ BeginCopy(u, i, p)
        \/ \E i \in ItemIds : BeginDelete(u, i) \/ BeginGrant(u, i)
        \/ \E i \in ItemIds :
             \/ CreateFolder(u, i) \/ CreateTable(u, i) \/ CreateDashboard(u, i)
             \/ CopyTable(u, i) \/ CopyDashboard(u, i)
        \/ FillTable(u) \/ FillDashboard(u) \/ InstallProfile(u) \/ MoveItem(u)
        \/ ReadSubtree(u)
        \/ \E i \in ItemIds : EmptyTable(u, i) \/ EmptyDashboard(u, i)
        \/ DeleteRows(u) \/ DeleteProfiles(u) \/ BeginDrop(u) \/ DropRows(u)
        \/ \E v \in People, l \in Levels : SetItemPermission(u, v, l)
        \/ \E v \in People : RemoveItemPermission(u, v)
        \/ \E v \in People, r \in {"owner", "editor", "viewer"} : BeginInvite(u, v, r)
        \/ InviteUser(u) \/ BeginLeave(u) \/ LeaveWorkspace(u)
        \/ Refused(u) \/ Die(u)
-----------------------------------------------------------------------------
TypeOKWorkspaces ==
    /\ item \in [ItemIds -> Node \cup {NoItem}]
    /\ content \subseteq ItemIds /\ profile \subseteq ItemIds
    /\ role \in [People -> {"none", "owner", "editor", "viewer"}]
    /\ grant \subseteq ItemIds \X People \X Levels
    /\ cut \subseteq ItemIds /\ contested \subseteq ItemIds /\ calls \in 0..MaxCalls
    /\ \A u \in People : call[u] = NoCall \/ (call[u].op \in Ops /\ call[u].on \subseteq ItemIds)

(* Outside of requests in progress, and apart from items whose request died  *)
(* halfway or that two requests worked on at once, the tree and the data     *)
(* agree: tables and dashboards of the tree have their data, data and task   *)
(* profiles belong to an item of the tree. db_ops.py says so of new tables   *)
(* (the old order "could leave a visible zero-field table").                 *)
TablesAreWhole ==
    \A i \in (ItemIds \ (cut \cup contested)) :
        (\A u \in People : call[u].op # "none" => i \notin call[u].on) =>
            /\ Present(i) => (HasContent(i) <=> i \in content)
            /\ i \in content \cup profile => Present(i)

(* leaveWorkspace refuses the last owner ("Cannot leave last owner"): a      *)
(* workspace with members keeps an owner.                                    *)
OwnerRemains ==
    (\E u \in People : role[u] # "none") => \E u \in People : role[u] = "owner"
=============================================================================
