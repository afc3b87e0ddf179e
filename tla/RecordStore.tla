---------------------------- MODULE RecordStore ----------------------------
(***************************************************************************)
(* The rows of a smart table in the database backend, their audit history  *)
(* (ChangeSet / ChangeItem) and the recycle bin.                           *)
(*                                                                         *)
(*   app/services/smart_table_store/db_backend.py   create, update, patch, *)
(*                                     delete, field maintenance           *)
(*   app/services/change_history.py    append, undo, restore, purge        *)
(*   app/services/relation_store.py    link validation and reverse cleanup *)
(*   app/services/automation/executor.py   the update_record action        *)
(*                                                                         *)
(* One action is one database transaction wherever the code reads a row    *)
(* under SELECT ... FOR UPDATE and keeps the lock until COMMIT.  Where it  *)
(* uses a value it read earlier (an ORM object a request still holds, a    *)
(* validation without a lock), the read is an action of its own and the    *)
(* value lives in req until it is used.                                    *)
(*                                                                         *)
(* A row is abstracted to three cells: a plain value, a relation cell (the *)
(* rows it links to) and whether the auto-number column has a value.       *)
(***************************************************************************)
EXTENDS Naturals, FiniteSets

CONSTANTS
    Records,     \* record ids; _new_record_id never repeats one
    ChangeIds,   \* ChangeSet ids, likewise; bounds the length of the history
    Texts,       \* values of the plain cell
    Users,       \* interactive GraphQL requests
    Workers,     \* automation executions that hold the row they act on
    Admins,      \* requests that maintain the table's fields
    NoRec,       \* no live TableRecord with this id
    NoData,      \* SQL/JSON null in before_data / after_data
    NoItem,      \* the ChangeSet has no item for this record
    NoChange,    \* the ChangeSet id is unused
    NoEntry,     \* no RecycleBinRecord
    Idle         \* the request holds nothing

Data == [text : Texts, links : SUBSET Records, auto : BOOLEAN]
Row == [data : Data, version : Nat]
Item == [before : Data \cup {NoData}, after : Data \cup {NoData},
         version_before : Nat, version_after : Nat]
Items == [Records -> Item \cup {NoItem}]
ChangeSet == [operation : {"create", "update", "delete", "undo", "purge"},
              status : {"applied", "undone", "irreversible"},
              parent : ChangeIds \cup {NoChange},
              items : Items]
RecycleBinRecord == [status : {"deleted", "restored"}, record_version : Nat]

UndoRequest == [kind : {"undo"}, change : ChangeIds,
                status : {"applied", "undone", "irreversible"}, items : Items]
LinkRequest == [kind : {"link"}, rec : Records, links : SUBSET Records]
AutomationRequest == [kind : {"automation"}, rec : Records, row : Row]
DropRequest == [kind : {"drop"}, rows : [Records -> Data \cup {NoData}]]
Request == UndoRequest \cup LinkRequest \cup AutomationRequest \cup DropRequest

ASSUME SentinelsDiffer ==
    /\ NoRec \notin Row
    /\ NoData \notin Data
    /\ NoItem \notin Item
    /\ NoChange \notin ChangeSet
    /\ NoChange \notin ChangeIds
    /\ NoEntry \notin RecycleBinRecord
    /\ Idle \notin Request

Clients == Users \cup Workers \cup Admins

VARIABLES
    rec,        \* table_records: the live rows
    changes,    \* change_sets with their change_items
    recycle,    \* recycle_bin_records, by record and by the set that deleted it
    autoField,  \* the auto-number column exists
    req         \* what a request in progress has read and will still use

vars == <<rec, changes, recycle, autoField, req>>

TypeOK ==
    /\ rec \in [Records -> Row \cup {NoRec}]
    /\ changes \in [ChangeIds -> ChangeSet \cup {NoChange}]
    /\ recycle \in [Records -> [ChangeIds -> RecycleBinRecord \cup {NoEntry}]]
    /\ autoField \in BOOLEAN
    /\ req \in [Clients -> Request \cup {Idle}]

-----------------------------------------------------------------------------
Live == {r \in Records : rec[r] # NoRec}
Unused(c) == changes[c] = NoChange
InSet(its, r) == its[r] # NoItem
Used(r) == \E c \in ChangeIds : changes[c] # NoChange /\ InSet(changes[c].items, r)
Binned(r, c) == recycle[r][c] # NoEntry /\ recycle[r][c].status = "deleted"

(* The three shapes of a ChangeItem that undo_change_set tells apart. *)
IsDelete(i) == i.before # NoData /\ i.after = NoData
IsUpdate(i) == i.before # NoData /\ i.after # NoData
IsCreate(i) == i.before = NoData /\ i.after # NoData

(* Mutant: a status no reader knows. *)
append_change_set_pending(op, its, parent) ==
    [operation |-> op, status |-> "pending", parent |-> parent, items |-> its]

append_change_set(op, its, parent) ==
    [operation |-> op, status |-> "applied", parent |-> parent, items |-> its]

(* Mutant: the item captures the version before the increment. *)
UpdateItemEarly(r, d) ==
    [before |-> rec[r].data, after |-> d,
     version_before |-> rec[r].version, version_after |-> rec[r].version]
(* Mutant: the write forgets the version. *)
BumpedForgotten(r, d) == [data |-> d, version |-> rec[r].version]

(* record.data = ...; record.version = before_version + 1, with its ChangeItem *)
UpdateItem(r, d) ==
    [before |-> rec[r].data, after |-> d,
     version_before |-> rec[r].version, version_after |-> rec[r].version + 1]
Bumped(r, d) == [data |-> d, version |-> rec[r].version + 1]

Init ==
    /\ rec = [r \in Records |-> NoRec]
    /\ changes = [c \in ChangeIds |-> NoChange]
    /\ recycle = [r \in Records |-> [c \in ChangeIds |-> NoEntry]]
    /\ autoField = FALSE
    /\ req = [x \in Clients |-> Idle]

-----------------------------------------------------------------------------
(* Row writes.                                                             *)

(* create_record, create_records, create_records_with_data: one ChangeSet  *)
(* for the batch.  Locking the fields waits for a delete_field in progress.*)
CreateRecords(S, t, L) ==
    /\ S # {} /\ \A r \in S : ~Used(r)
    /\ L \subseteq Live
    /\ \A a \in Admins : req[a] = Idle
    /\ \E c \in ChangeIds :
        LET d == [text |-> t, links |-> L, auto |-> autoField]
        IN  /\ Unused(c)
            /\ rec' = [r \in Records |->
                         IF r \in S THEN [data |-> d, version |-> 1] ELSE rec[r]]
            /\ changes' = [changes EXCEPT ![c] = append_change_set("create",
                 [r \in Records |->
                    IF r \in S THEN [before |-> NoData, after |-> d,
                                     version_before |-> 0, version_after |-> 1]
                    ELSE NoItem], NoChange)]
    /\ UNCHANGED <<recycle, autoField, req>>

(* The rows of new whose data changes get version + 1 and one common ChangeSet; *)
(* when nothing changes the transaction commits without a history entry.        *)
WriteRows(op, new) ==
    LET changed == {r \in DOMAIN new : new[r] # rec[r].data}
    IN  /\ changed # {}
        /\ \E c \in ChangeIds :
            /\ Unused(c)
            /\ rec' = [r \in Records |->
                         IF r \in changed THEN Bumped(r, new[r]) ELSE rec[r]]
            /\ changes' = [changes EXCEPT ![c] = append_change_set(op,
                 [r \in Records |->
                    IF r \in changed THEN UpdateItem(r, new[r]) ELSE NoItem], NoChange)]

(* update_record, update_record_fields, apply_record_patches on plain cells: *)
(* ids without a live row are skipped.                                       *)
UpdateText(S, t) ==
    /\ WriteRows("update", [r \in S \cap Live |-> [rec[r].data EXCEPT !.text = t]])
    /\ UNCHANGED <<recycle, autoField, req>>

(* A relation write validates its targets without a lock ... *)
CheckLinks(u, r, L) ==
    /\ req[u] = Idle
    /\ r \in Live /\ L \subseteq Live
    /\ req' = [req EXCEPT ![u] = [kind |-> "link", rec |-> r, links |-> L]]
    /\ UNCHANGED <<rec, changes, recycle, autoField>>

(* ... and writes them later, in the same request. *)
WriteLinks(u) ==
    /\ req[u] # Idle /\ req[u].kind = "link"
    /\ LET r == req[u].rec
       IN  \/ /\ r \in Live
              /\ WriteRows("update",
                   [s \in {r} |-> [rec[s].data EXCEPT !.links = req[u].links]])
           \/ /\ r \in Live => rec[r].data.links = req[u].links
              /\ UNCHANGED <<rec, changes>>
    /\ req' = [req EXCEPT ![u] = Idle]
    /\ UNCHANGED <<recycle, autoField>>

(* cleanup_deleted_relation_references_db: the rows that lose a link. *)
Linking(r) == {s \in Live \ {r} : r \in rec[s].data.links}
Unlinked(s, r) == [rec[s].data EXCEPT !.links = @ \ {r}]

(* delete_record: the row moves to the recycle bin; the rows that link to it *)
(* lose the link, as items of the same ChangeSet.                            *)
DeleteRecord(r) ==
    /\ r \in Live
    /\ \E c \in ChangeIds :
        /\ Unused(c)
        /\ rec' = [s \in Records |->
                     IF s = r THEN NoRec
                     ELSE IF s \in Linking(r) THEN Bumped(s, Unlinked(s, r)) ELSE rec[s]]
        /\ changes' = [changes EXCEPT ![c] = append_change_set("delete",
             [s \in Records |->
                IF s = r THEN UpdateItem(r, NoData)
                ELSE IF s \in Linking(r) THEN UpdateItem(s, Unlinked(s, r))
                ELSE NoItem], NoChange)]
        /\ recycle' = [recycle EXCEPT ![r][c] =
             [status |-> "deleted", record_version |-> rec[r].version + 1]]
    /\ UNCHANGED <<autoField, req>>

-----------------------------------------------------------------------------
(* Undo, restore and purge.                                                *)

(* Mutant: undo trusts the status and the liveness of the rows alone. *)
UndoableAnyVersion(c, status, its) ==
    /\ status = "applied"
    /\ \E r \in Records : InSet(its, r)
    /\ \A r \in Records : InSet(its, r) =>
         IF IsDelete(its[r]) THEN rec[r] = NoRec /\ Binned(r, c) ELSE rec[r] # NoRec

(* The validation loop of undo_change_set, over the items as the session sees them. *)
Undoable(c, status, its) ==
    /\ status = "applied"
    /\ \E r \in Records : InSet(its, r)
    /\ \A r \in Records : InSet(its, r) =>
         IF IsDelete(its[r])
         THEN /\ rec[r] = NoRec
              /\ Binned(r, c)
              /\ recycle[r][c].record_version = its[r].version_after
         ELSE rec[r] # NoRec /\ rec[r].version = its[r].version_after

(* Mutant: undoing a create bins the row but does not delete it. *)
UndoneRowKept(i, r) ==
    IF IsDelete(i) THEN [data |-> i.before, version |-> i.version_after + 1]
    ELSE IF IsUpdate(i) THEN Bumped(r, i.before)
    ELSE rec[r]

(* What undo makes of the row, and the item it appends for it. *)
UndoneRow(i, r) ==
    IF IsDelete(i) THEN [data |-> i.before, version |-> i.version_after + 1]
    ELSE IF IsUpdate(i) THEN Bumped(r, i.before)
    ELSE IF IsCreate(i) THEN NoRec
    ELSE rec[r]

InverseItem(i, r) ==
    IF IsDelete(i) THEN [before |-> NoData, after |-> i.before,
                         version_before |-> i.version_after,
                         version_after |-> i.version_after + 1]
    ELSE IF IsUpdate(i) THEN UpdateItem(r, i.before)
    ELSE IF IsCreate(i) THEN UpdateItem(r, NoData)
    ELSE NoItem

(* undo_change_set: one transaction, from the ChangeSet's lock to COMMIT. *)
UndoSet(c, status, its) ==
    /\ Undoable(c, status, its)
    /\ \E u \in ChangeIds :
        /\ Unused(u)
        /\ rec' = [r \in Records |-> IF InSet(its, r) THEN UndoneRow(its[r], r) ELSE rec[r]]
        /\ recycle' = [r \in Records |->
             IF ~InSet(its, r) THEN recycle[r]
             ELSE IF IsDelete(its[r]) THEN [recycle[r] EXCEPT ![c].status = "restored"]
             ELSE IF IsCreate(its[r]) THEN [recycle[r] EXCEPT ![u] =
                    [status |-> "deleted", record_version |-> rec[r].version + 1]]
             ELSE recycle[r]]
        /\ changes' = [changes EXCEPT
             ![c].status = "undone",
             ![u] = append_change_set("undo",
                      [r \in Records |->
                         IF InSet(its, r) THEN InverseItem(its[r], r) ELSE NoItem], c)]
    /\ UNCHANGED autoField

(* The GraphQL undoChangeSet loads the ChangeSet and its items for the       *)
(* permission checks and keeps them: the later locked SELECTs return the     *)
(* same ORM objects, so undo_change_set works on what was read here.         *)
BeginUndo(u, c) ==
    /\ req[u] = Idle
    /\ ~Unused(c) /\ \E r \in Records : InSet(changes[c].items, r)
    /\ req' = [req EXCEPT ![u] = [kind |-> "undo", change |-> c,
                 status |-> changes[c].status, items |-> changes[c].items]]
    /\ UNCHANGED <<rec, changes, recycle, autoField>>

FinishUndo(u) ==
    /\ req[u] # Idle /\ req[u].kind = "undo"
    /\ \/ UndoSet(req[u].change, req[u].status, req[u].items)
       \/ /\ ~Undoable(req[u].change, req[u].status, req[u].items)
          /\ UNCHANGED <<rec, changes, recycle, autoField>>
    /\ req' = [req EXCEPT ![u] = Idle]

(* restore_recycled_record: the undo of the set that binned the record. *)
RestoreRecord(r) ==
    /\ \E c \in ChangeIds :
         /\ Binned(r, c)
         /\ ~Unused(c)
         /\ UndoSet(c, changes[c].status, changes[c].items)
    /\ UNCHANGED req

(* Mutant: purge clears only one of the two snapshots. *)
RedactedHalf(its, r) ==
    [its EXCEPT ![r] = IF @ = NoItem THEN @ ELSE [@ EXCEPT !.before = NoData]]

(* Every ChangeItem of the record loses its snapshots; it keeps its versions. *)
Redacted(its, r) ==
    [its EXCEPT ![r] = IF @ = NoItem THEN @
                       ELSE [@ EXCEPT !.before = NoData, !.after = NoData]]

(* purge_recycled_record *)
PurgeRecord(r) ==
    /\ \E c, p \in ChangeIds :
        /\ Binned(r, c)
        /\ Unused(p)
        /\ changes' = [x \in ChangeIds |->
             IF x = p
             THEN [operation |-> "purge", status |-> "irreversible", parent |-> NoChange,
                   items |-> [s \in Records |->
                     IF s = r THEN [before |-> NoData, after |-> NoData,
                                    version_before |-> recycle[r][c].record_version,
                                    version_after |-> recycle[r][c].record_version]
                     ELSE NoItem]]
             ELSE IF Unused(x) THEN NoChange
             ELSE [changes[x] EXCEPT
                     !.status = IF x = c THEN "irreversible" ELSE @,
                     !.items = Redacted(@, r)]]
    /\ recycle' = [recycle EXCEPT ![r] = [c \in ChangeIds |-> NoEntry]]
    /\ UNCHANGED <<rec, autoField, req>>

-----------------------------------------------------------------------------
(* Field maintenance: rewrites rows without a version or a ChangeSet.      *)

(* add_field of an auto-number column, and update_field into one: existing *)
(* rows are locked and numbered.                                           *)
AddAutoField(a) ==
    /\ req[a] = Idle
    /\ ~autoField
    /\ autoField' = TRUE
    /\ rec' = [r \in Records |-> IF r \in Live THEN [rec[r] EXCEPT !.data.auto = TRUE]
                                 ELSE NoRec]
    /\ UNCHANGED <<changes, recycle, req>>

(* delete_field reads the rows without a lock ... *)
BeginDropField(a) ==
    /\ autoField
    /\ \A b \in Admins : req[b] = Idle
    /\ req' = [req EXCEPT ![a] = [kind |-> "drop", rows |->
                 [r \in Records |-> IF r \in Live THEN rec[r].data ELSE NoData]]]
    /\ UNCHANGED <<rec, changes, recycle, autoField>>

(* ... and flushes the whole data column of every row that had a value; an *)
(* UPDATE that matches no row aborts the transaction.                      *)
FinishDropField(a) ==
    /\ req[a] # Idle /\ req[a].kind = "drop"
    /\ LET rows == req[a].rows
           dirty == {r \in Records : rows[r] # NoData /\ rows[r].auto}
       IN  \/ /\ dirty \subseteq Live
              /\ rec' = [r \in Records |->
                   IF r \in dirty
                   THEN [rec[r] EXCEPT !.data = [rows[r] EXCEPT !.auto = FALSE]]
                   ELSE rec[r]]
              /\ autoField' = FALSE
           \/ ~(dirty \subseteq Live) /\ UNCHANGED <<rec, autoField>>
    /\ req' = [req EXCEPT ![a] = Idle]
    /\ UNCHANGED <<changes, recycle>>

-----------------------------------------------------------------------------
(* An automation execution loads the row for its permission and condition  *)
(* checks and holds the ORM object across its actions.                     *)
LoadRow(w, r) ==
    /\ req[w] = Idle
    /\ r \in Live
    /\ req' = [req EXCEPT ![w] = [kind |-> "automation", rec |-> r, row |-> rec[r]]]
    /\ UNCHANGED <<rec, changes, recycle, autoField>>

(* The update_record action: require_record_access and apply_record_patches *)
(* select the row again, but get the held object with its old attributes.   *)
RunUpdateAction(w, t) ==
    /\ req[w] # Idle /\ req[w].kind = "automation"
    /\ LET r == req[w].rec
           held == req[w].row
           new == [data |-> [held.data EXCEPT !.text = t], version |-> held.version + 1]
       IN  /\ r \in Live
           /\ new.data # held.data
           /\ rec' = [rec EXCEPT ![r] = new]
           /\ \E c \in ChangeIds :
                /\ Unused(c)
                /\ changes' = [changes EXCEPT ![c] = append_change_set("update",
                     [s \in Records |->
                        IF s = r THEN [before |-> held.data, after |-> new.data,
                                       version_before |-> held.version,
                                       version_after |-> new.version]
                        ELSE NoItem], NoChange)]
           /\ req' = [req EXCEPT ![w].row = new]
    /\ UNCHANGED <<recycle, autoField>>

EndExecution(w) ==
    /\ req[w] # Idle /\ req[w].kind = "automation"
    /\ req' = [req EXCEPT ![w] = Idle]
    /\ UNCHANGED <<rec, changes, recycle, autoField>>

-----------------------------------------------------------------------------
Next ==
    \/ \E S \in SUBSET Records, t \in Texts, L \in SUBSET Records : CreateRecords(S, t, L)
    \/ \E S \in SUBSET Records, t \in Texts : UpdateText(S, t)
    \/ \E r \in Records : DeleteRecord(r) \/ RestoreRecord(r) \/ PurgeRecord(r)
    \/ \E u \in Users :
         \/ \E r \in Records, L \in SUBSET Records : CheckLinks(u, r, L)
         \/ WriteLinks(u)
         \/ \E c \in ChangeIds : BeginUndo(u, c)
         \/ FinishUndo(u)
    \/ \E a \in Admins : AddAutoField(a) \/ BeginDropField(a) \/ FinishDropField(a)
    \/ \E w \in Workers :
         \/ \E r \in Records : LoadRow(w, r)
         \/ \E t \in Texts : RunUpdateAction(w, t)
         \/ EndExecution(w)

Spec == Init /\ [][Next]_vars
-----------------------------------------------------------------------------
(* Correctness.                                                            *)

Purged(r) == \E c \in ChangeIds :
    /\ changes[c] # NoChange
    /\ changes[c].operation = "purge" /\ InSet(changes[c].items, r)

(* A record that was ever created is in exactly one place until it is      *)
(* purged: live, or in the recycle bin under exactly one "deleted" entry.  *)
(* delete_record, undo of a create, restore and undo of a delete may race. *)
LiveOrBinned ==
    \A r \in Records :
        /\ \A c, d \in ChangeIds : Binned(r, c) /\ Binned(r, d) => c = d
        /\ r \in Live => \A c \in ChangeIds : ~Binned(r, c)
        /\ Used(r) /\ ~Purged(r) /\ r \notin Live => \E c \in ChangeIds : Binned(r, c)

(* purge_recycled_record is final: no live row, no recycle entry and no    *)
(* snapshot in any ChangeItem remains, and no undo that had already read   *)
(* the items brings the record back later.                                 *)
PurgeIsFinal ==
    \A r \in Records : Purged(r) =>
        /\ r \notin Live
        /\ \A c \in ChangeIds :
             /\ recycle[r][c] = NoEntry
             /\ changes[c] # NoChange /\ InSet(changes[c].items, r) =>
                  changes[c].items[r].before = NoData /\ changes[c].items[r].after = NoData

(* No ChangeSet is undone twice, although two requests may both have read  *)
(* it as "applied" before either of them took its lock.                    *)
UndoneOnce ==
    \A u, v \in ChangeIds :
        /\ ~Unused(u) /\ ~Unused(v)
        /\ changes[u].parent # NoChange /\ changes[u].parent = changes[v].parent
        => u = v

(* The history explains every row: one ChangeItem carries the row's current *)
(* version, and its after snapshot is the row.                             *)
HistoryMatchesRows ==
    \A r \in Live : \E c \in ChangeIds :
        /\ ~Unused(c) /\ InSet(changes[c].items, r)
        /\ changes[c].items[r].version_after = rec[r].version
        /\ changes[c].items[r].after = rec[r].data

(* "Monotonic optimistic-concurrency version" (models/smart_table.py:23): a *)
(* row that is written, restored or undone gets a version above every one  *)
(* its history has recorded.                                               *)
VersionsIncrease ==
    [][\A r \in Records : rec'[r] # NoRec /\ rec'[r] # rec[r] =>
         \A c \in ChangeIds :
            changes[c] # NoChange /\ InSet(changes[c].items, r) =>
                changes[c].items[r].version_after < rec'[r].version]_vars

(* An undo "prevents an old history entry from overwriting newer work"     *)
(* (change_history.py:334): the rows it reverts are as its ChangeSet left  *)
(* them.                                                                   *)
UndoKeepsNewerWork ==
    [][\A c \in ChangeIds :
         /\ changes[c] # NoChange
         /\ changes[c].status = "applied" /\ changes'[c].status = "undone"
         => \A r \in Records :
              InSet(changes[c].items, r) /\ IsUpdate(changes[c].items[r]) =>
                  rec[r].data = changes[c].items[r].after]_vars
=============================================================================
