---------------------------- MODULE Attachments ----------------------------
(***************************************************************************)
(* Attachments: the registry (attachment_objects), the attachment cell of  *)
(* a row, and the object store, which no transaction covers.               *)
(*                                                                         *)
(*   app/api/attachments.py              upload and delete requests        *)
(*   app/services/attachment_storage.py  cleanup and reconciliation        *)
(*   app/services/attachment_cleanup.py  the background worker             *)
(*   app/services/attachment_invariants.py   the check before every flush  *)
(*                                                                         *)
(* An upload is keyed by its attachment id (a fresh uuid4).  Commits, S3   *)
(* calls and the refresh after a commit are separate steps; a request or   *)
(* the worker may stop for good between any two of them.                   *)
(***************************************************************************)
EXTENDS Naturals, FiniteSets

CONSTANTS
    Files,       \* attachment ids
    TableRows,   \* rows of the table
    Deletable,   \* rows that users delete, restore and purge
    SlowUploads, \* an upload may outlive ATTACHMENT_UPLOAD_PENDING_GRACE_SECONDS
    Workers,     \* cleanup workers, one per API process
    MaxCrashes,  \* bound on worker crashes
    NoOwner,     \* owner of an unused attachment id
    NoFile       \* a worker that is not between the two halves of a cleanup

ASSUME ConstantsOK ==
    /\ Deletable \subseteq TableRows
    /\ SlowUploads \in BOOLEAN
    /\ MaxCrashes \in Nat
    /\ NoOwner \notin TableRows /\ NoFile \notin Files

(* Mutant: a status that no query selects. *)
PURGE_PENDING_misspelt == "purged"
PURGE_PENDING == "purge_pending"

PendingStatus == {"delete_pending", "purge_pending"}
RegistryStatus == {"none", "upload_pending", "active"} \cup PendingStatus

VARIABLES
    row,     \* live, binned (in the recycle bin) or gone (purged)
    cell,    \* the ids in the row's attachment cell; in the bin, its snapshot
    field,   \* the attachment field exists
    reg,     \* status of the registry row, "none" when there is no row
    owner,   \* record_id of the registry row
    obj,     \* objects in the store
    up,      \* where the upload request is
    del,     \* where the delete request is
    old,     \* created_at is before the grace cutoff
    wpc,     \* where each cleanup worker is in its loop
    fetched, \* registry rows the worker has loaded and not handled yet
    cur,     \* the file whose object the worker removed, its row still there
    crashes  \* worker crashes so far

varsAttachments == <<row, cell, field, reg, owner, obj, up, del, old,
                    wpc, fetched, cur, crashes>>
request == <<up, del>>
table == <<row, cell, field>>
worker == <<wpc, fetched, cur, crashes>>

UpState == {"idle", "put", "activate", "refresh", "fail", "drop", "done", "dead"}

TypeOKAttachments ==
    /\ row \in [TableRows -> {"live", "binned", "gone"}]
    /\ cell \in [TableRows -> SUBSET Files]
    /\ field \in BOOLEAN
    /\ reg \in [Files -> RegistryStatus]
    /\ owner \in [Files -> TableRows \cup {NoOwner}]
    /\ obj \subseteq Files
    /\ up \in [Files -> UpState]
    /\ del \in [Files -> {"idle", "remove", "drop"}]
    /\ old \subseteq Files
    /\ wpc \in [Workers -> {"reconcile", "select", "clean", "drop"}]
    /\ fetched \in [Workers -> SUBSET Files]
    /\ cur \in [Workers -> Files \cup {NoFile}]
    /\ crashes \in 0..MaxCrashes

Active(r) == {f \in Files : reg[f] = "active" /\ owner[f] = r}
Running(f) == up[f] \in {"put", "activate", "refresh", "fail", "drop"}

(* Mutant: references are validated, the set is not compared. *)
FlushAcceptsSubset(value, active) == field => value \subseteq active

(* enforce_attachment_record_invariants: a changed cell of an existing row  *)
(* must be exactly the active set the transaction leaves behind.            *)
FlushAccepts(value, active) == field => value = active

(* canonicalize_attachment_list: every id in the cell is active and bound here *)
Canonical(r) == cell[r] \subseteq Active(r)

InitAttachments ==
    /\ row = [r \in TableRows |-> "live"]
    /\ cell = [r \in TableRows |-> {}]
    /\ field = TRUE
    /\ reg = [f \in Files |-> "none"]
    /\ owner = [f \in Files |-> NoOwner]
    /\ obj = {}
    /\ up = [f \in Files |-> "idle"]
    /\ del = [f \in Files |-> "idle"]
    /\ old = {}
    /\ wpc = [w \in Workers |-> "reconcile"]
    /\ fetched = [w \in Workers |-> {}]
    /\ cur = [w \in Workers |-> NoFile]
    /\ crashes = 0

-----------------------------------------------------------------------------
(* upload_attachment                                                       *)

(* The permission and field checks, then the intent's own commit. *)
CommitIntent(f, r) ==
    /\ up[f] = "idle"
    /\ row[r] = "live" /\ field
    /\ reg' = [reg EXCEPT ![f] = "upload_pending"]
    /\ owner' = [owner EXCEPT ![f] = r]
    /\ up' = [up EXCEPT ![f] = "put"]
    /\ UNCHANGED <<table, obj, del, old, worker>>

(* put_file; when it raises, the store may or may not have the bytes *)
PutFile(f) ==
    /\ up[f] = "put"
    /\ \/ obj' = obj \cup {f} /\ up' = [up EXCEPT ![f] = "activate"]
       \/ obj' \in {obj, obj \cup {f}} /\ up' = [up EXCEPT ![f] = "fail"]
    /\ UNCHANGED <<table, reg, owner, del, old, worker>>

CanActivate(f) ==
    /\ row[owner[f]] = "live" /\ field
    /\ Canonical(owner[f])
    /\ reg[f] = "upload_pending"
    /\ FlushAccepts(cell[owner[f]] \cup {f}, Active(owner[f]) \cup {f})

(* Row lock, intent lock, activation and the cell in one commit. *)
Activate(f) ==
    /\ up[f] = "activate"
    /\ IF CanActivate(f)
       THEN /\ reg' = [reg EXCEPT ![f] = "active"]
            /\ cell' = [cell EXCEPT ![owner[f]] = @ \cup {f}]
            /\ up' = [up EXCEPT ![f] = "refresh"]
       ELSE /\ up' = [up EXCEPT ![f] = "fail"]
            /\ UNCHANGED <<reg, cell>>
    /\ UNCHANGED <<row, field, owner, obj, del, old, worker>>

(* update_record refreshes the row after its commit: when the row has been  *)
(* deleted in between, the refresh raises and the upload takes its failure  *)
(* path although it is committed.                                           *)
Refresh(f) ==
    /\ up[f] = "refresh"
    /\ up' = [up EXCEPT ![f] = IF row[owner[f]] = "live" THEN "done" ELSE "fail"]
    /\ UNCHANGED <<table, reg, owner, obj, del, old, worker>>

(* _cleanup_failed_upload_intent: whatever the registry row's status is, the *)
(* object goes first; a storage error commits delete_pending instead.        *)
RemoveFailed(f) ==
    /\ up[f] = "fail"
    /\ IF reg[f] = "none"
       THEN up' = [up EXCEPT ![f] = "done"] /\ UNCHANGED <<reg, obj>>
       ELSE \/ /\ obj' = obj \ {f}
               /\ up' = [up EXCEPT ![f] = "drop"]
               /\ UNCHANGED reg
            \/ /\ reg' = [reg EXCEPT ![f] = "delete_pending"]
               /\ up' = [up EXCEPT ![f] = "done"]
               /\ UNCHANGED obj
    /\ UNCHANGED <<table, owner, del, old, worker>>

DropFailed(f) ==
    /\ up[f] = "drop"
    /\ reg' = [reg EXCEPT ![f] = "none"]
    /\ up' = [up EXCEPT ![f] = "done"]
    /\ UNCHANGED <<table, owner, obj, del, old, worker>>

(* The process is killed; a put that was under way may have reached the store. *)
UploadDies(f) ==
    /\ Running(f)
    /\ up' = [up EXCEPT ![f] = "dead"]
    /\ \/ obj' = obj
       \/ up[f] = "put" /\ obj' = obj \cup {f}
    /\ UNCHANGED <<table, reg, owner, del, old, worker>>

(* created_at falls behind the grace cutoff *)
GraceEnds(f) ==
    /\ reg[f] = "upload_pending" /\ f \notin old
    /\ SlowUploads \/ ~Running(f)
    /\ old' = old \cup {f}
    /\ UNCHANGED <<table, reg, owner, obj, request, worker>>

-----------------------------------------------------------------------------
(* delete_attachment                                                       *)

(* The failed upload holds the registry row's lock between its two steps. *)
Locked(f) == up[f] = "drop"

CommitDelete(f) ==
    /\ reg[f] = "active" /\ ~Locked(f) /\ del[f] = "idle"
    /\ row[owner[f]] = "live" /\ field
    /\ Canonical(owner[f]) /\ f \in cell[owner[f]]
    /\ FlushAccepts(cell[owner[f]] \ {f}, Active(owner[f]) \ {f})
    /\ reg' = [reg EXCEPT ![f] = "delete_pending"]
    /\ cell' = [cell EXCEPT ![owner[f]] = @ \ {f}]
    /\ del' = [del EXCEPT ![f] = "remove"]
    /\ UNCHANGED <<row, field, owner, obj, up, old, worker>>

(* cleanup_attachment_object in the request: the object, then the row; a    *)
(* storage error, or the end of the request, leaves the row to the worker.  *)
RemoveDeleted(f) ==
    /\ del[f] = "remove"
    /\ \/ obj' = obj \ {f} /\ del' = [del EXCEPT ![f] = "drop"]
       \/ obj' = obj /\ del' = [del EXCEPT ![f] = "idle"]
    /\ UNCHANGED <<table, reg, owner, up, old, worker>>

DropDeleted(f) ==
    /\ del[f] = "drop" /\ ~Locked(f)
    /\ \/ reg' = [reg EXCEPT ![f] = "none"]
       \/ reg' = reg
    /\ del' = [del EXCEPT ![f] = "idle"]
    /\ UNCHANGED <<table, owner, obj, up, old, worker>>

-----------------------------------------------------------------------------
(* Other writers of the rows.                                              *)

(* GraphQL, automation, import and undo writes pass the same flush check.  *)
WriteCell(r, value) ==
    /\ row[r] = "live" /\ value # cell[r]
    /\ FlushAccepts(value, Active(r))
    /\ field
    /\ cell' = [cell EXCEPT ![r] = value]
    /\ UNCHANGED <<row, field, reg, owner, obj, request, old, worker>>

DeleteTableRow(r) ==
    /\ r \in Deletable /\ row[r] = "live"
    /\ row' = [row EXCEPT ![r] = "binned"]
    /\ UNCHANGED <<cell, field, reg, owner, obj, request, old, worker>>

(* The restored row is new to the session: only a non-empty cell is checked. *)
RestoreTableRow(r) ==
    /\ row[r] = "binned"
    /\ cell[r] # {} => FlushAccepts(cell[r], Active(r))
    /\ row' = [row EXCEPT ![r] = "live"]
    /\ UNCHANGED <<cell, field, reg, owner, obj, request, old, worker>>

PurgeRow(r) ==
    /\ row[r] = "binned"
    /\ row' = [row EXCEPT ![r] = "gone"]
    /\ cell' = [cell EXCEPT ![r] = {}]
    /\ UNCHANGED <<field, reg, owner, obj, request, old, worker>>

(* delete_field removes the field first, so the flush check does not see it. *)
DropField ==
    /\ field
    /\ field' = FALSE
    /\ cell' = [r \in TableRows |-> IF row[r] = "live" THEN {} ELSE cell[r]]
    /\ UNCHANGED <<row, reg, owner, obj, request, old, worker>>

-----------------------------------------------------------------------------
(* The cleanup worker: reconcile, select a batch, clean each object, sleep. *)
(* Workers of several processes work on the same rows without locking them. *)

(* reconcile_purged_record_attachments; its UPDATE waits for a locked row *)
Orphaned(f) == reg[f] = "active" /\ row[owner[f]] = "gone"

Reconcile(w) ==
    /\ wpc[w] = "reconcile"
    /\ \A f \in Files : Orphaned(f) => ~Locked(f)
    /\ reg' = [f \in Files |-> IF Orphaned(f) THEN PURGE_PENDING ELSE reg[f]]
    /\ wpc' = [wpc EXCEPT ![w] = "select"]
    /\ UNCHANGED <<table, owner, obj, request, old, fetched, cur, crashes>>

(* Mutants: no grace window; abandoned uploads are never selected. *)
EligibleNoGrace(f) == reg[f] \in PendingStatus \cup {"upload_pending"}
EligiblePendingOnly(f) == reg[f] \in PendingStatus

(* cleanup_pending_attachments loads the rows without locking them *)
Eligible(f) == reg[f] \in PendingStatus \/ (reg[f] = "upload_pending" /\ f \in old)

SelectBatch(w) ==
    /\ wpc[w] = "select"
    /\ fetched' = [fetched EXCEPT ![w] = {f \in Files : Eligible(f)}]
    /\ wpc' = [wpc EXCEPT ![w] = "clean"]
    /\ UNCHANGED <<table, reg, owner, obj, request, old, cur, crashes>>

(* cleanup_attachment_object, first half: the object leaves the store.  The  *)
(* status the worker read is not checked again.                              *)
RemoveObject(w, f) ==
    /\ wpc[w] = "clean" /\ f \in fetched[w]
    /\ obj' = obj \ {f}
    /\ fetched' = [fetched EXCEPT ![w] = @ \ {f}]
    /\ cur' = [cur EXCEPT ![w] = f]
    /\ wpc' = [wpc EXCEPT ![w] = "drop"]
    /\ UNCHANGED <<table, reg, owner, request, old, crashes>>

(* Storage is unavailable: cleanup_attempts is counted and the row stays. *)
RemoveObjectFails(w, f) ==
    /\ wpc[w] = "clean" /\ f \in fetched[w]
    /\ fetched' = [fetched EXCEPT ![w] = @ \ {f}]
    /\ UNCHANGED <<table, reg, owner, obj, request, old, wpc, cur, crashes>>

(* Second half: DELETE by primary key, whatever the status is by now. *)
DropRow(w) ==
    /\ wpc[w] = "drop" /\ ~Locked(cur[w])
    /\ reg' = [reg EXCEPT ![cur[w]] = "none"]
    /\ cur' = [cur EXCEPT ![w] = NoFile]
    /\ wpc' = [wpc EXCEPT ![w] = "clean"]
    /\ UNCHANGED <<table, owner, obj, request, old, fetched, crashes>>

(* _cleanup_loop sleeps after the pass and starts again. *)
EndPass(w) ==
    /\ wpc[w] = "clean" /\ fetched[w] = {}
    /\ wpc' = [wpc EXCEPT ![w] = "reconcile"]
    /\ UNCHANGED <<table, reg, owner, obj, request, old, fetched, cur, crashes>>

(* The pass raises, or the process dies and is started again. *)
WorkerDies(w) ==
    /\ wpc[w] # "reconcile" /\ crashes < MaxCrashes
    /\ crashes' = crashes + 1
    /\ wpc' = [wpc EXCEPT ![w] = "reconcile"]
    /\ fetched' = [fetched EXCEPT ![w] = {}]
    /\ cur' = [cur EXCEPT ![w] = NoFile]
    /\ UNCHANGED <<table, reg, owner, obj, request, old>>

-----------------------------------------------------------------------------
UploadStep(f) ==
    \/ PutFile(f) \/ Activate(f) \/ Refresh(f)
    \/ RemoveFailed(f) \/ DropFailed(f) \/ UploadDies(f)

FileStep(f) ==
    \/ \E r \in TableRows : CommitIntent(f, r)
    \/ UploadStep(f)
    \/ GraceEnds(f)
    \/ CommitDelete(f) \/ RemoveDeleted(f) \/ DropDeleted(f)

RowStep(r) ==
    \/ \E value \in SUBSET Files : WriteCell(r, value)
    \/ DeleteTableRow(r) \/ RestoreTableRow(r) \/ PurgeRow(r)

WorkerPass(w) == Reconcile(w) \/ SelectBatch(w) \/ DropRow(w) \/ EndPass(w)

WorkerStep(w) ==
    \/ WorkerPass(w)
    \/ \E f \in Files : RemoveObject(w, f) \/ RemoveObjectFails(w, f)
    \/ WorkerDies(w)

NextAttachments ==
    \/ \E f \in Files : FileStep(f)
    \/ \E r \in TableRows : RowStep(r)
    \/ DropField
    \/ \E w \in Workers : WorkerStep(w)

(* A request's coroutine is resumed until it ends or its process dies; the   *)
(* worker's loop keeps running; time passes; a storage outage ends.          *)
Fairness ==
    /\ \A f \in Files : WF_varsAttachments(UploadStep(f)) /\ WF_varsAttachments(GraceEnds(f))
    /\ \A w \in Workers :
         /\ WF_varsAttachments(WorkerPass(w))
         /\ \A f \in Files :
              /\ WF_varsAttachments(RemoveObject(w, f) \/ RemoveObjectFails(w, f))
              /\ SF_varsAttachments(RemoveObject(w, f))

SpecAttachments == InitAttachments /\ [][NextAttachments]_varsAttachments
FairSpec == SpecAttachments /\ Fairness

-----------------------------------------------------------------------------
(* Every object in the store has a registry row: whatever request, process   *)
(* or worker stops half-way (upload_attachment commits its intent before     *)
(* put_file, every cleanup removes the object before the row), no bytes are  *)
(* left that nothing will ever delete.                                       *)
NoForgottenObject == \A f \in obj : reg[f] # "none"

(* The attachment cell of a live row is exactly its set of active registry   *)
(* rows: concurrent uploads, deletes, generic writes through the flush check *)
(* and cleanups never lose or keep a reference (attachment_invariants.py).   *)
CellsMatchRegistry ==
    field => \A r \in TableRows : row[r] = "live" => cell[r] = Active(r)

(* What a live row shows can be downloaded: the registry row is active and   *)
(* the object is in the store (download_attachment).                         *)
IsStored(f) == reg[f] = "active" /\ f \in obj
LiveAttachmentsStored ==
    \A r \in TableRows : row[r] = "live" => \A f \in cell[r] : IsStored(f)

(* A row in the recycle bin keeps its attachments, so that restoring it      *)
(* brings them back (README.md, Attachment storage contract).                *)
BinKeepsObjects ==
    \A r \in TableRows : row[r] = "binned" => \A f \in cell[r] : IsStored(f)

(* Deleted attachments, those of purged rows and uploads whose request died  *)
(* are removed from the store and from the registry in the end, whatever     *)
(* storage outages and worker crashes come in between.                       *)
Garbage(f) ==
    \/ reg[f] \in PendingStatus
    \/ reg[f] = "upload_pending" /\ ~Running(f)
    \/ Orphaned(f)
GarbageReclaimed ==
    \A f \in Files : Garbage(f) ~> (reg[f] = "none" /\ f \notin obj)
=============================================================================
