---------------------------- MODULE PlanBatches ----------------------------
(* Preview, confirm, apply: the protocol of the five AI planners.          *)
(*                                                                         *)
(* A preview stores a batch of suggestions and changes no row. The user    *)
(* then applies some or all of its items, perhaps twice, perhaps from two  *)
(* windows, while other people edit the same rows.                         *)
(*                                                                         *)
(* Action plans, member assignment and workload estimates are selective:   *)
(* their items are cells of rows, kept with the row versions of the        *)
(* preview, and the batch remembers which items it has applied. Task       *)
(* plans and visual designs create new things in one go and remember only  *)
(* a status.                                                               *)
(*                                                                         *)
(* An apply holds the batch row FOR UPDATE. The selective ones also hold   *)
(* the rows they check and write, so each is one step. The creating ones   *)
(* decide, read and write in separate steps; a task plan first waits for   *)
(* the fields of its table. A failed apply rolls back, which releases the  *)
(* locks, and reports on the batch later. All batches are of one table.    *)
EXTENDS Naturals

CONSTANTS
    Records,     \* ids of table_records, the ones not created yet included
    Existing,    \* the rows at the beginning
    Values,      \* contents of a cell
    NoVal,       \* the empty cell
    Batches,     \* ids of previews
    Requests,    \* request slots: GraphQL calls in progress
    Sources,     \* source fingerprints of task plans
    Kinds,       \* the planners in use
    MaxVersion,  \* bound on the versions people's edits reach
    MaxMade,     \* bound on how often one plan creates its things
    NoBatch, NoRec, Idle

ASSUME PlanAssumption ==
    /\ Existing \subseteq Records
    /\ NoVal \in Values
    /\ Kinds \subseteq {"action", "assignment", "estimate", "tasks", "design"}
    /\ MaxVersion \in Nat /\ MaxMade \in Nat
    /\ NoRec \notin Records

VARIABLES
    rec,      \* table_records: version, liveness, contents
    batch,    \* the five batch tables
    lock,     \* who holds a plan's row between its two steps
    req,      \* what a request in progress has read
    made,     \* how often a plan has created its things
    wrote,    \* how often a batch has written an item
    touched,  \* rows that somebody else changed since the batch's preview
    merged    \* rows written by a merge, which locks nothing

vars == <<rec, batch, lock, req, made, wrote, touched, merged>>
history == <<made, wrote, touched, merged>>

Cells == {"owner", "other"}
Items == Records \X (Cells \cup {"new"})

(* member_ids and scalar cells of table_records.data; a deleted row keeps  *)
(* the version of its deletion for the restore.                            *)
Rows == [version : Nat, live : BOOLEAN, cell : [Cells -> Values]]

Unborn == [version |-> 0, live |-> FALSE, cell |-> [c \in Cells |-> NoVal]]
NewRow(c) == [version |-> 1, live |-> TRUE, cell |-> c]

(* A row after one more write. *)
NextRow(row, live, c) == [version |-> row.version + 1, live |-> live, cell |-> c]

Selective == {"action", "assignment", "estimate"}

Status == {"previewed", "applied", "partially_applied", "apply_failed",
           "failed", "deduplicated"}

Plan == [kind : {"action", "assignment", "estimate", "tasks", "design"},
         items : SUBSET Items,
         owners : [Records -> Values],
         val : Values,
         base : [Records -> Nat],
         applied : SUBSET Items,
         status : Status,
         src : Sources]

(* What a request in progress holds: a preview's first read, a task plan   *)
(* that waits for the table, a creating apply before its writes, a failed  *)
(* apply before and after it selects the batch again.                      *)
Request ==
    [pc : {"previewing"}, kind : Selective, items : SUBSET (Records \X Cells),
     owners : [Records -> Values]]
    \cup [pc : {"creating"}, batch : Batches, into : Records \cup {NoRec},
          row : Rows]
    \cup [pc : {"decided", "failed"}, batch : Batches]
    \cup [pc : {"marking"}, batch : Batches, status : Status, some : BOOLEAN]

ASSUME SentinelsDiffer ==
    NoBatch \notin Plan \cup Batches /\ Idle \notin Request

Stored(b) == batch[b] # NoBatch
RowsOf(I) == {i[1] : i \in I}

(* A transaction of batch b (of a person, if b is NoBatch) gives the rows  *)
(* new contents; every other batch that previewed them is out of date.     *)
WriteRows(b, rows) ==
    /\ rec' = rows
    /\ touched' = [c \in Batches |->
         IF c = b \/ ~Stored(c) THEN touched[c]
         ELSE touched[c] \cup {r \in RowsOf(batch[c].items) : rows[r] # rec[r]}]

Init ==
    /\ rec = [r \in Records |->
         IF r \in Existing THEN NewRow([c \in Cells |-> NoVal]) ELSE Unborn]
    /\ batch = [b \in Batches |-> NoBatch]
    /\ lock = [b \in Batches |-> Idle]
    /\ req = [q \in Requests |-> Idle]
    /\ made = [b \in Batches |-> 0]
    /\ wrote = [b \in Batches |-> [i \in Items |-> 0]]
    /\ touched = [b \in Batches |-> {}]
    /\ merged = {}
-----------------------------------------------------------------------------
(* People. Every write of a person raises the version of the row.          *)

EditCell(r, c, v) ==
    /\ rec[r].live /\ rec[r].cell[c] # v
    /\ rec[r].version < MaxVersion
    /\ WriteRows(NoBatch, [rec EXCEPT ![r] =
         NextRow(@, TRUE, [@.cell EXCEPT ![c] = v])])
    /\ UNCHANGED <<batch, lock, req, made, wrote, merged>>

DeleteRow(r) ==
    /\ rec[r].live /\ rec[r].version < MaxVersion
    /\ WriteRows(NoBatch, [rec EXCEPT ![r] = NextRow(@, FALSE, @.cell)])
    /\ UNCHANGED <<batch, lock, req, made, wrote, merged>>

RestoreRow(r) ==
    /\ ~rec[r].live /\ rec[r].version \in 1..(MaxVersion - 1)
    /\ WriteRows(NoBatch, [rec EXCEPT ![r] = NextRow(@, TRUE, @.cell)])
    /\ UNCHANGED <<batch, lock, req, made, wrote, merged>>
-----------------------------------------------------------------------------
(* Previews of the selective planners: the rows are read with the table,   *)
(* their versions by a later SELECT, and the batch is committed with both. *)
(* Nobody can use the batch before its commit, so the second SELECT and    *)
(* the commit are one step, however long the model takes between them.     *)

BeginPreview(q, k, I, owners) ==
    /\ req[q] = Idle /\ k \in Kinds
    /\ req' = [req EXCEPT ![q] = [pc |-> "previewing", kind |-> k, items |-> I,
                                  owners |-> owners]]
    /\ UNCHANGED <<rec, batch, lock, history>>

NoOwners == [r \in Records |-> NoVal]

(* Cells of visible rows. *)
ReadForActions(q) ==
    \E I \in SUBSET {i \in Records \X Cells : rec[i[1]].live} :
        BeginPreview(q, "action", I, NoOwners)

(* Open tasks; one that has an owner only if the user asked to replace it. *)
OpenTasks(preserve) ==
    {i \in Records \X {"owner"} :
        /\ rec[i[1]].live
        /\ preserve => rec[i[1]].cell["owner"] = NoVal}

ReadForAssignment(q) ==
    \E preserve \in BOOLEAN : \E I \in (SUBSET OpenTasks(preserve)) \ {{}} :
        BeginPreview(q, "assignment", I,
            [r \in Records |-> IF r \in RowsOf(I) THEN rec[r].cell["owner"] ELSE NoVal])

ReadForEstimates(q) ==
    \E I \in (SUBSET {i \in Records \X {"other"} : rec[i[1]].live}) \ {{}} :
        BeginPreview(q, "estimate", I, NoOwners)

NewPlan(k, I, owners, v, src) ==
    [kind |-> k, items |-> I, owners |-> owners, val |-> v,
     base |-> [r \in Records |-> IF r \in RowsOf(I) THEN rec[r].version ELSE 0],
     applied |-> {}, status |-> "previewed", src |-> src]

StorePreview(q, b, k, I) ==
    /\ req[q] # Idle /\ req[q].pc = "previewing" /\ req[q].kind = k
    /\ ~Stored(b)
    /\ \E v \in Values \ {NoVal}, s \in Sources :
         batch' = [batch EXCEPT ![b] = NewPlan(k, I, req[q].owners, v, s)]
    /\ req' = [req EXCEPT ![q] = Idle]
    /\ UNCHANGED <<rec, lock, history>>

StillThere(I) == {i \in I : i[2] = "new" \/ rec[i[1]].live}

(* A create_task action carries the fresh id of the record it will create. *)
FreshId(r) ==
    /\ rec[r] = Unborn
    /\ \A b \in Batches : Stored(b) => r \notin RowsOf(batch[b].items)

ActionDrafts(I) ==
    {StillThere(I) \cup N : N \in SUBSET ({r \in Records : FreshId(r)} \X {"new"})}

(* A generated action whose row is gone by now is rejected, the rest kept. *)
StoreActions(q, b) ==
    /\ req[q] # Idle /\ req[q].pc = "previewing"
    /\ \E I \in ActionDrafts(req[q].items) : StorePreview(q, b, "action", I)

StoreAssignments(q, b) ==
    /\ req[q] # Idle /\ req[q].pc = "previewing"
    /\ StillThere(req[q].items) = req[q].items
    /\ StorePreview(q, b, "assignment", req[q].items)

StoreEstimates(q, b) ==
    /\ req[q] # Idle /\ req[q].pc = "previewing"
    /\ StillThere(req[q].items) = req[q].items
    /\ StorePreview(q, b, "estimate", req[q].items)

(* A task plan and a visual design are kept in one commit and name no rows.*)
PreviewWhole(q, b, k) ==
    /\ req[q] = Idle /\ k \in Kinds /\ ~Stored(b)
    /\ \E v \in Values \ {NoVal}, s \in Sources :
         batch' = [batch EXCEPT ![b] = NewPlan(k, {}, NoOwners, v, s)]
    /\ UNCHANGED <<rec, lock, req, history>>

PreviewTasks(q, b) == PreviewWhole(q, b, "tasks")
PreviewDesign(q, b) == PreviewWhole(q, b, "design")
-----------------------------------------------------------------------------
(* Applies of the selective planners.                                      *)

(* Mutant: what was applied before is applied again. *)
PendingAll(b, S) == S

Pending(b, S) == S \ batch[b].applied

(* Mutant: the rows only have to be there. *)
RowsThere(b, I) ==
    \A i \in I : IF i[2] = "new" THEN rec[i[1]].version = 0 ELSE rec[i[1]].live

(* The rows are live and still have the versions of the preview; the ids   *)
(* of new tasks are unused.                                                *)
VersionsMatch(b, I) ==
    \A i \in I : IF i[2] = "new" THEN rec[i[1]].version = 0
                 ELSE rec[i[1]].live /\ rec[i[1]].version = batch[b].base[i[1]]

ReachedStatus(items, applied) ==
    IF items \subseteq applied THEN "applied" ELSE "partially_applied"

(* The rows of I with the items' cells set to v; the version rises when a  *)
(* cell changes, and always for estimates, whose trace names the batch.    *)
Patched(I, v, always) ==
    [r \in Records |->
       LET new == [c \in Cells |-> IF <<r, c>> \in I THEN v ELSE rec[r].cell[c]]
       IN  IF <<r, "new">> \in I THEN NewRow([c \in Cells |-> v])
           ELSE IF r \in RowsOf(I) /\ (always \/ new # rec[r].cell)
           THEN NextRow(rec[r], rec[r].live, new)
           ELSE rec[r]]

(* Mutant: a partial apply leaves the versions of the preview in place. *)
KeepVersions(b, I, rows) == batch[b].base

(* An action plan goes on from the versions its own apply has produced. *)
AdvanceVersions(b, I, rows) ==
    [r \in Records |-> IF r \in RowsOf(I) THEN rows[r].version ELSE batch[b].base[r]]

Commit(b, I, rows, base) ==
    /\ WriteRows(b, rows)
    /\ batch' = [batch EXCEPT
         ![b].applied = @ \cup I, ![b].base = base,
         ![b].status = ReachedStatus(batch[b].items, batch[b].applied \cup I)]
    /\ wrote' = [wrote EXCEPT ![b] = [i \in Items |-> @[i] + IF i \in I THEN 1 ELSE 0]]
    /\ UNCHANGED <<lock, req, made, merged>>

(* The part of a request for the items S that is left to do. *)
MayApply(q, b, k, S) ==
    /\ req[q] = Idle /\ Stored(b) /\ batch[b].kind = k
    /\ S \subseteq batch[b].items /\ Pending(b, S) # {}
    /\ VersionsMatch(b, Pending(b, S))

(* No task plan holds the table's fields, which action plans and estimates *)
(* lock as well.                                                           *)
TableFree ==
    \A q \in Requests : req[q] # Idle /\ req[q].pc = "creating" =>
        batch[req[q].batch].kind # "tasks"

ApplyActions(q, b, S) ==
    /\ MayApply(q, b, "action", S) /\ TableFree
    /\ LET I == Pending(b, S)
           rows == Patched(I, batch[b].val, FALSE)
       IN  Commit(b, I, rows, AdvanceVersions(b, I, rows))

(* The owners must also be the ones the user was shown; the user picks one *)
(* of the recommended members.                                             *)
Recommended == Values \ {NoVal}

OwnersAsShown(b, I) ==
    \A i \in I : rec[i[1]].cell["owner"] = batch[b].owners[i[1]]

ApplyAssignments(q, b, S) ==
    /\ MayApply(q, b, "assignment", S)
    /\ OwnersAsShown(b, Pending(b, S))
    /\ \E v \in Recommended :
         LET I == Pending(b, S)
         IN  Commit(b, I, Patched(I, v, FALSE), batch[b].base)

ApplyEstimates(q, b, S) ==
    /\ MayApply(q, b, "estimate", S) /\ TableFree
    /\ LET I == Pending(b, S)
       IN  Commit(b, I, Patched(I, batch[b].val, TRUE), batch[b].base)

(* A check that fails, a permission that is gone, a deadlock, a lost       *)
(* connection: the transaction is rolled back.                             *)
ApplyFails(q, b) ==
    /\ req[q] = Idle /\ Stored(b) /\ batch[b].kind \in Selective
    /\ ~(batch[b].items \subseteq batch[b].applied)
    /\ req' = [req EXCEPT ![q] = [pc |-> "failed", batch |-> b]]
    /\ UNCHANGED <<rec, batch, lock, history>>
-----------------------------------------------------------------------------
(* Applies of the creating planners.                                       *)

Done == {"applied", "deduplicated"}

(* The plan's row is locked and its status allows to go on. *)
BeginCreate(q, b, k, x) ==
    /\ req[q] = Idle /\ lock[b] = Idle
    /\ Stored(b) /\ batch[b].kind = k /\ batch[b].status \notin Done
    /\ made[b] < MaxMade
    /\ lock' = [lock EXCEPT ![b] = q]
    /\ req' = [req EXCEPT ![q] = x]
    /\ UNCHANGED <<rec, batch, history>>

(* Mutant: a preview with the same source is taken for an application. *)
PreviousPreview(b, c) ==
    /\ c # b /\ Stored(c) /\ batch[c].kind = "tasks"
    /\ batch[c].src = batch[b].src

(* Another plan of the same source that was applied. *)
PreviousApplication(b, c) ==
    /\ c # b /\ Stored(c) /\ batch[c].kind = "tasks"
    /\ batch[c].src = batch[b].src /\ batch[c].status \in Done

Deduplicate(q, b) ==
    /\ req[q] = Idle /\ lock[b] = Idle
    /\ Stored(b) /\ batch[b].kind = "tasks" /\ batch[b].status \notin Done
    /\ \E c \in Batches : PreviousApplication(b, c)
    /\ batch' = [batch EXCEPT ![b].status = "deduplicated"]
    /\ UNCHANGED <<rec, lock, req, history>>

(* allow_repeat skips the search for a previous application. *)
BeginTasks(q, b, repeat) ==
    /\ BeginCreate(q, b, "tasks", [pc |-> "decided", batch |-> b])
    /\ repeat \/ \A c \in Batches : ~PreviousApplication(b, c)

(* The fields are locked, and then the row to merge into (if any) is read. *)
LockTable(q, m) ==
    /\ req[q] # Idle /\ req[q].pc = "decided" /\ TableFree
    /\ m # NoRec => rec[m].live
    /\ req' = [req EXCEPT ![q] =
         [pc |-> "creating", batch |-> req[q].batch, into |-> m,
          row |-> IF m = NoRec THEN Unborn ELSE rec[m]]]
    /\ UNCHANGED <<rec, batch, lock, history>>

BeginDesign(q, b) ==
    BeginCreate(q, b, "design",
                [pc |-> "creating", batch |-> b, into |-> NoRec, row |-> Unborn])

Creating(q, k) ==
    /\ req[q] # Idle /\ req[q].pc = "creating"
    /\ batch[req[q].batch].kind = k

FinishCreate(q) ==
    LET b == req[q].batch
    IN  /\ batch' = [batch EXCEPT ![b].status = "applied"]
        /\ made' = [made EXCEPT ![b] = @ + 1]
        /\ lock' = [lock EXCEPT ![b] = Idle]
        /\ req' = [req EXCEPT ![q] = Idle]
        /\ UNCHANGED wrote

(* The empty cells of the row as it was read are filled. *)
Filled(row, v) ==
    LET new == [c \in Cells |-> IF row.cell[c] = NoVal THEN v ELSE row.cell[c]]
    IN  IF new = row.cell THEN row
        ELSE NextRow(row, row.live, new)

(* The merge writes the row it read over whatever the row is by now; the   *)
(* UPDATE finds no row when it was deleted.                                *)
FinishTasks(q) ==
    /\ Creating(q, "tasks")
    /\ LET b == req[q].batch
           m == req[q].into
           row == Filled(req[q].row, batch[b].val)
       IN  IF m = NoRec \/ row = req[q].row
           THEN UNCHANGED <<rec, touched, merged>>
           ELSE /\ rec[m].live
                /\ WriteRows(b, [rec EXCEPT ![m] = row])
                /\ merged' = merged \cup {m}
    /\ FinishCreate(q)

FinishDesign(q) ==
    /\ Creating(q, "design")
    /\ FinishCreate(q)
    /\ UNCHANGED <<rec, touched, merged>>

CreateFails(q) ==
    /\ req[q] # Idle /\ req[q].pc \in {"decided", "creating"}
    /\ lock' = [lock EXCEPT ![req[q].batch] = Idle]
    /\ req' = [req EXCEPT ![q] = [pc |-> "failed", batch |-> req[q].batch]]
    /\ UNCHANGED <<rec, batch, history>>
-----------------------------------------------------------------------------
(* The failure is reported on the batch: it is selected again without a    *)
(* lock, and committed later with the status that follows from that read.  *)

ReadFailed(q) ==
    /\ req[q] # Idle /\ req[q].pc = "failed"
    /\ req' = [req EXCEPT ![q] =
         [pc |-> "marking", batch |-> req[q].batch,
          status |-> batch[req[q].batch].status,
          some |-> batch[req[q].batch].applied # {}]]
    /\ UNCHANGED <<rec, batch, lock, history>>

ActionFailure(status) ==
    IF status = "previewed" THEN "apply_failed" ELSE status
AssignmentFailure(status) ==
    IF status = "previewed" THEN "apply_failed" ELSE status

(* Mutant: a status nobody knows. *)
EstimateFailureMisspelt(some) == IF some THEN "partial" ELSE "fail"

EstimateFailure(some) == IF some THEN "partially_applied" ELSE "failed"
TasksFailure == "failed"
DesignFailure == "apply_failed"

FailedStatus(kind, status, some) ==
    CASE kind = "action" -> ActionFailure(status)
      [] kind = "assignment" -> AssignmentFailure(status)
      [] kind = "estimate" -> EstimateFailure(some)
      [] kind = "tasks" -> TasksFailure
      [] kind = "design" -> DesignFailure

(* The UPDATE waits for the row lock and names only columns that differ    *)
(* from what was read.                                                     *)
MarkFailed(q) ==
    /\ req[q] # Idle /\ req[q].pc = "marking"
    /\ LET b == req[q].batch
           new == FailedStatus(batch[b].kind, req[q].status, req[q].some)
       IN  /\ lock[b] = Idle
           /\ batch' = IF new = req[q].status THEN batch
                       ELSE [batch EXCEPT ![b].status = new]
    /\ req' = [req EXCEPT ![q] = Idle]
    /\ UNCHANGED <<rec, lock, history>>

(* The process dies or the client goes away: nothing of the open           *)
(* transaction stays.                                                      *)
RequestDies(q) ==
    /\ req[q] # Idle
    /\ lock' = [b \in Batches |-> IF lock[b] = q THEN Idle ELSE lock[b]]
    /\ req' = [req EXCEPT ![q] = Idle]
    /\ UNCHANGED <<rec, batch, history>>
-----------------------------------------------------------------------------
Preview(q, b) ==
    \/ StoreActions(q, b) \/ StoreAssignments(q, b) \/ StoreEstimates(q, b)
    \/ PreviewTasks(q, b) \/ PreviewDesign(q, b)

Apply(q, b) ==
    \/ \E S \in SUBSET Items :
         ApplyActions(q, b, S) \/ ApplyAssignments(q, b, S) \/ ApplyEstimates(q, b, S)
    \/ ApplyFails(q, b)
    \/ Deduplicate(q, b) \/ BeginDesign(q, b)
    \/ \E repeat \in BOOLEAN : BeginTasks(q, b, repeat)

Next ==
    \/ \E r \in Records :
         \/ \E c \in Cells, v \in Values : EditCell(r, c, v)
         \/ DeleteRow(r) \/ RestoreRow(r)
    \/ \E q \in Requests :
         \/ ReadForActions(q) \/ ReadForAssignment(q) \/ ReadForEstimates(q)
         \/ \E b \in Batches : Preview(q, b) \/ Apply(q, b)
         \/ \E m \in Records \cup {NoRec} : LockTable(q, m)
         \/ FinishTasks(q) \/ FinishDesign(q) \/ CreateFails(q)
         \/ ReadFailed(q) \/ MarkFailed(q) \/ RequestDies(q)

Spec == Init /\ [][Next]_vars
-----------------------------------------------------------------------------
(* Correctness.                                                            *)

(* The variables have their types. *)
TypeOK ==
    /\ rec \in [Records -> Rows]
    /\ batch \in [Batches -> Plan \cup {NoBatch}]
    /\ lock \in [Batches -> Requests \cup {Idle}]
    /\ req \in [Requests -> Request \cup {Idle}]
    /\ made \in [Batches -> Nat]
    /\ wrote \in [Batches -> [Items -> Nat]]
    /\ touched \in [Batches -> SUBSET Records]
    /\ merged \subseteq Records

(* However often, from however many windows and after whatever failures a  *)
(* batch is applied, each of its items is written at most once: the        *)
(* appliedActionIds, appliedAssignments and appliedRecordIds of the three  *)
(* selective planners, which a late failure report must not disturb.       *)
ItemsWrittenOnce ==
    \A b \in Batches, i \in Items : wrote[b][i] <= 1

(* A batch that reports applied has done everything it suggested, and one  *)
(* that reports applied or deduplicated has its things, its own or those   *)
(* of a plan with the same source: the statuses the UI and the             *)
(* deduplication of later plans rely on.                                   *)
DoneMeansDone ==
    \A b \in Batches : Stored(b) /\ batch[b].status \in Done =>
        IF batch[b].kind \in Selective
        THEN \A i \in batch[b].items : wrote[b][i] > 0
        ELSE \E c \in Batches :
               /\ Stored(c) /\ made[c] > 0
               /\ batch[c].kind = batch[b].kind
               /\ c = b \/ batch[c].src = batch[b].src

(* A partial apply does not spoil the rest: as long as nobody else changes *)
(* a row, the items of a batch that are still open on it pass the version  *)
(* check of a later apply. Action plans may hold several items of one row  *)
(* and must move their recorded version along with their own writes.       *)
OpenItemsApplicable ==
    \A b \in Batches : Stored(b) =>
        \A i \in batch[b].items \ batch[b].applied :
            i[1] \notin touched[b] => VersionsMatch(b, {i})

(* An apply never writes over a row that somebody changed after the        *)
(* preview read its version ("changed after preview; regenerate ..."),     *)
(* edits, deletions, restores and the applies of other batches included.   *)
(* Rows that a task plan was merged into are excepted: merges read and     *)
(* write without a row lock and use version numbers twice.                 *)
NothingNewerOverwritten ==
    [][\A b \in Batches, i \in Items :
         wrote'[b][i] # wrote[b][i] /\ i[1] \notin merged => i[1] \notin touched[b]]_vars

(* A plan creates its tasks, its view or its dashboard once.               *)
PlanCreatesOnce == \A b \in Batches : made[b] <= 1
=============================================================================
