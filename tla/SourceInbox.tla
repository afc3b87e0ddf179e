----------------------------- MODULE SourceInbox ----------------------------
(* The inbox of captured sources of one user, and the web clipper: both    *)
(* turn something captured outside into a task, once, although clients     *)
(* repeat their requests and several run at a time.                        *)
(*                                                                         *)
(* A request reads first and commits one transaction at the end. Only the  *)
(* conversion of an item locks it; a preview waits for a model in between. *)
EXTENDS Integers, FiniteSets

CONSTANTS
    ItemIds,
    Sources,         \* sourceId of a capture
    Contents,        \* what is captured: its fingerprint and content hash
    Tables,          \* target tables
    NoTable,
    ClipKeys,        \* client_mutation_id of the clipper
    Workers,         \* requests that run at a time
    MaxRequests      \* bound on the requests of a history

VARIABLES
    item,            \* source_inbox_items
    task,            \* the records created: where they come from and go
    receipt,         \* clipper_task_receipts
    work,            \* what each request has read
    overwritten,     \* items whose conversion a status change has overwritten
    requests

varsInbox == <<item, task, receipt, work, overwritten, requests>>

NoItem == [status |-> "none"]
NoReceipt == [task |-> 0]
Waiting == [op |-> "none"]
Items == {i \in ItemIds : item[i] # NoItem}
ItemOf(s) == {i \in Items : item[i].src = s}

InitInbox ==
    /\ item = [i \in ItemIds |-> NoItem]
    /\ task = {}
    /\ receipt = [k \in ClipKeys |-> NoReceipt]
    /\ work = [w \in Workers |-> Waiting]
    /\ overwritten = {}
    /\ requests = 0

Starts(w, e) ==
    /\ work[w] = Waiting /\ requests < MaxRequests
    /\ work' = [work EXCEPT ![w] = e]
    /\ requests' = requests + 1
    /\ UNCHANGED <<item, task, receipt, overwritten>>
Ends(w) == work' = [work EXCEPT ![w] = Waiting] /\ UNCHANGED requests

LockedItems == {work[w].id : w \in {v \in Workers : work[v].op = "convert"}}
NewTask(from, to) == [id |-> Cardinality(task) + 1, from |-> from, table |-> to]

-----------------------------------------------------------------------------
(* ingest: a known source is returned or refused; one whose content is     *)
(* known becomes a duplicate.                                              *)
BeginIngest(w, s, c) ==
    /\ ItemOf(s) = {}
    /\ Starts(w, [op |-> "ingest", src |-> s, content |-> c,
                  status |-> IF \E i \in Items : item[i].content = c THEN "duplicate" ELSE "pending"])

Ingested(e) == [src |-> e.src, content |-> e.content, status |-> e.status,
                target |-> NoTable, record |-> 0]
CommitIngest(w, i) ==
    /\ work[w].op = "ingest" /\ item[i] = NoItem
    /\ ItemOf(work[w].src) = {}
    /\ item' = [item EXCEPT ![i] = Ingested(work[w])]
    /\ Ends(w) /\ UNCHANGED <<task, receipt, overwritten>>

(* preview: an item that was not converted when it was read gets the       *)
(* suggestion and its target table.                                        *)
BeginPreview(w, i, t) ==
    /\ i \in Items /\ item[i].status # "converted"
    /\ Starts(w, [op |-> "preview", id |-> i, table |-> t])
CommitPreview(w) ==
    /\ work[w].op = "preview" /\ work[w].id \notin LockedItems
    /\ item' = [item EXCEPT ![work[w].id].target = work[w].table]
    /\ Ends(w) /\ UNCHANGED <<task, receipt, overwritten>>

(* convert: the item is locked; when it was converted already the task it  *)
(* has is returned, or the request refused.                                *)
BeginConvert(w, i, t) ==
    /\ i \in Items \ LockedItems /\ item[i].status # "converted"
    /\ Starts(w, [op |-> "convert", id |-> i, table |-> t])

(* The task, its history and the item are written together. *)
CommitConvert(w) ==
    LET e == work[w]
        made == NewTask(e.id, e.table)
    IN  /\ e.op = "convert"
        /\ task' = task \cup {made}
        /\ item' = [item EXCEPT ![e.id].status = "converted", ![e.id].target = e.table,
                                ![e.id].record = made.id]
        /\ Ends(w) /\ UNCHANGED <<receipt, overwritten>>

(* update_status: refused when one of the items was converted when it was  *)
(* read; the new status is written without reading again, and not written  *)
(* where it is the one that was read.                                      *)
BeginUpdateStatus(w, S, st) ==
    /\ S # {} /\ S \subseteq Items /\ \A i \in S : item[i].status # "converted"
    /\ Starts(w, [op |-> "status", ids |-> {i \in S : item[i].status # st}, to |-> st])
CommitUpdateStatus(w) ==
    LET e == work[w]
    IN  /\ e.op = "status" /\ e.ids \cap LockedItems = {}
        /\ item' = [i \in ItemIds |-> IF i \in e.ids THEN [item[i] EXCEPT !.status = e.to] ELSE item[i]]
        /\ overwritten' = overwritten \cup {i \in e.ids : item[i].status = "converted"}
        /\ Ends(w) /\ UNCHANGED <<task, receipt>>

-----------------------------------------------------------------------------
(* create_clipper_task: a key with a receipt returns it; the task and the  *)
(* receipt are inserted together, and fail together when the key was used. *)
BeginClip(w, k, t) ==
    /\ receipt[k] = NoReceipt
    /\ Starts(w, [op |-> "clip", key |-> k, table |-> t])
CommitClip(w) ==
    LET e == work[w]
        made == NewTask(e.key, e.table)
    IN  /\ e.op = "clip" /\ receipt[e.key] = NoReceipt
        /\ task' = task \cup {made}
        /\ receipt' = [receipt EXCEPT ![e.key].task = made.id]
        /\ Ends(w) /\ UNCHANGED <<item, overwritten>>

(* A transaction that conflicts, or whose process stops, leaves nothing.   *)
FailRequest(w) ==
    /\ work[w] # Waiting
    /\ Ends(w) /\ UNCHANGED <<item, task, receipt, overwritten>>

MutableStatuses == {"pending", "archived", "ignored"}

NextInbox ==
    \/ \E w \in Workers, s \in Sources, c \in Contents : BeginIngest(w, s, c)
    \/ \E w \in Workers, i \in ItemIds, t \in Tables : BeginPreview(w, i, t) \/ BeginConvert(w, i, t)
    \/ \E w \in Workers, S \in SUBSET ItemIds, st \in MutableStatuses : BeginUpdateStatus(w, S, st)
    \/ \E w \in Workers, k \in ClipKeys, t \in Tables : BeginClip(w, k, t)
    \/ \E w \in Workers, i \in ItemIds : CommitIngest(w, i)
    \/ \E w \in Workers : \/ CommitPreview(w) \/ CommitConvert(w) \/ CommitUpdateStatus(w)
                          \/ CommitClip(w) \/ FailRequest(w)

SpecInbox == InitInbox /\ [][NextInbox]_varsInbox

-----------------------------------------------------------------------------
(* The variables have values of their types. *)
TypeOKInbox ==
    /\ \A i \in ItemIds : item[i].status \in MutableStatuses \cup {"none", "duplicate", "converted"}
    /\ \A x \in task : x.from \in ItemIds \cup ClipKeys /\ x.table \in Tables
    /\ \A w \in Workers : work[w].op \in {"none", "ingest", "preview", "convert", "status", "clip"}

(* However requests overlap, are repeated or fail: a source is in the      *)
(* inbox once; a converted item names a task made from it; a clipper key   *)
(* makes one task, which its receipt names; and an item makes one task,    *)
(* unless a status change that had read it before overwrote its            *)
(* conversion.                                                             *)
CapturedOnce ==
    /\ \A s \in Sources : Cardinality(ItemOf(s)) <= 1
    /\ \A i \in Items : item[i].status = "converted" =>
          \E x \in task : x.id = item[i].record /\ x.from = i
    /\ \A k \in ClipKeys : {x.id : x \in {y \in task : y.from = k}} = {receipt[k].task} \ {0}
    /\ \A i \in ItemIds \ overwritten : Cardinality({x \in task : x.from = i}) <= 1

(* A converted item is never reclassified. *)
ConvertedStays == overwritten = {}
=============================================================================
