------------------------- MODULE NotificationStream -------------------------
(* Assignment notifications of one task table and the stream that brings   *)
(* them to a user.                                                         *)
(*                                                                         *)
(* Notifications are derived from the change history: a stream replays the *)
(* whole history when it connects, page by page, then the recent changes,  *)
(* and afterwards the recent ones each time the table changes.  The row of *)
(* a notification is unique per change and user, so replays repeat nothing.*)
(* The brokers only wake a stream that is listening.                       *)
EXTENDS Integers, Sequences, FiniteSets

CONSTANTS
    Users,
    Nobody,
    MaxChanges,    \* bound on the change sets of a history
    RepairBatch,   \* ASSIGNMENT_REPAIR_BATCH_SIZE
    ScanWindow,    \* ASSIGNMENT_SCAN_LIMIT
    MaxConnects    \* bound on the connections of a history

VARIABLES
    changes,       \* change sets: who assigned whom, and whether it stands
    note,          \* user_notifications: none, unread or read
    stream,        \* how far the stream of each user is
    woken,         \* the table events each stream has in its queue
    connects

varsStream == <<changes, note, stream, woken, connects>>

Offline == [at |-> "offline", offset |-> 0, staged |-> {}, from |-> 0, disturbed |-> FALSE]

(* The changes that stand, oldest first: the place of one among them. *)
Applied == {i \in DOMAIN changes : changes[i].status = "applied"}
Rank(i) == Cardinality({j \in Applied : j <= i})

(* A change that assigns a user, who is told unless it is their own doing. *)
Tells(i, u) == changes[i].to = u /\ changes[i].by # u

InitStream ==
    /\ changes = <<>>
    /\ note = [u \in Users |-> [i \in 1..MaxChanges |-> "none"]]
    /\ stream = [u \in Users |-> Offline]
    /\ woken = [u \in Users |-> FALSE]
    /\ connects = 0

WakeListeners == woken' = [u \in Users |-> woken[u] \/ stream[u].at = "listening"]
Disturb == stream' = [u \in Users |-> [stream[u] EXCEPT !.disturbed = @ \/ stream[u].at = "repair"]]

(* A record is written: its assignee changes, or something else does.      *)
WriteRecord(a, b) ==
    /\ Len(changes) < MaxChanges
    /\ changes' = Append(changes, [by |-> a, to |-> b, status |-> "applied"])
    /\ WakeListeners
    /\ UNCHANGED <<note, stream, connects>>

(* A change is taken back; the change set that does so assigns nobody new. *)
UndoChange(a, i) ==
    /\ i \in DOMAIN changes /\ changes[i].status = "applied" /\ Len(changes) < MaxChanges
    /\ changes' = Append([changes EXCEPT ![i].status = "undone"],
                         [by |-> a, to |-> Nobody, status |-> "applied"])
    /\ WakeListeners /\ Disturb
    /\ UNCHANGED <<note, connects>>

-----------------------------------------------------------------------------
(* The stage of a notification: the row is looked up by its key and        *)
(* inserted only when there is none, read or unread.                       *)
StageAgain(u, keys) == [i \in 1..MaxChanges |-> IF i \in keys THEN "unread" ELSE note[u][i]]
StageNotification(u, keys) ==
    [i \in 1..MaxChanges |-> IF i \in keys /\ note[u][i] = "none" THEN "unread" ELSE note[u][i]]

Connect(u) ==
    /\ stream[u].at = "offline" /\ connects < MaxConnects
    /\ connects' = connects + 1
    /\ stream' = [stream EXCEPT ![u] = [Offline EXCEPT !.at = "repair", !.from = Len(changes)]]
    /\ UNCHANGED <<changes, note, woken>>

(* The replay ends with the first page that is not full. *)
LastPage(rows) == Cardinality(rows) < RepairBatch
NextOffsetPastNext(offset, rows) == offset + Cardinality(rows) + 1
NextOffset(offset, rows) == offset + Cardinality(rows)
PageFrom(offset) == {i \in Applied : Rank(i) \in offset + 1 .. offset + RepairBatch}

(* One page of the replay; the rows found are committed after the last.    *)
RepairPage(u) ==
    /\ stream[u].at = "repair"
    /\ LET rows == PageFrom(stream[u].offset)
           found == stream[u].staged \cup {i \in rows : Tells(i, u)}
       IN  IF LastPage(rows)
           THEN /\ note' = [note EXCEPT ![u] = StageNotification(u, found)]
                /\ stream' = [stream EXCEPT ![u].at = "sync", ![u].staged = {}]
           ELSE /\ stream' = [stream EXCEPT ![u].staged = found,
                                            ![u].offset = NextOffset(@, rows)]
                /\ UNCHANGED note
    /\ UNCHANGED <<changes, woken, connects>>

(* The newest changes of the table, for everyone they tell. *)
Recent == {i \in Applied : Rank(i) > Cardinality(Applied) - ScanWindow}
SyncTable == note' = [u \in Users |-> StageNotification(u, {i \in Recent : Tells(i, u)})]

(* The recent changes are read once more, and the snapshot is sent. *)
SyncOnConnect(u) ==
    /\ stream[u].at = "sync"
    /\ SyncTable
    /\ stream' = [stream EXCEPT ![u].at = "snapshot"]
    /\ UNCHANGED <<changes, woken, connects>>

(* Only now the stream subscribes; what was published before is not heard. *)
Subscribe(u) ==
    /\ stream[u].at = "snapshot"
    /\ stream' = [stream EXCEPT ![u].at = "listening"]
    /\ UNCHANGED <<changes, note, woken, connects>>

HearTable(u) ==
    /\ stream[u].at = "listening" /\ woken[u]
    /\ woken' = [woken EXCEPT ![u] = FALSE]
    /\ SyncTable
    /\ UNCHANGED <<changes, stream, connects>>

Disconnect(u) ==
    /\ stream[u].at # "offline"
    /\ stream' = [stream EXCEPT ![u] = Offline]
    /\ woken' = [woken EXCEPT ![u] = FALSE]
    /\ UNCHANGED <<changes, note, connects>>

MarkRead(u, i) ==
    /\ note[u][i] = "unread"
    /\ note' = [note EXCEPT ![u][i] = "read"]
    /\ UNCHANGED <<changes, stream, woken, connects>>
MarkAllRead(u) ==
    /\ \E i \in 1..MaxChanges : note[u][i] = "unread"
    /\ note' = [note EXCEPT ![u] = [i \in 1..MaxChanges |->
                                      IF note[u][i] = "unread" THEN "read" ELSE note[u][i]]]
    /\ UNCHANGED <<changes, stream, woken, connects>>

NextStream ==
    \E u \in Users :
        \/ \E b \in Users \cup {Nobody} : WriteRecord(u, b)
        \/ \E i \in 1..MaxChanges : UndoChange(u, i) \/ MarkRead(u, i)
        \/ Connect(u) \/ RepairPage(u) \/ SyncOnConnect(u) \/ Subscribe(u) \/ HearTable(u)
        \/ Disconnect(u) \/ MarkAllRead(u)

SpecStream == InitStream /\ [][NextStream]_varsStream

-----------------------------------------------------------------------------
(* The variables have values of their types. *)
TypeOKStream ==
    /\ \A i \in DOMAIN changes : changes[i].status \in {"applied", "undone"}
    /\ note \in [Users -> [1..MaxChanges -> {"none", "unread", "read"}]]
    /\ \A u \in Users : stream[u].at \in {"offline", "repair", "sync", "snapshot", "listening"}
    /\ woken \in [Users -> BOOLEAN]

(* A stream that got through its replay has told its user of every         *)
(* assignment that was made before it connected and still stands, however  *)
(* long the user was away, unless a change was undone while the pages were *)
(* read (then the offsets shift and a change can be passed over until the  *)
(* next connection).                                                       *)
RepairMissesNothing ==
    \A u \in Users :
        stream[u].at \in {"sync", "snapshot", "listening"} /\ ~stream[u].disturbed =>
            \A i \in 1..stream[u].from :
                changes[i].status = "applied" /\ Tells(i, u) => note[u][i] # "none"

(* Replays never bring back what a user has read, and a notification, once *)
(* made, stays and was due: it tells of an assignment by somebody else     *)
(* (stage_notification and its unique key).                                *)
NotesOnlyMoveForwardStep ==
    \A u \in Users, i \in 1..MaxChanges :
      /\ note[u][i] = "read" => note'[u][i] = "read"
      /\ note[u][i] = "unread" => note'[u][i] # "none"
      /\ note[u][i] = "none" /\ note'[u][i] # "none" => note'[u][i] = "unread" /\ Tells(i, u)
NotesOnlyMoveForward == [][NotesOnlyMoveForwardStep]_varsStream
=============================================================================
