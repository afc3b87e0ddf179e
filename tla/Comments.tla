------------------------------ MODULE Comments ------------------------------
(* Comments on the records of one table, their mentions, the notifications *)
(* they cause and the activity list that shows them among other changes.   *)
(*                                                                         *)
(* A request reads the comment it edits, checks it, and writes it in one   *)
(* transaction later, without a lock: an edit writes only the columns it   *)
(* changes, computed from what it read.                                    *)
EXTENDS Integers, Sequences, SequencesExt, FiniteSets

CONSTANTS
    CommentIds,
    Records,
    Authors,
    NoComment,
    ClientKeys,      \* values of clientMutationId
    NoKey,           \* no clientMutationId was given
    Writers,         \* requests that run at a time
    MaxLog,          \* bound on the change items of a history
    ActivityBatch,   \* rows list_record_activity reads at a time
    ActivityCap      \* ACTIVITY_SCAN_CAP

VARIABLES
    comment,         \* record_comments and record_comment_mentions
    told,            \* user_notifications: <<comment, user, kind>>
    activity,        \* change items, oldest first
    writing          \* what each request has read and not yet written

varsComments == <<comment, told, activity, writing>>

Free == [state |-> "free"]
IdleWriter == [op |-> "idle"]
Used == {c \in CommentIds : comment[c].state # "free"}
Live(c) == comment[c].state = "live"
KeyUsed(a, k) == k # NoKey /\ \E c \in Used : comment[c].by = a /\ comment[c].key = k

InitComments ==
    /\ comment = [c \in CommentIds |-> Free]
    /\ told = {} /\ activity = <<>>
    /\ writing = [w \in Writers |-> IdleWriter]

(* Other work on a record adds change items of its own. *)
ChangeRecord(r) ==
    /\ Len(activity) < MaxLog
    /\ activity' = Append(activity, [record |-> r, of |-> NoComment, op |-> "record"])
    /\ UNCHANGED <<comment, told, writing>>

-----------------------------------------------------------------------------
BeginWriting(w, e) ==
    /\ writing[w] = IdleWriter
    /\ writing' = [writing EXCEPT ![w] = e]
    /\ UNCHANGED <<comment, told, activity>>

(* createRecordComment: a key its author has used returns the comment made *)
(* with it, or is refused when that one differs; either changes nothing. A *)
(* parent is a live comment on the same record that is no reply itself.    *)
ParentAllowed(p, r) ==
    p # NoComment => /\ Live(p)
                     /\ comment[p].record = r
                     /\ comment[p].parent = NoComment
BeginCreate(w, a, r, p, m, k) ==
    /\ ~KeyUsed(a, k)
    /\ p \in Used \cup {NoComment} /\ ParentAllowed(p, r)
    /\ BeginWriting(w, [op |-> "create", by |-> a, record |-> r, parent |-> p,
                        mentions |-> m, key |-> k])

(* updateRecordComment and deleteRecordComment: the comment is live, the   *)
(* actor is its author or a manager, and the revision is the expected one. *)
BeginUpdate(w, a, c, m) ==
    /\ Live(c)
    /\ BeginWriting(w, [op |-> "update", by |-> a, id |-> c, read |-> comment[c], mentions |-> m])
BeginDelete(w, a, c) ==
    /\ Live(c)
    /\ BeginWriting(w, [op |-> "delete", by |-> a, id |-> c, read |-> comment[c]])

Log(c, op) == activity' = Append(activity, [record |-> comment'[c].record, of |-> c, op |-> op])
Ends(w) == writing' = [writing EXCEPT ![w] = IdleWriter]

(* Everybody newly mentioned is told, except the one who writes. *)
MentionNotices(c, added, by) == {<<c, u, "mention">> : u \in added \ {by}}
ReplyNotices(c, e) ==
    IF e.parent = NoComment \/ comment[e.parent].by \in e.mentions \cup {e.by} THEN {}
    ELSE {<<c, comment[e.parent].by, "reply">>}

(* The insert fails when another request has used the key meanwhile. *)
InsertCommentAnyKey(w, c) ==
    LET e == writing[w]
    IN  /\ e.op = "create" /\ comment[c].state = "free" /\ Len(activity) < MaxLog
        /\ comment' = [comment EXCEPT ![c] =
              [state |-> "live", by |-> e.by, record |-> e.record, parent |-> e.parent,
               key |-> e.key, rev |-> 1, mentions |-> e.mentions]]
        /\ told' = told \cup MentionNotices(c, e.mentions, e.by) \cup ReplyNotices(c, e)
        /\ Log(c, "create") /\ Ends(w)
InsertComment(w, c) ==
    LET e == writing[w]
    IN  /\ e.op = "create" /\ comment[c].state = "free" /\ Len(activity) < MaxLog
        /\ ~KeyUsed(e.by, e.key)
        /\ comment' = [comment EXCEPT ![c] =
              [state |-> "live", by |-> e.by, record |-> e.record, parent |-> e.parent,
               key |-> e.key, rev |-> 1, mentions |-> e.mentions]]
        /\ told' = told \cup MentionNotices(c, e.mentions, e.by) \cup ReplyNotices(c, e)
        /\ Log(c, "create") /\ Ends(w)

(* The mentions are brought from what was read to what is wanted; one that *)
(* another request has inserted meanwhile makes the transaction fail.      *)
Added(e) == e.mentions \ e.read.mentions
SaveUpdate(w) ==
    LET e == writing[w]
    IN  /\ e.op = "update" /\ Len(activity) < MaxLog
        /\ Added(e) \cap comment[e.id].mentions = {}
        /\ comment' = [comment EXCEPT
              ![e.id].rev = e.read.rev + 1,
              ![e.id].mentions = (@ \ (e.read.mentions \ e.mentions)) \cup Added(e)]
        /\ told' = told \cup MentionNotices(e.id, Added(e), e.by)
        /\ Log(e.id, "update") /\ Ends(w)

(* The body is emptied, the mentions go, and nobody is told. *)
SaveDelete(w) ==
    LET e == writing[w]
    IN  /\ e.op = "delete" /\ Len(activity) < MaxLog
        /\ comment' = [comment EXCEPT ![e.id].state = "deleted", ![e.id].rev = e.read.rev + 1,
                                      ![e.id].mentions = {}]
        /\ Log(e.id, "delete") /\ Ends(w)
        /\ UNCHANGED told

(* A request that conflicts, or whose process stops, leaves nothing. *)
GiveUp(w) ==
    /\ writing[w] # IdleWriter
    /\ Ends(w)
    /\ UNCHANGED <<comment, told, activity>>

NextComments ==
    \/ \E r \in Records : ChangeRecord(r)
    \/ \E w \in Writers, a \in Authors, m \in SUBSET Authors :
         \/ \E r \in Records, p \in CommentIds \cup {NoComment}, k \in ClientKeys \cup {NoKey} :
              BeginCreate(w, a, r, p, m, k)
         \/ \E c \in CommentIds : BeginUpdate(w, a, c, m)
    \/ \E w \in Writers, a \in Authors, c \in CommentIds : BeginDelete(w, a, c)
    \/ \E w \in Writers : SaveUpdate(w) \/ SaveDelete(w) \/ GiveUp(w)
    \/ \E w \in Writers, c \in CommentIds : InsertComment(w, c)

SpecComments == InitComments /\ [][NextComments]_varsComments

-----------------------------------------------------------------------------
(* The activity list of a record, and the feed of all the records a person *)
(* may see: both scan the history, newest first, for a set of records.     *)

Newest == Reverse(activity)
ShownAt(rs, i) == Newest[i].record \in rs
Shown(rs, offset, i) == {j \in offset + 1 .. i : ShownAt(rs, j)}

(* Where the scan from an offset may stop: at a row that fills the page or *)
(* is past the cap, or at the end of a batch that is past the cap.         *)
PageFull(rs, offset, limit, i) ==
    \/ ShownAt(rs, i) /\ Cardinality(Shown(rs, offset, i)) = limit
    \/ /\ i - offset >= ActivityCap
       /\ ShownAt(rs, i) \/ (i - offset) % ActivityBatch = 0
Stop(rs, offset, limit) ==
    LET full == {i \in offset + 1 .. Len(Newest) : PageFull(rs, offset, limit, i)}
    IN  IF full = {} THEN Len(Newest) ELSE CHOOSE i \in full : \A j \in full : i <= j

(* There is more when the scan stopped inside a batch, or at the end of a  *)
(* batch that was full.                                                    *)
HasMore(rs, offset, limit) ==
    LET stop == Stop(rs, offset, limit)
        batches == (stop - offset + ActivityBatch - 1) \div ActivityBatch
        batchEnd == offset + batches * ActivityBatch
    IN  /\ stop > offset /\ PageFull(rs, offset, limit, stop)
        /\ stop < Len(Newest) \/ stop = batchEnd

(* All pages, one after another, each with the places it shows, newest     *)
(* first: the cursor of the next page is the place where the scan stopped. *)
AllPages(rs, limit) ==
    LET pages[offset \in 0..Len(Newest)] ==
          LET stop == Stop(rs, offset, limit)
          IN  <<Shown(rs, offset, stop)>>
                \o (IF HasMore(rs, offset, limit) THEN pages[stop] ELSE <<>>)
    IN  pages[0]
ListRecordActivity(r, limit) == AllPages({r}, limit)
ActivitySection(visible, limit) == AllPages(visible, limit)

-----------------------------------------------------------------------------
(* The variables have values of their types. *)
TypeOKComments ==
    /\ \A c \in CommentIds : comment[c].state \in {"free", "live", "deleted"}
    /\ told \subseteq CommentIds \X Authors \X {"mention", "reply"}
    /\ \A w \in Writers : writing[w].op \in {"idle", "create", "update", "delete"}

(* Whatever requests overlap or are repeated, a client key makes at most   *)
(* one comment, replies are one level deep and on the record of their      *)
(* parent, and nobody is told of a comment that was never written.         *)
ThreadsAreSound ==
    /\ \A c, d \in Used : (/\ comment[c].key = comment[d].key /\ comment[c].key # NoKey
                            /\ comment[c].by = comment[d].by) => c = d
    /\ \A c \in Used : LET p == comment[c].parent
                       IN  p # NoComment => /\ p \in Used
                                            /\ comment[p].parent = NoComment
                                            /\ comment[p].record = comment[c].record
    /\ \A n \in told : n[1] \in Used

(* A deleted comment is never live again, even when an edit that had read  *)
(* it before is written after the delete.                                  *)
DeletedForGoodStep ==
    \A c \in Used : comment[c].state = "deleted" => comment'[c].state = "deleted"
DeletedForGood == [][DeletedForGoodStep]_varsComments

(* Paging through the activity of a record, or of the records a person may *)
(* see, shows each of its changes once, newest first, whatever the page,   *)
(* batch and cap sizes. The pages depend on the change items alone, so it  *)
(* is enough to ask while no comment is being written.                     *)
OnceInOrder(rs, pages) ==
    /\ UNION ToSet(pages) = {j \in 1..Len(Newest) : ShownAt(rs, j)}
    /\ \A i, k \in DOMAIN pages : i < k => \A x \in pages[i], y \in pages[k] : x < y
ActivityPagesComplete == (\A w \in Writers : writing[w] = IdleWriter) =>
    \A limit \in 1..2 :
      /\ \A r \in Records : OnceInOrder({r}, ListRecordActivity(r, limit))
      /\ OnceInOrder(Records, ActivitySection(Records, limit))
=============================================================================
