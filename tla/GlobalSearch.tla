---------------------------- MODULE GlobalSearch ----------------------------
(***************************************************************************)
(* Global search (app/services/global_search.py) of one user: names of     *)
(* workspaces, folders, tables and dashboards, and records of the readable *)
(* tables, in pages that a cursor continues.                               *)
(*                                                                         *)
(* Records come from the database in the order score, table, position; row *)
(* permissions are applied to them one by one, until there are as many as  *)
(* the page can need; then everything is sorted by score and title.  Texts *)
(* are abstracted to what matching makes of them: a score and a title.     *)
(***************************************************************************)
EXTENDS Naturals, Sequences, FiniteSets, SequencesExt

CONSTANTS
    NHits,        \* bound: the records that match
    NNames,       \* bound: the names that match
    HitKinds,     \* score, title (its rank), table and owner a matching record may have
    NameKinds,    \* score and title a matching name may have
    Accesses,     \* parents, item permissions and row policies to start from
    Tables,       \* the readable tables, numbered from 1; the Folder holds them
    Limit,        \* page size
    MaxScanned,   \* MAX_RECORD_CANDIDATES_SCANNED
    MaxChanges    \* bound: changes of the data between the pages

Folder == 1 + Cardinality(Tables)
Top == 0
NoCursor == 0

VARIABLES
    hits,       \* score, title, table and owner of the matching records, by table
    names,      \* score and title of every matching name
    parent,     \* the parent of every item
    overrides,  \* item permissions of the user
    policy,     \* row permission mode of every table
    cursor,     \* the offset in the cursor of the last page
    pages,      \* the pages got so far, with the visible records of the time
    cut,        \* whether a page was cut off by the scan limit
    changes     \* number of changes

vars == <<hits, names, parent, overrides, policy, cursor, pages, cut, changes>>

Items == Tables \cup {Folder}
Modes == {"all", "creator", "member_field"}

-----------------------------------------------------------------------------
(* Permissions                                                             *)

\* resolve: the nearest override above the item, else what the role gives; a
\* parent cycle ends with the role.
PathUp(i) ==
    LET path[n \in 0..Cardinality(Items)] ==
          IF n = 0 THEN i ELSE IF path[n - 1] = Top THEN Top ELSE parent[path[n - 1]]
    IN  path
Role == "read"
Resolve(i) ==
    LET path == PathUp(i)
        at == {n \in DOMAIN path : path[n] # Top /\ path[n] \in DOMAIN overrides}
    IN  IF at = {} THEN Role ELSE overrides[path[CHOOSE n \in at : \A m \in at : n <= m]]

\* record_is_visible: managers see all; a restricted record is seen by its
\* creator and, in the mode "member_field", by the member its cell names.
Visible(h) ==
    \/ Resolve(hits[h].table) = "manage"
    \/ policy[hits[h].table] = "all"
    \/ hits[h].mine = "creator"
    \/ policy[hits[h].table] = "member_field" /\ hits[h].mine = "member"

-----------------------------------------------------------------------------
(* One page                                                                *)

\* The order of the database, and the order of the page.
BeforeInSql(h, k) ==
    \/ hits[h].score > hits[k].score
    \/ /\ hits[h].score = hits[k].score
       /\ hits[h].table < hits[k].table \/ (hits[h].table = hits[k].table /\ h < k)
Candidates == SetToSortSeq(DOMAIN hits, BeforeInSql)

Result(kind, i) == [kind |-> kind, id |-> i]
Entry(r) == IF r.kind = "record" THEN hits[r.id] ELSE names[r.id]
BeforeOnPage(r, s) ==
    \/ Entry(r).score > Entry(s).score
    \/ /\ Entry(r).score = Entry(s).score
       /\ \/ Entry(r).title < Entry(s).title
          \/ /\ Entry(r).title = Entry(s).title
             /\ (r.kind = "name" /\ s.kind = "record") \/ (r.kind = s.kind /\ r.id < s.id)

\* _search_records: the first visible candidates, as many as are required, of
\* those the scan may look at.
Scanned == SubSeq(Candidates, 1, IF Cardinality(DOMAIN hits) < MaxScanned THEN Cardinality(DOMAIN hits) ELSE MaxScanned)
VisibleScanned == SelectSeq(Scanned, LAMBDA h : Visible(h))
FirstOf(seq, n) == SubSeq(seq, 1, IF Len(seq) < n THEN Len(seq) ELSE n)
SearchRecords(required) == FirstOf(VisibleScanned, required)
Truncated(required) == Cardinality(DOMAIN hits) >= MaxScanned /\ Len(VisibleScanned) < required

\* One record more than the page holds tells whether there are more.
RequiredRecords(offset) == offset + Limit + 1

Combined(offset) ==
    SetToSortSeq({Result("name", i) : i \in DOMAIN names} \cup
                 {Result("record", h) : h \in ToSet(SearchRecords(RequiredRecords(offset)))}, BeforeOnPage)

-----------------------------------------------------------------------------

Init ==
    /\ \E n \in 0..NHits :
         hits \in {h \in [1..n -> HitKinds] : \A i, j \in 1..n : i < j => h[i].table <= h[j].table}
    /\ \E n \in 0..NNames : names \in [1..n -> NameKinds]
    /\ \E a \in Accesses : parent = a.parent /\ overrides = a.overrides /\ policy = a.policy
    /\ cursor = NoCursor /\ pages = <<>> /\ cut = FALSE /\ changes = 0

\* global_search with the cursor of the page before, or without one: the
\* answer has the page, and a cursor when there is more.  A cursor carries the
\* fingerprint of its query and is refused with another, so that a walk through
\* the pages is of one query.
Search ==
    /\ pages = <<>> \/ cursor # NoCursor    \* a walk ends with its last page
    /\ \E all \in {Combined(cursor)} :
         \E page \in {SubSeq(all, cursor + 1, IF Len(all) < cursor + Limit THEN Len(all) ELSE cursor + Limit)} :
            /\ pages' = Append(pages, [results |-> page, visible |-> {h \in DOMAIN hits : Visible(h)}])
            /\ cursor' = IF Len(all) > cursor + Limit /\ page # <<>> THEN cursor + Len(page) ELSE NoCursor
    /\ cut' = (cut \/ Truncated(RequiredRecords(cursor)))
    /\ UNCHANGED <<hits, names, parent, overrides, policy, changes>>

\* Between two pages a manager restricts a table, or takes the override back.
ChangeAccess ==
    /\ changes < MaxChanges /\ pages # <<>>
    /\ changes' = changes + 1
    /\ \/ \E t \in Tables : policy' = [policy EXCEPT ![t] = "creator"] /\ overrides' = overrides
       \/ overrides' = [i \in {} |-> "read"] /\ policy' = policy
    /\ UNCHANGED <<hits, names, parent, cursor, pages, cut>>

Next == Search \/ ChangeAccess
Spec == Init /\ [][Next]_vars

-----------------------------------------------------------------------------
(* Properties                                                              *)

TypeOKSearch ==
    /\ policy \in [Tables -> Modes]
    /\ cursor \in 0..(NHits + NNames)
    /\ \A i \in DOMAIN pages : Len(pages[i].results) <= Limit
    /\ cut \in BOOLEAN /\ changes \in 0..MaxChanges

Walked == FlattenSeq([i \in DOMAIN pages |-> pages[i].results])
Finished == pages # <<>> /\ cursor = NoCursor
TiesAgree ==
    \A h, k \in DOMAIN hits : hits[h].score = hits[k].score /\ h < k => hits[h].title <= hits[k].title
Everything ==
    SetToSortSeq({Result("name", i) : i \in DOMAIN names} \cup
                 {Result("record", h) : h \in {k \in DOMAIN hits : Visible(k)}}, BeforeOnPage)

\* No page shows a record that the row permissions of its time hide, whatever
\* earlier pages or the cursor were made under; and over unchanged data the
\* pages of a search not cut off by the scan limit hold together as many
\* results as there are, exactly those in their order when no two records of
\* one score are titled against the order of the database.
SearchesSound ==
    /\ \A i \in DOMAIN pages : \A r \in ToSet(pages[i].results) :
          r.kind = "record" => r.id \in pages[i].visible
    /\ Finished /\ changes = 0 /\ ~cut =>
          \A walked \in {Walked}, every \in {Everything} :
             /\ Len(walked) = Len(every)
             /\ TiesAgree => walked = every

\* This does not hold: records of one score are fetched in the order of the
\* database and paged in the order of their titles, so that a later page may
\* repeat a result of an earlier one and leave another out.
NoResultTwice == changes = 0 => IsInjective(Walked)
=============================================================================
