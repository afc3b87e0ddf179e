----------------------- MODULE RecordAutomationProofs -----------------------
(***************************************************************************)
(* Proofs about the record store, for every set of records, change sets     *)
(* and clients, and about the automation engine its changes feed, for any   *)
(* rules, events, processes and bounds, with crashes, infrastructure        *)
(* failures and overlapping leases. They share no variable.                 *)
(***************************************************************************)
EXTENDS RecordStore, AutomationEngine, TLAPS

(* An undo request refers to a ChangeSet that exists (none is ever removed). *)
UndoTargetsExist ==
    \A x \in Clients : req[x] # Idle /\ req[x].kind = "undo" =>
        changes[req[x].change] # NoChange

TypeInv == TypeOK /\ UndoTargetsExist

LEMMA RequestKinds ==
    ASSUME TypeOK, NEW x \in Clients, req[x] # Idle
    PROVE  /\ req[x].kind = "undo" => req[x] \in UndoRequest
           /\ req[x].kind = "link" => req[x] \in LinkRequest
           /\ req[x].kind = "automation" => req[x] \in AutomationRequest
           /\ req[x].kind = "drop" => req[x] \in DropRequest
<1>1. req[x] \in Request BY DEF TypeOK
<1> QED BY <1>1 DEF Request, UndoRequest, LinkRequest, AutomationRequest, DropRequest

LEMMA InitTypeInv == Init => TypeInv
<1> SUFFICES ASSUME Init PROVE TypeInv OBVIOUS
<1>1. rec \in [Records -> Row \cup {NoRec}] BY DEF Init
<1>2. changes \in [ChangeIds -> ChangeSet \cup {NoChange}] BY DEF Init
<1>3. recycle \in [Records -> [ChangeIds -> RecycleBinRecord \cup {NoEntry}]] BY DEF Init
<1>4. autoField \in BOOLEAN BY DEF Init
<1>5. req \in [Clients -> Request \cup {Idle}] BY DEF Init
<1>6. UndoTargetsExist BY DEF Init, UndoTargetsExist
<1> QED BY <1>1, <1>2, <1>3, <1>4, <1>5, <1>6 DEF TypeInv, TypeOK

LEMMA UpdateItemType ==
    ASSUME TypeOK, NEW r \in Live, NEW d \in Data \cup {NoData}
    PROVE  UpdateItem(r, d) \in Item
BY DEF TypeOK, Live, UpdateItem, Row, Item

LEMMA BumpedType ==
    ASSUME TypeOK, NEW r \in Live, NEW d \in Data
    PROVE  Bumped(r, d) \in Row
BY DEF TypeOK, Live, Bumped, Row

LEMMA AppendType ==
    ASSUME NEW op \in {"create", "update", "delete", "undo", "purge"},
           NEW its \in Items, NEW p \in ChangeIds \cup {NoChange}
    PROVE  append_change_set(op, its, p) \in ChangeSet
BY DEF append_change_set, ChangeSet

LEMMA RowData ==
    ASSUME TypeOK, NEW r \in Live
    PROVE  /\ rec[r] \in Row /\ rec[r].data \in Data /\ rec[r].version \in Nat
BY DEF TypeOK, Live, Row

(* Writing rows in place keeps the types. *)
LEMMA WriteRowsType ==
    ASSUME TypeOK, NEW S \in SUBSET Live, NEW new \in [S -> Data], WriteRows("update", new)
    PROVE  /\ rec' \in [Records -> Row \cup {NoRec}]
           /\ changes' \in [ChangeIds -> ChangeSet \cup {NoChange}]
           /\ \A c \in ChangeIds : changes[c] # NoChange => changes'[c] # NoChange
<1> DEFINE changed == {r \in DOMAIN new : new[r] # rec[r].data}
           its == [r \in Records |-> IF r \in changed THEN UpdateItem(r, new[r]) ELSE NoItem]
<1>1. changed \subseteq Live /\ \A r \in changed : new[r] \in Data
    OBVIOUS
<1>2. its \in Items
    BY <1>1, UpdateItemType DEF Items
<1>3. PICK c \in ChangeIds :
        /\ Unused(c)
        /\ rec' = [r \in Records |-> IF r \in changed THEN Bumped(r, new[r]) ELSE rec[r]]
        /\ changes' = [changes EXCEPT ![c] = append_change_set("update", its, NoChange)]
    BY DEF WriteRows
<1>4. rec' \in [Records -> Row \cup {NoRec}]
    <2>1. \A r \in changed : Bumped(r, new[r]) \in Row
        BY <1>1, BumpedType
    <2> QED BY <1>3, <2>1 DEF TypeOK
<1>5. append_change_set("update", its, NoChange) \in ChangeSet
    BY <1>2, AppendType
<1> HIDE DEF its
<1> QED BY <1>3, <1>4, <1>5, SentinelsDiffer DEF TypeOK, Unused

(* Every operation keeps the types; changes never loses a ChangeSet. *)
LEMMA CreateType ==
    ASSUME TypeOK, NEW S \in SUBSET Records, NEW t \in Texts, NEW L \in SUBSET Records,
           CreateRecords(S, t, L)
    PROVE  /\ rec' \in [Records -> Row \cup {NoRec}]
           /\ changes' \in [ChangeIds -> ChangeSet \cup {NoChange}]
           /\ \A c \in ChangeIds : changes[c] # NoChange => changes'[c] # NoChange
<1> DEFINE d == [text |-> t, links |-> L, auto |-> autoField]
           its == [r \in Records |->
                    IF r \in S THEN [before |-> NoData, after |-> d,
                                     version_before |-> 0, version_after |-> 1]
                    ELSE NoItem]
<1>1. d \in Data BY DEF Data, TypeOK
<1>2. PICK c \in ChangeIds :
        /\ Unused(c)
        /\ rec' = [r \in Records |-> IF r \in S THEN [data |-> d, version |-> 1] ELSE rec[r]]
        /\ changes' = [changes EXCEPT ![c] = append_change_set("create", its, NoChange)]
    BY DEF CreateRecords
<1> HIDE DEF d
<1>3. its \in Items BY <1>1 DEF Items, Item
<1>4. append_change_set("create", its, NoChange) \in ChangeSet BY <1>3, AppendType
<1>5. [data |-> d, version |-> 1] \in Row BY <1>1 DEF Row
<1> HIDE DEF its
<1> QED BY <1>2, <1>4, <1>5, SentinelsDiffer DEF TypeOK, Unused

LEMMA DeleteType ==
    ASSUME TypeOK, NEW r \in Records, DeleteRecord(r)
    PROVE  /\ rec' \in [Records -> Row \cup {NoRec}]
           /\ changes' \in [ChangeIds -> ChangeSet \cup {NoChange}]
           /\ recycle' \in [Records -> [ChangeIds -> RecycleBinRecord \cup {NoEntry}]]
           /\ \A c \in ChangeIds : changes[c] # NoChange => changes'[c] # NoChange
<1> DEFINE linking == Linking(r)
           unlinked(s) == Unlinked(s, r)
           its == [s \in Records |->
                    IF s = r THEN UpdateItem(r, NoData)
                    ELSE IF s \in linking THEN UpdateItem(s, unlinked(s))
                    ELSE NoItem]
<1>1. r \in Live BY DEF DeleteRecord
<1>2. \A s \in linking : s \in Live /\ s # r /\ unlinked(s) \in Data
    BY RowData DEF Data, Linking, Unlinked
<1>3. PICK c \in ChangeIds :
        /\ Unused(c)
        /\ rec' = [s \in Records |->
                     IF s = r THEN NoRec
                     ELSE IF s \in linking THEN Bumped(s, unlinked(s)) ELSE rec[s]]
        /\ changes' = [changes EXCEPT ![c] = append_change_set("delete", its, NoChange)]
        /\ recycle' = [recycle EXCEPT ![r][c] =
             [status |-> "deleted", record_version |-> rec[r].version + 1]]
    BY DEF DeleteRecord
<1> HIDE DEF unlinked
<1>4. its \in Items BY <1>1, <1>2, UpdateItemType DEF Items
<1>5. append_change_set("delete", its, NoChange) \in ChangeSet BY <1>4, AppendType
<1> HIDE DEF its
<1>6. \A s \in linking : Bumped(s, unlinked(s)) \in Row BY <1>2, BumpedType
<1>7. rec' \in [Records -> Row \cup {NoRec}] BY <1>3, <1>6 DEF TypeOK
<1>8. [status |-> "deleted", record_version |-> rec[r].version + 1] \in RecycleBinRecord
    BY <1>1, RowData DEF RecycleBinRecord
<1>9. recycle' \in [Records -> [ChangeIds -> RecycleBinRecord \cup {NoEntry}]]
    BY <1>3, <1>8 DEF TypeOK
<1> QED BY <1>3, <1>5, <1>7, <1>9, SentinelsDiffer DEF TypeOK, Unused

LEMMA UndoType ==
    ASSUME TypeOK, NEW c \in ChangeIds, changes[c] # NoChange,
           NEW st, NEW its \in Items, UndoSet(c, st, its)
    PROVE  /\ rec' \in [Records -> Row \cup {NoRec}]
           /\ changes' \in [ChangeIds -> ChangeSet \cup {NoChange}]
           /\ recycle' \in [Records -> [ChangeIds -> RecycleBinRecord \cup {NoEntry}]]
           /\ \A d \in ChangeIds : changes[d] # NoChange => changes'[d] # NoChange
<1> DEFINE inv == [r \in Records |-> IF InSet(its, r) THEN InverseItem(its[r], r) ELSE NoItem]
<1>1. PICK u \in ChangeIds :
        /\ Unused(u)
        /\ rec' = [r \in Records |-> IF InSet(its, r) THEN UndoneRow(its[r], r) ELSE rec[r]]
        /\ recycle' = [r \in Records |->
             IF ~InSet(its, r) THEN recycle[r]
             ELSE IF IsDelete(its[r]) THEN [recycle[r] EXCEPT ![c].status = "restored"]
             ELSE IF IsCreate(its[r]) THEN [recycle[r] EXCEPT ![u] =
                    [status |-> "deleted", record_version |-> rec[r].version + 1]]
             ELSE recycle[r]]
        /\ changes' = [changes EXCEPT
             ![c].status = "undone", ![u] = append_change_set("undo", inv, c)]
    BY DEF UndoSet
<1>2. ASSUME NEW r \in Records, InSet(its, r)
      PROVE  /\ its[r] \in Item
             /\ IsDelete(its[r]) => recycle[r][c] \in RecycleBinRecord /\ its[r].before \in Data
             /\ IsUpdate(its[r]) => its[r].before \in Data
             /\ ~IsDelete(its[r]) => r \in Live
    <2>1. its[r] \in Item BY <1>2 DEF Items, InSet
    <2>2. IsDelete(its[r]) => recycle[r][c] \in RecycleBinRecord
        BY <1>2 DEF UndoSet, Undoable, Binned, TypeOK
    <2>3. ~IsDelete(its[r]) => r \in Live
        BY <1>2 DEF UndoSet, Undoable, Live
    <2> QED BY <2>1, <2>2, <2>3 DEF Item, IsDelete, IsUpdate
<1>3. ASSUME NEW r \in Records, InSet(its, r)
      PROVE  /\ UndoneRow(its[r], r) \in Row \cup {NoRec}
             /\ InverseItem(its[r], r) \in Item \cup {NoItem}
    <2>1. CASE IsDelete(its[r])
        BY <1>2, <1>3, <2>1 DEF UndoneRow, InverseItem, Item, Row
    <2>2. CASE ~IsDelete(its[r]) /\ IsUpdate(its[r])
        <3>1. Bumped(r, its[r].before) \in Row /\ UpdateItem(r, its[r].before) \in Item
            BY <1>2, <1>3, <2>2, BumpedType, UpdateItemType
        <3> QED BY <2>2, <3>1 DEF UndoneRow, InverseItem
    <2>3. CASE ~IsDelete(its[r]) /\ ~IsUpdate(its[r])
        <3>1. UpdateItem(r, NoData) \in Item /\ rec[r] \in Row
            BY <1>2, <1>3, <2>3, UpdateItemType, RowData
        <3> QED BY <2>3, <3>1 DEF UndoneRow, InverseItem
    <2> QED BY <2>1, <2>2, <2>3
<1>4. rec' \in [Records -> Row \cup {NoRec}]
    BY <1>1, <1>3 DEF TypeOK
<1>5. append_change_set("undo", inv, c) \in ChangeSet
    <2>1. inv \in Items BY <1>3 DEF Items
    <2> QED BY <2>1, AppendType
<1> HIDE DEF inv
<1>6. c # u BY <1>1 DEF Unused
<1>7. /\ changes' \in [ChangeIds -> ChangeSet \cup {NoChange}]
      /\ \A d \in ChangeIds : changes[d] # NoChange => changes'[d] # NoChange
    <2>1. [changes[c] EXCEPT !.status = "undone"] \in ChangeSet
        BY DEF TypeOK, ChangeSet
    <2> QED BY <1>1, <1>5, <1>6, <2>1, SentinelsDiffer DEF TypeOK, Unused
<1>8. recycle' \in [Records -> [ChangeIds -> RecycleBinRecord \cup {NoEntry}]]
    <2> SUFFICES ASSUME NEW r \in Records
                 PROVE  recycle'[r] \in [ChangeIds -> RecycleBinRecord \cup {NoEntry}]
        BY <1>1
    <2>0. recycle[r] \in [ChangeIds -> RecycleBinRecord \cup {NoEntry}] BY DEF TypeOK
    <2>1. CASE ~InSet(its, r) BY <1>1, <2>0, <2>1
    <2>2. CASE InSet(its, r) /\ IsDelete(its[r])
        <3>1. [recycle[r][c] EXCEPT !.status = "restored"] \in RecycleBinRecord
            BY <1>2, <2>2 DEF RecycleBinRecord
        <3> QED BY <1>1, <2>0, <2>2, <3>1
    <2>3. CASE InSet(its, r) /\ ~IsDelete(its[r])
        <3>1. [status |-> "deleted", record_version |-> rec[r].version + 1] \in RecycleBinRecord
            BY <1>2, <2>3, RowData DEF RecycleBinRecord
        <3> QED BY <1>1, <2>0, <2>3, <3>1
    <2> QED BY <2>1, <2>2, <2>3
<1> QED BY <1>4, <1>7, <1>8

LEMMA PurgeType ==
    ASSUME TypeOK, NEW r \in Records, PurgeRecord(r)
    PROVE  /\ changes' \in [ChangeIds -> ChangeSet \cup {NoChange}]
           /\ recycle' \in [Records -> [ChangeIds -> RecycleBinRecord \cup {NoEntry}]]
           /\ \A d \in ChangeIds : changes[d] # NoChange => changes'[d] # NoChange
<1>1. PICK c, p \in ChangeIds :
        /\ Binned(r, c)
        /\ Unused(p)
        /\ changes' = [x \in ChangeIds |->
             IF x = p
             THEN [operation |-> "purge", status |-> "irreversible", parent |-> NoChange,
                   items |-> [s \in Records |->
                     IF s = r THEN [before |-> NoData, after |-> NoData,
                                    version_before |-> recycle[r][c].record_version,
                                    version_after |-> recycle[r][c].record_version]
                     ELSE NoItem]]
             ELSE IF Unused(x) THEN NoChange
             ELSE [changes[x] EXCEPT
                     !.status = IF x = c THEN "irreversible" ELSE @,
                     !.items = Redacted(@, r)]]
    BY DEF PurgeRecord
<1> DEFINE v == recycle[r][c].record_version
           its == [s \in Records |->
                     IF s = r THEN [before |-> NoData, after |-> NoData,
                                    version_before |-> v, version_after |-> v]
                     ELSE NoItem]
           ps == [operation |-> "purge", status |-> "irreversible", parent |-> NoChange,
                  items |-> its]
<1>2. v \in Nat BY <1>1 DEF Binned, TypeOK, RecycleBinRecord
<1> HIDE DEF v
<1>3. its \in Items BY <1>2 DEF Items, Item
<1> HIDE DEF its
<1>4. ps \in ChangeSet BY <1>3 DEF ChangeSet
<1>5. ASSUME NEW x \in ChangeIds, changes[x] # NoChange
      PROVE  [changes[x] EXCEPT !.status = IF x = c THEN "irreversible" ELSE @,
                                !.items = Redacted(@, r)] \in ChangeSet
    <2>1. changes[x] \in ChangeSet BY <1>5 DEF TypeOK
    <2>2. Redacted(changes[x].items, r) \in Items
        <3>1. changes[x].items \in Items BY <2>1 DEF ChangeSet
        <3>2. changes[x].items[r] # NoItem =>
                [changes[x].items[r] EXCEPT !.before = NoData, !.after = NoData] \in Item
            BY <3>1 DEF Items, Item
        <3> QED BY <3>1, <3>2 DEF Items, Redacted
    <2> QED BY <2>1, <2>2 DEF ChangeSet
<1>6. /\ changes' \in [ChangeIds -> ChangeSet \cup {NoChange}]
      /\ \A d \in ChangeIds : changes[d] # NoChange => changes'[d] # NoChange
    <2> SUFFICES ASSUME NEW x \in ChangeIds
                 PROVE  /\ changes'[x] \in ChangeSet \cup {NoChange}
                        /\ changes[x] # NoChange => changes'[x] # NoChange
        BY <1>1
    <2>1. CASE x = p
        BY <1>1, <1>4, <2>1, SentinelsDiffer DEF its, v
    <2>2. CASE x # p
        BY <1>1, <1>5, <2>2, SentinelsDiffer DEF Unused
    <2> QED BY <2>1, <2>2
<1>7. recycle' \in [Records -> [ChangeIds -> RecycleBinRecord \cup {NoEntry}]]
    BY DEF PurgeRecord, TypeOK
<1> QED BY <1>6, <1>7

(* An automation's write, from the row it holds. *)
LEMMA RunUpdateType ==
    ASSUME TypeOK, NEW w \in Workers, NEW t \in Texts, RunUpdateAction(w, t)
    PROVE  /\ rec' \in [Records -> Row \cup {NoRec}]
           /\ changes' \in [ChangeIds -> ChangeSet \cup {NoChange}]
           /\ \A d \in ChangeIds : changes[d] # NoChange => changes'[d] # NoChange
           /\ req' \in [Clients -> Request \cup {Idle}]
           /\ req'[w].kind = "automation"
           /\ \A x \in Clients \ {w} : req'[x] = req[x]
<1> DEFINE r == req[w].rec
           copy == req[w].row
           new == [data |-> [copy.data EXCEPT !.text = t], version |-> copy.version + 1]
           its == [s \in Records |->
                        IF s = r THEN [before |-> copy.data, after |-> new.data,
                                       version_before |-> copy.version,
                                       version_after |-> new.version]
                        ELSE NoItem]
<1>0. w \in Clients /\ req[w] \in AutomationRequest
    BY RequestKinds DEF RunUpdateAction, Clients
<1>1. r \in Records /\ copy \in Row BY <1>0 DEF AutomationRequest
<1>2. new \in Row /\ copy.data \in Data /\ copy.version \in Nat /\ new.data \in Data
    BY <1>1 DEF Row, Data
<1>3. PICK c \in ChangeIds :
        /\ Unused(c)
        /\ rec' = [rec EXCEPT ![r] = new]
        /\ changes' = [changes EXCEPT ![c] = append_change_set("update", its, NoChange)]
        /\ req' = [req EXCEPT ![w].row = new]
    BY DEF RunUpdateAction
<1> HIDE DEF new, r
<1>4. its \in Items
    <2>1. new.version \in Nat BY <1>2 DEF Row
    <2> QED BY <1>2, <2>1 DEF Items, Item
<1>5. append_change_set("update", its, NoChange) \in ChangeSet BY <1>4, AppendType
<1> HIDE DEF its
<1>6. [req[w] EXCEPT !.row = new] \in AutomationRequest
    BY <1>0, <1>2 DEF AutomationRequest
<1>7. /\ req' \in [Clients -> Request \cup {Idle}]
      /\ req'[w].kind = "automation"
      /\ \A x \in Clients \ {w} : req'[x] = req[x]
    BY <1>0, <1>3, <1>6 DEF TypeOK, Request, AutomationRequest
<1> QED BY <1>1, <1>2, <1>3, <1>5, <1>7, SentinelsDiffer DEF TypeOK, Unused

LEMMA NextTypeInv == TypeInv /\ [Next]_vars => TypeInv'
<1> SUFFICES ASSUME TypeInv, [Next]_vars PROVE TypeInv' OBVIOUS
<1>0. TypeOK /\ UndoTargetsExist BY DEF TypeInv
<1>i. ASSUME NEW x \in Clients, req' = [req EXCEPT ![x] = Idle],
             \A c \in ChangeIds : changes[c] # NoChange => changes'[c] # NoChange
      PROVE  req' \in [Clients -> Request \cup {Idle}] /\ UndoTargetsExist'
    <2>1. req' \in [Clients -> Request \cup {Idle}] BY <1>0, <1>i DEF TypeOK
    <2>2. \A y \in Clients : req'[y] = Idle \/ req'[y] = req[y] BY <1>0, <1>i DEF TypeOK
    <2>3. \A y \in Clients : req[y] # Idle /\ req[y].kind = "undo" => req[y].change \in ChangeIds
        BY <1>0, RequestKinds DEF UndoRequest
    <2> QED BY <1>0, <1>i, <2>1, <2>2, <2>3 DEF UndoTargetsExist
<1>k. ASSUME req' = req, \A c \in ChangeIds : changes[c] # NoChange => changes'[c] # NoChange
      PROVE  UndoTargetsExist'
    <2>3. \A y \in Clients : req[y] # Idle /\ req[y].kind = "undo" => req[y].change \in ChangeIds
        BY <1>0, RequestKinds DEF UndoRequest
    <2> QED BY <1>0, <1>k, <2>3 DEF UndoTargetsExist
<1>1. ASSUME NEW S \in SUBSET Records, NEW t \in Texts, NEW L \in SUBSET Records,
             CreateRecords(S, t, L)
      PROVE  TypeInv'
    <2>1. recycle' = recycle /\ autoField' = autoField /\ req' = req
        BY <1>1 DEF CreateRecords
    <2> QED BY <1>0, <1>1, <1>k, <2>1, CreateType DEF TypeInv, TypeOK
<1>2. ASSUME NEW S \in SUBSET Records, NEW t \in Texts, UpdateText(S, t)
      PROVE  TypeInv'
    <2> DEFINE new == [r \in S \cap Live |-> [rec[r].data EXCEPT !.text = t]]
    <2>1. new \in [S \cap Live -> Data] BY <1>0, RowData DEF Data
    <2>2. S \cap Live \in SUBSET Live OBVIOUS
    <2>3. WriteRows("update", new) BY <1>2 DEF UpdateText
    <2> HIDE DEF new
    <2> QED BY <1>0, <1>2, <1>k, <2>1, <2>2, <2>3, WriteRowsType DEF TypeInv, TypeOK, UpdateText
<1>3. ASSUME NEW r \in Records, DeleteRecord(r) PROVE TypeInv'
    BY <1>0, <1>3, <1>k, DeleteType DEF TypeInv, TypeOK, DeleteRecord
<1>4. ASSUME NEW r \in Records, RestoreRecord(r) PROVE TypeInv'
    <2>1. PICK c \in ChangeIds : ~Unused(c) /\ UndoSet(c, changes[c].status, changes[c].items)
        BY <1>4 DEF RestoreRecord
    <2>2. changes[c] # NoChange /\ changes[c].items \in Items
        BY <1>0, <2>1 DEF Unused, TypeOK, ChangeSet
    <2>3. req' = req /\ autoField' = autoField BY <1>4, <2>1 DEF RestoreRecord, UndoSet
    <2> QED BY <1>0, <1>k, <2>1, <2>2, <2>3, UndoType DEF TypeInv, TypeOK
<1>5. ASSUME NEW r \in Records, PurgeRecord(r) PROVE TypeInv'
    BY <1>0, <1>5, <1>k, PurgeType DEF TypeInv, TypeOK, PurgeRecord
<1>6. ASSUME NEW u \in Users, NEW r \in Records, NEW L \in SUBSET Records, CheckLinks(u, r, L)
      PROVE  TypeInv'
    <2>1. u \in Clients BY DEF Clients
    <2>2. [kind |-> "link", rec |-> r, links |-> L] \in LinkRequest BY DEF LinkRequest
    <2> QED BY <1>0, <1>6, <2>1, <2>2
            DEF TypeInv, TypeOK, UndoTargetsExist, CheckLinks, Request
<1>7. ASSUME NEW u \in Users, WriteLinks(u) PROVE TypeInv'
    <2>1. u \in Clients /\ req[u] \in LinkRequest
        BY <1>0, <1>7, RequestKinds DEF WriteLinks, Clients
    <2>2. req[u].rec \in Records /\ req[u].links \in SUBSET Records
        BY <2>1 DEF LinkRequest
    <2> DEFINE new == [s \in {req[u].rec} |-> [rec[s].data EXCEPT !.links = req[u].links]]
    <2>3. CASE req[u].rec \in Live /\ WriteRows("update", new)
        <3>1. new \in [{req[u].rec} -> Data]
            BY <1>0, <2>2, <2>3, RowData DEF Data
        <3>2. {req[u].rec} \in SUBSET Live BY <2>3
        <3>3. WriteRows("update", new) BY <2>3
        <3> HIDE DEF new
        <3> QED BY <1>0, <1>7, <1>i, <2>1, <3>1, <3>2, <3>3, WriteRowsType
                DEF TypeInv, TypeOK, WriteLinks
    <2>4. CASE UNCHANGED <<rec, changes>>
        BY <1>0, <1>7, <1>i, <2>1, <2>4 DEF TypeInv, TypeOK, WriteLinks
    <2> QED BY <1>7, <2>3, <2>4 DEF WriteLinks
<1>8. ASSUME NEW u \in Users, NEW c \in ChangeIds, BeginUndo(u, c) PROVE TypeInv'
    <2>1. u \in Clients BY DEF Clients
    <2>2. [kind |-> "undo", change |-> c, status |-> changes[c].status,
           items |-> changes[c].items] \in UndoRequest
        BY <1>0, <1>8 DEF UndoRequest, BeginUndo, Unused, TypeOK, ChangeSet
    <2> QED BY <1>0, <1>8, <2>1, <2>2
            DEF TypeInv, TypeOK, UndoTargetsExist, BeginUndo, Request, Unused
<1>9. ASSUME NEW u \in Users, FinishUndo(u) PROVE TypeInv'
    <2>1. u \in Clients /\ req[u] \in UndoRequest
        BY <1>0, <1>9, RequestKinds DEF FinishUndo, Clients
    <2>2. /\ req[u].change \in ChangeIds /\ req[u].items \in Items
          /\ changes[req[u].change] # NoChange
        BY <1>0, <1>9, <2>1 DEF UndoRequest, UndoTargetsExist, FinishUndo
    <2>3. CASE UndoSet(req[u].change, req[u].status, req[u].items)
        <3>1. autoField' = autoField BY <2>3 DEF UndoSet
        <3> QED BY <1>0, <1>9, <1>i, <2>1, <2>2, <2>3, <3>1, UndoType
                DEF TypeInv, TypeOK, FinishUndo
    <2>4. CASE UNCHANGED <<rec, changes, recycle, autoField>>
        BY <1>0, <1>9, <1>i, <2>1, <2>4 DEF TypeInv, TypeOK, FinishUndo
    <2> QED BY <1>9, <2>3, <2>4 DEF FinishUndo
<1>10. ASSUME NEW a \in Admins, AddAutoField(a) PROVE TypeInv'
    <2>1. \A r \in Live : [rec[r] EXCEPT !.data.auto = TRUE] \in Row
        BY <1>0, RowData DEF Row, Data
    <2>2. rec' \in [Records -> Row \cup {NoRec}]
        BY <1>10, <2>1 DEF AddAutoField
    <2> QED BY <1>0, <1>10, <1>k, <2>2 DEF TypeInv, TypeOK, AddAutoField
<1>11. ASSUME NEW a \in Admins, BeginDropField(a) PROVE TypeInv'
    <2>1. a \in Clients BY DEF Clients
    <2> DEFINE q == [kind |-> "drop", rows |->
                 [r \in Records |-> IF r \in Live THEN rec[r].data ELSE NoData]]
    <2>2. q \in DropRequest BY <1>0, RowData DEF DropRequest
    <2>3. req' = [req EXCEPT ![a] = q] BY <1>11 DEF BeginDropField
    <2>4. q.kind = "drop" OBVIOUS
    <2> HIDE DEF q
    <2> QED BY <1>0, <1>11, <2>1, <2>2, <2>3, <2>4
            DEF TypeInv, TypeOK, UndoTargetsExist, BeginDropField, Request
<1>12. ASSUME NEW a \in Admins, FinishDropField(a) PROVE TypeInv'
    <2>1. a \in Clients /\ req[a] \in DropRequest
        BY <1>0, <1>12, RequestKinds DEF FinishDropField, Clients
    <2> DEFINE loaded == req[a].rows
               dirty == {r \in Records : loaded[r] # NoData /\ loaded[r].auto}
    <2>2. \A r \in dirty : [loaded[r] EXCEPT !.auto = FALSE] \in Data
        BY <2>1 DEF DropRequest, Data
    <2>3. rec' \in [Records -> Row \cup {NoRec}] /\ autoField' \in BOOLEAN
        <3>1. CASE /\ dirty \subseteq Live
                   /\ rec' = [r \in Records |->
                       IF r \in dirty
                       THEN [rec[r] EXCEPT !.data = [loaded[r] EXCEPT !.auto = FALSE]]
                       ELSE rec[r]]
                   /\ autoField' = FALSE
            <4>1. \A r \in dirty :
                    [rec[r] EXCEPT !.data = [loaded[r] EXCEPT !.auto = FALSE]] \in Row
                BY <1>0, <2>2, <3>1, RowData DEF Row
            <4>2. rec' \in [Records -> Row \cup {NoRec}] BY <1>0, <3>1, <4>1 DEF TypeOK
            <4> QED BY <3>1, <4>2
        <3>2. CASE UNCHANGED <<rec, autoField>> BY <1>0, <3>2 DEF TypeOK
        <3> QED BY <1>12, <3>1, <3>2 DEF FinishDropField
    <2> QED BY <1>0, <1>12, <1>i, <2>1, <2>3 DEF TypeInv, TypeOK, FinishDropField
<1>13. ASSUME NEW w \in Workers, NEW r \in Records, LoadRow(w, r) PROVE TypeInv'
    <2>1. w \in Clients BY DEF Clients
    <2>2. [kind |-> "automation", rec |-> r, row |-> rec[r]] \in AutomationRequest
        BY <1>0, <1>13, RowData DEF AutomationRequest, LoadRow
    <2> QED BY <1>0, <1>13, <2>1, <2>2
            DEF TypeInv, TypeOK, UndoTargetsExist, LoadRow, Request
<1>14. ASSUME NEW w \in Workers, NEW t \in Texts, RunUpdateAction(w, t) PROVE TypeInv'
    <2>1. recycle' = recycle /\ autoField' = autoField BY <1>14 DEF RunUpdateAction
    <2>2. TypeOK' BY <1>0, <1>14, <2>1, RunUpdateType DEF TypeOK
    <2>3. UndoTargetsExist'
        <3>1. \A y \in Clients : req[y] # Idle /\ req[y].kind = "undo" => req[y].change \in ChangeIds
            BY <1>0, RequestKinds DEF UndoRequest
        <3> QED BY <1>0, <1>14, <3>1, RunUpdateType DEF UndoTargetsExist
    <2> QED BY <2>2, <2>3 DEF TypeInv
<1>15. ASSUME NEW w \in Workers, EndExecution(w) PROVE TypeInv'
    <2>1. w \in Clients BY DEF Clients
    <2> QED BY <1>0, <1>15, <1>i, <2>1 DEF TypeInv, TypeOK, EndExecution
<1>16. CASE UNCHANGED vars
    BY <1>0, <1>16 DEF TypeInv, TypeOK, UndoTargetsExist, vars
<1> QED BY <1>1, <1>2, <1>3, <1>4, <1>5, <1>6, <1>7, <1>8, <1>9, <1>10, <1>11, <1>12,
           <1>13, <1>14, <1>15, <1>16 DEF Next

(* The types hold in every reachable state, whoever writes. *)
THEOREM TypeCorrect == Spec => []TypeOK
<1>1. Spec => []TypeInv BY InitTypeInv, NextTypeInv, PTL DEF Spec
<1>2. TypeInv => TypeOK BY DEF TypeInv
<1> QED BY <1>1, <1>2, PTL

-----------------------------------------------------------------------------
(* Where a record lives.                                                    *)

(* A recycle entry belongs to an existing ChangeSet with an item for its    *)
(* record: a fresh ChangeSet id has no entries, a fresh record neither.     *)
EntriesKnown ==
    \A r \in Records, c \in ChangeIds : recycle[r][c] # NoEntry =>
        changes[c] # NoChange /\ InSet(changes[c].items, r)

PlaceInv == LiveOrBinned /\ PurgeIsFinal /\ EntriesKnown

(* A step that writes rows in place: no row appears or disappears, and the  *)
(* only new ChangeSet is about live rows.                                   *)
InPlace ==
    /\ \A r \in Records : (rec'[r] # NoRec) <=> (rec[r] # NoRec)
    /\ recycle' = recycle
    /\ \/ changes' = changes
       \/ \E c \in ChangeIds, its \in Items :
            /\ Unused(c)
            /\ changes' = [changes EXCEPT ![c] = append_change_set("update", its, NoChange)]
            /\ \A r \in Records : InSet(its, r) => rec[r] # NoRec

LEMMA AppendKeeps ==
    ASSUME TypeOK, NEW c \in ChangeIds, Unused(c), NEW its \in Items,
           NEW op \in {"create", "update", "delete"},
           changes' = [changes EXCEPT ![c] = append_change_set(op, its, NoChange)]
    PROVE  /\ \A d \in ChangeIds : d # c => changes'[d] = changes[d]
           /\ changes'[c] # NoChange /\ changes'[c].items = its
           /\ changes'[c].operation # "purge"
           /\ \A r \in Records : Used(r)' <=> Used(r) \/ InSet(its, r)
           /\ \A r \in Records : Purged(r)' <=> Purged(r)
<1>1. append_change_set(op, its, NoChange) \in ChangeSet BY AppendType
<1>2. /\ \A d \in ChangeIds : d # c => changes'[d] = changes[d]
      /\ changes'[c] # NoChange /\ changes'[c].items = its
      /\ changes'[c].operation # "purge"
    BY <1>1, SentinelsDiffer DEF TypeOK, append_change_set
<1>3. \A r \in Records : Used(r)' <=> Used(r) \/ InSet(its, r)
    BY <1>2 DEF Used, InSet, Unused
<1>4. \A r \in Records : Purged(r)' <=> Purged(r)
    BY <1>2 DEF Purged, InSet, Unused
<1> QED BY <1>2, <1>3, <1>4

LEMMA InPlaceKeeps ==
    ASSUME TypeOK, PlaceInv, InPlace
    PROVE  PlaceInv'
<1>1. /\ \A r \in Records, c \in ChangeIds : Binned(r, c)' <=> Binned(r, c)
      /\ \A r \in Records : (r \in Live') <=> (r \in Live)
    BY DEF InPlace, Binned, Live
<1>2. CASE changes' = changes
    BY <1>1, <1>2 DEF PlaceInv, LiveOrBinned, PurgeIsFinal, EntriesKnown, Used, Purged, InPlace
<1>3. ASSUME NEW c \in ChangeIds, NEW its \in Items, Unused(c),
             changes' = [changes EXCEPT ![c] = append_change_set("update", its, NoChange)],
             \A r \in Records : InSet(its, r) => rec[r] # NoRec
      PROVE  PlaceInv'
    <2>1. /\ \A d \in ChangeIds : d # c => changes'[d] = changes[d]
          /\ changes'[c] # NoChange /\ changes'[c].items = its
          /\ \A r \in Records : Used(r)' <=> Used(r) \/ InSet(its, r)
          /\ \A r \in Records : Purged(r)' <=> Purged(r)
        BY <1>3, AppendKeeps
    <2>2. LiveOrBinned'
        BY <1>1, <1>3, <2>1 DEF PlaceInv, LiveOrBinned, Live
    <2>3. \A r \in Records : Purged(r) => ~InSet(its, r)
        BY <1>3 DEF PlaceInv, PurgeIsFinal, Live
    <2>4. PurgeIsFinal'
        BY <1>1, <1>3, <2>1, <2>3 DEF PlaceInv, PurgeIsFinal, InSet, Unused, InPlace
    <2>5. EntriesKnown'
        BY <1>3, <2>1 DEF PlaceInv, EntriesKnown, InSet, InPlace, Unused
    <2> QED BY <2>2, <2>4, <2>5 DEF PlaceInv
<1> QED BY <1>2, <1>3 DEF InPlace

LEMMA WriteRowsInPlace ==
    ASSUME TypeOK, NEW S \in SUBSET Live, NEW new \in [S -> Data], WriteRows("update", new),
           recycle' = recycle
    PROVE  InPlace
<1> DEFINE changed == {r \in DOMAIN new : new[r] # rec[r].data}
           its == [r \in Records |-> IF r \in changed THEN UpdateItem(r, new[r]) ELSE NoItem]
<1>1. changed \subseteq Live /\ \A r \in changed : new[r] \in Data
    OBVIOUS
<1>2. its \in Items
    BY <1>1, UpdateItemType DEF Items
<1>3. PICK c \in ChangeIds :
        /\ Unused(c)
        /\ rec' = [r \in Records |-> IF r \in changed THEN Bumped(r, new[r]) ELSE rec[r]]
        /\ changes' = [changes EXCEPT ![c] = append_change_set("update", its, NoChange)]
    BY DEF WriteRows
<1>4. \A r \in Records : (rec'[r] # NoRec) <=> (rec[r] # NoRec)
    <2>1. \A r \in changed : Bumped(r, new[r]) \in Row
        BY <1>1, BumpedType
    <2> QED BY <1>1, <1>3, <2>1, SentinelsDiffer DEF Live
<1>5. \A r \in Records : InSet(its, r) => rec[r] # NoRec
    BY <1>1 DEF InSet, Live
<1> HIDE DEF its
<1> QED BY <1>2, <1>3, <1>4, <1>5 DEF InPlace

LEMMA CreateKeeps ==
    ASSUME TypeOK, PlaceInv, NEW S \in SUBSET Records, NEW t \in Texts,
           NEW L \in SUBSET Records, CreateRecords(S, t, L)
    PROVE  PlaceInv'
<1> DEFINE d == [text |-> t, links |-> L, auto |-> autoField]
           its == [r \in Records |->
                    IF r \in S THEN [before |-> NoData, after |-> d,
                                     version_before |-> 0, version_after |-> 1]
                    ELSE NoItem]
<1>1. d \in Data BY DEF Data, TypeOK
<1>2. PICK c \in ChangeIds :
        /\ Unused(c)
        /\ rec' = [r \in Records |-> IF r \in S THEN [data |-> d, version |-> 1] ELSE rec[r]]
        /\ changes' = [changes EXCEPT ![c] = append_change_set("create", its, NoChange)]
    BY DEF CreateRecords
<1>0. recycle' = recycle /\ \A r \in S : ~Used(r)
    BY DEF CreateRecords
<1> HIDE DEF d
<1>3. its \in Items /\ \A r \in Records : InSet(its, r) <=> r \in S
    BY <1>1, SentinelsDiffer DEF Items, Item, InSet
<1> HIDE DEF its
<1>4. /\ \A e \in ChangeIds : e # c => changes'[e] = changes[e]
      /\ changes'[c] # NoChange /\ changes'[c].items = its
      /\ \A r \in Records : Used(r)' <=> Used(r) \/ InSet(its, r)
      /\ \A r \in Records : Purged(r)' <=> Purged(r)
    BY <1>2, <1>3, AppendKeeps
<1>5. [data |-> d, version |-> 1] # NoRec
    BY <1>1, SentinelsDiffer DEF Row
<1>6. /\ \A r \in Records, e \in ChangeIds : Binned(r, e)' <=> Binned(r, e)
      /\ \A r \in Records : (r \in Live') <=> (r \in Live \/ r \in S)
    BY <1>0, <1>2, <1>5 DEF Binned, Live
<1>7. \A r \in S, e \in ChangeIds : recycle[r][e] = NoEntry
    BY <1>0 DEF PlaceInv, EntriesKnown, Used
<1>8. LiveOrBinned'
    BY <1>3, <1>4, <1>6, <1>7 DEF PlaceInv, LiveOrBinned, Binned
<1>9. \A r \in Records : Purged(r) => r \notin S
    BY <1>0 DEF Purged, Used
<1>10. PurgeIsFinal'
    BY <1>0, <1>2, <1>3, <1>4, <1>6, <1>9 DEF PlaceInv, PurgeIsFinal, InSet, Unused
<1>11. EntriesKnown'
    BY <1>0, <1>2, <1>4 DEF PlaceInv, EntriesKnown, InSet, Unused
<1> QED BY <1>8, <1>10, <1>11 DEF PlaceInv

LEMMA DeleteKeeps ==
    ASSUME TypeOK, PlaceInv, NEW r \in Records, DeleteRecord(r)
    PROVE  PlaceInv'
<1> DEFINE linking == Linking(r)
           unlinked(s) == Unlinked(s, r)
           its == [s \in Records |->
                    IF s = r THEN UpdateItem(r, NoData)
                    ELSE IF s \in linking THEN UpdateItem(s, unlinked(s))
                    ELSE NoItem]
           entry == [status |-> "deleted", record_version |-> rec[r].version + 1]
<1>1. r \in Live BY DEF DeleteRecord
<1>2. \A s \in linking : s \in Live /\ s # r /\ unlinked(s) \in Data
    BY RowData DEF Data, Linking, Unlinked
<1>3. PICK c \in ChangeIds :
        /\ Unused(c)
        /\ rec' = [s \in Records |->
                     IF s = r THEN NoRec
                     ELSE IF s \in linking THEN Bumped(s, unlinked(s)) ELSE rec[s]]
        /\ changes' = [changes EXCEPT ![c] = append_change_set("delete", its, NoChange)]
        /\ recycle' = [recycle EXCEPT ![r][c] = entry]
    BY DEF DeleteRecord
<1> HIDE DEF unlinked
<1>4. UpdateItem(r, NoData) \in Item /\ \A s \in linking : UpdateItem(s, unlinked(s)) \in Item
    BY <1>1, <1>2, UpdateItemType
<1>5. its \in Items /\ InSet(its, r) /\ \A s \in Records : InSet(its, s) => s \in Live
    BY <1>1, <1>2, <1>4, SentinelsDiffer DEF Items, InSet
<1>6. \A s \in linking : Bumped(s, unlinked(s)) \in Row BY <1>2, BumpedType
<1> HIDE DEF its
<1>7. /\ \A e \in ChangeIds : e # c => changes'[e] = changes[e]
      /\ changes'[c] # NoChange /\ changes'[c].items = its
      /\ \A s \in Records : Used(s)' <=> Used(s) \/ InSet(its, s)
      /\ \A s \in Records : Purged(s)' <=> Purged(s)
    BY <1>3, <1>5, AppendKeeps
<1>8. entry \in RecycleBinRecord /\ entry.status = "deleted"
    BY <1>1, RowData DEF RecycleBinRecord
<1> HIDE DEF entry
<1>9. \A s \in Records, e \in ChangeIds :
        recycle'[s][e] = IF s = r /\ e = c THEN entry ELSE recycle[s][e]
    BY <1>3 DEF TypeOK
<1>10. \A s \in Records, e \in ChangeIds : Binned(s, e)' <=> Binned(s, e) \/ (s = r /\ e = c)
    BY <1>8, <1>9, SentinelsDiffer DEF Binned
<1>11. \A s \in Records : (s \in Live') <=> (s \in Live /\ s # r)
    BY <1>2, <1>3, <1>6, SentinelsDiffer DEF Live
<1>12. LiveOrBinned'
    BY <1>1, <1>5, <1>7, <1>10, <1>11 DEF PlaceInv, LiveOrBinned
<1>13. \A s \in Records : Purged(s) => s # r /\ ~InSet(its, s)
    BY <1>1, <1>5 DEF PlaceInv, PurgeIsFinal
<1>14. PurgeIsFinal'
    BY <1>3, <1>7, <1>9, <1>11, <1>13 DEF PlaceInv, PurgeIsFinal, InSet, Unused
<1>15. EntriesKnown'
    BY <1>3, <1>5, <1>7, <1>9 DEF PlaceInv, EntriesKnown, InSet, Unused
<1> QED BY <1>12, <1>14, <1>15 DEF PlaceInv

(* Undo, from items that may be older than the database's: the recycle and  *)
(* liveness checks alone keep every record in one place.                    *)
LEMMA UndoKeeps ==
    ASSUME TypeOK, PlaceInv, NEW c \in ChangeIds, changes[c] # NoChange,
           NEW st, NEW its \in Items, UndoSet(c, st, its)
    PROVE  PlaceInv'
<1> DEFINE inv == [r \in Records |-> IF InSet(its, r) THEN InverseItem(its[r], r) ELSE NoItem]
           entry(r) == [status |-> "deleted", record_version |-> rec[r].version + 1]
           del(r) == InSet(its, r) /\ IsDelete(its[r])
           cre(r) == InSet(its, r) /\ IsCreate(its[r])
<1>1. PICK u \in ChangeIds :
        /\ Unused(u)
        /\ rec' = [r \in Records |-> IF InSet(its, r) THEN UndoneRow(its[r], r) ELSE rec[r]]
        /\ recycle' = [r \in Records |->
             IF ~InSet(its, r) THEN recycle[r]
             ELSE IF IsDelete(its[r]) THEN [recycle[r] EXCEPT ![c].status = "restored"]
             ELSE IF IsCreate(its[r]) THEN [recycle[r] EXCEPT ![u] = entry(r)]
             ELSE recycle[r]]
        /\ changes' = [changes EXCEPT
             ![c].status = "undone", ![u] = append_change_set("undo", inv, c)]
    BY DEF UndoSet
<1>2. \A r \in Records : InSet(its, r) =>
        /\ its[r] \in Item
        /\ IsDelete(its[r]) => rec[r] = NoRec /\ Binned(r, c)
        /\ ~IsDelete(its[r]) => rec[r] # NoRec
    BY DEF UndoSet, Undoable, Items, InSet
<1>3. \A r \in Records : ~(del(r) /\ cre(r)) BY DEF IsDelete, IsCreate
<1>4. c # u /\ changes[u] = NoChange BY <1>1 DEF Unused
<1>5. \A r \in Records : (r \in Live') <=> (del(r) \/ (r \in Live /\ ~cre(r)))
    <2> SUFFICES ASSUME NEW r \in Records
                 PROVE  (rec'[r] # NoRec) <=> (del(r) \/ (rec[r] # NoRec /\ ~cre(r)))
        BY DEF Live
    <2>1. CASE ~InSet(its, r) BY <1>1, <2>1
    <2>2. CASE del(r)
        <3>1. [data |-> its[r].before, version |-> its[r].version_after + 1] \in Row
            BY <1>2, <2>2 DEF IsDelete, Item, Row
        <3> QED BY <1>1, <2>2, <3>1, SentinelsDiffer DEF UndoneRow
    <2>3. CASE InSet(its, r) /\ ~del(r) /\ IsUpdate(its[r])
        <3>1. r \in Live /\ its[r].before \in Data
            BY <1>2, <2>3 DEF Live, Item, IsUpdate
        <3>2. Bumped(r, its[r].before) # NoRec BY <3>1, BumpedType, SentinelsDiffer
        <3> QED BY <1>1, <1>2, <2>3, <3>2 DEF UndoneRow, IsUpdate, IsCreate
    <2>4. CASE InSet(its, r) /\ ~del(r) /\ ~IsUpdate(its[r])
        BY <1>1, <1>2, <2>4 DEF UndoneRow
    <2> QED BY <2>1, <2>2, <2>3, <2>4
<1>6. \A r \in Records : cre(r) => r \in Live
    BY <1>2, <1>3 DEF Live
<1>7. \A r \in Records, e \in ChangeIds :
        recycle'[r][e] =
            IF del(r) /\ e = c THEN [recycle[r][c] EXCEPT !.status = "restored"]
            ELSE IF cre(r) /\ e = u THEN entry(r)
            ELSE recycle[r][e]
    <2> SUFFICES ASSUME NEW r \in Records, NEW e \in ChangeIds
                 PROVE  recycle'[r][e] =
                          IF del(r) /\ e = c THEN [recycle[r][c] EXCEPT !.status = "restored"]
                          ELSE IF cre(r) /\ e = u THEN entry(r)
                          ELSE recycle[r][e]
        OBVIOUS
    <2>0. recycle[r] \in [ChangeIds -> RecycleBinRecord \cup {NoEntry}] BY DEF TypeOK
    <2> HIDE DEF entry
    <2>1. CASE ~InSet(its, r) BY <1>1, <2>1
    <2>2. CASE del(r) BY <1>1, <1>3, <2>0, <2>2
    <2>3. CASE cre(r) BY <1>1, <1>3, <2>0, <2>3
    <2>4. CASE InSet(its, r) /\ ~del(r) /\ ~cre(r) BY <1>1, <2>4
    <2> QED BY <2>1, <2>2, <2>3, <2>4
<1>8. \A r \in Records : cre(r) => entry(r) \in RecycleBinRecord /\ entry(r).status = "deleted"
    BY <1>6, RowData DEF RecycleBinRecord
<1>9. \A r \in Records : del(r) =>
        /\ [recycle[r][c] EXCEPT !.status = "restored"] \in RecycleBinRecord
        /\ [recycle[r][c] EXCEPT !.status = "restored"].status = "restored"
    BY <1>2 DEF Binned, TypeOK, RecycleBinRecord
<1> HIDE DEF entry
<1>10. \A r \in Records, e \in ChangeIds :
        Binned(r, e)' <=> (Binned(r, e) /\ ~(del(r) /\ e = c)) \/ (cre(r) /\ e = u)
    <2>1. \A r \in Records : recycle[r][u] = NoEntry
        BY <1>1 DEF PlaceInv, EntriesKnown, Unused
    <2> SUFFICES ASSUME NEW r \in Records, NEW e \in ChangeIds
                 PROVE  Binned(r, e)' <=> (Binned(r, e) /\ ~(del(r) /\ e = c))
                                          \/ (cre(r) /\ e = u)
        OBVIOUS
    <2>2. CASE del(r) /\ e = c
        BY <1>3, <1>7, <1>9, <2>2, SentinelsDiffer DEF Binned
    <2>3. CASE cre(r) /\ e = u
        BY <1>3, <1>7, <1>8, <2>3, SentinelsDiffer DEF Binned
    <2>4. CASE ~(del(r) /\ e = c) /\ ~(cre(r) /\ e = u)
        BY <1>7, <2>4 DEF Binned
    <2> QED BY <2>2, <2>3, <2>4
<1>11. \A r \in Records : (inv[r] # NoItem) => InSet(its, r)
    OBVIOUS
<1>12. /\ \A e \in ChangeIds : e # c /\ e # u => changes'[e] = changes[e]
       /\ changes'[c] # NoChange /\ changes'[c].items = changes[c].items
       /\ changes'[c].operation = changes[c].operation
       /\ changes'[u] # NoChange /\ changes'[u].items = inv
       /\ changes'[u].operation # "purge"
    <2> HIDE DEF inv
    <2>1. changes[c] \in ChangeSet BY DEF TypeOK
    <2>2. [changes[c] EXCEPT !.status = "undone"] \in ChangeSet BY <2>1 DEF ChangeSet
    <2>3. append_change_set("undo", inv, c) # NoChange
        <3>1. inv \in Items
            <4>1. \A r \in Records : InSet(its, r) => InverseItem(its[r], r) \in Item \cup {NoItem}
                <5> SUFFICES ASSUME NEW r \in Records, InSet(its, r)
                             PROVE  InverseItem(its[r], r) \in Item \cup {NoItem}
                    OBVIOUS
                <5>1. CASE IsDelete(its[r])
                    BY <1>2, <5>1 DEF InverseItem, Item
                <5>2. CASE ~IsDelete(its[r]) /\ IsUpdate(its[r])
                    <6>1. r \in Live /\ its[r].before \in Data
                        BY <1>2, <5>2 DEF Live, Item, IsUpdate
                    <6> QED BY <5>2, <6>1, UpdateItemType DEF InverseItem
                <5>3. CASE ~IsDelete(its[r]) /\ ~IsUpdate(its[r])
                    <6>1. r \in Live BY <1>2, <5>3 DEF Live
                    <6> QED BY <5>3, <6>1, UpdateItemType DEF InverseItem
                <5> QED BY <5>1, <5>2, <5>3
            <4> QED BY <4>1 DEF Items, inv
        <3> QED BY <3>1, AppendType, SentinelsDiffer
    <2>4. changes[c].items = [changes[c] EXCEPT !.status = "undone"].items
          /\ changes[c].operation = [changes[c] EXCEPT !.status = "undone"].operation
        BY <2>1 DEF ChangeSet
    <2> QED BY <1>1, <1>4, <2>1, <2>2, <2>3, <2>4, SentinelsDiffer
            DEF TypeOK, append_change_set
<1>13. \A r \in Records :
        /\ Purged(r)' <=> Purged(r)
        /\ Used(r)' <=> Used(r) \/ inv[r] # NoItem
    <2> SUFFICES ASSUME NEW r \in Records
                 PROVE  /\ Purged(r)' <=> Purged(r)
                        /\ Used(r)' <=> Used(r) \/ inv[r] # NoItem
        OBVIOUS
    <2> HIDE DEF inv
    <2>1. \A e \in ChangeIds : e # u =>
            /\ (changes'[e] # NoChange) <=> (changes[e] # NoChange)
            /\ changes[e] # NoChange => /\ changes'[e].items = changes[e].items
                                       /\ changes'[e].operation = changes[e].operation
        BY <1>12
    <2>2. Purged(r)' <=> Purged(r)
        BY <1>4, <1>12, <2>1 DEF Purged, InSet
    <2>3. Used(r)' <=> Used(r) \/ inv[r] # NoItem
        BY <1>4, <1>12, <2>1 DEF Used, InSet
    <2> QED BY <2>2, <2>3
<1>14. \A r \in Records : Purged(r) => ~InSet(its, r)
    BY <1>2 DEF PlaceInv, PurgeIsFinal, Live, Binned
<1>15. LiveOrBinned'
    <2> SUFFICES ASSUME NEW r \in Records
        PROVE /\ \A e, d \in ChangeIds : Binned(r, e)' /\ Binned(r, d)' => e = d
              /\ r \in Live' => \A e \in ChangeIds : ~Binned(r, e)'
              /\ Used(r)' /\ ~Purged(r)' /\ r \notin Live' => \E e \in ChangeIds : Binned(r, e)'
        BY DEF LiveOrBinned
    <2>0. /\ \A e, d \in ChangeIds : Binned(r, e) /\ Binned(r, d) => e = d
          /\ r \in Live => \A e \in ChangeIds : ~Binned(r, e)
          /\ Used(r) /\ ~Purged(r) /\ r \notin Live => \E e \in ChangeIds : Binned(r, e)
        BY DEF PlaceInv, LiveOrBinned
    <2>i. inv[r] # NoItem => InSet(its, r) BY <1>11
    <2> HIDE DEF inv
    <2>1. CASE ~InSet(its, r) BY <1>5, <1>10, <1>13, <2>0, <2>1, <2>i
    <2>2. CASE del(r) BY <1>2, <1>3, <1>5, <1>10, <2>0, <2>2
    <2>3. CASE cre(r) BY <1>3, <1>5, <1>6, <1>10, <2>0, <2>3
    <2>4. CASE InSet(its, r) /\ ~del(r) /\ ~cre(r)
        BY <1>2, <1>5, <1>10, <2>0, <2>4 DEF Live
    <2> QED BY <2>1, <2>2, <2>3, <2>4
<1>16. PurgeIsFinal'
    <2> SUFFICES ASSUME NEW r \in Records, Purged(r)
        PROVE /\ r \notin Live'
              /\ \A e \in ChangeIds :
                   /\ recycle'[r][e] = NoEntry
                   /\ changes'[e] # NoChange /\ changes'[e].items[r] # NoItem =>
                        /\ changes'[e].items[r].before = NoData
                        /\ changes'[e].items[r].after = NoData
        BY <1>13 DEF PurgeIsFinal, InSet
    <2>1. ~InSet(its, r) /\ inv[r] = NoItem BY <1>14
    <2> HIDE DEF inv
    <2>2. /\ r \notin Live
          /\ \A e \in ChangeIds :
               /\ recycle[r][e] = NoEntry
               /\ changes[e] # NoChange /\ changes[e].items[r] # NoItem =>
                    changes[e].items[r].before = NoData /\ changes[e].items[r].after = NoData
        BY DEF PlaceInv, PurgeIsFinal, InSet
    <2>3. r \notin Live' BY <1>5, <2>1, <2>2
    <2>4. \A e \in ChangeIds : recycle'[r][e] = NoEntry BY <1>7, <2>1, <2>2
    <2>5. ASSUME NEW e \in ChangeIds, changes'[e] # NoChange, changes'[e].items[r] # NoItem
          PROVE  changes'[e].items[r].before = NoData /\ changes'[e].items[r].after = NoData
        <3>1. e # u BY <1>12, <2>1, <2>5
        <3>2. changes[e] # NoChange /\ changes'[e].items = changes[e].items
            BY <1>12, <2>5, <3>1
        <3> QED BY <2>2, <2>5, <3>2
    <2> QED BY <2>3, <2>4, <2>5
<1>17. EntriesKnown'
    <2>1. \A r \in Records : cre(r) => inv[r] # NoItem
        <3> SUFFICES ASSUME NEW r \in Records, cre(r) PROVE inv[r] # NoItem OBVIOUS
        <3>1. inv[r] = UpdateItem(r, NoData)
            BY DEF InverseItem, IsDelete, IsUpdate, IsCreate
        <3> QED BY <1>6, <3>1, UpdateItemType, SentinelsDiffer
    <2> HIDE DEF inv
    <2>2. \A r \in Records : del(r) => recycle[r][c] # NoEntry BY <1>2 DEF Binned
    <2>3. \A r \in Records, e \in ChangeIds :
            recycle[r][e] # NoEntry => changes[e] # NoChange /\ changes[e].items[r] # NoItem
        BY DEF PlaceInv, EntriesKnown, InSet
    <2> SUFFICES ASSUME NEW r \in Records, NEW e \in ChangeIds, recycle'[r][e] # NoEntry
                 PROVE  changes'[e] # NoChange /\ changes'[e].items[r] # NoItem
        BY DEF EntriesKnown, InSet
    <2>4. CASE cre(r) /\ e = u BY <1>12, <2>1, <2>4
    <2>5. CASE ~(cre(r) /\ e = u)
        <3>1. recycle[r][e] # NoEntry BY <1>7, <2>2, <2>5
        <3> QED BY <1>4, <1>12, <2>3, <3>1
    <2> QED BY <2>4, <2>5
<1> QED BY <1>15, <1>16, <1>17 DEF PlaceInv

LEMMA PurgeKeeps ==
    ASSUME TypeOK, PlaceInv, NEW r \in Records, PurgeRecord(r)
    PROVE  PlaceInv'
<1>1. PICK c, p \in ChangeIds :
        /\ Binned(r, c)
        /\ Unused(p)
        /\ changes' = [x \in ChangeIds |->
             IF x = p
             THEN [operation |-> "purge", status |-> "irreversible", parent |-> NoChange,
                   items |-> [s \in Records |->
                     IF s = r THEN [before |-> NoData, after |-> NoData,
                                    version_before |-> recycle[r][c].record_version,
                                    version_after |-> recycle[r][c].record_version]
                     ELSE NoItem]]
             ELSE IF Unused(x) THEN NoChange
             ELSE [changes[x] EXCEPT
                     !.status = IF x = c THEN "irreversible" ELSE @,
                     !.items = Redacted(@, r)]]
    BY DEF PurgeRecord
<1>2. rec' = rec /\ recycle' = [recycle EXCEPT ![r] = [d \in ChangeIds |-> NoEntry]]
    BY DEF PurgeRecord
<1>3. changes[p] = NoChange /\ p # c
    BY <1>1 DEF Unused, PlaceInv, EntriesKnown, Binned
<1> DEFINE item == [before |-> NoData, after |-> NoData,
                    version_before |-> recycle[r][c].record_version,
                    version_after |-> recycle[r][c].record_version]
<1>4. item \in Item BY <1>1 DEF Binned, TypeOK, RecycleBinRecord, Item
<1>5. /\ changes'[p] # NoChange /\ changes'[p].operation = "purge"
      /\ \A s \in Records : (changes'[p].items[s] # NoItem) <=> (s = r)
      /\ changes'[p].items[r].before = NoData /\ changes'[p].items[r].after = NoData
    <2>1. changes'[p] = [operation |-> "purge", status |-> "irreversible",
                         parent |-> NoChange,
                         items |-> [s \in Records |-> IF s = r THEN item ELSE NoItem]]
        BY <1>1
    <2>2. item.before = NoData /\ item.after = NoData OBVIOUS
    <2> HIDE DEF item
    <2>3. changes'[p] # NoChange
        <3>1. changes' \in [ChangeIds -> ChangeSet \cup {NoChange}] BY PurgeType
        <3>2. [s \in Records |-> IF s = r THEN item ELSE NoItem] \in Items BY <1>4 DEF Items
        <3>3. changes'[p] \in ChangeSet BY <2>1, <3>2 DEF ChangeSet
        <3> QED BY <3>3, SentinelsDiffer
    <2> QED BY <1>4, <2>1, <2>2, <2>3, SentinelsDiffer
<1>6. \A x \in ChangeIds \ {p} :
        /\ (changes'[x] # NoChange) <=> (changes[x] # NoChange)
        /\ changes[x] # NoChange =>
             /\ changes'[x].operation = changes[x].operation
             /\ changes'[x].items = Redacted(changes[x].items, r)
    <2> SUFFICES ASSUME NEW x \in ChangeIds \ {p}
                 PROVE  /\ (changes'[x] # NoChange) <=> (changes[x] # NoChange)
                        /\ changes[x] # NoChange =>
                             /\ changes'[x].operation = changes[x].operation
                             /\ changes'[x].items = Redacted(changes[x].items, r)
        OBVIOUS
    <2>1. CASE changes[x] = NoChange BY <1>1, <2>1 DEF Unused
    <2>2. CASE changes[x] # NoChange
        <3>1. changes[x] \in ChangeSet BY <2>2 DEF TypeOK
        <3>2. changes'[x] = [changes[x] EXCEPT
                     !.status = IF x = c THEN "irreversible" ELSE @,
                     !.items = Redacted(@, r)]
            BY <1>1, <2>2 DEF Unused
        <3>3. changes'[x] # NoChange BY <2>2, PurgeType
        <3> QED BY <2>2, <3>1, <3>2, <3>3 DEF ChangeSet
    <2> QED BY <2>1, <2>2
<1>7. \A x \in ChangeIds \ {p}, s \in Records : changes[x] # NoChange =>
        /\ s # r => changes'[x].items[s] = changes[x].items[s]
        /\ (changes'[x].items[s] # NoItem) <=> (changes[x].items[s] # NoItem)
        /\ s = r /\ changes[x].items[r] # NoItem =>
             changes'[x].items[r].before = NoData /\ changes'[x].items[r].after = NoData
    <2> SUFFICES ASSUME NEW x \in ChangeIds \ {p}, NEW s \in Records, changes[x] # NoChange
                 PROVE  /\ s # r => changes'[x].items[s] = changes[x].items[s]
                        /\ (changes'[x].items[s] # NoItem) <=> (changes[x].items[s] # NoItem)
                        /\ s = r /\ changes[x].items[r] # NoItem =>
                             /\ changes'[x].items[r].before = NoData
                             /\ changes'[x].items[r].after = NoData
        OBVIOUS
    <2> DEFINE old == changes[x].items
    <2>1. old \in Items /\ changes'[x].items = Redacted(old, r)
        BY <1>6 DEF TypeOK, ChangeSet
    <2> HIDE DEF old
    <2>2. CASE old[r] = NoItem BY <2>1, <2>2 DEF Redacted, Items, old
    <2>3. CASE old[r] # NoItem
        <3>1. old[r] \in Item BY <2>1, <2>3 DEF Items
        <3>2. [old[r] EXCEPT !.before = NoData, !.after = NoData] \in Item
            BY <3>1 DEF Item
        <3>3. /\ [old[r] EXCEPT !.before = NoData, !.after = NoData].before = NoData
              /\ [old[r] EXCEPT !.before = NoData, !.after = NoData].after = NoData
            BY <3>1 DEF Item
        <3>4. changes'[x].items =
                [old EXCEPT ![r] = [old[r] EXCEPT !.before = NoData, !.after = NoData]]
            BY <2>1, <2>3 DEF Redacted, Items
        <3> QED BY <2>1, <2>3, <3>2, <3>3, <3>4, SentinelsDiffer DEF Items, old
    <2> QED BY <2>2, <2>3
<1>8. \A s \in Records :
        /\ Used(s)' <=> Used(s) \/ s = r
        /\ Purged(s)' <=> Purged(s) \/ s = r
    <2> SUFFICES ASSUME NEW s \in Records
                 PROVE  (Used(s)' <=> Used(s) \/ s = r) /\ (Purged(s)' <=> Purged(s) \/ s = r)
        OBVIOUS
    <2>1. Used(s)' <=> Used(s) \/ s = r BY <1>3, <1>5, <1>6, <1>7 DEF Used, InSet
    <2>2. Purged(s)' <=> Purged(s) \/ s = r BY <1>3, <1>5, <1>6, <1>7 DEF Purged, InSet
    <2> QED BY <2>1, <2>2
<1>9. \A s \in Records, e \in ChangeIds :
        recycle'[s][e] = IF s = r THEN NoEntry ELSE recycle[s][e]
    BY <1>2 DEF TypeOK
<1>10. /\ \A s \in Records, e \in ChangeIds : Binned(s, e)' <=> Binned(s, e) /\ s # r
       /\ Live' = Live /\ r \notin Live
    <2>1. \A s \in Records, e \in ChangeIds : Binned(s, e)' <=> Binned(s, e) /\ s # r
        BY <1>9 DEF Binned
    <2>2. Live' = Live BY <1>2 DEF Live
    <2>3. r \notin Live BY <1>1 DEF PlaceInv, LiveOrBinned
    <2> QED BY <2>1, <2>2, <2>3
<1>11. LiveOrBinned'
    BY <1>8, <1>10 DEF PlaceInv, LiveOrBinned
<1>12. PurgeIsFinal'
    <2> SUFFICES ASSUME NEW s \in Records, Purged(s)', NEW e \in ChangeIds
        PROVE /\ s \notin Live'
              /\ recycle'[s][e] = NoEntry
              /\ changes'[e] # NoChange /\ changes'[e].items[s] # NoItem =>
                   changes'[e].items[s].before = NoData /\ changes'[e].items[s].after = NoData
        <3>1. Binned(r, c) BY <1>1
        <3> QED BY DEF PurgeIsFinal, InSet
    <2>1. CASE s = r BY <1>3, <1>5, <1>6, <1>7, <1>9, <1>10, <2>1
    <2>2. CASE s # r
        <3>1. Purged(s) BY <1>8, <2>2
        <3>2. /\ s \notin Live /\ recycle[s][e] = NoEntry
              /\ changes[e] # NoChange /\ changes[e].items[s] # NoItem =>
                   changes[e].items[s].before = NoData /\ changes[e].items[s].after = NoData
            BY <3>1 DEF PlaceInv, PurgeIsFinal, InSet
        <3> QED BY <1>5, <1>6, <1>7, <1>9, <1>10, <2>2, <3>2
    <2> QED BY <2>1, <2>2
<1>13. EntriesKnown'
    <2>1. \A s \in Records, e \in ChangeIds :
            recycle[s][e] # NoEntry => changes[e] # NoChange /\ changes[e].items[s] # NoItem
        BY DEF PlaceInv, EntriesKnown, InSet
    <2> QED BY <1>3, <1>6, <1>7, <1>9, <2>1 DEF EntriesKnown, InSet
<1> QED BY <1>11, <1>12, <1>13 DEF PlaceInv

LEMMA InitPlaceInv == Init => PlaceInv
<1> SUFFICES ASSUME Init PROVE PlaceInv OBVIOUS
<1>1. \A r \in Records : ~Used(r) /\ ~Purged(r) BY DEF Init, Used, Purged
<1>2. \A r \in Records, c \in ChangeIds : recycle[r][c] = NoEntry BY DEF Init
<1>3. Live = {} BY DEF Init, Live
<1> QED BY <1>1, <1>2, <1>3 DEF PlaceInv, LiveOrBinned, PurgeIsFinal, EntriesKnown, Binned

LEMMA NextPlaceInv == TypeInv /\ PlaceInv /\ [Next]_vars => PlaceInv'
<1> SUFFICES ASSUME TypeInv, PlaceInv, [Next]_vars PROVE PlaceInv' OBVIOUS
<1>0. TypeOK /\ UndoTargetsExist BY DEF TypeInv
<1>s. ASSUME rec' = rec, changes' = changes, recycle' = recycle PROVE PlaceInv'
    BY <1>0, <1>s, InPlaceKeeps DEF InPlace
<1>1. ASSUME NEW S \in SUBSET Records, NEW t \in Texts, NEW L \in SUBSET Records,
             CreateRecords(S, t, L)
      PROVE  PlaceInv'
    BY <1>0, <1>1, CreateKeeps
<1>2. ASSUME NEW S \in SUBSET Records, NEW t \in Texts, UpdateText(S, t)
      PROVE  PlaceInv'
    <2> DEFINE new == [r \in S \cap Live |-> [rec[r].data EXCEPT !.text = t]]
    <2>1. new \in [S \cap Live -> Data] BY <1>0, RowData DEF Data
    <2>2. S \cap Live \in SUBSET Live OBVIOUS
    <2>3. WriteRows("update", new) /\ recycle' = recycle BY <1>2 DEF UpdateText
    <2> HIDE DEF new
    <2> QED BY <1>0, <2>1, <2>2, <2>3, WriteRowsInPlace, InPlaceKeeps
<1>3. ASSUME NEW r \in Records, DeleteRecord(r) PROVE PlaceInv'
    BY <1>0, <1>3, DeleteKeeps
<1>4. ASSUME NEW r \in Records, RestoreRecord(r) PROVE PlaceInv'
    <2>1. PICK c \in ChangeIds : ~Unused(c) /\ UndoSet(c, changes[c].status, changes[c].items)
        BY <1>4 DEF RestoreRecord
    <2>2. changes[c] # NoChange /\ changes[c].items \in Items
        BY <1>0, <2>1 DEF Unused, TypeOK, ChangeSet
    <2> QED BY <1>0, <2>1, <2>2, UndoKeeps
<1>5. ASSUME NEW r \in Records, PurgeRecord(r) PROVE PlaceInv'
    BY <1>0, <1>5, PurgeKeeps
<1>6. ASSUME NEW u \in Users, NEW r \in Records, NEW L \in SUBSET Records, CheckLinks(u, r, L)
      PROVE  PlaceInv'
    BY <1>6, <1>s DEF CheckLinks
<1>7. ASSUME NEW u \in Users, WriteLinks(u) PROVE PlaceInv'
    <2>1. u \in Clients /\ req[u] \in LinkRequest
        BY <1>0, <1>7, RequestKinds DEF WriteLinks, Clients
    <2>2. req[u].rec \in Records /\ req[u].links \in SUBSET Records
        BY <2>1 DEF LinkRequest
    <2> DEFINE new == [s \in {req[u].rec} |-> [rec[s].data EXCEPT !.links = req[u].links]]
    <2>3. CASE req[u].rec \in Live /\ WriteRows("update", new)
        <3>1. new \in [{req[u].rec} -> Data]
            BY <1>0, <2>2, <2>3, RowData DEF Data
        <3>2. {req[u].rec} \in SUBSET Live BY <2>3
        <3>3. WriteRows("update", new) /\ recycle' = recycle BY <1>7, <2>3 DEF WriteLinks
        <3> HIDE DEF new
        <3> QED BY <1>0, <3>1, <3>2, <3>3, WriteRowsInPlace, InPlaceKeeps
    <2>4. CASE UNCHANGED <<rec, changes>>
        BY <1>7, <1>s, <2>4 DEF WriteLinks
    <2> QED BY <1>7, <2>3, <2>4 DEF WriteLinks
<1>8. ASSUME NEW u \in Users, NEW c \in ChangeIds, BeginUndo(u, c) PROVE PlaceInv'
    BY <1>8, <1>s DEF BeginUndo
<1>9. ASSUME NEW u \in Users, FinishUndo(u) PROVE PlaceInv'
    <2>1. u \in Clients /\ req[u] \in UndoRequest
        BY <1>0, <1>9, RequestKinds DEF FinishUndo, Clients
    <2>2. /\ req[u].change \in ChangeIds /\ req[u].items \in Items
          /\ changes[req[u].change] # NoChange
        BY <1>0, <1>9, <2>1 DEF UndoRequest, UndoTargetsExist, FinishUndo
    <2>3. CASE UndoSet(req[u].change, req[u].status, req[u].items)
        BY <1>0, <2>2, <2>3, UndoKeeps
    <2>4. CASE UNCHANGED <<rec, changes, recycle, autoField>>
        BY <1>s, <2>4
    <2> QED BY <1>9, <2>3, <2>4 DEF FinishUndo
<1>10. ASSUME NEW a \in Admins, AddAutoField(a) PROVE PlaceInv'
    <2>1. \A r \in Live : [rec[r] EXCEPT !.data.auto = TRUE] \in Row
        BY <1>0, RowData DEF Row, Data
    <2>2. \A r \in Records : (rec'[r] # NoRec) <=> (rec[r] # NoRec)
        BY <1>10, <2>1, SentinelsDiffer DEF AddAutoField, Live
    <2> QED BY <1>0, <1>10, <2>2, InPlaceKeeps DEF AddAutoField, InPlace
<1>11. ASSUME NEW a \in Admins, BeginDropField(a) PROVE PlaceInv'
    BY <1>11, <1>s DEF BeginDropField
<1>12. ASSUME NEW a \in Admins, FinishDropField(a) PROVE PlaceInv'
    <2>1. a \in Clients /\ req[a] \in DropRequest
        BY <1>0, <1>12, RequestKinds DEF FinishDropField, Clients
    <2> DEFINE loaded == req[a].rows
               dirty == {r \in Records : loaded[r] # NoData /\ loaded[r].auto}
    <2>2. \A r \in dirty : [loaded[r] EXCEPT !.auto = FALSE] \in Data
        BY <2>1 DEF DropRequest, Data
    <2>3. \A r \in Records : (rec'[r] # NoRec) <=> (rec[r] # NoRec)
        <3>1. CASE /\ dirty \subseteq Live
                   /\ rec' = [r \in Records |->
                       IF r \in dirty
                       THEN [rec[r] EXCEPT !.data = [loaded[r] EXCEPT !.auto = FALSE]]
                       ELSE rec[r]]
            <4>1. \A r \in dirty :
                    [rec[r] EXCEPT !.data = [loaded[r] EXCEPT !.auto = FALSE]] \in Row
                BY <1>0, <2>2, <3>1, RowData DEF Row
            <4>2. \A r \in dirty : rec[r] # NoRec BY <3>1 DEF Live
            <4> HIDE DEF dirty
            <4> QED BY <3>1, <4>1, <4>2, SentinelsDiffer
        <3>2. CASE UNCHANGED <<rec, autoField>> BY <3>2
        <3> QED BY <1>12, <3>1, <3>2 DEF FinishDropField
    <2> QED BY <1>0, <1>12, <2>3, InPlaceKeeps DEF FinishDropField, InPlace
<1>13. ASSUME NEW w \in Workers, NEW r \in Records, LoadRow(w, r) PROVE PlaceInv'
    BY <1>13, <1>s DEF LoadRow
<1>14. ASSUME NEW w \in Workers, NEW t \in Texts, RunUpdateAction(w, t) PROVE PlaceInv'
    <2> DEFINE r == req[w].rec
               copy == req[w].row
               new == [data |-> [copy.data EXCEPT !.text = t], version |-> copy.version + 1]
               its == [s \in Records |->
                         IF s = r THEN [before |-> copy.data, after |-> new.data,
                                        version_before |-> copy.version,
                                        version_after |-> new.version]
                         ELSE NoItem]
    <2>1. w \in Clients /\ req[w] \in AutomationRequest
        BY <1>0, <1>14, RequestKinds DEF RunUpdateAction, Clients
    <2>2. r \in Records /\ copy \in Row BY <2>1 DEF AutomationRequest
    <2>3. /\ new \in Row /\ copy.data \in Data /\ copy.version \in Nat /\ new.data \in Data
          /\ new.version \in Nat
        BY <2>2 DEF Row, Data
    <2>4. PICK c \in ChangeIds :
            /\ Unused(c) /\ r \in Live
            /\ rec' = [rec EXCEPT ![r] = new]
            /\ changes' = [changes EXCEPT ![c] = append_change_set("update", its, NoChange)]
            /\ recycle' = recycle
        BY <1>14 DEF RunUpdateAction
    <2> HIDE DEF new, r
    <2>5. its \in Items BY <2>3 DEF Items, Item
    <2>6. \A s \in Records : InSet(its, s) => rec[s] # NoRec BY <2>4 DEF InSet, Live
    <2> HIDE DEF its
    <2>7. \A s \in Records : (rec'[s] # NoRec) <=> (rec[s] # NoRec)
        BY <1>0, <2>2, <2>3, <2>4, SentinelsDiffer DEF TypeOK, Live
    <2>8. InPlace BY <2>4, <2>5, <2>6, <2>7 DEF InPlace
    <2> QED BY <1>0, <2>8, InPlaceKeeps
<1>15. ASSUME NEW w \in Workers, EndExecution(w) PROVE PlaceInv'
    BY <1>15, <1>s DEF EndExecution
<1>16. CASE UNCHANGED vars BY <1>16, <1>s DEF vars
<1> QED BY <1>1, <1>2, <1>3, <1>4, <1>5, <1>6, <1>7, <1>8, <1>9, <1>10, <1>11, <1>12,
           <1>13, <1>14, <1>15, <1>16 DEF Next

LEMMA PlaceInvHolds == Spec => [](TypeInv /\ PlaceInv)
BY InitTypeInv, NextTypeInv, InitPlaceInv, NextPlaceInv, PTL DEF Spec

(* Until it is purged, a record is live or in the recycle bin under exactly *)
(* one deleted entry: no interleaving of deletes, undos (also from stale    *)
(* reads), restores, stale automation writes and field maintenance loses or *)
(* doubles a record.                                                        *)
THEOREM RecordsKeepOnePlace == Spec => []LiveOrBinned
<1>1. PlaceInv => LiveOrBinned BY DEF PlaceInv
<1> QED BY <1>1, PlaceInvHolds, PTL

(* A purged record never comes back and leaves no snapshot in the history,  *)
(* even when an undo read its items before the purge.                       *)
THEOREM PurgedStaysPurged == Spec => []PurgeIsFinal
<1>1. PlaceInv => PurgeIsFinal BY DEF PlaceInv
<1> QED BY <1>1, PlaceInvHolds, PTL

-----------------------------------------------------------------------------
(* The versions of the rows: why the stale reads of undo do no harm. An      *)
(* undo works on a ChangeSet and on items its request may have read long     *)
(* before, and the row versions are all that protects it. The proofs are for *)
(* every set of records, change sets and users. They leave out the           *)
(* automation workers, which write a version they computed from an older     *)
(* read, and, where a property is about the rows' data, the rewrites of      *)
(* add_field and delete_field, which leave version and history alone.        *)

Has(c, r) == changes[c] # NoChange /\ InSet(changes[c].items, r)
At(c, r) == changes[c].items[r].version_after

(* One item carries the version of a live row, and every other is older. *)
NewestItem ==
    \A r \in Live : \E c \in ChangeIds :
        /\ Has(c, r) /\ At(c, r) = rec[r].version
        /\ \A d \in ChangeIds : Has(d, r) /\ d # c => At(d, r) < rec[r].version

(* A recycle entry carries a version no item of its record exceeds. *)
BinBound ==
    \A r \in Records, c, d \in ChangeIds :
        Binned(r, d) /\ Has(c, r) => At(c, r) <= recycle[r][d].record_version

(* Nothing an undone ChangeSet wrote is current any more. *)
UndoneSpent ==
    \A u \in ChangeIds : changes[u] # NoChange /\ changes[u].parent # NoChange =>
        /\ changes[changes[u].parent] # NoChange
        /\ \A r \in Records : Has(changes[u].parent, r) =>
             /\ ~Binned(r, changes[u].parent)
             /\ r \in Live => At(changes[u].parent, r) < rec[r].version

(* Only a purge empties both snapshots of an item. *)
BlankMeansPurged ==
    \A c \in ChangeIds, r \in Records :
        /\ Has(c, r)
        /\ changes[c].items[r].before = NoData /\ changes[c].items[r].after = NoData
        => Purged(r)

(* What an undo request has read differs from the database in the records  *)
(* that were purged since, and in nothing else.                            *)
ReadsAgree ==
    \A x \in Clients : req[x] # Idle /\ req[x].kind = "undo" =>
        \A r \in Records :
            /\ InSet(req[x].items, r) <=> InSet(changes[req[x].change].items, r)
            /\ ~Purged(r) => req[x].items[r] = changes[req[x].change].items[r]

VersionInv ==
    /\ NewestItem
    /\ BinBound
    /\ UndoneSpent
    /\ UndoneOnce
    /\ BlankMeansPurged

LEMMA HasType ==
    ASSUME TypeOK, NEW c \in ChangeIds, NEW r \in Records, Has(c, r)
    PROVE  changes[c].items[r] \in Item /\ At(c, r) \in Nat
BY DEF TypeOK, Has, InSet, At, ChangeSet, Items, Item

LEMMA BinnedType ==
    ASSUME TypeOK, NEW c \in ChangeIds, NEW r \in Records, Binned(r, c)
    PROVE  recycle[r][c].record_version \in Nat
BY DEF TypeOK, Binned, RecycleBinRecord

(* What every step that appends a ChangeSet n does to the history: the     *)
(* rows of n get versions above everything recorded for them, a row that   *)
(* goes to the bin goes there under n, and the other rows keep their place.*)
Appends(n) ==
    /\ changes[n] = NoChange /\ changes'[n] # NoChange
    /\ changes'[n].operation # "purge"
    /\ \A e \in ChangeIds \ {n} :
         /\ (changes'[e] # NoChange) <=> (changes[e] # NoChange)
         /\ changes[e] # NoChange =>
              /\ changes'[e].items = changes[e].items
              /\ changes'[e].parent = changes[e].parent
              /\ changes'[e].operation = changes[e].operation
              /\ changes'[e].status = changes[e].status \/ changes'[n].parent = e
    /\ \A r \in Records : changes'[n].items[r] = NoItem =>
         rec'[r] = rec[r] /\ \A d \in ChangeIds : recycle'[r][d] = recycle[r][d]
    /\ \A r \in Records : changes'[n].items[r] # NoItem =>
         /\ ~(changes'[n].items[r].before = NoData /\ changes'[n].items[r].after = NoData)
         /\ \A e \in ChangeIds : Has(e, r) => At(e, r) < changes'[n].items[r].version_after
         /\ rec'[r] # NoRec => /\ rec'[r].version = changes'[n].items[r].version_after
                               /\ rec'[r].data = changes'[n].items[r].after
         /\ \A d \in ChangeIds : Binned(r, d)' =>
              d = n /\ recycle'[r][d].record_version = changes'[n].items[r].version_after
    /\ changes'[n].parent # NoChange =>
         /\ changes'[n].parent \in ChangeIds /\ changes[changes'[n].parent] # NoChange
         /\ \A r \in Records : Has(changes'[n].parent, r) => changes'[n].items[r] # NoItem
         /\ \A e \in ChangeIds : changes[e] # NoChange => changes[e].parent # changes'[n].parent
         /\ \A r \in Records :
              /\ Has(changes'[n].parent, r)
              /\ IsUpdate(changes[changes'[n].parent].items[r])
              => r \in Live /\ rec[r].version = At(changes'[n].parent, r)

LEMMA AppendsHistory ==
    ASSUME NEW n \in ChangeIds, Appends(n), NEW r \in Records
    PROVE  /\ \A e \in ChangeIds : Has(e, r)' <=> Has(e, r) \/ (e = n /\ changes'[n].items[r] # NoItem)
           /\ \A e \in ChangeIds : Has(e, r) => e # n /\ At(e, r)' = At(e, r)
           /\ Purged(r)' <=> Purged(r)
<1>1. \A e \in ChangeIds : Has(e, r)' <=> Has(e, r) \/ (e = n /\ changes'[n].items[r] # NoItem)
    BY DEF Appends, Has, InSet
<1>2. \A e \in ChangeIds : Has(e, r) => e # n /\ At(e, r)' = At(e, r)
    BY DEF Appends, Has, At
<1>3. Purged(r)' <=> Purged(r)
    BY DEF Appends, Purged, InSet
<1> QED BY <1>1, <1>2, <1>3

(* A step of that form keeps the invariant. *)
LEMMA AppendsKeeps ==
    ASSUME TypeOK, TypeOK', VersionInv, NEW n \in ChangeIds, Appends(n)
    PROVE  VersionInv'
<1>0. \A r \in Records :
        /\ \A e \in ChangeIds :
             Has(e, r)' <=> Has(e, r) \/ (e = n /\ changes'[n].items[r] # NoItem)
        /\ \A e \in ChangeIds : Has(e, r) => e # n /\ At(e, r)' = At(e, r)
        /\ Purged(r)' <=> Purged(r)
    BY AppendsHistory
<1>1. NewestItem'
    <2> SUFFICES ASSUME NEW r \in Records, rec'[r] # NoRec
                 PROVE  \E c \in ChangeIds :
                          /\ Has(c, r)' /\ At(c, r)' = rec'[r].version
                          /\ \A d \in ChangeIds : Has(d, r)' /\ d # c => At(d, r)' < rec'[r].version
        BY DEF NewestItem, Live
    <2>1. CASE changes'[n].items[r] = NoItem
        <3>1. rec'[r] = rec[r] /\ r \in Live BY <2>1 DEF Appends, Live
        <3>2. PICK c \in ChangeIds :
                /\ Has(c, r) /\ At(c, r) = rec[r].version
                /\ \A d \in ChangeIds : Has(d, r) /\ d # c => At(d, r) < rec[r].version
            BY <3>1 DEF VersionInv, NewestItem
        <3> QED BY <1>0, <2>1, <3>1, <3>2
    <2>2. CASE changes'[n].items[r] # NoItem
        <3>1. At(n, r)' = rec'[r].version BY <2>2 DEF Appends, At
        <3>2. \A d \in ChangeIds : Has(d, r)' /\ d # n => At(d, r)' < rec'[r].version
            BY <1>0, <2>2, <3>1 DEF Appends, At
        <3> QED BY <1>0, <2>2, <3>1, <3>2
    <2> QED BY <2>1, <2>2
<1>2. BinBound'
    <2> SUFFICES ASSUME NEW r \in Records, NEW c \in ChangeIds, NEW d \in ChangeIds,
                        Binned(r, d)', Has(c, r)'
                 PROVE  At(c, r)' <= recycle'[r][d].record_version
        BY DEF BinBound
    <2>1. CASE changes'[n].items[r] = NoItem
        <3>1. Has(c, r) /\ At(c, r)' = At(c, r) BY <1>0, <2>1
        <3>2. Binned(r, d) /\ recycle'[r][d] = recycle[r][d] BY <2>1 DEF Appends, Binned
        <3> QED BY <3>1, <3>2 DEF VersionInv, BinBound
    <2>2. CASE changes'[n].items[r] # NoItem
        <3>1. recycle'[r][d].record_version = At(n, r)' BY <2>2 DEF Appends, At
        <3>2. Has(c, r) => At(c, r)' < At(n, r)' BY <1>0, <2>2 DEF Appends, At
        <3>3. At(c, r)' \in Nat /\ At(n, r)' \in Nat
            <4>1. Has(n, r)' BY <1>0, <2>2
            <4> QED BY <4>1 DEF TypeOK, Has, InSet, At, ChangeSet, Items, Item
        <3> QED BY <1>0, <3>1, <3>2, <3>3
    <2> QED BY <2>1, <2>2
<1>3. UndoneSpent'
    <2> SUFFICES ASSUME NEW u \in ChangeIds, NEW p, changes'[u] # NoChange,
                        p = changes'[u].parent, p # NoChange
                 PROVE  /\ changes'[p] # NoChange
                        /\ \A r \in Records : Has(p, r)' =>
                             ~Binned(r, p)' /\ (r \in Live' => At(p, r)' < rec'[r].version)
        BY DEF UndoneSpent, Has, Binned, At
    <2>1. p \in ChangeIds /\ changes[p] # NoChange /\ p # n
        <3>1. CASE u = n BY <3>1 DEF Appends
        <3>2. CASE u # n
            <4>1. changes[u] # NoChange /\ p = changes[u].parent BY <3>2 DEF Appends
            <4>2. p \in ChangeIds BY <4>1 DEF TypeOK, ChangeSet
            <4> QED BY <4>1, <4>2 DEF VersionInv, UndoneSpent, Appends
        <3> QED BY <3>1, <3>2
    <2>2. u # n => \A r \in Records : Has(p, r) =>
                     ~Binned(r, p) /\ (r \in Live => At(p, r) < rec[r].version)
        <3> SUFFICES ASSUME u # n PROVE \A r \in Records : Has(p, r) =>
                     ~Binned(r, p) /\ (r \in Live => At(p, r) < rec[r].version)
            OBVIOUS
        <3>1. changes[u] # NoChange /\ p = changes[u].parent BY DEF Appends
        <3> QED BY <3>1 DEF VersionInv, UndoneSpent
    <2>3. u = n => \A r \in Records : Has(p, r) => changes'[n].items[r] # NoItem
        BY DEF Appends
    <2>4. changes'[p] # NoChange BY <2>1 DEF Appends
    <2>5. ASSUME NEW r \in Records, Has(p, r)'
          PROVE  ~Binned(r, p)' /\ (r \in Live' => At(p, r)' < rec'[r].version)
        <3>1. Has(p, r) /\ At(p, r)' = At(p, r) BY <1>0, <2>1, <2>5
        <3>2. CASE changes'[n].items[r] = NoItem
            <4>1. u # n BY <2>3, <3>1, <3>2
            <4>2. rec'[r] = rec[r] /\ recycle'[r][p] = recycle[r][p]
                BY <2>1, <3>2 DEF Appends
            <4> QED BY <2>2, <3>1, <4>1, <4>2 DEF Live, Binned
        <3>3. CASE changes'[n].items[r] # NoItem
            <4>1. ~Binned(r, p)' BY <2>1, <3>3 DEF Appends
            <4>2. At(p, r) < changes'[n].items[r].version_after BY <2>1, <3>1, <3>3 DEF Appends
            <4>3. rec'[r] # NoRec => rec'[r].version = changes'[n].items[r].version_after
                BY <3>3 DEF Appends
            <4> QED BY <3>1, <4>1, <4>2, <4>3 DEF Live
        <3> QED BY <3>2, <3>3
    <2> QED BY <2>4, <2>5
<1>4. UndoneOnce'
    <2> SUFFICES ASSUME NEW u \in ChangeIds, NEW v \in ChangeIds,
                        changes'[u] # NoChange, changes'[v] # NoChange,
                        changes'[u].parent # NoChange, changes'[u].parent = changes'[v].parent
                 PROVE  u = v
        BY DEF UndoneOnce, Unused
    <2>1. CASE u # n /\ v # n BY <2>1 DEF VersionInv, UndoneOnce, Unused, Appends
    <2>2. CASE u = n /\ v # n BY <2>2 DEF Appends
    <2>3. CASE u # n /\ v = n BY <2>3 DEF Appends
    <2> QED BY <2>1, <2>2, <2>3
<1>5. BlankMeansPurged'
    <2> SUFFICES ASSUME NEW c \in ChangeIds, NEW r \in Records, Has(c, r)',
                        changes'[c].items[r].before = NoData, changes'[c].items[r].after = NoData
                 PROVE  Purged(r)'
        BY DEF BlankMeansPurged
    <2>1. Has(c, r) /\ c # n BY <1>0 DEF Appends
    <2>2. changes'[c].items = changes[c].items BY <2>1 DEF Appends, Has
    <2> QED BY <1>0, <2>1, <2>2 DEF VersionInv, BlankMeansPurged
<1> QED BY <1>1, <1>2, <1>3, <1>4, <1>5 DEF VersionInv

-----------------------------------------------------------------------------
(* The actions that append a ChangeSet are steps of that form.             *)
LEMMA AtMostVersion ==
    ASSUME TypeOK, NewestItem, NEW r \in Live, NEW e \in ChangeIds, Has(e, r)
    PROVE  At(e, r) <= rec[r].version
<1>1. PICK c \in ChangeIds :
        /\ Has(c, r) /\ At(c, r) = rec[r].version
        /\ \A d \in ChangeIds : Has(d, r) /\ d # c => At(d, r) < rec[r].version
    BY DEF NewestItem
<1>2. rec[r].version \in Nat BY RowData
<1>3. At(e, r) \in Nat BY HasType DEF Live
<1> QED BY <1>1, <1>2, <1>3

(* What an item of the new ChangeSet n says of its record. *)
NewItem(n, r, i) ==
    /\ ~(i.before = NoData /\ i.after = NoData)
    /\ \A e \in ChangeIds : Has(e, r) => At(e, r) < i.version_after
    /\ rec'[r] # NoRec => rec'[r].version = i.version_after /\ rec'[r].data = i.after
    /\ \A d \in ChangeIds :
         Binned(r, d)' => d = n /\ recycle'[r][d].record_version = i.version_after

LEMMA PlainAppends ==
    ASSUME TypeOK, NEW c \in ChangeIds, Unused(c), NEW its \in Items,
           NEW op \in {"create", "update", "delete"},
           changes' = [changes EXCEPT ![c] = append_change_set(op, its, NoChange)],
           \A r \in Records : its[r] = NoItem =>
               rec'[r] = rec[r] /\ \A d \in ChangeIds : recycle'[r][d] = recycle[r][d],
           \A r \in Records : its[r] # NoItem => NewItem(c, r, its[r])
    PROVE  Appends(c)
<1>1. append_change_set(op, its, NoChange) \in ChangeSet BY AppendType
<1>2. /\ \A d \in ChangeIds : d # c => changes'[d] = changes[d]
      /\ changes'[c] # NoChange /\ changes'[c].items = its
      /\ changes'[c].operation # "purge" /\ changes'[c].parent = NoChange
    BY <1>1, SentinelsDiffer DEF TypeOK, append_change_set
<1> QED BY <1>2 DEF Appends, NewItem, Unused

LEMMA CreateAppends ==
    ASSUME TypeOK, PlaceInv, NEW S \in SUBSET Records, NEW t \in Texts,
           NEW L \in SUBSET Records, CreateRecords(S, t, L)
    PROVE  \E c \in ChangeIds : Appends(c)
<1> DEFINE d == [text |-> t, links |-> L, auto |-> autoField]
           item == [before |-> NoData, after |-> d, version_before |-> 0, version_after |-> 1]
           its == [r \in Records |-> IF r \in S THEN item ELSE NoItem]
           row == [data |-> d, version |-> 1]
<1>1. d \in Data BY DEF Data, TypeOK
<1>2. PICK c \in ChangeIds :
        /\ Unused(c)
        /\ rec' = [r \in Records |-> IF r \in S THEN row ELSE rec[r]]
        /\ changes' = [changes EXCEPT ![c] = append_change_set("create", its, NoChange)]
    BY DEF CreateRecords
<1>3. recycle' = recycle /\ \A r \in S : ~Used(r) BY DEF CreateRecords
<1> HIDE DEF d
<1>4. item \in Item BY <1>1 DEF Item
<1>5. item.before = NoData /\ item.after = d /\ item.version_after = 1
      /\ row.version = 1 /\ row.data = d
    OBVIOUS
<1> HIDE DEF item, row
<1>6. its \in Items BY <1>4 DEF Items
<1>7. \A r \in Records : its[r] = (IF r \in S THEN item ELSE NoItem) OBVIOUS
<1> HIDE DEF its
<1>8. \A r \in Records : its[r] = NoItem =>
        rec'[r] = rec[r] /\ \A e \in ChangeIds : recycle'[r][e] = recycle[r][e]
    BY <1>2, <1>3, <1>4, <1>7, SentinelsDiffer
<1>9. ASSUME NEW r \in Records, its[r] # NoItem PROVE NewItem(c, r, its[r])
    <2>1. r \in S /\ its[r] = item /\ rec'[r] = row BY <1>2, <1>7, <1>9
    <2>2. \A e \in ChangeIds : ~Has(e, r) BY <1>3, <2>1 DEF Used, Has
    <2>3. \A e \in ChangeIds : recycle'[r][e] = NoEntry
        BY <1>3, <2>1 DEF PlaceInv, EntriesKnown, Used
    <2>4. ~(item.before = NoData /\ item.after = NoData) BY <1>1, <1>5, SentinelsDiffer
    <2> QED BY <1>5, <2>1, <2>2, <2>3, <2>4 DEF NewItem, Binned
<1>10. Appends(c) BY <1>2, <1>6, <1>8, <1>9, PlainAppends
<1> QED BY <1>10

(* An item that UpdateItem makes of a live row is above the row's history. *)
LEMMA UpdateItemNew ==
    ASSUME TypeOK, PlaceInv, NewestItem, NEW r \in Live, NEW d \in Data \cup {NoData}
    PROVE  /\ ~(UpdateItem(r, d).before = NoData /\ UpdateItem(r, d).after = NoData)
           /\ UpdateItem(r, d).after = d
           /\ UpdateItem(r, d).version_after = rec[r].version + 1
           /\ \A e \in ChangeIds : Has(e, r) => At(e, r) < UpdateItem(r, d).version_after
           /\ \A e \in ChangeIds : ~Binned(r, e)
<1>1. rec[r].version \in Nat /\ rec[r].data \in Data BY RowData
<1>2. \A e \in ChangeIds : Has(e, r) => At(e, r) < rec[r].version + 1
    BY <1>1, AtMostVersion, HasType DEF Live
<1>3. \A e \in ChangeIds : ~Binned(r, e) BY DEF PlaceInv, LiveOrBinned, Live
<1> QED BY <1>1, <1>2, <1>3, SentinelsDiffer DEF UpdateItem

LEMMA WriteRowsAppends ==
    ASSUME TypeOK, PlaceInv, NewestItem, NEW S \in SUBSET Live, NEW new \in [S -> Data],
           WriteRows("update", new), recycle' = recycle
    PROVE  \E c \in ChangeIds : Appends(c)
<1> DEFINE changed == {r \in DOMAIN new : new[r] # rec[r].data}
           its == [r \in Records |-> IF r \in changed THEN UpdateItem(r, new[r]) ELSE NoItem]
<1>1. changed \subseteq Live /\ \A r \in changed : new[r] \in Data
    OBVIOUS
<1>2. PICK c \in ChangeIds :
        /\ Unused(c)
        /\ rec' = [r \in Records |-> IF r \in changed THEN Bumped(r, new[r]) ELSE rec[r]]
        /\ changes' = [changes EXCEPT ![c] = append_change_set("update", its, NoChange)]
    BY DEF WriteRows
<1> HIDE DEF changed
<1>3. its \in Items /\ \A r \in changed : UpdateItem(r, new[r]) # NoItem
    BY <1>1, UpdateItemType, SentinelsDiffer DEF Items
<1>4. \A r \in Records : its[r] = (IF r \in changed THEN UpdateItem(r, new[r]) ELSE NoItem)
    OBVIOUS
<1> HIDE DEF its
<1>5. \A r \in Records : its[r] = NoItem =>
        rec'[r] = rec[r] /\ \A e \in ChangeIds : recycle'[r][e] = recycle[r][e]
    BY <1>2, <1>3, <1>4
<1>6. ASSUME NEW r \in Records, its[r] # NoItem PROVE NewItem(c, r, its[r])
    <2>1. r \in Live /\ new[r] \in Data /\ its[r] = UpdateItem(r, new[r])
          /\ rec'[r] = Bumped(r, new[r])
        BY <1>1, <1>2, <1>4, <1>6
    <2>2. Bumped(r, new[r]).version = rec[r].version + 1 /\ Bumped(r, new[r]).data = new[r]
        BY DEF Bumped
    <2> QED BY <2>1, <2>2, UpdateItemNew DEF NewItem, Binned
<1>7. Appends(c) BY <1>2, <1>3, <1>5, <1>6, PlainAppends
<1> QED BY <1>7

LEMMA DeleteAppends ==
    ASSUME TypeOK, PlaceInv, NewestItem, NEW r \in Records, DeleteRecord(r)
    PROVE  \E c \in ChangeIds : Appends(c)
<1> DEFINE linking == Linking(r)
           unlinked(s) == Unlinked(s, r)
           its == [s \in Records |->
                    IF s = r THEN UpdateItem(r, NoData)
                    ELSE IF s \in linking THEN UpdateItem(s, unlinked(s))
                    ELSE NoItem]
           entry == [status |-> "deleted", record_version |-> rec[r].version + 1]
<1>1. r \in Live BY DEF DeleteRecord
<1>2. \A s \in linking : s \in Live /\ s # r /\ unlinked(s) \in Data
    BY RowData DEF Data, Linking, Unlinked
<1>3. PICK c \in ChangeIds :
        /\ Unused(c)
        /\ rec' = [s \in Records |->
                     IF s = r THEN NoRec
                     ELSE IF s \in linking THEN Bumped(s, unlinked(s)) ELSE rec[s]]
        /\ changes' = [changes EXCEPT ![c] = append_change_set("delete", its, NoChange)]
        /\ recycle' = [recycle EXCEPT ![r][c] = entry]
    BY DEF DeleteRecord
<1> HIDE DEF unlinked, linking
<1>4. /\ UpdateItem(r, NoData) \in Item
      /\ \A s \in linking : UpdateItem(s, unlinked(s)) \in Item
    BY <1>1, <1>2, UpdateItemType
<1>5. its \in Items BY <1>4 DEF Items
<1>6. \A s \in Records : its[s] = IF s = r THEN UpdateItem(r, NoData)
                                  ELSE IF s \in linking THEN UpdateItem(s, unlinked(s))
                                  ELSE NoItem
    OBVIOUS
<1> HIDE DEF its
<1>7. entry.record_version = rec[r].version + 1 OBVIOUS
<1> HIDE DEF entry
<1>8. \A s \in Records, e \in ChangeIds :
        recycle'[s][e] = IF s = r /\ e = c THEN entry ELSE recycle[s][e]
    BY <1>3 DEF TypeOK
<1>9. \A s \in Records : its[s] = NoItem =>
        rec'[s] = rec[s] /\ \A e \in ChangeIds : recycle'[s][e] = recycle[s][e]
    BY <1>3, <1>4, <1>6, <1>8, SentinelsDiffer
<1>10. ASSUME NEW s \in Records, its[s] # NoItem PROVE NewItem(c, s, its[s])
    <2>1. CASE s = r
        <3>1. its[s] = UpdateItem(r, NoData) /\ rec'[s] = NoRec BY <1>3, <1>6, <2>1
        <3> QED BY <1>1, <1>7, <1>8, <2>1, <3>1, UpdateItemNew DEF NewItem, Binned
    <2>2. CASE s # r
        <3>1. s \in linking BY <1>6, <1>10, <2>2
        <3>2. s \in Live /\ unlinked(s) \in Data /\ its[s] = UpdateItem(s, unlinked(s))
              /\ rec'[s] = Bumped(s, unlinked(s))
            BY <1>2, <1>3, <1>6, <2>2, <3>1
        <3>3. Bumped(s, unlinked(s)).version = rec[s].version + 1
              /\ Bumped(s, unlinked(s)).data = unlinked(s)
            BY DEF Bumped
        <3> QED BY <1>8, <2>2, <3>2, <3>3, UpdateItemNew DEF NewItem, Binned
    <2> QED BY <2>1, <2>2
<1>11. Appends(c) BY <1>3, <1>5, <1>9, <1>10, PlainAppends
<1> QED BY <1>11

(* What a request has read is still what its ChangeSet says, as far as an  *)
(* undo of it can go through: a purge is the only writer of an item, and a *)
(* purged record fails the validation loop.                                *)
LEMMA UndoReadsAreFresh ==
    ASSUME TypeOK, PlaceInv, NEW c \in ChangeIds, changes[c] # NoChange,
           NEW st, NEW its \in Items, Undoable(c, st, its),
           \A r \in Records : /\ InSet(its, r) <=> InSet(changes[c].items, r)
                              /\ ~Purged(r) => its[r] = changes[c].items[r]
    PROVE  its = changes[c].items
<1>1. \A r \in Records : InSet(its, r) => ~Purged(r)
    BY DEF Undoable, PlaceInv, PurgeIsFinal, Live, Binned
<1>2. \A r \in Records : its[r] = changes[c].items[r]
    BY <1>1 DEF InSet
<1>3. changes[c].items \in Items BY DEF TypeOK, ChangeSet
<1> QED BY <1>2, <1>3 DEF Items

(* undo_change_set on the current items appends an "undo" ChangeSet; its   *)
(* validation refuses a ChangeSet that was undone before, whatever status  *)
(* the request has read.                                                   *)
LEMMA UndoAppends ==
    ASSUME TypeOK, TypeOK', PlaceInv, VersionInv, NEW c \in ChangeIds, changes[c] # NoChange,
           NEW st, UndoSet(c, st, changes[c].items)
    PROVE  \E u \in ChangeIds : Appends(u)
<1> DEFINE its == changes[c].items
           inv == [r \in Records |-> IF InSet(its, r) THEN InverseItem(its[r], r) ELSE NoItem]
           entry(r) == [status |-> "deleted", record_version |-> rec[r].version + 1]
           del(r) == InSet(its, r) /\ IsDelete(its[r])
           cre(r) == InSet(its, r) /\ IsCreate(its[r])
           upd(r) == InSet(its, r) /\ IsUpdate(its[r])
<1>1. PICK u \in ChangeIds :
        /\ Unused(u)
        /\ rec' = [r \in Records |-> IF InSet(its, r) THEN UndoneRow(its[r], r) ELSE rec[r]]
        /\ recycle' = [r \in Records |->
             IF ~InSet(its, r) THEN recycle[r]
             ELSE IF IsDelete(its[r]) THEN [recycle[r] EXCEPT ![c].status = "restored"]
             ELSE IF IsCreate(its[r]) THEN [recycle[r] EXCEPT ![u] = entry(r)]
             ELSE recycle[r]]
        /\ changes' = [changes EXCEPT
             ![c].status = "undone", ![u] = append_change_set("undo", inv, c)]
    BY DEF UndoSet
<1>2. its \in Items /\ changes[c] \in ChangeSet BY DEF TypeOK, ChangeSet
<1>3. \A r \in Records : InSet(its, r) =>
        /\ its[r] \in Item
        /\ IsDelete(its[r]) => /\ rec[r] = NoRec /\ Binned(r, c)
                               /\ recycle[r][c].record_version = its[r].version_after
        /\ ~IsDelete(its[r]) => r \in Live /\ rec[r].version = its[r].version_after
    BY <1>2 DEF UndoSet, Undoable, Items, InSet, Live
<1>4. c # u /\ changes[u] = NoChange BY <1>1 DEF Unused
<1>5. \A r \in Records : InSet(its, r) <=> Has(c, r) BY DEF Has
<1>6. \A r \in Records : InSet(its, r) => At(c, r) = its[r].version_after BY DEF At
<1>7. \A r \in Records : InSet(its, r) => del(r) \/ upd(r) \/ cre(r)
    <2>1. \A r \in Records : InSet(its, r) => ~Purged(r)
        BY <1>3 DEF PlaceInv, PurgeIsFinal, Binned
    <2> QED BY <1>5, <2>1 DEF VersionInv, BlankMeansPurged, IsDelete, IsUpdate, IsCreate
<1>8. \A r \in Records : inv[r] = (IF InSet(its, r) THEN InverseItem(its[r], r) ELSE NoItem)
    OBVIOUS
<1>9. PICK r0 \in Records : InSet(its, r0) BY DEF UndoSet, Undoable
<1>10. \A e \in ChangeIds : changes[e] # NoChange => changes[e].parent # c
    <2> SUFFICES ASSUME NEW e \in ChangeIds, changes[e] # NoChange, changes[e].parent = c
                 PROVE  FALSE
        OBVIOUS
    <2>1. ~Binned(r0, c) /\ (r0 \in Live => At(c, r0) < rec[r0].version)
        BY <1>5, <1>9, SentinelsDiffer DEF VersionInv, UndoneSpent
    <2>2. r0 \in Live /\ rec[r0].version = At(c, r0) BY <1>3, <1>6, <1>9, <2>1
    <2>3. rec[r0].version \in Nat BY <2>2, RowData
    <2> QED BY <2>1, <2>2, <2>3
<1>11. inv \in Items /\ \A r \in Records : InSet(its, r) => inv[r] # NoItem
    <2> SUFFICES ASSUME NEW r \in Records, InSet(its, r)
                 PROVE  InverseItem(its[r], r) \in Item
        BY SentinelsDiffer DEF Items
    <2>1. CASE del(r) BY <1>3, <2>1 DEF InverseItem, IsDelete, Item
    <2>2. CASE upd(r)
        <3>1. r \in Live /\ its[r].before \in Data BY <1>3, <2>2 DEF IsUpdate, IsDelete, Item
        <3> QED BY <2>2, <3>1, UpdateItemType DEF InverseItem, IsDelete, IsUpdate
    <2>3. CASE cre(r)
        <3>1. r \in Live BY <1>3, <2>3 DEF IsCreate, IsDelete
        <3> QED BY <2>3, <3>1, UpdateItemType DEF InverseItem, IsDelete, IsUpdate, IsCreate
    <2> QED BY <1>7, <2>1, <2>2, <2>3
<1>12. /\ changes'[u] # NoChange /\ changes'[u].items = inv
       /\ changes'[u].operation # "purge" /\ changes'[u].parent = c
       /\ \A e \in ChangeIds \ {u} :
            /\ (changes'[e] # NoChange) <=> (changes[e] # NoChange)
            /\ changes[e] # NoChange =>
                 /\ changes'[e].items = changes[e].items
                 /\ changes'[e].parent = changes[e].parent
                 /\ changes'[e].operation = changes[e].operation
                 /\ changes'[e].status = changes[e].status \/ e = c
    <2>1. append_change_set("undo", inv, c) \in ChangeSet BY <1>11, AppendType
    <2>2. [changes[c] EXCEPT !.status = "undone"] \in ChangeSet BY <1>2 DEF ChangeSet
    <2>3. /\ changes[c].items = [changes[c] EXCEPT !.status = "undone"].items
          /\ changes[c].parent = [changes[c] EXCEPT !.status = "undone"].parent
          /\ changes[c].operation = [changes[c] EXCEPT !.status = "undone"].operation
        BY <1>2 DEF ChangeSet
    <2> HIDE DEF inv
    <2> QED BY <1>1, <1>4, <2>1, <2>2, <2>3, SentinelsDiffer DEF TypeOK, append_change_set
<1>13. \A r \in Records, e \in ChangeIds :
        recycle'[r][e] =
            IF del(r) /\ e = c THEN [recycle[r][c] EXCEPT !.status = "restored"]
            ELSE IF cre(r) /\ e = u THEN entry(r)
            ELSE recycle[r][e]
    <2> SUFFICES ASSUME NEW r \in Records, NEW e \in ChangeIds
                 PROVE  recycle'[r][e] =
                          IF del(r) /\ e = c THEN [recycle[r][c] EXCEPT !.status = "restored"]
                          ELSE IF cre(r) /\ e = u THEN entry(r)
                          ELSE recycle[r][e]
        OBVIOUS
    <2>0. recycle[r] \in [ChangeIds -> RecycleBinRecord \cup {NoEntry}]
          /\ ~(del(r) /\ cre(r))
        BY DEF TypeOK, IsDelete, IsCreate
    <2> HIDE DEF entry, its
    <2>1. CASE ~InSet(its, r) BY <1>1, <2>1
    <2>2. CASE del(r) BY <1>1, <2>0, <2>2
    <2>3. CASE cre(r) BY <1>1, <2>0, <2>3
    <2>4. CASE InSet(its, r) /\ ~del(r) /\ ~cre(r) BY <1>1, <2>4
    <2> QED BY <2>1, <2>2, <2>3, <2>4
<1>14. \A r \in Records : inv[r] = NoItem =>
        rec'[r] = rec[r] /\ \A e \in ChangeIds : recycle'[r][e] = recycle[r][e]
    BY <1>1, <1>11, <1>13
<1>15. ASSUME NEW r \in Records, inv[r] # NoItem PROVE NewItem(u, r, inv[r])
    <2>0. InSet(its, r) /\ inv[r] = InverseItem(its[r], r) /\ its[r] \in Item
          /\ rec'[r] = UndoneRow(its[r], r)
        BY <1>1, <1>3, <1>8, <1>15
    <2> HIDE DEF inv, its
    <2>1. CASE del(r)
        <3> DEFINE va == its[r].version_after
        <3>1. /\ inv[r].before = NoData /\ inv[r].after = its[r].before
              /\ inv[r].version_after = va + 1
            BY <2>0, <2>1 DEF InverseItem
        <3>2. rec'[r].version = va + 1 /\ rec'[r].data = its[r].before
            BY <2>0, <2>1 DEF UndoneRow
        <3>3. its[r].before # NoData /\ va \in Nat BY <2>0, <2>1 DEF IsDelete, Item
        <3>4. Binned(r, c) /\ recycle[r][c].record_version = va BY <1>3, <2>1
        <3>5. \A e \in ChangeIds : Has(e, r) => At(e, r) < va + 1
            BY <3>3, <3>4, HasType DEF VersionInv, BinBound
        <3>6. \A e \in ChangeIds : ~Binned(r, e)'
            <4>1. \A e \in ChangeIds : Binned(r, e) => e = c
                BY <3>4 DEF PlaceInv, LiveOrBinned
            <4>2. [recycle[r][c] EXCEPT !.status = "restored"].status # "deleted"
                BY <3>4 DEF Binned, TypeOK, RecycleBinRecord
            <4> QED BY <1>13, <2>1, <4>1, <4>2 DEF Binned, IsDelete, IsCreate
        <3> QED BY <3>1, <3>2, <3>3, <3>5, <3>6 DEF NewItem
    <2>2. CASE upd(r)
        <3>1. r \in Live /\ its[r].before \in Data
            BY <1>3, <2>0, <2>2 DEF IsUpdate, IsDelete, Item
        <3>2. inv[r] = UpdateItem(r, its[r].before) /\ rec'[r] = Bumped(r, its[r].before)
            BY <2>0, <2>2 DEF InverseItem, UndoneRow, IsUpdate, IsDelete
        <3>3. /\ Bumped(r, its[r].before).version = rec[r].version + 1
              /\ Bumped(r, its[r].before).data = its[r].before
            BY DEF Bumped
        <3>4. \A e \in ChangeIds : recycle'[r][e] = recycle[r][e]
            BY <1>13, <2>2 DEF IsUpdate, IsDelete, IsCreate
        <3> QED BY <3>1, <3>2, <3>3, <3>4, UpdateItemNew DEF NewItem, Binned, VersionInv
    <2>3. CASE cre(r)
        <3>1. r \in Live BY <1>3, <2>3 DEF IsCreate, IsDelete
        <3>2. inv[r] = UpdateItem(r, NoData) /\ rec'[r] = NoRec
            BY <2>0, <2>3 DEF InverseItem, UndoneRow, IsUpdate, IsDelete, IsCreate
        <3>3. entry(r).record_version = rec[r].version + 1 OBVIOUS
        <3> HIDE DEF entry
        <3>4. \A e \in ChangeIds : recycle'[r][e] = IF e = u THEN entry(r) ELSE recycle[r][e]
            BY <1>13, <2>3 DEF IsDelete, IsCreate
        <3> QED BY <3>1, <3>2, <3>3, <3>4, UpdateItemNew DEF NewItem, Binned, VersionInv
    <2> QED BY <1>7, <2>0, <2>1, <2>2, <2>3
<1>16. \A r \in Records : Has(c, r) => inv[r] # NoItem BY <1>5, <1>11
<1>18. \A r \in Records : Has(c, r) /\ IsUpdate(its[r]) =>
        r \in Live /\ rec[r].version = At(c, r)
    BY <1>3, <1>5, <1>6 DEF IsUpdate, IsDelete
<1>19. its = changes[c].items OBVIOUS
<1> HIDE DEF inv, its
<1>17. Appends(u)
    BY <1>4, <1>10, <1>12, <1>14, <1>15, <1>16, <1>18, <1>19 DEF Appends, NewItem
<1> QED BY <1>17

-----------------------------------------------------------------------------
(* purge_recycled_record: the items keep their versions and their places.  *)
LEMMA PurgeHistory ==
    ASSUME TypeOK, PlaceInv, NEW r \in Records, PurgeRecord(r)
    PROVE  /\ r \notin Live /\ rec' = rec
           /\ \A s \in Records, e \in ChangeIds :
                recycle'[s][e] = IF s = r THEN NoEntry ELSE recycle[s][e]
           /\ \A s \in Records : Purged(s)' <=> Purged(s) \/ s = r
           /\ \E c, p \in ChangeIds :
                /\ Binned(r, c) /\ changes[p] = NoChange /\ changes'[p].parent = NoChange
                /\ changes'[p].status # "undone"
                /\ \A s \in Records : changes'[p].items[s] # NoItem <=> s = r
                /\ \A x \in ChangeIds \ {p} :
                     /\ (changes'[x] # NoChange) <=> (changes[x] # NoChange)
                     /\ changes[x] # NoChange =>
                          /\ changes'[x].parent = changes[x].parent
                          /\ changes'[x].status =
                               IF x = c THEN "irreversible" ELSE changes[x].status
                          /\ \A s \in Records :
                               /\ s # r => changes'[x].items[s] = changes[x].items[s]
                               /\ InSet(changes'[x].items, s) <=> InSet(changes[x].items, s)
<1>1. PICK c \in ChangeIds, p \in ChangeIds :
        /\ Binned(r, c) /\ Unused(p)
        /\ changes' = [x \in ChangeIds |->
             IF x = p
             THEN [operation |-> "purge", status |-> "irreversible", parent |-> NoChange,
                   items |-> [s \in Records |->
                     IF s = r THEN [before |-> NoData, after |-> NoData,
                                    version_before |-> recycle[r][c].record_version,
                                    version_after |-> recycle[r][c].record_version]
                     ELSE NoItem]]
             ELSE IF Unused(x) THEN NoChange
             ELSE [changes[x] EXCEPT
                     !.status = IF x = c THEN "irreversible" ELSE @,
                     !.items = Redacted(@, r)]]
    BY DEF PurgeRecord
<1>2. rec' = rec /\ recycle' = [recycle EXCEPT ![r] = [d \in ChangeIds |-> NoEntry]]
    BY DEF PurgeRecord
<1>3. r \notin Live BY <1>1 DEF PlaceInv, LiveOrBinned
<1>4. \A s \in Records, e \in ChangeIds :
        recycle'[s][e] = IF s = r THEN NoEntry ELSE recycle[s][e]
    BY <1>2 DEF TypeOK
<1> DEFINE item == [before |-> NoData, after |-> NoData,
                    version_before |-> recycle[r][c].record_version,
                    version_after |-> recycle[r][c].record_version]
           its == [s \in Records |-> IF s = r THEN item ELSE NoItem]
<1>5. item \in Item BY <1>1 DEF Binned, TypeOK, RecycleBinRecord, Item
<1>6. changes'[p] = [operation |-> "purge", status |-> "irreversible",
                     parent |-> NoChange, items |-> its]
    BY <1>1
<1> HIDE DEF item
<1>7. its \in Items /\ \A s \in Records : its[s] # NoItem <=> s = r
    BY <1>5, SentinelsDiffer DEF Items
<1> HIDE DEF its
<1>8. /\ changes'[p].parent = NoChange /\ changes'[p].status # "undone"
      /\ changes'[p].operation = "purge" /\ changes'[p].items = its
    BY <1>6
<1>9. changes'[p] # NoChange
    <2>1. changes'[p] \in ChangeSet BY <1>6, <1>7 DEF ChangeSet
    <2> QED BY <2>1, SentinelsDiffer
<1>10. ASSUME NEW x \in ChangeIds \ {p}
       PROVE  /\ (changes'[x] # NoChange) <=> (changes[x] # NoChange)
              /\ changes[x] # NoChange =>
                   /\ changes'[x].parent = changes[x].parent
                   /\ changes'[x].operation = changes[x].operation
                   /\ changes'[x].status = IF x = c THEN "irreversible" ELSE changes[x].status
                   /\ changes'[x].items = Redacted(changes[x].items, r)
    <2>1. CASE changes[x] = NoChange BY <1>1, <2>1 DEF Unused
    <2>2. CASE changes[x] # NoChange
        <3>1. changes[x] \in ChangeSet BY <2>2 DEF TypeOK
        <3>2. changes'[x] = [changes[x] EXCEPT
                     !.status = IF x = c THEN "irreversible" ELSE @,
                     !.items = Redacted(@, r)]
            BY <1>1, <2>2 DEF Unused
        <3>3. changes'[x] # NoChange BY <2>2, PurgeType
        <3> QED BY <2>2, <3>1, <3>2, <3>3 DEF ChangeSet
    <2> QED BY <2>1, <2>2
<1>11. ASSUME NEW x \in ChangeIds \ {p}, changes[x] # NoChange, NEW s \in Records
       PROVE  /\ s # r => changes'[x].items[s] = changes[x].items[s]
              /\ InSet(changes'[x].items, s) <=> InSet(changes[x].items, s)
    <2> DEFINE old == changes[x].items
    <2>1. old \in Items /\ changes'[x].items = Redacted(old, r)
        BY <1>10, <1>11 DEF TypeOK, ChangeSet
    <2> HIDE DEF old
    <2>2. CASE old[r] = NoItem BY <2>1, <2>2 DEF Redacted, Items, InSet, old
    <2>3. CASE old[r] # NoItem
        <3>1. old[r] \in Item BY <2>1, <2>3 DEF Items
        <3>2. [old[r] EXCEPT !.before = NoData, !.after = NoData] \in Item
            BY <3>1 DEF Item
        <3>3. changes'[x].items =
                [old EXCEPT ![r] = [old[r] EXCEPT !.before = NoData, !.after = NoData]]
            BY <2>1, <2>3 DEF Redacted, Items
        <3> QED BY <2>1, <2>3, <3>2, <3>3, SentinelsDiffer DEF Items, InSet, old
    <2> QED BY <2>2, <2>3
<1>12. \A s \in Records : Purged(s)' <=> Purged(s) \/ s = r
    <2>1. \A s \in Records : InSet(changes'[p].items, s) <=> s = r BY <1>7, <1>8 DEF InSet
    <2>2. ASSUME NEW s \in Records PROVE Purged(s)' <=> Purged(s) \/ s = r
        <3>1. \A x \in ChangeIds \ {p} :
                (changes'[x] # NoChange /\ changes'[x].operation = "purge"
                    /\ InSet(changes'[x].items, s))
                <=> (changes[x] # NoChange /\ changes[x].operation = "purge"
                       /\ InSet(changes[x].items, s))
            BY <1>10, <1>11
        <3>2. (changes'[p] # NoChange /\ changes'[p].operation = "purge"
                 /\ InSet(changes'[p].items, s)) <=> s = r
            BY <1>8, <1>9, <2>1
        <3> QED BY <1>1, <3>1, <3>2 DEF Purged, Unused
    <2> QED BY <2>2
<1>13. /\ Binned(r, c) /\ changes[p] = NoChange /\ changes'[p].parent = NoChange
       /\ changes'[p].status # "undone"
       /\ \A s \in Records : changes'[p].items[s] # NoItem <=> s = r
    BY <1>1, <1>7, <1>8 DEF Unused
<1>14. \A x \in ChangeIds \ {p} :
        /\ (changes'[x] # NoChange) <=> (changes[x] # NoChange)
        /\ changes[x] # NoChange =>
             /\ changes'[x].parent = changes[x].parent
             /\ changes'[x].status = IF x = c THEN "irreversible" ELSE changes[x].status
             /\ \A s \in Records :
                  /\ s # r => changes'[x].items[s] = changes[x].items[s]
                  /\ InSet(changes'[x].items, s) <=> InSet(changes[x].items, s)
    BY <1>10, <1>11
<1> QED BY <1>2, <1>3, <1>4, <1>12, <1>13, <1>14

LEMMA PurgeKeepsVersions ==
    ASSUME TypeOK, PlaceInv, VersionInv, NEW r \in Records, PurgeRecord(r)
    PROVE  VersionInv'
<1>1. /\ r \notin Live /\ rec' = rec
      /\ \A s \in Records, e \in ChangeIds :
           recycle'[s][e] = IF s = r THEN NoEntry ELSE recycle[s][e]
      /\ \A s \in Records : Purged(s)' <=> Purged(s) \/ s = r
    BY PurgeHistory
<1>2. PICK p \in ChangeIds :
        /\ changes[p] = NoChange /\ changes'[p].parent = NoChange
        /\ \A s \in Records : changes'[p].items[s] # NoItem <=> s = r
        /\ \A x \in ChangeIds \ {p} :
             /\ (changes'[x] # NoChange) <=> (changes[x] # NoChange)
             /\ changes[x] # NoChange =>
                  /\ changes'[x].parent = changes[x].parent
                  /\ \A s \in Records :
                       /\ s # r => changes'[x].items[s] = changes[x].items[s]
                       /\ InSet(changes'[x].items, s) <=> InSet(changes[x].items, s)
    BY PurgeHistory
<1>3. \A s \in Records, x \in ChangeIds : s # r =>
        /\ Has(x, s)' <=> Has(x, s)
        /\ Has(x, s) => changes'[x].items[s] = changes[x].items[s] /\ At(x, s)' = At(x, s)
    BY <1>2 DEF Has, At, InSet
<1>4. \A s \in Records, e \in ChangeIds :
        Binned(s, e)' => s # r /\ Binned(s, e) /\ recycle'[s][e] = recycle[s][e]
    BY <1>1 DEF Binned
<1>5. Live' = Live BY <1>1 DEF Live
<1>6. NewestItem'
    <2> SUFFICES ASSUME NEW s \in Live
                 PROVE  \E c \in ChangeIds :
                          /\ Has(c, s)' /\ At(c, s)' = rec[s].version
                          /\ \A d \in ChangeIds : Has(d, s)' /\ d # c => At(d, s)' < rec[s].version
        BY <1>1, <1>5 DEF NewestItem
    <2>1. s # r /\ s \in Records BY <1>1 DEF Live
    <2>2. PICK c \in ChangeIds :
            /\ Has(c, s) /\ At(c, s) = rec[s].version
            /\ \A d \in ChangeIds : Has(d, s) /\ d # c => At(d, s) < rec[s].version
        BY DEF VersionInv, NewestItem
    <2> QED BY <1>3, <2>1, <2>2
<1>7. BinBound' BY <1>3, <1>4 DEF VersionInv, BinBound
<1>8. ASSUME NEW u \in ChangeIds, changes'[u] # NoChange, changes'[u].parent # NoChange
      PROVE  u # p /\ changes[u] # NoChange /\ changes'[u].parent = changes[u].parent
    BY <1>2, <1>8
<1>9. UndoneSpent'
    <2> SUFFICES ASSUME NEW u \in ChangeIds, NEW q, changes'[u] # NoChange,
                        q = changes'[u].parent, q # NoChange
                 PROVE  /\ changes'[q] # NoChange
                        /\ \A s \in Records : Has(q, s)' =>
                             ~Binned(s, q)' /\ (s \in Live' => At(q, s)' < rec'[s].version)
        BY DEF UndoneSpent, Has, Binned, At
    <2>1. q = changes[u].parent /\ changes[u] # NoChange BY <1>8
    <2>2. changes[u] \in ChangeSet BY <2>1 DEF TypeOK
    <2>3. q \in ChangeIds BY <2>1, <2>2 DEF ChangeSet
    <2>4. /\ changes[q] # NoChange
          /\ \A s \in Records : Has(q, s) =>
               ~Binned(s, q) /\ (s \in Live => At(q, s) < rec[s].version)
        BY <2>1 DEF VersionInv, UndoneSpent
    <2>5. changes'[q] # NoChange BY <1>2, <2>3, <2>4
    <2>6. ASSUME NEW s \in Records, Has(q, s)'
          PROVE  ~Binned(s, q)' /\ (s \in Live' => At(q, s)' < rec'[s].version)
        <3>1. CASE s = r BY <1>1, <1>4, <1>5, <2>3, <3>1
        <3>2. CASE s # r BY <1>1, <1>3, <1>4, <1>5, <2>3, <2>4, <2>6, <3>2
        <3> QED BY <3>1, <3>2
    <2> QED BY <2>5, <2>6
<1>10. UndoneOnce' BY <1>8 DEF VersionInv, UndoneOnce, Unused
<1>11. BlankMeansPurged'
    BY <1>1, <1>3 DEF VersionInv, BlankMeansPurged
<1> QED BY <1>6, <1>7, <1>9, <1>10, <1>11 DEF VersionInv

-----------------------------------------------------------------------------
(* Every step.  A step appends a ChangeSet, purges a record, or leaves the *)
(* history and the versions of the rows as they are.                       *)
Rewrites ==
    /\ UNCHANGED <<changes, recycle>>
    /\ \A r \in Records : rec'[r] # rec[r] =>
         rec[r] # NoRec /\ rec'[r] # NoRec /\ rec'[r].version = rec[r].version
    /\ Admins = {} => \A r \in Records : rec'[r] = rec[r]

LEMMA RewritesKeep ==
    ASSUME VersionInv, Rewrites
    PROVE  VersionInv'
<1>1. /\ \A r \in Records, c \in ChangeIds :
           (Has(c, r)' <=> Has(c, r)) /\ At(c, r)' = At(c, r) /\ (Binned(r, c)' <=> Binned(r, c))
      /\ \A r \in Records : Purged(r)' <=> Purged(r)
      /\ \A r \in Live' : r \in Live /\ rec'[r].version = rec[r].version
    BY DEF Rewrites, Has, At, Binned, Purged, Live
<1>2. NewestItem'
    <2> SUFFICES ASSUME NEW r \in Live'
                 PROVE  \E c \in ChangeIds :
                          /\ Has(c, r)' /\ At(c, r)' = rec'[r].version
                          /\ \A d \in ChangeIds : Has(d, r)' /\ d # c => At(d, r)' < rec'[r].version
        BY DEF NewestItem
    <2>1. r \in Live /\ r \in Records /\ rec'[r].version = rec[r].version
        BY <1>1 DEF Live
    <2>2. PICK c \in ChangeIds :
            /\ Has(c, r) /\ At(c, r) = rec[r].version
            /\ \A d \in ChangeIds : Has(d, r) /\ d # c => At(d, r) < rec[r].version
        BY <2>1 DEF VersionInv, NewestItem
    <2> QED BY <1>1, <2>1, <2>2
<1>3. BinBound'
    <2> SUFFICES ASSUME NEW r \in Records, NEW c \in ChangeIds, NEW d \in ChangeIds,
                        Binned(r, d)', Has(c, r)'
                 PROVE  At(c, r)' <= recycle'[r][d].record_version
        BY DEF BinBound
    <2>1. Binned(r, d) /\ Has(c, r) /\ At(c, r)' = At(c, r) BY <1>1
    <2>2. recycle' = recycle BY DEF Rewrites
    <2> QED BY <2>1, <2>2 DEF VersionInv, BinBound
<1>4. UndoneSpent'
    <2> SUFFICES ASSUME NEW u \in ChangeIds, NEW q, changes'[u] # NoChange,
                        q = changes'[u].parent, q # NoChange
                 PROVE  /\ changes'[q] # NoChange
                        /\ \A r \in Records : Has(q, r)' =>
                             ~Binned(r, q)' /\ (r \in Live' => At(q, r)' < rec'[r].version)
        BY DEF UndoneSpent, Has, Binned, At
    <2>1. changes' = changes /\ recycle' = recycle BY DEF Rewrites
    <2>2. /\ changes[q] # NoChange
          /\ \A r \in Records : Has(q, r) =>
               ~Binned(r, q) /\ (r \in Live => At(q, r) < rec[r].version)
        BY <2>1 DEF VersionInv, UndoneSpent
    <2>3. \A r \in Records :
            (Has(q, r)' <=> Has(q, r)) /\ At(q, r)' = At(q, r) /\ (Binned(r, q)' <=> Binned(r, q))
        BY <2>1 DEF Has, At, Binned
    <2> QED BY <1>1, <2>1, <2>2, <2>3
<1>5. UndoneOnce' BY DEF VersionInv, UndoneOnce, Unused, Rewrites
<1>6. BlankMeansPurged' BY <1>1 DEF VersionInv, BlankMeansPurged, Rewrites
<1> QED BY <1>2, <1>3, <1>4, <1>5, <1>6 DEF VersionInv

(* A step between interactive requests and field maintenance, as seen from *)
(* the history.                                                            *)
HistoryStep ==
    \/ \E c \in ChangeIds : Appends(c)
    \/ \E r \in Records : PurgeRecord(r)
    \/ Rewrites

(* Without automation workers every step is of one of the three kinds.     *)
LEMMA EveryStepHasAKind ==
    ASSUME Workers = {}, TypeInv, TypeInv', PlaceInv, VersionInv, ReadsAgree, [Next]_vars
    PROVE  HistoryStep
<1>0. TypeOK /\ TypeOK' /\ UndoTargetsExist /\ NewestItem BY DEF TypeInv, VersionInv
<1>s. ASSUME rec' = rec, changes' = changes, recycle' = recycle PROVE HistoryStep
    BY <1>s DEF HistoryStep, Rewrites
<1>1. ASSUME NEW S \in SUBSET Records, NEW t \in Texts, NEW L \in SUBSET Records,
             CreateRecords(S, t, L)
      PROVE  HistoryStep
    BY <1>0, <1>1, CreateAppends DEF HistoryStep
<1>2. ASSUME NEW S \in SUBSET Records, NEW t \in Texts, UpdateText(S, t)
      PROVE  HistoryStep
    <2> DEFINE new == [r \in S \cap Live |-> [rec[r].data EXCEPT !.text = t]]
    <2>1. new \in [S \cap Live -> Data] BY <1>0, RowData DEF Data
    <2>2. S \cap Live \in SUBSET Live OBVIOUS
    <2>3. WriteRows("update", new) /\ recycle' = recycle BY <1>2 DEF UpdateText
    <2> HIDE DEF new
    <2> QED BY <1>0, <2>1, <2>2, <2>3, WriteRowsAppends DEF HistoryStep
<1>3. ASSUME NEW r \in Records, DeleteRecord(r) PROVE HistoryStep
    BY <1>0, <1>3, DeleteAppends DEF HistoryStep
<1>4. ASSUME NEW r \in Records, RestoreRecord(r) PROVE HistoryStep
    <2>1. PICK c \in ChangeIds : ~Unused(c) /\ UndoSet(c, changes[c].status, changes[c].items)
        BY <1>4 DEF RestoreRecord
    <2> QED BY <1>0, <2>1, UndoAppends DEF HistoryStep, Unused
<1>5. ASSUME NEW u \in Users, WriteLinks(u) PROVE HistoryStep
    <2>1. u \in Clients /\ req[u] \in LinkRequest
        BY <1>0, <1>5, RequestKinds DEF WriteLinks, Clients
    <2>2. req[u].rec \in Records /\ req[u].links \in SUBSET Records
        BY <2>1 DEF LinkRequest
    <2> DEFINE new == [s \in {req[u].rec} |-> [rec[s].data EXCEPT !.links = req[u].links]]
    <2>3. CASE req[u].rec \in Live /\ WriteRows("update", new)
        <3>1. new \in [{req[u].rec} -> Data]
            BY <1>0, <2>2, <2>3, RowData DEF Data
        <3>2. {req[u].rec} \in SUBSET Live BY <2>3
        <3>3. WriteRows("update", new) /\ recycle' = recycle BY <1>5, <2>3 DEF WriteLinks
        <3> HIDE DEF new
        <3> QED BY <1>0, <3>1, <3>2, <3>3, WriteRowsAppends DEF HistoryStep
    <2>4. CASE UNCHANGED <<rec, changes>>
        BY <1>5, <1>s, <2>4 DEF WriteLinks
    <2> QED BY <1>5, <2>3, <2>4 DEF WriteLinks
<1>6. ASSUME NEW u \in Users, FinishUndo(u) PROVE HistoryStep
    <2> DEFINE c == req[u].change
               its == req[u].items
    <2>1. u \in Clients /\ req[u] \in UndoRequest
        BY <1>0, <1>6, RequestKinds DEF FinishUndo, Clients
    <2>2. c \in ChangeIds /\ its \in Items /\ changes[c] # NoChange
        BY <1>0, <1>6, <2>1 DEF UndoRequest, UndoTargetsExist, FinishUndo
    <2>3. CASE UndoSet(c, req[u].status, its)
        <3>1. \A r \in Records : /\ InSet(its, r) <=> InSet(changes[c].items, r)
                                 /\ ~Purged(r) => its[r] = changes[c].items[r]
            BY <1>6, <2>1 DEF ReadsAgree, FinishUndo
        <3>2. Undoable(c, req[u].status, its) BY <2>3 DEF UndoSet
        <3> HIDE DEF c, its
        <3>3. its = changes[c].items BY <1>0, <2>2, <3>1, <3>2, UndoReadsAreFresh
        <3>4. UndoSet(c, req[u].status, changes[c].items) BY <2>3, <3>3
        <3> QED BY <1>0, <2>2, <3>4, UndoAppends DEF HistoryStep
    <2>4. CASE UNCHANGED <<rec, changes, recycle, autoField>>
        BY <1>s, <2>4
    <2> QED BY <1>6, <2>3, <2>4 DEF FinishUndo
<1>7. ASSUME NEW a \in Admins, AddAutoField(a) PROVE HistoryStep
    <2>1. \A r \in Live : /\ [rec[r] EXCEPT !.data.auto = TRUE] \in Row
                          /\ [rec[r] EXCEPT !.data.auto = TRUE].version = rec[r].version
        BY <1>0, RowData DEF Row, Data
    <2>2. \A r \in Records : rec'[r] # rec[r] =>
            rec[r] # NoRec /\ rec'[r] # NoRec /\ rec'[r].version = rec[r].version
        BY <1>7, <2>1, SentinelsDiffer DEF AddAutoField, Live
    <2> QED BY <1>7, <2>2 DEF AddAutoField, HistoryStep, Rewrites
<1>8. ASSUME NEW a \in Admins, FinishDropField(a) PROVE HistoryStep
    <2>1. a \in Clients /\ req[a] \in DropRequest
        BY <1>0, <1>8, RequestKinds DEF FinishDropField, Clients
    <2> DEFINE loaded == req[a].rows
               dirty == {r \in Records : loaded[r] # NoData /\ loaded[r].auto}
    <2>2. \A r \in dirty : [loaded[r] EXCEPT !.auto = FALSE] \in Data
        BY <2>1 DEF DropRequest, Data
    <2>3. \A r \in Records : rec'[r] # rec[r] =>
            rec[r] # NoRec /\ rec'[r] # NoRec /\ rec'[r].version = rec[r].version
        <3>1. CASE /\ dirty \subseteq Live
                   /\ rec' = [r \in Records |->
                       IF r \in dirty
                       THEN [rec[r] EXCEPT !.data = [loaded[r] EXCEPT !.auto = FALSE]]
                       ELSE rec[r]]
            <4>1. \A r \in dirty :
                    /\ [rec[r] EXCEPT !.data = [loaded[r] EXCEPT !.auto = FALSE]] \in Row
                    /\ [rec[r] EXCEPT !.data = [loaded[r] EXCEPT !.auto = FALSE]].version
                         = rec[r].version
                BY <1>0, <2>2, <3>1, RowData DEF Row
            <4>2. \A r \in dirty : rec[r] # NoRec BY <3>1 DEF Live
            <4> HIDE DEF dirty
            <4> QED BY <3>1, <4>1, <4>2, SentinelsDiffer
        <3>2. CASE UNCHANGED <<rec, autoField>> BY <3>2
        <3> QED BY <1>8, <3>1, <3>2 DEF FinishDropField
    <2> QED BY <1>8, <2>3 DEF FinishDropField, HistoryStep, Rewrites
<1>9. ASSUME NEW u \in Users, NEW r \in Records, NEW L \in SUBSET Records, CheckLinks(u, r, L)
      PROVE  HistoryStep
    BY <1>9, <1>s DEF CheckLinks
<1>10. ASSUME NEW u \in Users, NEW c \in ChangeIds, BeginUndo(u, c) PROVE HistoryStep
    BY <1>10, <1>s DEF BeginUndo
<1>11. ASSUME NEW a \in Admins, BeginDropField(a) PROVE HistoryStep
    BY <1>11, <1>s DEF BeginDropField
<1>12. ASSUME NEW r \in Records, PurgeRecord(r) PROVE HistoryStep
    BY <1>12 DEF HistoryStep
<1>13. CASE UNCHANGED vars BY <1>13, <1>s DEF vars
<1> QED BY <1>1, <1>2, <1>3, <1>4, <1>5, <1>6, <1>7, <1>8, <1>9, <1>10, <1>11, <1>12, <1>13
        DEF Next

LEMMA HistoryStepKeeps ==
    ASSUME TypeOK, TypeOK', PlaceInv, VersionInv, HistoryStep
    PROVE  VersionInv'
BY AppendsKeeps, PurgeKeepsVersions, RewritesKeep DEF HistoryStep

(* What a step does to what the requests have read. *)
LEMMA HistoryStepReads ==
    ASSUME TypeInv, TypeInv', PlaceInv, ReadsAgree, HistoryStep,
           \A x \in Clients : req'[x] # Idle /\ req'[x].kind = "undo" => req'[x] = req[x]
    PROVE  ReadsAgree'
<1> SUFFICES ASSUME NEW x \in Clients, req'[x] # Idle, req'[x].kind = "undo", NEW r \in Records
             PROVE  /\ InSet(req'[x].items, r) <=> InSet(changes'[req'[x].change].items, r)
                    /\ ~Purged(r)' => req'[x].items[r] = changes'[req'[x].change].items[r]
    BY DEF ReadsAgree, InSet
<1> DEFINE c == req[x].change
           its == req[x].items
<1>1. req'[x] = req[x] OBVIOUS
<1>2. c \in ChangeIds /\ changes[c] # NoChange
    <2>1. req[x] \in UndoRequest BY <1>1, RequestKinds DEF TypeInv
    <2> QED BY <1>1, <2>1 DEF TypeInv, UndoTargetsExist, UndoRequest
<1>3. /\ InSet(its, r) <=> InSet(changes[c].items, r)
      /\ ~Purged(r) => its[r] = changes[c].items[r]
    BY <1>1 DEF ReadsAgree
<1>4. /\ InSet(changes'[c].items, r) <=> InSet(changes[c].items, r)
      /\ Purged(r) => Purged(r)'
      /\ ~Purged(r)' => changes'[c].items[r] = changes[c].items[r]
    <2> HIDE DEF c
    <2>1. ASSUME NEW n \in ChangeIds, Appends(n)
          PROVE  /\ changes'[c].items = changes[c].items /\ (Purged(r)' <=> Purged(r))
        <3>1. c # n BY <1>2, <2>1 DEF Appends
        <3> QED BY <1>2, <2>1, <3>1, AppendsHistory DEF Appends
    <2>2. ASSUME NEW s \in Records, PurgeRecord(s)
          PROVE  /\ InSet(changes'[c].items, r) <=> InSet(changes[c].items, r)
                 /\ Purged(r) => Purged(r)'
                 /\ ~Purged(r)' => changes'[c].items[r] = changes[c].items[r]
        <3>1. Purged(r)' <=> Purged(r) \/ r = s BY <2>2, PurgeHistory DEF TypeInv
        <3>2. PICK p \in ChangeIds :
                /\ changes[p] = NoChange
                /\ \A y \in ChangeIds \ {p} : changes[y] # NoChange => \A t \in Records :
                     /\ t # s => changes'[y].items[t] = changes[y].items[t]
                     /\ InSet(changes'[y].items, t) <=> InSet(changes[y].items, t)
            BY <2>2, PurgeHistory DEF TypeInv
        <3> QED BY <1>2, <3>1, <3>2
    <2>3. Rewrites => changes' = changes /\ (Purged(r)' <=> Purged(r))
        BY DEF Rewrites, Purged
    <2> QED BY <2>1, <2>2, <2>3 DEF HistoryStep
<1> QED BY <1>1, <1>3, <1>4

LEMMA NextReads ==
    ASSUME Workers = {}, TypeInv, TypeInv', PlaceInv, VersionInv, ReadsAgree, [Next]_vars
    PROVE  ReadsAgree'
<1>0. HistoryStep BY EveryStepHasAKind
<1>1. CASE \A x \in Clients : req'[x] # Idle /\ req'[x].kind = "undo" => req'[x] = req[x]
    BY <1>0, <1>1, HistoryStepReads
<1>2. ASSUME NEW u \in Users, NEW c \in ChangeIds, BeginUndo(u, c) PROVE ReadsAgree'
    <2>1. changes' = changes /\ req \in [Clients -> Request \cup {Idle}]
          /\ req' = [req EXCEPT ![u] = [kind |-> "undo", change |-> c,
                       status |-> changes[c].status, items |-> changes[c].items]]
        BY <1>2 DEF BeginUndo, TypeInv, TypeOK
    <2>2. \A r \in Records : Purged(r)' <=> Purged(r) BY <2>1 DEF Purged
    <2> SUFFICES ASSUME NEW x \in Clients, req'[x] # Idle, req'[x].kind = "undo", NEW r \in Records
                 PROVE  /\ InSet(req'[x].items, r) <=> InSet(changes[req'[x].change].items, r)
                        /\ ~Purged(r) => req'[x].items[r] = changes[req'[x].change].items[r]
        BY <2>1, <2>2 DEF ReadsAgree, InSet
    <2>3. CASE x = u BY <2>1, <2>3
    <2>4. CASE x # u BY <2>1, <2>4 DEF ReadsAgree
    <2> QED BY <2>3, <2>4
<1>3. (\E u \in Users, c \in ChangeIds : BeginUndo(u, c))
      \/ \A x \in Clients : req'[x] # Idle /\ req'[x].kind = "undo" => req'[x] = req[x]
    <2>0. req \in [Clients -> Request \cup {Idle}] BY DEF TypeInv, TypeOK
    <2>1. CASE UNCHANGED req BY <2>1
    <2>2. CASE \E x \in Clients : req' = [req EXCEPT ![x] = Idle] BY <2>0, <2>2
    <2>3. ASSUME NEW u \in Users, NEW r \in Records, NEW L \in SUBSET Records, CheckLinks(u, r, L)
          PROVE  \A x \in Clients : req'[x] # Idle /\ req'[x].kind = "undo" => req'[x] = req[x]
        BY <2>0, <2>3 DEF CheckLinks
    <2>4. ASSUME NEW a \in Admins, BeginDropField(a)
          PROVE  \A x \in Clients : req'[x] # Idle /\ req'[x].kind = "undo" => req'[x] = req[x]
        BY <2>0, <2>4 DEF BeginDropField
    <2>5. \A u \in Users : u \in Clients BY DEF Clients
    <2>6. \A a \in Admins : a \in Clients BY DEF Clients
    <2>7. [Next]_vars => \/ UNCHANGED req
                         \/ \E x \in Clients : req' = [req EXCEPT ![x] = Idle]
                         \/ \E u \in Users, r \in Records, L \in SUBSET Records : CheckLinks(u, r, L)
                         \/ \E u \in Users, c \in ChangeIds : BeginUndo(u, c)
                         \/ \E a \in Admins : BeginDropField(a)
        BY <2>5, <2>6 DEF Next, vars, CreateRecords, UpdateText, DeleteRecord, RestoreRecord,
           PurgeRecord, WriteLinks, FinishUndo, AddAutoField, FinishDropField
    <2> QED BY <2>1, <2>2, <2>3, <2>4, <2>7
<1> QED BY <1>1, <1>2, <1>3

HistoryInv == TypeInv /\ PlaceInv /\ VersionInv /\ ReadsAgree

LEMMA InitHistoryInv == Init => VersionInv /\ ReadsAgree
<1> SUFFICES ASSUME Init PROVE VersionInv /\ ReadsAgree OBVIOUS
<1>1. \A c \in ChangeIds : changes[c] = NoChange BY DEF Init
<1>2. Live = {} BY DEF Init, Live
<1>3. \A x \in Clients : req[x] = Idle BY DEF Init
<1> QED BY <1>1, <1>2, <1>3 DEF VersionInv, NewestItem, BinBound, UndoneSpent, UndoneOnce,
        BlankMeansPurged, ReadsAgree, Has, Unused

LEMMA NextHistoryInv ==
    ASSUME Workers = {}, HistoryInv, [Next]_vars
    PROVE  HistoryInv'
<1>1. TypeInv' BY NextTypeInv DEF HistoryInv
<1>2. PlaceInv' BY NextPlaceInv DEF HistoryInv
<1>3. HistoryStep BY <1>1, EveryStepHasAKind DEF HistoryInv
<1>4. VersionInv' BY <1>1, <1>3, HistoryStepKeeps DEF HistoryInv, TypeInv
<1>5. ReadsAgree' BY <1>1, NextReads DEF HistoryInv
<1> QED BY <1>1, <1>2, <1>4, <1>5 DEF HistoryInv

LEMMA HistoryInvHolds ==
    ASSUME Workers = {} PROVE Spec => []HistoryInv
<1>1. Init => HistoryInv
    BY InitTypeInv, InitPlaceInv, InitHistoryInv DEF HistoryInv
<1>2. HistoryInv /\ [Next]_vars => HistoryInv' BY NextHistoryInv
<1> QED BY <1>1, <1>2, PTL DEF Spec

(* No ChangeSet is undone twice, by however many requests that have all    *)
(* read it as "applied", with field maintenance going on as well: the      *)
(* version check refuses the second undo, because UndoneSpent holds.       *)
THEOREM UndoHappensOnce ==
    ASSUME Workers = {} PROVE Spec => []UndoneOnce
<1>1. HistoryInv => UndoneOnce BY DEF HistoryInv, VersionInv
<1> QED BY <1>1, HistoryInvHolds, PTL

-----------------------------------------------------------------------------
(* Without field maintenance the history also knows the rows' data.        *)
LEMMA NextMatches ==
    ASSUME Workers = {}, Admins = {}, HistoryInv, HistoryMatchesRows, [Next]_vars
    PROVE  HistoryMatchesRows'
<1>1. TypeInv' BY NextTypeInv DEF HistoryInv
<1>2. HistoryStep BY <1>1, EveryStepHasAKind DEF HistoryInv
<1>3. TypeOK /\ PlaceInv BY DEF HistoryInv, TypeInv
<1> SUFFICES ASSUME NEW r \in Records, rec'[r] # NoRec
             PROVE  \E c \in ChangeIds :
                      /\ changes'[c] # NoChange /\ InSet(changes'[c].items, r)
                      /\ changes'[c].items[r].version_after = rec'[r].version
                      /\ changes'[c].items[r].after = rec'[r].data
    BY DEF HistoryMatchesRows, Live, Unused, InSet
<1>4. r \in Live => \E c \in ChangeIds :
        /\ changes[c] # NoChange /\ InSet(changes[c].items, r)
        /\ changes[c].items[r].version_after = rec[r].version
        /\ changes[c].items[r].after = rec[r].data
    BY DEF HistoryMatchesRows, Unused
<1>5. ASSUME NEW n \in ChangeIds, Appends(n), changes'[n].items[r] = NoItem
      PROVE  \E c \in ChangeIds :
               /\ changes'[c] # NoChange /\ InSet(changes'[c].items, r)
               /\ changes'[c].items[r].version_after = rec'[r].version
               /\ changes'[c].items[r].after = rec'[r].data
    <2>1. rec'[r] = rec[r] /\ r \in Live BY <1>5 DEF Appends, Live
    <2>2. PICK c \in ChangeIds :
            /\ changes[c] # NoChange /\ InSet(changes[c].items, r)
            /\ changes[c].items[r].version_after = rec[r].version
            /\ changes[c].items[r].after = rec[r].data
        BY <1>4, <2>1
    <2>3. c # n /\ changes'[c] # NoChange /\ changes'[c].items = changes[c].items
        BY <1>5, <2>2 DEF Appends
    <2> QED BY <2>1, <2>2, <2>3
<1>6. ASSUME NEW n \in ChangeIds, Appends(n), changes'[n].items[r] # NoItem
      PROVE  /\ changes'[n] # NoChange /\ InSet(changes'[n].items, r)
             /\ changes'[n].items[r].version_after = rec'[r].version
             /\ changes'[n].items[r].after = rec'[r].data
    BY <1>6 DEF Appends, InSet
<1>7. ASSUME NEW s \in Records, PurgeRecord(s)
      PROVE  \E c \in ChangeIds :
               /\ changes'[c] # NoChange /\ InSet(changes'[c].items, r)
               /\ changes'[c].items[r].version_after = rec'[r].version
               /\ changes'[c].items[r].after = rec'[r].data
    <2>1. rec' = rec /\ s \notin Live BY <1>3, <1>7, PurgeHistory
    <2>2. r \in Live /\ r # s BY <2>1 DEF Live
    <2>3. PICK p \in ChangeIds :
            /\ changes[p] = NoChange
            /\ \A x \in ChangeIds \ {p} : changes[x] # NoChange =>
                 /\ changes'[x] # NoChange
                 /\ \A t \in Records : t # s => changes'[x].items[t] = changes[x].items[t]
        BY <1>3, <1>7, PurgeHistory
    <2>4. PICK c \in ChangeIds :
            /\ changes[c] # NoChange /\ InSet(changes[c].items, r)
            /\ changes[c].items[r].version_after = rec[r].version
            /\ changes[c].items[r].after = rec[r].data
        BY <1>4, <2>2
    <2> QED BY <2>1, <2>2, <2>3, <2>4 DEF InSet
<1>8. CASE Rewrites
    <2>1. changes' = changes /\ rec'[r] = rec[r] BY <1>8 DEF Rewrites
    <2> QED BY <1>4, <2>1 DEF Live
<1> QED BY <1>2, <1>5, <1>6, <1>7, <1>8 DEF HistoryStep

LEMMA MatchesHolds ==
    ASSUME Workers = {}, Admins = {}
    PROVE  Spec => [](HistoryInv /\ HistoryMatchesRows)
<1>1. Init => HistoryMatchesRows BY DEF Init, HistoryMatchesRows, Live
<1>2. HistoryInv /\ HistoryMatchesRows /\ [Next]_vars => HistoryMatchesRows' BY NextMatches
<1> QED BY <1>1, <1>2, HistoryInvHolds, PTL DEF Spec

(* The history explains every row that interactive requests write: an item *)
(* carries the row's version and its data, after any interleaving of       *)
(* writes, deletes, undos from stale reads, restores and purges.           *)
THEOREM HistoryExplainsRows ==
    ASSUME Workers = {}, Admins = {} PROVE Spec => []HistoryMatchesRows
BY MatchesHolds, PTL

(* Every write, restore or undo of a row leaves it with a version above    *)
(* all that its history has recorded: a restored row, too, which takes its *)
(* version from the recycle bin and not from a live row.                   *)
THEOREM VersionsOnlyGrow ==
    ASSUME Workers = {}, Admins = {} PROVE Spec => VersionsIncrease
<1>1. ASSUME HistoryInv, [Next]_vars, NEW r \in Records, rec'[r] # NoRec, rec'[r] # rec[r],
             NEW c \in ChangeIds, changes[c] # NoChange, InSet(changes[c].items, r)
      PROVE  changes[c].items[r].version_after < rec'[r].version
    <2>1. TypeInv' BY <1>1, NextTypeInv DEF HistoryInv
    <2>2. HistoryStep BY <1>1, <2>1, EveryStepHasAKind DEF HistoryInv
    <2>3. ASSUME NEW n \in ChangeIds, Appends(n)
          PROVE  changes[c].items[r].version_after < rec'[r].version
        <3>1. changes'[n].items[r] # NoItem BY <1>1, <2>3 DEF Appends
        <3> QED BY <1>1, <2>3, <3>1 DEF Appends, Has, At
    <2>4. ASSUME NEW s \in Records, PurgeRecord(s) PROVE rec' = rec
        BY <2>4 DEF PurgeRecord
    <2>5. Rewrites => rec'[r] = rec[r] BY DEF Rewrites
    <2> QED BY <1>1, <2>2, <2>3, <2>4, <2>5 DEF HistoryStep
<1>2. HistoryInv /\ [Next]_vars =>
        [\A r \in Records : rec'[r] # NoRec /\ rec'[r] # rec[r] =>
           \A c \in ChangeIds :
              changes[c] # NoChange /\ InSet(changes[c].items, r) =>
                  changes[c].items[r].version_after < rec'[r].version]_vars
    BY <1>1
<1> QED BY <1>2, HistoryInvHolds, PTL DEF Spec, VersionsIncrease

(* An undo that reverts an update finds the row exactly as that update     *)
(* left it, however long ago the request read the ChangeSet.               *)
THEOREM UndoOverwritesNothingNewer ==
    ASSUME Workers = {}, Admins = {} PROVE Spec => UndoKeepsNewerWork
<1>1. ASSUME HistoryInv, HistoryMatchesRows, [Next]_vars, NEW c \in ChangeIds,
             changes[c] # NoChange, changes[c].status = "applied", changes'[c].status = "undone",
             NEW r \in Records, InSet(changes[c].items, r), IsUpdate(changes[c].items[r])
      PROVE  rec[r].data = changes[c].items[r].after
    <2>0. TypeOK /\ PlaceInv BY <1>1 DEF HistoryInv, TypeInv
    <2>1. TypeInv' BY <1>1, NextTypeInv DEF HistoryInv
    <2>2. HistoryStep BY <1>1, <2>1, EveryStepHasAKind DEF HistoryInv
    <2>3. ASSUME NEW n \in ChangeIds, Appends(n)
          PROVE  r \in Live /\ rec[r].version = At(c, r)
        <3>1. c # n BY <1>1, <2>3 DEF Appends
        <3>2. changes'[n].parent = c BY <1>1, <2>3, <3>1 DEF Appends
        <3>3. c # NoChange BY SentinelsDiffer
        <3> QED BY <1>1, <2>3, <3>2, <3>3 DEF Appends, Has
    <2>4. ASSUME NEW s \in Records, PurgeRecord(s) PROVE FALSE
        BY <1>1, <2>0, <2>4, PurgeHistory
    <2>5. ~Rewrites BY <1>1 DEF Rewrites
    <2>6. r \in Live /\ rec[r].version = At(c, r) /\ Has(c, r)
        BY <1>1, <2>2, <2>3, <2>4, <2>5 DEF HistoryStep, Has
    <2>7. PICK e \in ChangeIds :
            /\ Has(e, r) /\ At(e, r) = rec[r].version
            /\ \A d \in ChangeIds : Has(d, r) /\ d # e => At(d, r) < rec[r].version
        BY <1>1, <2>6 DEF HistoryInv, VersionInv, NewestItem
    <2>8. PICK d \in ChangeIds :
            /\ Has(d, r) /\ At(d, r) = rec[r].version
            /\ changes[d].items[r].after = rec[r].data
        BY <1>1, <2>6 DEF HistoryMatchesRows, Unused, Has, At
    <2>9. rec[r].version \in Nat BY <2>0, <2>6, RowData
    <2> QED BY <2>6, <2>7, <2>8, <2>9
<1>2. HistoryInv /\ HistoryMatchesRows /\ [Next]_vars =>
        [\A c \in ChangeIds :
           /\ changes[c] # NoChange
           /\ changes[c].status = "applied" /\ changes'[c].status = "undone"
           => \A r \in Records :
                InSet(changes[c].items, r) /\ IsUpdate(changes[c].items[r]) =>
                    rec[r].data = changes[c].items[r].after]_vars
    BY <1>1
<1> QED BY <1>2, MatchesHolds, PTL DEF Spec, UndoKeepsNewerWork

-----------------------------------------------------------------------------
(* AutomationEngine.                                                         *)
(*                                                                           *)
(* Focus: where a process is determines what it holds.                       *)
(* DoneInv: whatever list of results a row or a process holds, the actions   *)
(* in it have happened.  CoverInv: while a process handles an event, each    *)
(* matched rule is still to do, in its hands, or has a started execution;    *)
(* and a started execution never becomes unstarted.                          *)

Busy == {"start", "check", "act", "record", "persist"}

Focus ==
    \A p \in Procs :
      /\ kind[p] \in {"event", "manual"} => event[p] \in Events
      /\ pc[p] \in {"dispatch", "next"} => kind[p] \in {"event", "manual"}
      /\ pc[p] \in Busy \cup {"claimed"} => ex[p] \in Execs /\ kind[p] # "none"
      /\ pc[p] = "claimed" => kind[p] = "retry"
      /\ pc[p] = "idle" => kind[p] = "none"

-----------------------------------------------------------------------------
(* Type correctness *)

LEMMA TypeInit == InitEngine => TypeOKEngine /\ Focus
BY ConstantsOK
   DEF InitEngine, TypeOKEngine, QueueType, RowType, ItemType, CopyType, Status, Versions, Focus, Busy

(* What TakeRule does, for the rule that it takes. *)
Taken(p, m, x, b) ==
    /\ x[1] = m[1] /\ x[3] = event[p]
    /\ todo' = [todo EXCEPT ![p] = @ \ {m}]
    /\ \/ /\ status[x] \in {"none"} \cup Retryable
          /\ status' = [status EXCEPT ![x] = IF @ = "none" THEN "queued" ELSE @]
          /\ pc' = [pc EXCEPT ![p] = "start"]
          /\ on' = [on EXCEPT ![p] = b] /\ ReadRow(p, x)
       \/ /\ status[x] \in {"failed", "partially_failed"}
          /\ pc' = [pc EXCEPT ![p] = "persist"]
          /\ ReadRow(p, x) /\ UNCHANGED <<status, on>>
       \/ /\ status[x] \notin {"none"} \cup Retryable
          /\ UNCHANGED <<status, pc, ex, on, tries, done>>

LEMMA TakenRule ==
  ASSUME TypeOKEngine, Focus, NEW p \in Procs, TakeRule(p)
  PROVE  \E m \in todo[p], x \in Execs, b \in BOOLEAN : Taken(p, m, x, b)
<1>1. PICK m \in todo[p] :
        LET q == RuleAsRead(p, m)
            x == <<q[1], q[2], event[p]>>
        IN /\ todo' = [todo EXCEPT ![p] = @ \ {m}]
           /\ \/ /\ status[x] \in {"none"} \cup Retryable
                 /\ status' = [status EXCEPT ![x] = IF @ = "none" THEN "queued" ELSE @]
                 /\ pc' = [pc EXCEPT ![p] = "start"]
                 /\ on' = [on EXCEPT ![p] = q[3]]
                 /\ ReadRow(p, x)
              \/ /\ status[x] \in {"failed", "partially_failed"}
                 /\ pc' = [pc EXCEPT ![p] = "persist"]
                 /\ ReadRow(p, x)
                 /\ UNCHANGED <<status, on>>
              \/ /\ status[x] \notin {"none"} \cup Retryable
                 /\ UNCHANGED <<status, pc, ex, on, tries, done>>
  BY DEF TakeRule
<1> DEFINE q == RuleAsRead(p, m)
           x == <<q[1], q[2], event[p]>>
<1>2. q[1] = m[1] /\ q[1] \in Rules /\ q[2] \in Versions /\ q[3] \in BOOLEAN
  <2>1. m \in Rules \X Versions \X BOOLEAN
    BY DEF TypeOKEngine, ItemType
  <2> QED
    BY <2>1 DEF RuleAsRead, TypeOKEngine, QueueType, ItemType
<1>3. event[p] \in Events
  BY DEF TakeRule, Focus
<1>4. x \in Execs /\ x[1] = m[1] /\ x[3] = event[p]
  BY <1>2, <1>3 DEF Execs
<1>5. Taken(p, m, x, q[3])
  BY <1>1, <1>4 DEF Taken
<1> QED
  BY <1>2, <1>4, <1>5

LEMMA DropType ==
  ASSUME CopyType, NEW p \in Procs, DropExecution(p)
  PROVE  CopyType'
BY DEF CopyType, DropExecution

(* Leaving an item, returning from an execution, and the failure path keep  *)
(* the types of what a process works on.                                    *)
LEMMA DropItemType ==
  ASSUME ItemType, NEW p \in Procs, DropItem(p)
  PROVE  ItemType'
<1>1. pc' = [pc EXCEPT ![p] = "idle"] /\ kind' = [kind EXCEPT ![p] = "none"]
  BY DEF DropItem
<1>2. event' = [event EXCEPT ![p] = NoEvent] /\ todo' = [todo EXCEPT ![p] = {}]
      /\ held' = [held EXCEPT ![p] = TRUE]
  BY DEF DropItem
<1> QED
  BY <1>1, <1>2 DEF ItemType

LEMMA ReturnType ==
  ASSUME ItemType, NEW p \in Procs, NEW h \in BOOLEAN, Return(p, h)
  PROVE  ItemType'
<1>1. CASE kind[p] = "retry"
  BY <1>1, DropItemType DEF Return
<1>2. CASE kind[p] # "retry"
  <2>1. pc' = [pc EXCEPT ![p] = "next"] /\ held' = [held EXCEPT ![p] = h]
        /\ UNCHANGED <<kind, event, todo>>
    BY <1>2 DEF Return
  <2> QED
    BY <2>1 DEF ItemType
<1> QED
  BY <1>1, <1>2

LEMMA FailType ==
  ASSUME ItemType, NEW p \in Procs, NEW h \in BOOLEAN, NEW list, FailAndReturn(p, list, h)
  PROVE  ItemType'
<1>1. CASE Return(p, h)
  BY <1>1, ReturnType
<1>2. CASE /\ pc' = [pc EXCEPT ![p] = "persist"] /\ held' = [held EXCEPT ![p] = h]
           /\ UNCHANGED <<kind, event, todo>>
  BY <1>2 DEF ItemType
<1> QED
  BY <1>1, <1>2 DEF FailAndReturn

LEMMA TypeStep ==
  ASSUME TypeOKEngine, Focus, [NextEngine]_varsEngine
  PROVE  TypeOKEngine' /\ Focus'
<1> USE DEF TypeOKEngine, Procs, rules, queue, rows, effects, local
<1>1. ASSUME NEW r \in Rules, EditRule(r)
      PROVE  TypeOKEngine' /\ Focus'
  <2>1. QueueType'
    BY <1>1, ConstantsOK DEF EditRule, QueueType, Versions
  <2>2. RowType'
    BY <1>1, ConstantsOK DEF EditRule, RowType
  <2>3. ItemType'
    BY <1>1, ConstantsOK DEF EditRule, ItemType, QueueType
  <2>4. CopyType'
    BY <1>1, ConstantsOK DEF EditRule, CopyType, RowType
  <2>5. Focus'
    BY <1>1, ConstantsOK DEF EditRule, Focus, Busy, ItemType, CopyType
  <2> QED
    BY <2>1, <2>2, <2>3, <2>4, <2>5
<1>2. ASSUME NEW r \in Rules, ToggleRule(r)
      PROVE  TypeOKEngine' /\ Focus'
  <2>1. QueueType'
    BY <1>2, ConstantsOK DEF ToggleRule, QueueType
  <2>2. RowType'
    BY <1>2, ConstantsOK DEF ToggleRule, RowType
  <2>3. ItemType'
    BY <1>2, ConstantsOK DEF ToggleRule, ItemType, QueueType
  <2>4. CopyType'
    BY <1>2, ConstantsOK DEF ToggleRule, CopyType, RowType
  <2>5. Focus'
    BY <1>2, ConstantsOK DEF ToggleRule, Focus, Busy, ItemType, CopyType
  <2> QED
    BY <2>1, <2>2, <2>3, <2>4, <2>5
<1>3. ASSUME NEW e \in Events, QueueEvent(e)
      PROVE  TypeOKEngine' /\ Focus'
  <2>1. QueueType'
    BY <1>3, ConstantsOK DEF QueueEvent, QueueType
  <2>2. RowType'
    BY <1>3, ConstantsOK DEF QueueEvent, RowType
  <2>3. ItemType'
    BY <1>3, ConstantsOK DEF QueueEvent, ItemType, QueueType
  <2>4. CopyType'
    BY <1>3, ConstantsOK DEF QueueEvent, CopyType, RowType
  <2>5. Focus'
    BY <1>3, ConstantsOK DEF QueueEvent, Focus, Busy, ItemType, CopyType
  <2> QED
    BY <2>1, <2>2, <2>3, <2>4, <2>5
<1>4. ASSUME NEW e \in Events, EventDue(e)
      PROVE  TypeOKEngine' /\ Focus'
  <2>1. QueueType'
    BY <1>4, ConstantsOK DEF EventDue, QueueType
  <2>2. RowType'
    BY <1>4, ConstantsOK DEF EventDue, RowType
  <2>3. ItemType'
    BY <1>4, ConstantsOK DEF EventDue, ItemType, QueueType
  <2>4. CopyType'
    BY <1>4, ConstantsOK DEF EventDue, CopyType, RowType
  <2>5. Focus'
    BY <1>4, ConstantsOK DEF EventDue, Focus, Busy, ItemType, CopyType
  <2> QED
    BY <2>1, <2>2, <2>3, <2>4, <2>5
<1>5. ASSUME NEW x \in Execs, RetryDue(x)
      PROVE  TypeOKEngine' /\ Focus'
  <2>1. QueueType'
    BY <1>5, ConstantsOK DEF RetryDue, QueueType
  <2>2. RowType'
    BY <1>5, ConstantsOK DEF RetryDue, RowType, CopyType, Focus, Busy
  <2>3. ItemType'
    BY <1>5, ConstantsOK DEF RetryDue, ItemType, QueueType
  <2>4. CopyType'
    BY <1>5, ConstantsOK DEF RetryDue, CopyType, RowType
  <2>5. Focus'
    BY <1>5, ConstantsOK DEF RetryDue, Focus, Busy, ItemType, CopyType
  <2> QED
    BY <2>1, <2>2, <2>3, <2>4, <2>5
<1>6. ASSUME NEW x \in Execs, RetryExecution(x)
      PROVE  TypeOKEngine' /\ Focus'
  <2>1. QueueType'
    BY <1>6, ConstantsOK DEF RetryExecution, QueueType
  <2>2. RowType'
    BY <1>6, ConstantsOK
       DEF RetryExecution, RowType, Status, Retryable, CopyType, Focus, Busy
  <2>3. ItemType'
    BY <1>6, ConstantsOK DEF RetryExecution, ItemType, QueueType
  <2>4. CopyType'
    BY <1>6, ConstantsOK DEF RetryExecution, CopyType, RowType
  <2>5. Focus'
    BY <1>6, ConstantsOK DEF RetryExecution, Focus, Busy, ItemType, CopyType
  <2> QED
    BY <2>1, <2>2, <2>3, <2>4, <2>5
<1>7. ASSUME NEW p \in Callers, NEW r \in Rules, NEW e \in Events, ManualRun(p, r, e)
      PROVE  TypeOKEngine' /\ Focus'
  <2>1. QueueType'
    BY <1>7, ConstantsOK DEF ManualRun, QueueType
  <2>2. RowType'
    BY <1>7, ConstantsOK DEF ManualRun, RowType
  <2>3. ItemType'
    BY <1>7, ConstantsOK DEF ManualRun, ItemType, QueueType
  <2>4. CopyType'
    BY <1>7, ConstantsOK DEF ManualRun, CopyType, RowType
  <2>5. Focus'
    BY <1>7, ConstantsOK DEF ManualRun, Focus, Busy, ItemType, CopyType
  <2> QED
    BY <2>1, <2>2, <2>3, <2>4, <2>5
<1>8. ASSUME NEW p \in WorkerLoops, NEW e \in Events, ClaimEvent(p, e)
      PROVE  TypeOKEngine' /\ Focus'
  <2>1. QueueType'
    BY <1>8, ConstantsOK DEF ClaimEvent, QueueType
  <2>2. RowType'
    BY <1>8, ConstantsOK DEF ClaimEvent, RowType
  <2>3. ItemType'
    BY <1>8, ConstantsOK DEF ClaimEvent, ItemType, QueueType
  <2>4. CopyType'
    BY <1>8, ConstantsOK DEF ClaimEvent, CopyType, RowType
  <2>5. Focus'
    BY <1>8, ConstantsOK DEF ClaimEvent, Focus, Busy, ItemType, CopyType
  <2> QED
    BY <2>1, <2>2, <2>3, <2>4, <2>5
<1>9. ASSUME NEW p \in WorkerLoops, NEW x \in Execs, ClaimRetry(p, x)
      PROVE  TypeOKEngine' /\ Focus'
  <2>1. QueueType'
    BY <1>9, ConstantsOK DEF ClaimRetry, QueueType, ReadRow
  <2>2. RowType'
    BY <1>9, ConstantsOK DEF ClaimRetry, RowType, ReadRow, CopyType, Focus, Busy
  <2>3. ItemType'
    BY <1>9, ConstantsOK DEF ClaimRetry, ItemType, ReadRow, QueueType
  <2>4. CopyType'
    BY <1>9, ConstantsOK DEF ClaimRetry, CopyType, ReadRow, RowType
  <2>5. Focus'
    BY <1>9, ConstantsOK DEF ClaimRetry, Focus, ReadRow, Busy, ItemType, CopyType
  <2> QED
    BY <2>1, <2>2, <2>3, <2>4, <2>5
<1>10. ASSUME NEW p \in Procs, Dispatch(p)
      PROVE  TypeOKEngine' /\ Focus'
  <2>0. {<<r, rver[r], TRUE>> : r \in {q \in Matching(event[p]) : ron[q]}}
          \subseteq Rules \X Versions \X BOOLEAN
    <3>1. Matching(event[p]) \subseteq Rules
      BY <1>10, ConstantsOK DEF Matching
    <3>2. \A r \in Rules : <<r, rver[r], TRUE>> \in Rules \X Versions \X BOOLEAN
      BY DEF QueueType
    <3> QED
      BY <3>1, <3>2
  <2>1. QueueType'
    BY <1>10, ConstantsOK, <2>0 DEF Dispatch, QueueType
  <2>2. RowType'
    BY <1>10, ConstantsOK, <2>0 DEF Dispatch, RowType
  <2>3. ItemType'
    BY <1>10, ConstantsOK, <2>0 DEF Dispatch, ItemType, QueueType
  <2>4. CopyType'
    BY <1>10, ConstantsOK, <2>0 DEF Dispatch, CopyType, RowType
  <2>5. Focus'
    BY <1>10, ConstantsOK, <2>0 DEF Dispatch, Focus, Busy, ItemType, CopyType
  <2> QED
    BY <2>1, <2>2, <2>3, <2>4, <2>5
<1>11. ASSUME NEW p \in Procs, TakeRule(p)
      PROVE  TypeOKEngine' /\ Focus'
  <2>0. PICK m \in todo[p], x \in Execs, b \in BOOLEAN : Taken(p, m, x, b)
    BY <1>11, TakenRule
  <2>1. QueueType'
    BY <1>11, ConstantsOK, <2>0 DEF TakeRule, QueueType, ReadRow, Taken
  <2>2. RowType'
    BY <1>11, ConstantsOK, <2>0 DEF TakeRule, RowType, ReadRow, Status, Retryable, Taken
  <2>3. ItemType'
    BY <1>11, ConstantsOK, <2>0 DEF TakeRule, ItemType, ReadRow, QueueType, Taken
  <2>4. CopyType'
    BY <1>11, ConstantsOK, <2>0 DEF TakeRule, CopyType, ReadRow, RowType, Focus, Taken
  <2>5. Focus'
    BY <1>11, ConstantsOK, <2>0
       DEF TakeRule, Focus, ReadRow, Busy, ItemType, CopyType, Taken
  <2> QED
    BY <2>1, <2>2, <2>3, <2>4, <2>5
<1>12. ASSUME NEW p \in Procs, CloseEvent(p)
      PROVE  TypeOKEngine' /\ Focus'
  <2>1. QueueType'
    BY <1>12, ConstantsOK
       DEF CloseEvent, QueueType, Return, DropItem, DropExecution, Handled
  <2>2. RowType'
    BY <1>12, ConstantsOK DEF CloseEvent, RowType, Return, DropItem, DropExecution
  <2>3. ItemType'
    BY <1>12, ConstantsOK
       DEF CloseEvent, ItemType, Return, DropItem, DropExecution, Handled, QueueType
  <2>4. CopyType'
    BY <1>12, ConstantsOK
       DEF CloseEvent, CopyType, Return, DropItem, DropExecution, Handled, RowType
  <2>5. Focus'
    BY <1>12, ConstantsOK
       DEF CloseEvent, Focus, Return, DropItem, DropExecution, Busy, ItemType, CopyType
  <2> QED
    BY <2>1, <2>2, <2>3, <2>4, <2>5
<1>13. ASSUME NEW p \in Procs, BeginRetry(p)
      PROVE  TypeOKEngine' /\ Focus'
  <2>1. QueueType'
    BY <1>13, ConstantsOK DEF BeginRetry, QueueType, Return, DropItem, DropExecution
  <2>2. RowType'
    BY <1>13, ConstantsOK
       DEF BeginRetry, RowType, Return, DropItem, DropExecution, Status, Terminal,
           CopyType, Focus, Busy
  <2>3. ItemType'
    <3>1. CASE DropItem(p)
      BY <3>1, DropItemType
    <3>2. CASE pc' = [pc EXCEPT ![p] = "start"] /\ UNCHANGED <<kind, event, todo, held>>
      BY <3>2 DEF ItemType
    <3> QED
      BY <1>13, <3>1, <3>2 DEF BeginRetry
  <2>4. CopyType'
    <3>1. \/ DropExecution(p)
          \/ on' = [on EXCEPT ![p] = ron[ex[p][1]]] /\ UNCHANGED <<ex, tries, done>>
      BY <1>13 DEF BeginRetry, DropItem
    <3>2. ron[ex[p][1]] \in BOOLEAN
      BY <1>13 DEF BeginRetry, Focus, Execs, QueueType
    <3> QED
      BY <3>1, <3>2, DropType DEF CopyType
  <2>5. Focus'
    BY <1>13, ConstantsOK
       DEF BeginRetry, Focus, Return, DropItem, DropExecution, Busy, ItemType, CopyType
  <2> QED
    BY <2>1, <2>2, <2>3, <2>4, <2>5
<1>14. ASSUME NEW p \in Procs, Start(p)
      PROVE  TypeOKEngine' /\ Focus'
  <2>1. QueueType'
    BY <1>14, ConstantsOK DEF Start, QueueType
  <2>2. RowType'
    BY <1>14, ConstantsOK DEF Start, RowType, Status, CopyType, Focus, Busy
  <2>3. ItemType'
    BY <1>14, ConstantsOK DEF Start, ItemType, QueueType
  <2>4. CopyType'
    BY <1>14, ConstantsOK DEF Start, CopyType, RowType
  <2>5. Focus'
    BY <1>14, ConstantsOK DEF Start, Focus, Busy, ItemType, CopyType
  <2> QED
    BY <2>1, <2>2, <2>3, <2>4, <2>5
<1>15. ASSUME NEW p \in Procs, Skip(p)
      PROVE  TypeOKEngine' /\ Focus'
  <2>1. QueueType'
    BY <1>15, ConstantsOK DEF Skip, QueueType, Return, DropItem, DropExecution
  <2>2. RowType'
    BY <1>15, ConstantsOK
       DEF Skip, RowType, Return, DropItem, DropExecution, Status, Terminal, CopyType,
           Focus, Busy
  <2>3. ItemType'
    <3>1. held[p] \in BOOLEAN /\ Return(p, held[p])
      BY <1>15 DEF Skip, ItemType
    <3> QED
      BY <3>1, ReturnType
  <2>4. CopyType'
    <3>1. DropExecution(p)
      BY <1>15 DEF Skip, Return, DropItem
    <3> QED
      BY <3>1, DropType
  <2>5. Focus'
    BY <1>15, ConstantsOK
       DEF Skip, Focus, Return, DropItem, DropExecution, Busy, ItemType, CopyType
  <2> QED
    BY <2>1, <2>2, <2>3, <2>4, <2>5
<1>16. ASSUME NEW p \in Procs, PassChecks(p)
      PROVE  TypeOKEngine' /\ Focus'
  <2>1. QueueType'
    BY <1>16, ConstantsOK DEF PassChecks, QueueType
  <2>2. RowType'
    BY <1>16, ConstantsOK DEF PassChecks, RowType
  <2>3. ItemType'
    BY <1>16, ConstantsOK DEF PassChecks, ItemType, QueueType
  <2>4. CopyType'
    BY <1>16, ConstantsOK DEF PassChecks, CopyType, RowType
  <2>5. Focus'
    BY <1>16, ConstantsOK DEF PassChecks, Focus, Busy, ItemType, CopyType
  <2> QED
    BY <2>1, <2>2, <2>3, <2>4, <2>5
<1>17. ASSUME NEW p \in Procs, RunAction(p)
      PROVE  TypeOKEngine' /\ Focus'
  <2>1. QueueType'
    BY <1>17, ConstantsOK DEF RunAction, QueueType
  <2>2. RowType'
    BY <1>17, ConstantsOK DEF RunAction, RowType, Effect, CopyType, Focus, Busy
  <2>3. ItemType'
    BY <1>17, ConstantsOK DEF RunAction, ItemType, QueueType
  <2>4. CopyType'
    BY <1>17, ConstantsOK DEF RunAction, CopyType, RowType
  <2>5. Focus'
    BY <1>17, ConstantsOK DEF RunAction, Focus, Busy, ItemType, CopyType
  <2> QED
    BY <2>1, <2>2, <2>3, <2>4, <2>5
<1>18. ASSUME NEW p \in Procs, RecordResult(p)
      PROVE  TypeOKEngine' /\ Focus'
  <2>1. QueueType'
    BY <1>18, ConstantsOK DEF RecordResult, QueueType
  <2>2. RowType'
    BY <1>18, ConstantsOK DEF RecordResult, RowType, Recorded, CopyType, Focus, Busy
  <2>3. ItemType'
    BY <1>18, ConstantsOK DEF RecordResult, ItemType, QueueType
  <2>4. CopyType'
    BY <1>18, ConstantsOK DEF RecordResult, CopyType, RowType
  <2>5. Focus'
    BY <1>18, ConstantsOK DEF RecordResult, Focus, Busy, ItemType, CopyType
  <2> QED
    BY <2>1, <2>2, <2>3, <2>4, <2>5
<1>19. ASSUME NEW p \in Procs, Succeed(p)
      PROVE  TypeOKEngine' /\ Focus'
  <2>1. QueueType'
    BY <1>19, ConstantsOK DEF Succeed, QueueType, Return, DropItem, DropExecution
  <2>2. RowType'
    BY <1>19, ConstantsOK
       DEF Succeed, RowType, Return, DropItem, DropExecution, Status, Terminal,
           CopyType, Focus, Busy
  <2>3. ItemType'
    <3>1. held[p] \in BOOLEAN /\ Return(p, held[p])
      BY <1>19 DEF Succeed, ItemType
    <3> QED
      BY <3>1, ReturnType
  <2>4. CopyType'
    <3>1. DropExecution(p)
      BY <1>19 DEF Succeed, Return, DropItem
    <3> QED
      BY <3>1, DropType
  <2>5. Focus'
    BY <1>19, ConstantsOK
       DEF Succeed, Focus, Return, DropItem, DropExecution, Busy, ItemType, CopyType
  <2> QED
    BY <2>1, <2>2, <2>3, <2>4, <2>5
<1>20. ASSUME NEW p \in Procs, Fail(p)
      PROVE  TypeOKEngine' /\ Focus'
  <2>1. QueueType'
    BY <1>20, ConstantsOK
       DEF Fail, QueueType, Return, DropItem, DropExecution, FailAndReturn
  <2>2. RowType'
    BY <1>20, ConstantsOK
       DEF Fail, RowType, Return, DropItem, DropExecution, FailAndReturn, Recorded,
           FailedStatus, Status, Retryable, Terminal, CopyType, Focus, Busy
  <2>3. ItemType'
    <3>1. held[p] \in BOOLEAN /\ FailAndReturn(p, results'[ex[p]], held[p])
      BY <1>20 DEF Fail, ItemType
    <3> QED
      BY <3>1, FailType
  <2>4. CopyType'
    <3>1. \/ DropExecution(p)
          \/ done' = [done EXCEPT ![p] = results'[ex[p]]] /\ UNCHANGED <<ex, on, tries>>
      BY <1>20 DEF Fail, FailAndReturn, Return, DropItem
    <3>2. results'[ex[p]] \in SUBSET Actions
      BY <1>20, <2>2 DEF Fail, Focus, Busy, RowType
    <3> QED
      BY <3>1, <3>2, DropType DEF CopyType
  <2>5. Focus'
    BY <1>20, ConstantsOK
       DEF Fail, Focus, Return, DropItem, DropExecution, FailAndReturn, Busy, ItemType,
           CopyType
  <2> QED
    BY <2>1, <2>2, <2>3, <2>4, <2>5
<1>21. ASSUME NEW p \in Procs, PersistFailure(p)
      PROVE  TypeOKEngine' /\ Focus'
  <2>1. QueueType'
    BY <1>21, ConstantsOK DEF PersistFailure, QueueType, Return, DropItem, DropExecution
  <2>2. RowType'
    BY <1>21, ConstantsOK
       DEF PersistFailure, RowType, Return, DropItem, DropExecution, Recorded,
           CopyType, Focus, Busy
  <2>3. ItemType'
    <3>1. held[p] \in BOOLEAN /\ Return(p, held[p])
      BY <1>21 DEF PersistFailure, ItemType
    <3> QED
      BY <3>1, ReturnType
  <2>4. CopyType'
    <3>1. DropExecution(p)
      BY <1>21 DEF PersistFailure, Return, DropItem
    <3> QED
      BY <3>1, DropType
  <2>5. Focus'
    BY <1>21, ConstantsOK
       DEF PersistFailure, Focus, Return, DropItem, DropExecution, Busy, ItemType,
           CopyType
  <2> QED
    BY <2>1, <2>2, <2>3, <2>4, <2>5
<1>22. ASSUME NEW p \in Procs, Break(p)
      PROVE  TypeOKEngine' /\ Focus'
  <2>1. QueueType'
    BY <1>22, ConstantsOK
       DEF Break, QueueType, Return, DropItem, DropExecution, FailAndReturn, Fault
  <2>2. RowType'
    <3>1. ex[p] \in Execs
      BY <1>22 DEF Break, Focus, Busy
    <3>2. ran' \subseteq Execs \X Actions /\ twice' \subseteq ran'
      <4>1. UNCHANGED effects \/ \E i \in Actions : Effect(ex[p], i)
        BY <1>22 DEF Break
      <4>2. CASE UNCHANGED effects
        BY <4>2 DEF RowType
      <4>3. ASSUME NEW i \in Actions, Effect(ex[p], i)
            PROVE  ran' \subseteq Execs \X Actions /\ twice' \subseteq ran'
        BY <4>3, <3>1 DEF Effect, RowType
      <4> QED
        BY <4>1, <4>2, <4>3
    <3>3. FailedStatus(attempt[ex[p]], results[ex[p]]) \in Status
      BY DEF FailedStatus, Status, Retryable, Terminal
    <3> QED
      BY <1>22, <3>1, <3>2, <3>3 DEF Break, RowType
  <2>3. ItemType'
    <3>1. FailAndReturn(p, results[ex[p]], FALSE)
      BY <1>22 DEF Break
    <3> QED
      BY <3>1, FailType
  <2>4. CopyType'
    <3>1. \/ DropExecution(p)
          \/ done' = [done EXCEPT ![p] = results[ex[p]]] /\ UNCHANGED <<ex, on, tries>>
      BY <1>22 DEF Break, FailAndReturn, Return, DropItem
    <3>2. results[ex[p]] \in SUBSET Actions
      BY <1>22, <2>2 DEF Break, Focus, Busy, RowType
    <3> QED
      BY <3>1, <3>2, DropType DEF CopyType
  <2>5. Focus'
    BY <1>22, ConstantsOK
       DEF Break, Focus, Return, DropItem, DropExecution, FailAndReturn, Busy,
           ItemType, CopyType
  <2> QED
    BY <2>1, <2>2, <2>3, <2>4, <2>5
<1>23. ASSUME NEW p \in Procs, DispatchFails(p)
      PROVE  TypeOKEngine' /\ Focus'
  <2>1. QueueType'
    <3>1. faults' \in 0..MaxFaults
      BY <1>23, ConstantsOK DEF DispatchFails, Fault, QueueType
    <3> QED
      BY <1>23, <3>1 DEF DispatchFails, QueueType
  <2>2. RowType'
    BY <1>23, ConstantsOK DEF DispatchFails, RowType, Return, DropItem, DropExecution
  <2>3. ItemType'
    BY <1>23, ConstantsOK
       DEF DispatchFails, ItemType, Return, DropItem, DropExecution, QueueType
  <2>4. CopyType'
    BY <1>23, ConstantsOK
       DEF DispatchFails, CopyType, Return, DropItem, DropExecution, RowType
  <2>5. Focus'
    BY <1>23, ConstantsOK
       DEF DispatchFails, Focus, Return, DropItem, DropExecution, Busy, ItemType,
           CopyType
  <2> QED
    BY <2>1, <2>2, <2>3, <2>4, <2>5
<1>24. ASSUME NEW p \in Procs, Crash(p)
      PROVE  TypeOKEngine' /\ Focus'
  <2>1. QueueType'
    BY <1>24, ConstantsOK DEF Crash, QueueType, Return, DropItem, DropExecution, Fault
  <2>2. RowType'
    BY <1>24, ConstantsOK DEF Crash, RowType, Return, DropItem, DropExecution
  <2>3. ItemType'
    BY <1>24, ConstantsOK
       DEF Crash, ItemType, Return, DropItem, DropExecution, QueueType
  <2>4. CopyType'
    BY <1>24, ConstantsOK DEF Crash, CopyType, Return, DropItem, DropExecution, RowType
  <2>5. Focus'
    BY <1>24, ConstantsOK
       DEF Crash, Focus, Return, DropItem, DropExecution, Busy, ItemType, CopyType
  <2> QED
    BY <2>1, <2>2, <2>3, <2>4, <2>5
<1>25. CASE UNCHANGED varsEngine
  BY <1>25 DEF varsEngine, QueueType, RowType, ItemType, CopyType, Focus
<1> QED
  BY <1>1, <1>2, <1>3, <1>4, <1>5, <1>6, <1>7, <1>8, <1>9, <1>10, <1>11, <1>12, <1>13,
     <1>14, <1>15, <1>16, <1>17, <1>18, <1>19, <1>20, <1>21, <1>22, <1>23, <1>24, <1>25
     DEF NextEngine, Environment, Claim, Step, FaultStep

(* Every variable keeps its type, whatever the bounds and the faults. *)
THEOREM EngineTypes == SpecEngine => []TypeOKEngine
<1>1. InitEngine => TypeOKEngine /\ Focus
  BY TypeInit
<1>2. (TypeOKEngine /\ Focus) /\ [NextEngine]_varsEngine => (TypeOKEngine /\ Focus)'
  BY TypeStep
<1> QED
  BY <1>1, <1>2, PTL DEF SpecEngine

-----------------------------------------------------------------------------
(* Results and effects *)

ResultsHappened ==
    \A x \in Execs : \A i \in results[x] : <<x, i>> \in ran

CopiesHappened ==
    \A p \in Procs : pc[p] \in Busy \cup {"claimed"} =>
      \A i \in done[p] : <<ex[p], i>> \in ran

RecordHappened ==
    \A p \in Procs : pc[p] = "record" =>
      \A i \in Actions : IsFirst(p, i) => <<ex[p], i>> \in ran

DoneInv == ResultsHappened /\ CopiesHappened /\ RecordHappened /\ SucceededMeansDone

(* No step undoes an effect. *)
LEMMA RanGrows ==
  ASSUME [NextEngine]_varsEngine
  PROVE  ran \subseteq ran'
<1> USE DEF rules, queue, rows, effects, local
<1>1. ASSUME NEW r \in Rules, EditRule(r)
      PROVE  ran \subseteq ran'
  BY <1>1 DEF EditRule
<1>2. ASSUME NEW r \in Rules, ToggleRule(r)
      PROVE  ran \subseteq ran'
  BY <1>2 DEF ToggleRule
<1>3. ASSUME NEW e \in Events, QueueEvent(e)
      PROVE  ran \subseteq ran'
  BY <1>3 DEF QueueEvent
<1>4. ASSUME NEW e \in Events, EventDue(e)
      PROVE  ran \subseteq ran'
  BY <1>4 DEF EventDue
<1>5. ASSUME NEW x \in Execs, RetryDue(x)
      PROVE  ran \subseteq ran'
  BY <1>5 DEF RetryDue
<1>6. ASSUME NEW x \in Execs, RetryExecution(x)
      PROVE  ran \subseteq ran'
  BY <1>6
     DEF RetryExecution
<1>7. ASSUME NEW p \in Callers, NEW r \in Rules,
         NEW e \in Events, ManualRun(p, r, e)
      PROVE  ran \subseteq ran'
  BY <1>7
     DEF ManualRun
<1>8. ASSUME NEW p \in WorkerLoops, NEW e \in Events, ClaimEvent(p, e)
      PROVE  ran \subseteq ran'
  BY <1>8
     DEF ClaimEvent
<1>9. ASSUME NEW p \in WorkerLoops, NEW x \in Execs, ClaimRetry(p, x)
      PROVE  ran \subseteq ran'
  BY <1>9 DEF ClaimRetry, ReadRow
<1>10. ASSUME NEW p \in Procs, Dispatch(p)
      PROVE  ran \subseteq ran'
  BY <1>10 DEF Dispatch
<1>11. ASSUME NEW p \in Procs, TakeRule(p)
      PROVE  ran \subseteq ran'
  BY <1>11 DEF TakeRule
<1>12. ASSUME NEW p \in Procs, CloseEvent(p)
      PROVE  ran \subseteq ran'
  BY <1>12 DEF CloseEvent
<1>13. ASSUME NEW p \in Procs, BeginRetry(p)
      PROVE  ran \subseteq ran'
  BY <1>13 DEF BeginRetry
<1>14. ASSUME NEW p \in Procs, Start(p)
      PROVE  ran \subseteq ran'
  BY <1>14 DEF Start
<1>15. ASSUME NEW p \in Procs, Skip(p)
      PROVE  ran \subseteq ran'
  BY <1>15 DEF Skip
<1>16. ASSUME NEW p \in Procs, PassChecks(p)
      PROVE  ran \subseteq ran'
  BY <1>16 DEF PassChecks
<1>17. ASSUME NEW p \in Procs, RunAction(p)
      PROVE  ran \subseteq ran'
  BY <1>17 DEF RunAction, Effect
<1>18. ASSUME NEW p \in Procs, RecordResult(p)
      PROVE  ran \subseteq ran'
  BY <1>18 DEF RecordResult, Recorded
<1>19. ASSUME NEW p \in Procs, Succeed(p)
      PROVE  ran \subseteq ran'
  BY <1>19 DEF Succeed
<1>20. ASSUME NEW p \in Procs, Fail(p)
      PROVE  ran \subseteq ran'
  BY <1>20
     DEF Fail, FailAndReturn, Recorded
<1>21. ASSUME NEW p \in Procs, PersistFailure(p)
      PROVE  ran \subseteq ran'
  BY <1>21 DEF PersistFailure, Recorded
<1>22. ASSUME NEW p \in Procs, Break(p)
      PROVE  ran \subseteq ran'
  BY <1>22
     DEF Break, FailAndReturn, Effect
<1>23. ASSUME NEW p \in Procs, DispatchFails(p)
      PROVE  ran \subseteq ran'
  BY <1>23 DEF DispatchFails
<1>24. ASSUME NEW p \in Procs, Crash(p)
      PROVE  ran \subseteq ran'
  BY <1>24 DEF Crash
<1>25. CASE UNCHANGED varsEngine
  BY <1>25 DEF varsEngine
<1> QED
  BY <1>1, <1>2, <1>3, <1>4, <1>5, <1>6, <1>7, <1>8, <1>9, <1>10, <1>11, <1>12, <1>13,
     <1>14, <1>15, <1>16, <1>17, <1>18, <1>19, <1>20, <1>21, <1>22, <1>23, <1>24, <1>25
     DEF NextEngine, Environment, Claim, Step, FaultStep

LEMMA DoneInit == InitEngine => DoneInv
BY
   DEF InitEngine, DoneInv, ResultsHappened, CopiesHappened, RecordHappened,
       SucceededMeansDone, Busy

LEMMA DoneStep ==
  ASSUME TypeOKEngine, Focus, DoneInv, [NextEngine]_varsEngine
  PROVE  DoneInv'
<1> USE RanGrows DEF DoneInv, Procs, rules, queue, rows, effects, local
<1>1. ASSUME NEW r \in Rules, EditRule(r)
      PROVE  DoneInv'
  <2>1. ResultsHappened'
    BY <1>1 DEF EditRule, ResultsHappened
  <2>2. CopiesHappened'
    BY <1>1 DEF EditRule, CopiesHappened
  <2>3. RecordHappened'
    BY <1>1 DEF EditRule, IsFirst, Pending, RecordHappened
  <2>4. SucceededMeansDone'
    BY <1>1 DEF EditRule, SucceededMeansDone
  <2> QED
    BY <2>1, <2>2, <2>3, <2>4
<1>2. ASSUME NEW r \in Rules, ToggleRule(r)
      PROVE  DoneInv'
  <2>1. ResultsHappened'
    BY <1>2 DEF ToggleRule, ResultsHappened
  <2>2. CopiesHappened'
    BY <1>2 DEF ToggleRule, CopiesHappened
  <2>3. RecordHappened'
    BY <1>2 DEF ToggleRule, IsFirst, Pending, RecordHappened
  <2>4. SucceededMeansDone'
    BY <1>2 DEF ToggleRule, SucceededMeansDone
  <2> QED
    BY <2>1, <2>2, <2>3, <2>4
<1>3. ASSUME NEW e \in Events, QueueEvent(e)
      PROVE  DoneInv'
  <2>1. ResultsHappened'
    BY <1>3 DEF QueueEvent, ResultsHappened
  <2>2. CopiesHappened'
    BY <1>3 DEF QueueEvent, CopiesHappened
  <2>3. RecordHappened'
    BY <1>3 DEF QueueEvent, IsFirst, Pending, RecordHappened
  <2>4. SucceededMeansDone'
    BY <1>3 DEF QueueEvent, SucceededMeansDone
  <2> QED
    BY <2>1, <2>2, <2>3, <2>4
<1>4. ASSUME NEW e \in Events, EventDue(e)
      PROVE  DoneInv'
  <2>1. ResultsHappened'
    BY <1>4 DEF EventDue, ResultsHappened
  <2>2. CopiesHappened'
    BY <1>4 DEF EventDue, CopiesHappened
  <2>3. RecordHappened'
    BY <1>4 DEF EventDue, IsFirst, Pending, RecordHappened
  <2>4. SucceededMeansDone'
    BY <1>4 DEF EventDue, SucceededMeansDone
  <2> QED
    BY <2>1, <2>2, <2>3, <2>4
<1>5. ASSUME NEW x \in Execs, RetryDue(x)
      PROVE  DoneInv'
  <2>1. ResultsHappened'
    BY <1>5
       DEF RetryDue, ResultsHappened, TypeOKEngine, RowType, CopyType, Focus, Busy,
           CopiesHappened, RecordHappened
  <2>2. CopiesHappened'
    BY <1>5 DEF RetryDue, CopiesHappened
  <2>3. RecordHappened'
    BY <1>5 DEF RetryDue, IsFirst, Pending, RecordHappened
  <2>4. SucceededMeansDone'
    BY <1>5
       DEF RetryDue, SucceededMeansDone, TypeOKEngine, RowType, CopyType, Focus, Busy,
           CopiesHappened
  <2> QED
    BY <2>1, <2>2, <2>3, <2>4
<1>6. ASSUME NEW x \in Execs, RetryExecution(x)
      PROVE  DoneInv'
  <2>1. ResultsHappened'
    BY <1>6
       DEF RetryExecution, ResultsHappened, TypeOKEngine, RowType, CopyType, Focus, Busy,
           CopiesHappened, RecordHappened
  <2>2. CopiesHappened'
    BY <1>6 DEF RetryExecution, CopiesHappened
  <2>3. RecordHappened'
    BY <1>6 DEF RetryExecution, IsFirst, Pending, RecordHappened
  <2>4. SucceededMeansDone'
    BY <1>6
       DEF RetryExecution, SucceededMeansDone, TypeOKEngine, RowType, CopyType, Focus, Busy,
           CopiesHappened
  <2> QED
    BY <2>1, <2>2, <2>3, <2>4
<1>7. ASSUME NEW p \in Callers, NEW r \in Rules, NEW e \in Events, ManualRun(p, r, e)
      PROVE  DoneInv'
  <2>1. ResultsHappened'
    BY <1>7 DEF ManualRun, ResultsHappened
  <2>2. CopiesHappened'
    BY <1>7
       DEF ManualRun, CopiesHappened, TypeOKEngine, ItemType, CopyType, Focus, Busy,
           RecordHappened, RowType, ResultsHappened
  <2>3. RecordHappened'
    BY <1>7
       DEF ManualRun, RecordHappened, TypeOKEngine, ItemType, CopyType, Busy, IsFirst,
           Pending
  <2>4. SucceededMeansDone'
    BY <1>7 DEF ManualRun, SucceededMeansDone
  <2> QED
    BY <2>1, <2>2, <2>3, <2>4
<1>8. ASSUME NEW p \in WorkerLoops, NEW e \in Events, ClaimEvent(p, e)
      PROVE  DoneInv'
  <2>1. ResultsHappened'
    BY <1>8 DEF ClaimEvent, ResultsHappened
  <2>2. CopiesHappened'
    BY <1>8
       DEF ClaimEvent, CopiesHappened, TypeOKEngine, ItemType, CopyType, Focus, Busy,
           RecordHappened, RowType, ResultsHappened
  <2>3. RecordHappened'
    BY <1>8
       DEF ClaimEvent, RecordHappened, TypeOKEngine, ItemType, CopyType, Busy, IsFirst,
           Pending
  <2>4. SucceededMeansDone'
    BY <1>8 DEF ClaimEvent, SucceededMeansDone
  <2> QED
    BY <2>1, <2>2, <2>3, <2>4
<1>9. ASSUME NEW p \in WorkerLoops, NEW x \in Execs, ClaimRetry(p, x)
      PROVE  DoneInv'
  <2>1. ResultsHappened'
    BY <1>9
       DEF ClaimRetry, ReadRow, ResultsHappened, TypeOKEngine, RowType, CopyType, Focus,
           Busy, CopiesHappened, RecordHappened
  <2>2. CopiesHappened'
    BY <1>9
       DEF ClaimRetry, ReadRow, CopiesHappened, TypeOKEngine, ItemType, CopyType, Focus,
           Busy, RecordHappened, RowType, ResultsHappened
  <2>3. RecordHappened'
    BY <1>9
       DEF ClaimRetry, ReadRow, RecordHappened, TypeOKEngine, ItemType, CopyType, Busy,
           IsFirst, Pending
  <2>4. SucceededMeansDone'
    BY <1>9
       DEF ClaimRetry, ReadRow, SucceededMeansDone, TypeOKEngine, RowType, CopyType, Focus,
           Busy, CopiesHappened
  <2> QED
    BY <2>1, <2>2, <2>3, <2>4
<1>10. ASSUME NEW p \in Procs, Dispatch(p)
      PROVE  DoneInv'
  <2>1. ResultsHappened'
    BY <1>10 DEF Dispatch, ResultsHappened
  <2>2. CopiesHappened'
    BY <1>10
       DEF Dispatch, CopiesHappened, TypeOKEngine, ItemType, CopyType, Focus, Busy,
           RecordHappened, RowType, ResultsHappened
  <2>3. RecordHappened'
    BY <1>10
       DEF Dispatch, RecordHappened, TypeOKEngine, ItemType, CopyType, Busy, IsFirst, Pending
  <2>4. SucceededMeansDone'
    BY <1>10 DEF Dispatch, SucceededMeansDone
  <2> QED
    BY <2>1, <2>2, <2>3, <2>4
<1>11. ASSUME NEW p \in Procs, TakeRule(p)
      PROVE  DoneInv'
  <2>0. PICK m \in todo[p], x \in Execs, b \in BOOLEAN : Taken(p, m, x, b)
    BY <1>11, TakenRule
  <2>1. ResultsHappened'
    BY <1>11, <2>0
       DEF TakeRule, Taken, ReadRow, ResultsHappened, TypeOKEngine, RowType, CopyType, Focus,
           Busy, CopiesHappened, RecordHappened
  <2>2. CopiesHappened'
    BY <1>11, <2>0
       DEF TakeRule, Taken, ReadRow, CopiesHappened, TypeOKEngine, ItemType, CopyType, Focus,
           Busy, RecordHappened, RowType, ResultsHappened
  <2>3. RecordHappened'
    BY <1>11, <2>0
       DEF TakeRule, Taken, ReadRow, RecordHappened, TypeOKEngine, ItemType, CopyType, Busy,
           IsFirst, Pending
  <2>4. SucceededMeansDone'
    BY <1>11, <2>0
       DEF TakeRule, Taken, ReadRow, SucceededMeansDone, TypeOKEngine, RowType, CopyType,
           Focus, Busy, CopiesHappened
  <2> QED
    BY <2>1, <2>2, <2>3, <2>4
<1>12. ASSUME NEW p \in Procs, CloseEvent(p)
      PROVE  DoneInv'
  <2>1. ResultsHappened'
    BY <1>12 DEF CloseEvent, Return, DropItem, DropExecution, ResultsHappened
  <2>2. CopiesHappened'
    BY <1>12
       DEF CloseEvent, Return, DropItem, DropExecution, CopiesHappened, TypeOKEngine,
           ItemType, CopyType, Focus, Busy, RecordHappened, RowType, ResultsHappened
  <2>3. RecordHappened'
    BY <1>12
       DEF CloseEvent, Return, DropItem, DropExecution, RecordHappened, TypeOKEngine,
           ItemType, CopyType, Busy, IsFirst, Pending
  <2>4. SucceededMeansDone'
    BY <1>12 DEF CloseEvent, Return, DropItem, DropExecution, SucceededMeansDone
  <2> QED
    BY <2>1, <2>2, <2>3, <2>4
<1>13. ASSUME NEW p \in Procs, BeginRetry(p)
      PROVE  DoneInv'
  <2>1. ResultsHappened'
    BY <1>13
       DEF BeginRetry, Return, DropItem, DropExecution, ResultsHappened, TypeOKEngine,
           RowType, CopyType, Focus, Busy, CopiesHappened, RecordHappened
  <2>2. CopiesHappened'
    BY <1>13
       DEF BeginRetry, Return, DropItem, DropExecution, CopiesHappened, TypeOKEngine,
           ItemType, CopyType, Focus, Busy, RecordHappened, RowType, ResultsHappened
  <2>3. RecordHappened'
    BY <1>13
       DEF BeginRetry, Return, DropItem, DropExecution, RecordHappened, TypeOKEngine,
           ItemType, CopyType, Busy, IsFirst, Pending
  <2>4. SucceededMeansDone'
    BY <1>13
       DEF BeginRetry, Return, DropItem, DropExecution, SucceededMeansDone, TypeOKEngine,
           RowType, CopyType, Focus, Busy, CopiesHappened
  <2> QED
    BY <2>1, <2>2, <2>3, <2>4
<1>14. ASSUME NEW p \in Procs, Start(p)
      PROVE  DoneInv'
  <2>1. ResultsHappened'
    BY <1>14
       DEF Start, ResultsHappened, TypeOKEngine, RowType, CopyType, Focus, Busy,
           CopiesHappened, RecordHappened
  <2>2. CopiesHappened'
    BY <1>14
       DEF Start, CopiesHappened, TypeOKEngine, ItemType, CopyType, Focus, Busy,
           RecordHappened, RowType, ResultsHappened
  <2>3. RecordHappened'
    BY <1>14
       DEF Start, RecordHappened, TypeOKEngine, ItemType, CopyType, Busy, IsFirst, Pending
  <2>4. SucceededMeansDone'
    BY <1>14
       DEF Start, SucceededMeansDone, TypeOKEngine, RowType, CopyType, Focus, Busy,
           CopiesHappened
  <2> QED
    BY <2>1, <2>2, <2>3, <2>4
<1>15. ASSUME NEW p \in Procs, Skip(p)
      PROVE  DoneInv'
  <2>1. ResultsHappened'
    BY <1>15
       DEF Skip, Return, DropItem, DropExecution, ResultsHappened, TypeOKEngine, RowType,
           CopyType, Focus, Busy, CopiesHappened, RecordHappened
  <2>2. CopiesHappened'
    BY <1>15
       DEF Skip, Return, DropItem, DropExecution, CopiesHappened, TypeOKEngine, ItemType,
           CopyType, Focus, Busy, RecordHappened, RowType, ResultsHappened
  <2>3. RecordHappened'
    BY <1>15
       DEF Skip, Return, DropItem, DropExecution, RecordHappened, TypeOKEngine, ItemType,
           CopyType, Busy, IsFirst, Pending
  <2>4. SucceededMeansDone'
    BY <1>15
       DEF Skip, Return, DropItem, DropExecution, SucceededMeansDone, TypeOKEngine, RowType,
           CopyType, Focus, Busy, CopiesHappened
  <2> QED
    BY <2>1, <2>2, <2>3, <2>4
<1>16. ASSUME NEW p \in Procs, PassChecks(p)
      PROVE  DoneInv'
  <2>1. ResultsHappened'
    BY <1>16 DEF PassChecks, ResultsHappened
  <2>2. CopiesHappened'
    BY <1>16
       DEF PassChecks, CopiesHappened, TypeOKEngine, ItemType, CopyType, Focus, Busy,
           RecordHappened, RowType, ResultsHappened
  <2>3. RecordHappened'
    BY <1>16
       DEF PassChecks, RecordHappened, TypeOKEngine, ItemType, CopyType, Busy, IsFirst,
           Pending
  <2>4. SucceededMeansDone'
    BY <1>16 DEF PassChecks, SucceededMeansDone
  <2> QED
    BY <2>1, <2>2, <2>3, <2>4
<1>17. ASSUME NEW p \in Procs, RunAction(p)
      PROVE  DoneInv'
  <2>1. ResultsHappened'
    BY <1>17
       DEF RunAction, Effect, ResultsHappened, TypeOKEngine, RowType, CopyType, Focus, Busy,
           CopiesHappened, RecordHappened
  <2>2. CopiesHappened'
    BY <1>17
       DEF RunAction, Effect, CopiesHappened, TypeOKEngine, ItemType, CopyType, Focus, Busy,
           RecordHappened, RowType, ResultsHappened
  <2>3. RecordHappened'
    <3>1. PICK i \in Actions : IsFirst(p, i) /\ Effect(ex[p], i)
      BY <1>17 DEF RunAction
    <3>2. \A j \in Actions : IsFirst(p, j) => j = i
      BY <3>1 DEF IsFirst, Pending, Actions
    <3>3. <<ex[p], i>> \in ran'
      BY <3>1 DEF Effect
    <3>4. \A q \in Procs, j \in Actions : IsFirst(q, j)' <=> IsFirst(q, j)
      BY <1>17 DEF RunAction, IsFirst, Pending
    <3>5. \A q \in Procs : q # p => pc'[q] = pc[q]
      BY <1>17 DEF RunAction, TypeOKEngine, ItemType
    <3> QED
      BY <1>17, <3>2, <3>3, <3>4, <3>5 DEF RunAction, RecordHappened
  <2>4. SucceededMeansDone'
    BY <1>17
       DEF RunAction, Effect, SucceededMeansDone, TypeOKEngine, RowType, CopyType, Focus,
           Busy, CopiesHappened
  <2> QED
    BY <2>1, <2>2, <2>3, <2>4
<1>18. ASSUME NEW p \in Procs, RecordResult(p)
      PROVE  DoneInv'
  <2>1. ResultsHappened'
    <3>1. PICK i \in Actions : IsFirst(p, i) /\ results' = Recorded(ex[p], done[p] \cup {i})
      BY <1>18 DEF RecordResult
    <3>2. <<ex[p], i>> \in ran
      BY <1>18, <3>1 DEF RecordResult, RecordHappened
    <3>3. \A j \in done[p] : <<ex[p], j>> \in ran
      BY <1>18 DEF RecordResult, CopiesHappened, Busy
    <3> QED
      BY <3>1, <3>2, <3>3 DEF Recorded, ResultsHappened, TypeOKEngine, RowType
  <2>2. CopiesHappened'
    BY <1>18
       DEF RecordResult, Recorded, CopiesHappened, TypeOKEngine, ItemType, CopyType, Focus,
           Busy, RecordHappened, RowType, ResultsHappened
  <2>3. RecordHappened'
    BY <1>18
       DEF RecordResult, Recorded, RecordHappened, TypeOKEngine, ItemType, CopyType, Busy,
           IsFirst, Pending
  <2>4. SucceededMeansDone'
    BY <1>18
       DEF RecordResult, Recorded, SucceededMeansDone, TypeOKEngine, RowType, CopyType,
           Focus, Busy, CopiesHappened
  <2> QED
    BY <2>1, <2>2, <2>3, <2>4
<1>19. ASSUME NEW p \in Procs, Succeed(p)
      PROVE  DoneInv'
  <2>1. ResultsHappened'
    BY <1>19
       DEF Succeed, Return, DropItem, DropExecution, ResultsHappened, TypeOKEngine, RowType,
           CopyType, Focus, Busy, CopiesHappened, RecordHappened
  <2>2. CopiesHappened'
    BY <1>19
       DEF Succeed, Return, DropItem, DropExecution, CopiesHappened, TypeOKEngine, ItemType,
           CopyType, Focus, Busy, RecordHappened, RowType, ResultsHappened
  <2>3. RecordHappened'
    BY <1>19
       DEF Succeed, Return, DropItem, DropExecution, RecordHappened, TypeOKEngine, ItemType,
           CopyType, Busy, IsFirst, Pending
  <2>4. SucceededMeansDone'
    BY <1>19
       DEF Succeed, Return, DropItem, DropExecution, Pending, SucceededMeansDone,
           TypeOKEngine, RowType, CopyType, Focus, Busy, CopiesHappened
  <2> QED
    BY <2>1, <2>2, <2>3, <2>4
<1>20. ASSUME NEW p \in Procs, Fail(p)
      PROVE  DoneInv'
  <2>1. ResultsHappened'
    BY <1>20
       DEF Fail, FailAndReturn, Recorded, Return, DropItem, DropExecution,
           ResultsHappened, TypeOKEngine, RowType, CopyType, Focus, Busy, CopiesHappened,
           RecordHappened
  <2>2. CopiesHappened'
    BY <1>20
       DEF Fail, FailAndReturn, Recorded, Return, DropItem, DropExecution,
           CopiesHappened, TypeOKEngine, ItemType, CopyType, Focus, Busy, RecordHappened,
           RowType, ResultsHappened
  <2>3. RecordHappened'
    BY <1>20
       DEF Fail, FailAndReturn, Recorded, Return, DropItem, DropExecution,
           RecordHappened, TypeOKEngine, ItemType, CopyType, Busy, IsFirst, Pending
  <2>4. SucceededMeansDone'
    BY <1>20
       DEF Fail, FailAndReturn, Recorded, Return, DropItem, DropExecution,
           FailedStatus, SucceededMeansDone, TypeOKEngine, RowType, CopyType, Focus, Busy,
           CopiesHappened
  <2> QED
    BY <2>1, <2>2, <2>3, <2>4
<1>21. ASSUME NEW p \in Procs, PersistFailure(p)
      PROVE  DoneInv'
  <2>1. ResultsHappened'
    BY <1>21
       DEF PersistFailure, Recorded, Return, DropItem, DropExecution, ResultsHappened,
           TypeOKEngine, RowType, CopyType, Focus, Busy, CopiesHappened, RecordHappened
  <2>2. CopiesHappened'
    BY <1>21
       DEF PersistFailure, Recorded, Return, DropItem, DropExecution, CopiesHappened,
           TypeOKEngine, ItemType, CopyType, Focus, Busy, RecordHappened, RowType,
           ResultsHappened
  <2>3. RecordHappened'
    BY <1>21
       DEF PersistFailure, Recorded, Return, DropItem, DropExecution, RecordHappened,
           TypeOKEngine, ItemType, CopyType, Busy, IsFirst, Pending
  <2>4. SucceededMeansDone'
    BY <1>21
       DEF PersistFailure, Recorded, Return, DropItem, DropExecution,
           SucceededMeansDone, TypeOKEngine, RowType, CopyType, Focus, Busy, CopiesHappened
  <2> QED
    BY <2>1, <2>2, <2>3, <2>4
<1>22. ASSUME NEW p \in Procs, Break(p)
      PROVE  DoneInv'
  <2>1. ResultsHappened'
    BY <1>22
       DEF Break, FailAndReturn, Effect, Return, DropItem, DropExecution,
           ResultsHappened, TypeOKEngine, RowType, CopyType, Focus, Busy, CopiesHappened,
           RecordHappened
  <2>2. CopiesHappened'
    BY <1>22
       DEF Break, FailAndReturn, Effect, Return, DropItem, DropExecution,
           CopiesHappened, TypeOKEngine, ItemType, CopyType, Focus, Busy, RecordHappened,
           RowType, ResultsHappened
  <2>3. RecordHappened'
    BY <1>22
       DEF Break, FailAndReturn, Effect, Return, DropItem, DropExecution,
           RecordHappened, TypeOKEngine, ItemType, CopyType, Busy, IsFirst, Pending
  <2>4. SucceededMeansDone'
    BY <1>22
       DEF Break, FailAndReturn, Effect, Return, DropItem, DropExecution, FailedStatus,
           SucceededMeansDone, TypeOKEngine, RowType, CopyType, Focus, Busy, CopiesHappened
  <2> QED
    BY <2>1, <2>2, <2>3, <2>4
<1>23. ASSUME NEW p \in Procs, DispatchFails(p)
      PROVE  DoneInv'
  <2>1. ResultsHappened'
    BY <1>23 DEF DispatchFails, Return, DropItem, DropExecution, ResultsHappened
  <2>2. CopiesHappened'
    BY <1>23
       DEF DispatchFails, Return, DropItem, DropExecution, CopiesHappened, TypeOKEngine,
           ItemType, CopyType, Focus, Busy, RecordHappened, RowType, ResultsHappened
  <2>3. RecordHappened'
    BY <1>23
       DEF DispatchFails, Return, DropItem, DropExecution, RecordHappened, TypeOKEngine,
           ItemType, CopyType, Busy, IsFirst, Pending
  <2>4. SucceededMeansDone'
    BY <1>23 DEF DispatchFails, Return, DropItem, DropExecution, SucceededMeansDone
  <2> QED
    BY <2>1, <2>2, <2>3, <2>4
<1>24. ASSUME NEW p \in Procs, Crash(p)
      PROVE  DoneInv'
  <2>1. ResultsHappened'
    BY <1>24 DEF Crash, Return, DropItem, DropExecution, ResultsHappened
  <2>2. CopiesHappened'
    BY <1>24
       DEF Crash, Return, DropItem, DropExecution, CopiesHappened, TypeOKEngine, ItemType,
           CopyType, Focus, Busy, RecordHappened, RowType, ResultsHappened
  <2>3. RecordHappened'
    BY <1>24
       DEF Crash, Return, DropItem, DropExecution, RecordHappened, TypeOKEngine, ItemType,
           CopyType, Busy, IsFirst, Pending
  <2>4. SucceededMeansDone'
    BY <1>24 DEF Crash, Return, DropItem, DropExecution, SucceededMeansDone
  <2> QED
    BY <2>1, <2>2, <2>3, <2>4
<1>25. CASE UNCHANGED varsEngine
  BY <1>25
     DEF varsEngine, ResultsHappened, CopiesHappened, RecordHappened, SucceededMeansDone,
         IsFirst, Pending
<1> QED
  BY <1>1, <1>2, <1>3, <1>4, <1>5, <1>6, <1>7, <1>8, <1>9, <1>10, <1>11, <1>12, <1>13,
     <1>14, <1>15, <1>16, <1>17, <1>18, <1>19, <1>20, <1>21, <1>22, <1>23, <1>24, <1>25
     DEF NextEngine, Environment, Claim, Step, FaultStep

(* An execution marked succeeded has run every action of its rule, however   *)
(* often processes crashed, overlapped or overwrote each other's results     *)
(* (execute_rule_for_event skips an action only for a recorded success).     *)
THEOREM SuccessIsReal == SpecEngine => []SucceededMeansDone
<1>1. InitEngine => TypeOKEngine /\ Focus /\ DoneInv
  BY TypeInit, DoneInit
<1>2. (TypeOKEngine /\ Focus /\ DoneInv) /\ [NextEngine]_varsEngine => (TypeOKEngine /\ Focus /\ DoneInv)'
  BY TypeStep, DoneStep
<1>3. DoneInv => SucceededMeansDone
  BY DEF DoneInv
<1> QED
  BY <1>1, <1>2, <1>3, PTL DEF SpecEngine

-----------------------------------------------------------------------------
(* Events and executions *)

Started(x) == status[x] \notin {"none", "queued"}
RanFor(r, e) == \E v \in Versions : Started(<<r, v, e>>)

(* In the hands of p: the rule of the execution it is running. *)
InHand(p, r) == pc[p] \in Busy /\ \E v \in Versions : ex[p] = <<r, v, event[p]>>

AlwaysOn == \A r \in Rules \ Toggled : ron[r]

HeldEvents ==
    \A p \in Procs :
      /\ kind[p] \in {"event", "manual"} => ev[event[p]] # "none"
      /\ pc[p] \in {"check", "act", "record", "persist"} => Started(ex[p])

Covered(p) ==
    kind[p] \in {"event", "manual"} /\ pc[p] \in Busy \cup {"next"} =>
      \A r \in Matching(event[p]) \ Toggled :
        (\E m \in todo[p] : m[1] = r) \/ InHand(p, r) \/ RanFor(r, event[p])

CoverInv ==
    AlwaysOn /\ HeldEvents /\ (\A p \in Procs : Covered(p)) /\ ProcessedEventsRan

(* A started execution stays started. *)
LEMMA StartedStays ==
  ASSUME TypeOKEngine, Focus, [NextEngine]_varsEngine, NEW y \in Execs, Started(y)
  PROVE  Started(y)'
<1> USE DEF Started, Retryable, rules, queue, rows, effects, local
<1>1. ASSUME NEW r \in Rules, EditRule(r)
      PROVE  Started(y)'
  BY <1>1 DEF EditRule, TypeOKEngine, RowType
<1>2. ASSUME NEW r \in Rules, ToggleRule(r)
      PROVE  Started(y)'
  BY <1>2 DEF ToggleRule, TypeOKEngine, RowType
<1>3. ASSUME NEW e \in Events, QueueEvent(e)
      PROVE  Started(y)'
  BY <1>3 DEF QueueEvent, TypeOKEngine, RowType
<1>4. ASSUME NEW e \in Events, EventDue(e)
      PROVE  Started(y)'
  BY <1>4 DEF EventDue, TypeOKEngine, RowType
<1>5. ASSUME NEW x \in Execs, RetryDue(x)
      PROVE  Started(y)'
  BY <1>5 DEF RetryDue, TypeOKEngine, RowType
<1>6. ASSUME NEW x \in Execs, RetryExecution(x)
      PROVE  Started(y)'
  BY <1>6 DEF RetryExecution, TypeOKEngine, RowType
<1>7. ASSUME NEW p \in Callers, NEW r \in Rules, NEW e \in Events, ManualRun(p, r, e)
      PROVE  Started(y)'
  BY <1>7 DEF ManualRun, TypeOKEngine, RowType
<1>8. ASSUME NEW p \in WorkerLoops, NEW e \in Events, ClaimEvent(p, e)
      PROVE  Started(y)'
  BY <1>8 DEF ClaimEvent, TypeOKEngine, RowType
<1>9. ASSUME NEW p \in WorkerLoops, NEW x \in Execs, ClaimRetry(p, x)
      PROVE  Started(y)'
  BY <1>9 DEF ClaimRetry, TypeOKEngine, RowType
<1>10. ASSUME NEW p \in Procs, Dispatch(p)
      PROVE  Started(y)'
  BY <1>10 DEF Dispatch, TypeOKEngine, RowType
<1>11. ASSUME NEW p \in Procs, TakeRule(p)
      PROVE  Started(y)'
  <2>0. PICK m \in todo[p], x \in Execs, b \in BOOLEAN : Taken(p, m, x, b)
    BY <1>11, TakenRule
  <2> QED
    BY <2>0 DEF Taken, TypeOKEngine, RowType
<1>12. ASSUME NEW p \in Procs, CloseEvent(p)
      PROVE  Started(y)'
  BY <1>12 DEF CloseEvent, TypeOKEngine, RowType
<1>13. ASSUME NEW p \in Procs, BeginRetry(p)
      PROVE  Started(y)'
  BY <1>13 DEF BeginRetry, TypeOKEngine, RowType
<1>14. ASSUME NEW p \in Procs, Start(p)
      PROVE  Started(y)'
  BY <1>14 DEF Start, TypeOKEngine, RowType
<1>15. ASSUME NEW p \in Procs, Skip(p)
      PROVE  Started(y)'
  BY <1>15 DEF Skip, TypeOKEngine, RowType
<1>16. ASSUME NEW p \in Procs, PassChecks(p)
      PROVE  Started(y)'
  BY <1>16 DEF PassChecks, TypeOKEngine, RowType
<1>17. ASSUME NEW p \in Procs, RunAction(p)
      PROVE  Started(y)'
  BY <1>17 DEF RunAction, TypeOKEngine, RowType
<1>18. ASSUME NEW p \in Procs, RecordResult(p)
      PROVE  Started(y)'
  BY <1>18 DEF RecordResult, TypeOKEngine, RowType
<1>19. ASSUME NEW p \in Procs, Succeed(p)
      PROVE  Started(y)'
  BY <1>19 DEF Succeed, TypeOKEngine, RowType
<1>20. ASSUME NEW p \in Procs, Fail(p)
      PROVE  Started(y)'
  BY <1>20 DEF Fail, FailedStatus, TypeOKEngine, RowType
<1>21. ASSUME NEW p \in Procs, PersistFailure(p)
      PROVE  Started(y)'
  BY <1>21 DEF PersistFailure, TypeOKEngine, RowType
<1>22. ASSUME NEW p \in Procs, Break(p)
      PROVE  Started(y)'
  BY <1>22 DEF Break, FailedStatus, TypeOKEngine, RowType
<1>23. ASSUME NEW p \in Procs, DispatchFails(p)
      PROVE  Started(y)'
  BY <1>23 DEF DispatchFails, TypeOKEngine, RowType
<1>24. ASSUME NEW p \in Procs, Crash(p)
      PROVE  Started(y)'
  BY <1>24 DEF Crash, TypeOKEngine, RowType
<1>25. CASE UNCHANGED varsEngine
  BY <1>25 DEF varsEngine
<1> QED
  BY <1>1, <1>2, <1>3, <1>4, <1>5, <1>6, <1>7, <1>8, <1>9, <1>10, <1>11, <1>12, <1>13,
     <1>14, <1>15, <1>16, <1>17, <1>18, <1>19, <1>20, <1>21, <1>22, <1>23, <1>24, <1>25
     DEF NextEngine, Environment, Claim, Step, FaultStep

(* An event that exists keeps existing and keeps its target. *)
LEMMA EventStays ==
  ASSUME TypeOKEngine, [NextEngine]_varsEngine, NEW d \in Events, ev[d] # "none"
  PROVE  ev'[d] # "none" /\ target'[d] = target[d]
<1> USE DEF rules, queue, rows, effects, local
<1>1. ASSUME NEW r \in Rules, EditRule(r)
      PROVE  ev'[d] # "none" /\ target'[d] = target[d]
  BY <1>1 DEF EditRule, TypeOKEngine, QueueType
<1>2. ASSUME NEW r \in Rules, ToggleRule(r)
      PROVE  ev'[d] # "none" /\ target'[d] = target[d]
  BY <1>2 DEF ToggleRule, TypeOKEngine, QueueType
<1>3. ASSUME NEW e \in Events, QueueEvent(e)
      PROVE  ev'[d] # "none" /\ target'[d] = target[d]
  BY <1>3 DEF QueueEvent, TypeOKEngine, QueueType
<1>4. ASSUME NEW e \in Events, EventDue(e)
      PROVE  ev'[d] # "none" /\ target'[d] = target[d]
  BY <1>4 DEF EventDue, TypeOKEngine, QueueType
<1>5. ASSUME NEW x \in Execs, RetryDue(x)
      PROVE  ev'[d] # "none" /\ target'[d] = target[d]
  BY <1>5 DEF RetryDue, TypeOKEngine, QueueType
<1>6. ASSUME NEW x \in Execs, RetryExecution(x)
      PROVE  ev'[d] # "none" /\ target'[d] = target[d]
  BY <1>6 DEF RetryExecution, TypeOKEngine, QueueType
<1>7. ASSUME NEW p \in Callers, NEW r \in Rules, NEW e \in Events, ManualRun(p, r, e)
      PROVE  ev'[d] # "none" /\ target'[d] = target[d]
  BY <1>7 DEF ManualRun, TypeOKEngine, QueueType
<1>8. ASSUME NEW p \in WorkerLoops, NEW e \in Events, ClaimEvent(p, e)
      PROVE  ev'[d] # "none" /\ target'[d] = target[d]
  BY <1>8 DEF ClaimEvent, TypeOKEngine, QueueType
<1>9. ASSUME NEW p \in WorkerLoops, NEW x \in Execs, ClaimRetry(p, x)
      PROVE  ev'[d] # "none" /\ target'[d] = target[d]
  BY <1>9 DEF ClaimRetry, TypeOKEngine, QueueType
<1>10. ASSUME NEW p \in Procs, Dispatch(p)
      PROVE  ev'[d] # "none" /\ target'[d] = target[d]
  BY <1>10 DEF Dispatch, TypeOKEngine, QueueType
<1>11. ASSUME NEW p \in Procs, TakeRule(p)
      PROVE  ev'[d] # "none" /\ target'[d] = target[d]
  BY <1>11 DEF TakeRule, TypeOKEngine, QueueType
<1>12. ASSUME NEW p \in Procs, CloseEvent(p)
      PROVE  ev'[d] # "none" /\ target'[d] = target[d]
  BY <1>12 DEF CloseEvent, TypeOKEngine, QueueType
<1>13. ASSUME NEW p \in Procs, BeginRetry(p)
      PROVE  ev'[d] # "none" /\ target'[d] = target[d]
  BY <1>13 DEF BeginRetry, TypeOKEngine, QueueType
<1>14. ASSUME NEW p \in Procs, Start(p)
      PROVE  ev'[d] # "none" /\ target'[d] = target[d]
  BY <1>14 DEF Start, TypeOKEngine, QueueType
<1>15. ASSUME NEW p \in Procs, Skip(p)
      PROVE  ev'[d] # "none" /\ target'[d] = target[d]
  BY <1>15 DEF Skip, TypeOKEngine, QueueType
<1>16. ASSUME NEW p \in Procs, PassChecks(p)
      PROVE  ev'[d] # "none" /\ target'[d] = target[d]
  BY <1>16 DEF PassChecks, TypeOKEngine, QueueType
<1>17. ASSUME NEW p \in Procs, RunAction(p)
      PROVE  ev'[d] # "none" /\ target'[d] = target[d]
  BY <1>17 DEF RunAction, TypeOKEngine, QueueType
<1>18. ASSUME NEW p \in Procs, RecordResult(p)
      PROVE  ev'[d] # "none" /\ target'[d] = target[d]
  BY <1>18 DEF RecordResult, TypeOKEngine, QueueType
<1>19. ASSUME NEW p \in Procs, Succeed(p)
      PROVE  ev'[d] # "none" /\ target'[d] = target[d]
  BY <1>19 DEF Succeed, TypeOKEngine, QueueType
<1>20. ASSUME NEW p \in Procs, Fail(p)
      PROVE  ev'[d] # "none" /\ target'[d] = target[d]
  BY <1>20 DEF Fail, TypeOKEngine, QueueType
<1>21. ASSUME NEW p \in Procs, PersistFailure(p)
      PROVE  ev'[d] # "none" /\ target'[d] = target[d]
  BY <1>21 DEF PersistFailure, TypeOKEngine, QueueType
<1>22. ASSUME NEW p \in Procs, Break(p)
      PROVE  ev'[d] # "none" /\ target'[d] = target[d]
  BY <1>22 DEF Break, TypeOKEngine, QueueType
<1>23. ASSUME NEW p \in Procs, DispatchFails(p)
      PROVE  ev'[d] # "none" /\ target'[d] = target[d]
  BY <1>23 DEF DispatchFails, TypeOKEngine, QueueType
<1>24. ASSUME NEW p \in Procs, Crash(p)
      PROVE  ev'[d] # "none" /\ target'[d] = target[d]
  BY <1>24 DEF Crash, TypeOKEngine, QueueType
<1>25. CASE UNCHANGED varsEngine
  BY <1>25 DEF varsEngine
<1> QED
  BY <1>1, <1>2, <1>3, <1>4, <1>5, <1>6, <1>7, <1>8, <1>9, <1>10, <1>11, <1>12, <1>13,
     <1>14, <1>15, <1>16, <1>17, <1>18, <1>19, <1>20, <1>21, <1>22, <1>23, <1>24, <1>25
     DEF NextEngine, Environment, Claim, Step, FaultStep

(* Coverage survives the steps of others, and one's own inside an execution. *)
LEMMA StaysCovered ==
  ASSUME TypeOKEngine, Focus, CoverInv, [NextEngine]_varsEngine, NEW o \in Procs,
         pc'[o] = pc[o] \/ {pc[o], pc'[o]} \subseteq Busy,
         UNCHANGED <<kind[o], event[o], ex[o], todo[o]>>
  PROVE  Covered(o)'
<1> SUFFICES ASSUME kind[o] \in {"event", "manual"}, pc[o] \in Busy \cup {"next"},
                    NEW r \in Matching(event[o])' \ Toggled
             PROVE  (\E m \in todo[o] : m[1] = r) \/ InHand(o, r) \/ RanFor(r, event[o])'
  BY DEF Covered, InHand, Busy
<1>1. event[o] \in Events /\ ev[event[o]] # "none"
  BY DEF Focus, CoverInv, HeldEvents
<1>2. r \in Matching(event[o]) \ Toggled /\ r \in Rules
  BY <1>1, EventStays, ConstantsOK DEF Matching, TypeOKEngine, QueueType
<1>3. (\E m \in todo[o] : m[1] = r) \/ InHand(o, r) \/ RanFor(r, event[o])
  BY <1>2 DEF CoverInv, Covered
<1>4. RanFor(r, event[o]) => RanFor(r, event[o])'
  BY <1>1, <1>2, StartedStays DEF RanFor, Execs
<1> QED
  BY <1>3, <1>4

(* An execution that returns has been started. *)
LEMMA ReturnCovers ==
  ASSUME TypeOKEngine, Focus, CoverInv, [NextEngine]_varsEngine, NEW p \in Procs,
         pc[p] \in {"check", "act", "record", "persist"},
         DropItem(p) \/ UNCHANGED <<kind[p], event[p], todo[p]>>
  PROVE  Covered(p)'
<1>1. CASE DropItem(p)
  BY <1>1 DEF DropItem, DropExecution, Covered, TypeOKEngine, ItemType
<1>2. CASE UNCHANGED <<kind[p], event[p], todo[p]>>
  <2> SUFFICES ASSUME kind[p] \in {"event", "manual"},
                      NEW r \in Matching(event[p])' \ Toggled
               PROVE  (\E m \in todo[p] : m[1] = r) \/ RanFor(r, event[p])'
    BY <1>2 DEF Covered
  <2>1. event[p] \in Events /\ ev[event[p]] # "none"
    BY DEF Focus, CoverInv, HeldEvents
  <2>2. r \in Matching(event[p]) \ Toggled /\ r \in Rules
    BY <1>2, <2>1, EventStays, ConstantsOK DEF Matching, TypeOKEngine, QueueType
  <2>3. (\E m \in todo[p] : m[1] = r) \/ InHand(p, r) \/ RanFor(r, event[p])
    BY <2>2 DEF CoverInv, Covered, Busy
  <2>4. RanFor(r, event[p]) => RanFor(r, event[p])'
    BY <1>2, <2>1, <2>2, StartedStays DEF RanFor, Execs
  <2>5. InHand(p, r) => RanFor(r, event[p])
    BY DEF InHand, RanFor, CoverInv, HeldEvents
  <2> QED
    BY <2>3, <2>4, <2>5
<1> QED
  BY <1>1, <1>2

(* Steps that mark no event processed keep ProcessedEventsRan. *)
LEMMA RanStays ==
  ASSUME TypeOKEngine, Focus, CoverInv, [NextEngine]_varsEngine,
         \A e \in Events : ev'[e] = "processed" => ev[e] = "processed"
  PROVE  ProcessedEventsRan'
<1> SUFFICES ASSUME NEW e \in Events, ev'[e] = "processed",
                    NEW r \in Matching(e)' \ Toggled
             PROVE  RanFor(r, e)'
  BY DEF ProcessedEventsRan, RanFor, Started
<1>1. ev[e] = "processed"
  OBVIOUS
<1>2. r \in Matching(e) \ Toggled /\ r \in Rules
  BY <1>1, EventStays, ConstantsOK DEF Matching, TypeOKEngine, QueueType
<1>3. RanFor(r, e)
  BY <1>1, <1>2 DEF CoverInv, ProcessedEventsRan, RanFor, Started
<1> QED
  BY <1>2, <1>3, StartedStays DEF RanFor, Execs

LEMMA CoverInit == InitEngine => CoverInv
BY ConstantsOK
   DEF InitEngine, CoverInv, AlwaysOn, HeldEvents, Covered, ProcessedEventsRan, Busy

LEMMA CoverStep ==
  ASSUME TypeOKEngine, Focus, CoverInv, [NextEngine]_varsEngine
  PROVE  CoverInv'
<1> USE DEF Procs, rules, queue, rows, effects, local
<1>1. ASSUME NEW r \in Rules, EditRule(r)
      PROVE  CoverInv'
  <2>1. AlwaysOn'
    BY <1>1 DEF EditRule, CoverInv, AlwaysOn, TypeOKEngine, QueueType
  <2>2. HeldEvents'
    BY <1>1, EventStays, StartedStays
       DEF EditRule, CoverInv, HeldEvents, Started, Focus, Busy, TypeOKEngine, ItemType,
           CopyType, RowType, QueueType
  <2>3. \A o \in Procs : Covered(o)'
    BY <1>1, StaysCovered DEF EditRule
  <2>4. ProcessedEventsRan'
    BY <1>1, RanStays DEF EditRule, TypeOKEngine, QueueType
  <2> QED
    BY <2>1, <2>2, <2>3, <2>4 DEF CoverInv
<1>2. ASSUME NEW r \in Rules, ToggleRule(r)
      PROVE  CoverInv'
  <2>1. AlwaysOn'
    BY <1>2 DEF ToggleRule, CoverInv, AlwaysOn, TypeOKEngine, QueueType
  <2>2. HeldEvents'
    BY <1>2, EventStays, StartedStays
       DEF ToggleRule, CoverInv, HeldEvents, Started, Focus, Busy, TypeOKEngine, ItemType,
           CopyType, RowType, QueueType
  <2>3. \A o \in Procs : Covered(o)'
    BY <1>2, StaysCovered DEF ToggleRule
  <2>4. ProcessedEventsRan'
    BY <1>2, RanStays DEF ToggleRule, TypeOKEngine, QueueType
  <2> QED
    BY <2>1, <2>2, <2>3, <2>4 DEF CoverInv
<1>3. ASSUME NEW e \in Events, QueueEvent(e)
      PROVE  CoverInv'
  <2>1. AlwaysOn'
    BY <1>3 DEF QueueEvent, CoverInv, AlwaysOn, TypeOKEngine, QueueType
  <2>2. HeldEvents'
    BY <1>3, EventStays, StartedStays
       DEF QueueEvent, CoverInv, HeldEvents, Started, Focus, Busy, TypeOKEngine, ItemType,
           CopyType, RowType, QueueType
  <2>3. \A o \in Procs : Covered(o)'
    BY <1>3, StaysCovered DEF QueueEvent
  <2>4. ProcessedEventsRan'
    BY <1>3, RanStays DEF QueueEvent, TypeOKEngine, QueueType
  <2> QED
    BY <2>1, <2>2, <2>3, <2>4 DEF CoverInv
<1>4. ASSUME NEW e \in Events, EventDue(e)
      PROVE  CoverInv'
  <2>1. AlwaysOn'
    BY <1>4 DEF EventDue, CoverInv, AlwaysOn, TypeOKEngine, QueueType
  <2>2. HeldEvents'
    BY <1>4, EventStays, StartedStays
       DEF EventDue, CoverInv, HeldEvents, Started, Focus, Busy, TypeOKEngine, ItemType,
           CopyType, RowType, QueueType
  <2>3. \A o \in Procs : Covered(o)'
    BY <1>4, StaysCovered DEF EventDue
  <2>4. ProcessedEventsRan'
    BY <1>4, RanStays DEF EventDue, TypeOKEngine, QueueType
  <2> QED
    BY <2>1, <2>2, <2>3, <2>4 DEF CoverInv
<1>5. ASSUME NEW x \in Execs, RetryDue(x)
      PROVE  CoverInv'
  <2>1. AlwaysOn'
    BY <1>5 DEF RetryDue, CoverInv, AlwaysOn, TypeOKEngine, QueueType
  <2>2. HeldEvents'
    BY <1>5, EventStays, StartedStays
       DEF RetryDue, CoverInv, HeldEvents, Started, Focus, Busy, TypeOKEngine, ItemType,
           CopyType, RowType, QueueType
  <2>3. \A o \in Procs : Covered(o)'
    BY <1>5, StaysCovered DEF RetryDue
  <2>4. ProcessedEventsRan'
    BY <1>5, RanStays DEF RetryDue, TypeOKEngine, QueueType
  <2> QED
    BY <2>1, <2>2, <2>3, <2>4 DEF CoverInv
<1>6. ASSUME NEW x \in Execs, RetryExecution(x)
      PROVE  CoverInv'
  <2>1. AlwaysOn'
    BY <1>6 DEF RetryExecution, CoverInv, AlwaysOn, TypeOKEngine, QueueType
  <2>2. HeldEvents'
    BY <1>6, EventStays, StartedStays
       DEF RetryExecution, CoverInv, HeldEvents, Started, Focus, Busy, TypeOKEngine,
           ItemType, CopyType, RowType, QueueType
  <2>3. \A o \in Procs : Covered(o)'
    BY <1>6, StaysCovered DEF RetryExecution
  <2>4. ProcessedEventsRan'
    BY <1>6, RanStays DEF RetryExecution, TypeOKEngine, QueueType
  <2> QED
    BY <2>1, <2>2, <2>3, <2>4 DEF CoverInv
<1>7. ASSUME NEW p \in Callers, NEW r \in Rules, NEW e \in Events, ManualRun(p, r, e)
      PROVE  CoverInv'
  <2>1. AlwaysOn'
    BY <1>7 DEF ManualRun, CoverInv, AlwaysOn, TypeOKEngine, QueueType
  <2>2. HeldEvents'
    BY <1>7, EventStays, StartedStays
       DEF ManualRun, CoverInv, HeldEvents, Started, Focus, Busy, TypeOKEngine, ItemType,
           CopyType, RowType, QueueType
  <2>3. \A o \in Procs : Covered(o)'
    <3>1. \A o \in Procs : o # p => UNCHANGED <<pc[o], kind[o], event[o], ex[o], todo[o]>>
      BY <1>7 DEF ManualRun, TypeOKEngine, ItemType, CopyType
    <3>2. Covered(p)'
      <4>1. event'[p] = e /\ target'[e] = r /\ todo'[p] = {<<r, rver[r], ron[r]>>}
        BY <1>7 DEF ManualRun, TypeOKEngine, ItemType, QueueType
      <4>2. Matching(event[p])' \subseteq {r}
        BY <4>1, ConstantsOK DEF Matching
      <4> QED
        BY <4>1, <4>2 DEF Covered
    <3> QED
      BY <3>1, <3>2, StaysCovered
  <2>4. ProcessedEventsRan'
    BY <1>7, RanStays DEF ManualRun, TypeOKEngine, QueueType
  <2> QED
    BY <2>1, <2>2, <2>3, <2>4 DEF CoverInv
<1>8. ASSUME NEW p \in WorkerLoops, NEW e \in Events, ClaimEvent(p, e)
      PROVE  CoverInv'
  <2>1. AlwaysOn'
    BY <1>8 DEF ClaimEvent, CoverInv, AlwaysOn, TypeOKEngine, QueueType
  <2>2. HeldEvents'
    BY <1>8, EventStays, StartedStays
       DEF ClaimEvent, CoverInv, HeldEvents, Started, Focus, Busy, TypeOKEngine, ItemType,
           CopyType, RowType, QueueType
  <2>3. \A o \in Procs : Covered(o)'
    <3>1. \A o \in Procs : o # p => UNCHANGED <<pc[o], kind[o], event[o], ex[o], todo[o]>>
      BY <1>8 DEF ClaimEvent, TypeOKEngine, ItemType, CopyType
    <3>2. Covered(p)'
      BY <1>8 DEF ClaimEvent, Covered, Busy, TypeOKEngine, ItemType
    <3> QED
      BY <3>1, <3>2, StaysCovered
  <2>4. ProcessedEventsRan'
    BY <1>8, RanStays DEF ClaimEvent, TypeOKEngine, QueueType
  <2> QED
    BY <2>1, <2>2, <2>3, <2>4 DEF CoverInv
<1>9. ASSUME NEW p \in WorkerLoops, NEW x \in Execs, ClaimRetry(p, x)
      PROVE  CoverInv'
  <2>1. AlwaysOn'
    BY <1>9 DEF ClaimRetry, CoverInv, AlwaysOn, TypeOKEngine, QueueType
  <2>2. HeldEvents'
    BY <1>9, EventStays, StartedStays
       DEF ClaimRetry, ReadRow, CoverInv, HeldEvents, Started, Focus, Busy, TypeOKEngine,
           ItemType, CopyType, RowType, QueueType
  <2>3. \A o \in Procs : Covered(o)'
    <3>1. \A o \in Procs : o # p => UNCHANGED <<pc[o], kind[o], event[o], ex[o], todo[o]>>
      BY <1>9 DEF ClaimRetry, ReadRow, TypeOKEngine, ItemType, CopyType
    <3>2. Covered(p)'
      BY <1>9 DEF ClaimRetry, Covered, Busy, TypeOKEngine, ItemType
    <3> QED
      BY <3>1, <3>2, StaysCovered
  <2>4. ProcessedEventsRan'
    BY <1>9, RanStays DEF ClaimRetry, TypeOKEngine, QueueType
  <2> QED
    BY <2>1, <2>2, <2>3, <2>4 DEF CoverInv
<1>10. ASSUME NEW p \in Procs, Dispatch(p)
      PROVE  CoverInv'
  <2>1. AlwaysOn'
    BY <1>10 DEF Dispatch, CoverInv, AlwaysOn, TypeOKEngine, QueueType
  <2>2. HeldEvents'
    BY <1>10, EventStays, StartedStays
       DEF Dispatch, CoverInv, HeldEvents, Started, Focus, Busy, TypeOKEngine, ItemType,
           CopyType, RowType, QueueType
  <2>3. \A o \in Procs : Covered(o)'
    <3>1. \A o \in Procs : o # p => UNCHANGED <<pc[o], kind[o], event[o], ex[o], todo[o]>>
      BY <1>10 DEF Dispatch, TypeOKEngine, ItemType, CopyType
    <3>2. Covered(p)'
      <4> SUFFICES ASSUME NEW r \in Matching(event[p])' \ Toggled
                   PROVE  \E m \in todo'[p] : m[1] = r
        BY <1>10 DEF Dispatch, Covered
      <4>1. r \in Matching(event[p]) /\ r \in Rules /\ ron[r]
        BY <1>10, ConstantsOK
           DEF Dispatch, Matching, Focus, CoverInv, AlwaysOn, TypeOKEngine, QueueType
      <4>2. <<r, rver[r], TRUE>> \in todo'[p]
        BY <1>10, <4>1 DEF Dispatch, TypeOKEngine, ItemType
      <4> QED
        BY <4>2
    <3> QED
      BY <3>1, <3>2, StaysCovered
  <2>4. ProcessedEventsRan'
    BY <1>10, RanStays DEF Dispatch, TypeOKEngine, QueueType
  <2> QED
    BY <2>1, <2>2, <2>3, <2>4 DEF CoverInv
<1>11. ASSUME NEW p \in Procs, TakeRule(p)
      PROVE  CoverInv'
  <2>0. PICK m \in todo[p], x \in Execs, b \in BOOLEAN : Taken(p, m, x, b)
    BY <1>11, TakenRule
  <2>1. AlwaysOn'
    BY <1>11 DEF TakeRule, CoverInv, AlwaysOn, TypeOKEngine, QueueType
  <2>2. HeldEvents'
    BY <1>11, <2>0, EventStays, StartedStays
       DEF TakeRule, Taken, ReadRow, CoverInv, HeldEvents, Started, Focus, Busy,
           TypeOKEngine, ItemType, CopyType, RowType, QueueType
  <2>3. \A o \in Procs : Covered(o)'
    <3>1. \A o \in Procs : o # p => UNCHANGED <<pc[o], kind[o], event[o], ex[o], todo[o]>>
      BY <1>11, <2>0 DEF TakeRule, Taken, ReadRow, TypeOKEngine, ItemType, CopyType
    <3>2. Covered(p)'
      <4> SUFFICES ASSUME NEW r \in Matching(event[p])' \ Toggled
                   PROVE  \/ \E k \in todo'[p] : k[1] = r
                          \/ InHand(p, r)'
                          \/ RanFor(r, event[p])'
        BY <1>11 DEF TakeRule, Covered
      <4>1. r \in Matching(event[p]) \ Toggled /\ event[p] \in Events
        BY <1>11 DEF TakeRule, Matching, Focus
      <4>2. (\E k \in todo[p] : k[1] = r) \/ RanFor(r, event[p])
        BY <1>11, <4>1 DEF TakeRule, Focus, CoverInv, Covered, InHand, Busy
      <4>3. r \in Rules
        BY <4>1, ConstantsOK DEF Matching, TypeOKEngine, QueueType
      <4>4. RanFor(r, event[p]) => RanFor(r, event[p])'
        BY <1>11, <4>1, <4>3, StartedStays DEF TakeRule, RanFor, Execs
      <4>5. ASSUME m[1] = r PROVE InHand(p, r)' \/ RanFor(r, event[p])'
        <5>1. PICK v \in Versions : x = <<r, v, event[p]>>
          BY <2>0, <4>5 DEF Taken, Execs
        <5>2. CASE status[x] \in {"none"} \cup Retryable
          BY <1>11, <2>0, <5>1, <5>2
             DEF TakeRule, Taken, ReadRow, InHand, Busy, TypeOKEngine, ItemType, CopyType
        <5>3. CASE status[x] \notin {"none"} \cup Retryable
          BY <1>11, <2>0, <5>1, <5>3 DEF TakeRule, Taken, RanFor, Started, Retryable
        <5> QED
          BY <5>2, <5>3
      <4>6. ASSUME NEW k \in todo[p], k[1] = r, m[1] # r PROVE k \in todo'[p]
        BY <2>0, <4>6 DEF Taken, TypeOKEngine, ItemType
      <4> QED
        BY <4>2, <4>4, <4>5, <4>6
    <3> QED
      BY <3>1, <3>2, StaysCovered
  <2>4. ProcessedEventsRan'
    BY <1>11, RanStays DEF TakeRule, TypeOKEngine, QueueType
  <2> QED
    BY <2>1, <2>2, <2>3, <2>4 DEF CoverInv
<1>12. ASSUME NEW p \in Procs, CloseEvent(p)
      PROVE  CoverInv'
  <2>1. AlwaysOn'
    BY <1>12 DEF CloseEvent, CoverInv, AlwaysOn, TypeOKEngine, QueueType
  <2>2. HeldEvents'
    BY <1>12, EventStays, StartedStays
       DEF CloseEvent, Return, DropItem, DropExecution, CoverInv, HeldEvents, Started,
           Focus, Busy, TypeOKEngine, ItemType, CopyType, RowType, QueueType
  <2>3. \A o \in Procs : Covered(o)'
    <3>1. \A o \in Procs : o # p => UNCHANGED <<pc[o], kind[o], event[o], ex[o], todo[o]>>
      BY <1>12
         DEF CloseEvent, Return, DropItem, DropExecution, TypeOKEngine, ItemType, CopyType
    <3>2. Covered(p)'
      BY <1>12 DEF CloseEvent, DropItem, Covered, Busy, TypeOKEngine, ItemType
    <3> QED
      BY <3>1, <3>2, StaysCovered
  <2>4. ProcessedEventsRan'
    <3>1. event[p] \in Events /\ ev[event[p]] # "none"
      BY <1>12 DEF CloseEvent, Handled, Focus, CoverInv, HeldEvents
    <3>2. \A r \in Matching(event[p]) \ Toggled : RanFor(r, event[p])
      BY <1>12 DEF CloseEvent, Handled, CoverInv, Covered, Focus, InHand, Busy
    <3> QED
      BY <1>12, <3>1, <3>2
         DEF CloseEvent, CoverInv, ProcessedEventsRan, RanFor, Started, Matching, TypeOKEngine, QueueType
  <2> QED
    BY <2>1, <2>2, <2>3, <2>4 DEF CoverInv
<1>13. ASSUME NEW p \in Procs, BeginRetry(p)
      PROVE  CoverInv'
  <2>1. AlwaysOn'
    BY <1>13 DEF BeginRetry, CoverInv, AlwaysOn, TypeOKEngine, QueueType
  <2>2. HeldEvents'
    BY <1>13, EventStays, StartedStays
       DEF BeginRetry, Return, DropItem, DropExecution, CoverInv, HeldEvents, Started,
           Focus, Busy, TypeOKEngine, ItemType, CopyType, RowType, QueueType
  <2>3. \A o \in Procs : Covered(o)'
    <3>1. \A o \in Procs : o # p => UNCHANGED <<pc[o], kind[o], event[o], ex[o], todo[o]>>
      BY <1>13
         DEF BeginRetry, Return, DropItem, DropExecution, TypeOKEngine, ItemType, CopyType
    <3>2. Covered(p)'
      BY <1>13 DEF BeginRetry, DropItem, Covered, Focus, TypeOKEngine, ItemType
    <3> QED
      BY <3>1, <3>2, StaysCovered
  <2>4. ProcessedEventsRan'
    BY <1>13, RanStays DEF BeginRetry, TypeOKEngine, QueueType
  <2> QED
    BY <2>1, <2>2, <2>3, <2>4 DEF CoverInv
<1>14. ASSUME NEW p \in Procs, Start(p)
      PROVE  CoverInv'
  <2>1. AlwaysOn'
    BY <1>14 DEF Start, CoverInv, AlwaysOn, TypeOKEngine, QueueType
  <2>2. HeldEvents'
    BY <1>14, EventStays, StartedStays
       DEF Start, CoverInv, HeldEvents, Started, Focus, Busy, TypeOKEngine, ItemType,
           CopyType, RowType, QueueType
  <2>3. \A o \in Procs : Covered(o)'
    <3>1. \A o \in Procs : o # p => UNCHANGED <<pc[o], kind[o], event[o], ex[o], todo[o]>>
      BY <1>14 DEF Start, TypeOKEngine, ItemType, CopyType
    <3>2. Covered(p)'
      BY <1>14, StaysCovered DEF Start, Busy, TypeOKEngine, ItemType, CopyType
    <3> QED
      BY <3>1, <3>2, StaysCovered
  <2>4. ProcessedEventsRan'
    BY <1>14, RanStays DEF Start, TypeOKEngine, QueueType
  <2> QED
    BY <2>1, <2>2, <2>3, <2>4 DEF CoverInv
<1>15. ASSUME NEW p \in Procs, Skip(p)
      PROVE  CoverInv'
  <2>1. AlwaysOn'
    BY <1>15 DEF Skip, CoverInv, AlwaysOn, TypeOKEngine, QueueType
  <2>2. HeldEvents'
    BY <1>15, EventStays, StartedStays
       DEF Skip, Return, DropItem, DropExecution, CoverInv, HeldEvents, Started, Focus,
           Busy, TypeOKEngine, ItemType, CopyType, RowType, QueueType
  <2>3. \A o \in Procs : Covered(o)'
    <3>1. \A o \in Procs : o # p => UNCHANGED <<pc[o], kind[o], event[o], ex[o], todo[o]>>
      BY <1>15 DEF Skip, Return, DropItem, DropExecution, TypeOKEngine, ItemType, CopyType
    <3>2. Covered(p)'
      BY <1>15, ReturnCovers DEF Skip, Return
    <3> QED
      BY <3>1, <3>2, StaysCovered
  <2>4. ProcessedEventsRan'
    BY <1>15, RanStays DEF Skip, TypeOKEngine, QueueType
  <2> QED
    BY <2>1, <2>2, <2>3, <2>4 DEF CoverInv
<1>16. ASSUME NEW p \in Procs, PassChecks(p)
      PROVE  CoverInv'
  <2>1. AlwaysOn'
    BY <1>16 DEF PassChecks, CoverInv, AlwaysOn, TypeOKEngine, QueueType
  <2>2. HeldEvents'
    BY <1>16, EventStays, StartedStays
       DEF PassChecks, CoverInv, HeldEvents, Started, Focus, Busy, TypeOKEngine, ItemType,
           CopyType, RowType, QueueType
  <2>3. \A o \in Procs : Covered(o)'
    <3>1. \A o \in Procs : o # p => UNCHANGED <<pc[o], kind[o], event[o], ex[o], todo[o]>>
      BY <1>16 DEF PassChecks, TypeOKEngine, ItemType, CopyType
    <3>2. Covered(p)'
      BY <1>16, StaysCovered DEF PassChecks, Busy, TypeOKEngine, ItemType, CopyType
    <3> QED
      BY <3>1, <3>2, StaysCovered
  <2>4. ProcessedEventsRan'
    BY <1>16, RanStays DEF PassChecks, TypeOKEngine, QueueType
  <2> QED
    BY <2>1, <2>2, <2>3, <2>4 DEF CoverInv
<1>17. ASSUME NEW p \in Procs, RunAction(p)
      PROVE  CoverInv'
  <2>1. AlwaysOn'
    BY <1>17 DEF RunAction, CoverInv, AlwaysOn, TypeOKEngine, QueueType
  <2>2. HeldEvents'
    BY <1>17, EventStays, StartedStays
       DEF RunAction, CoverInv, HeldEvents, Started, Focus, Busy, TypeOKEngine, ItemType,
           CopyType, RowType, QueueType
  <2>3. \A o \in Procs : Covered(o)'
    <3>1. \A o \in Procs : o # p => UNCHANGED <<pc[o], kind[o], event[o], ex[o], todo[o]>>
      BY <1>17 DEF RunAction, TypeOKEngine, ItemType, CopyType
    <3>2. Covered(p)'
      BY <1>17, StaysCovered DEF RunAction, Busy, TypeOKEngine, ItemType, CopyType
    <3> QED
      BY <3>1, <3>2, StaysCovered
  <2>4. ProcessedEventsRan'
    BY <1>17, RanStays DEF RunAction, TypeOKEngine, QueueType
  <2> QED
    BY <2>1, <2>2, <2>3, <2>4 DEF CoverInv
<1>18. ASSUME NEW p \in Procs, RecordResult(p)
      PROVE  CoverInv'
  <2>1. AlwaysOn'
    BY <1>18 DEF RecordResult, CoverInv, AlwaysOn, TypeOKEngine, QueueType
  <2>2. HeldEvents'
    BY <1>18, EventStays, StartedStays
       DEF RecordResult, CoverInv, HeldEvents, Started, Focus, Busy, TypeOKEngine, ItemType,
           CopyType, RowType, QueueType
  <2>3. \A o \in Procs : Covered(o)'
    <3>1. \A o \in Procs : o # p => UNCHANGED <<pc[o], kind[o], event[o], ex[o], todo[o]>>
      BY <1>18 DEF RecordResult, TypeOKEngine, ItemType, CopyType
    <3>2. Covered(p)'
      BY <1>18, StaysCovered DEF RecordResult, Busy, TypeOKEngine, ItemType, CopyType
    <3> QED
      BY <3>1, <3>2, StaysCovered
  <2>4. ProcessedEventsRan'
    BY <1>18, RanStays DEF RecordResult, TypeOKEngine, QueueType
  <2> QED
    BY <2>1, <2>2, <2>3, <2>4 DEF CoverInv
<1>19. ASSUME NEW p \in Procs, Succeed(p)
      PROVE  CoverInv'
  <2>1. AlwaysOn'
    BY <1>19 DEF Succeed, CoverInv, AlwaysOn, TypeOKEngine, QueueType
  <2>2. HeldEvents'
    BY <1>19, EventStays, StartedStays
       DEF Succeed, Return, DropItem, DropExecution, CoverInv, HeldEvents, Started,
           Focus, Busy, TypeOKEngine, ItemType, CopyType, RowType, QueueType
  <2>3. \A o \in Procs : Covered(o)'
    <3>1. \A o \in Procs : o # p => UNCHANGED <<pc[o], kind[o], event[o], ex[o], todo[o]>>
      BY <1>19 DEF Succeed, Return, DropItem, DropExecution, TypeOKEngine, ItemType, CopyType
    <3>2. Covered(p)'
      BY <1>19, ReturnCovers DEF Succeed, Return
    <3> QED
      BY <3>1, <3>2, StaysCovered
  <2>4. ProcessedEventsRan'
    BY <1>19, RanStays DEF Succeed, TypeOKEngine, QueueType
  <2> QED
    BY <2>1, <2>2, <2>3, <2>4 DEF CoverInv
<1>20. ASSUME NEW p \in Procs, Fail(p)
      PROVE  CoverInv'
  <2>1. AlwaysOn'
    BY <1>20 DEF Fail, CoverInv, AlwaysOn, TypeOKEngine, QueueType
  <2>2. HeldEvents'
    BY <1>20, EventStays, StartedStays
       DEF Fail, FailAndReturn, Return, DropItem, DropExecution, CoverInv, HeldEvents,
           Started, Focus, Busy, TypeOKEngine, ItemType, CopyType, RowType, QueueType
  <2>3. \A o \in Procs : Covered(o)'
    <3>1. \A o \in Procs : o # p => UNCHANGED <<pc[o], kind[o], event[o], ex[o], todo[o]>>
      BY <1>20
         DEF Fail, FailAndReturn, Return, DropItem, DropExecution, TypeOKEngine, ItemType,
             CopyType
    <3>2. Covered(p)'
      BY <1>20, ReturnCovers DEF Fail, FailAndReturn, Return
    <3> QED
      BY <3>1, <3>2, StaysCovered
  <2>4. ProcessedEventsRan'
    BY <1>20, RanStays DEF Fail, TypeOKEngine, QueueType
  <2> QED
    BY <2>1, <2>2, <2>3, <2>4 DEF CoverInv
<1>21. ASSUME NEW p \in Procs, PersistFailure(p)
      PROVE  CoverInv'
  <2>1. AlwaysOn'
    BY <1>21 DEF PersistFailure, CoverInv, AlwaysOn, TypeOKEngine, QueueType
  <2>2. HeldEvents'
    BY <1>21, EventStays, StartedStays
       DEF PersistFailure, Return, DropItem, DropExecution, CoverInv, HeldEvents,
           Started, Focus, Busy, TypeOKEngine, ItemType, CopyType, RowType, QueueType
  <2>3. \A o \in Procs : Covered(o)'
    <3>1. \A o \in Procs : o # p => UNCHANGED <<pc[o], kind[o], event[o], ex[o], todo[o]>>
      BY <1>21
         DEF PersistFailure, Return, DropItem, DropExecution, TypeOKEngine, ItemType,
             CopyType
    <3>2. Covered(p)'
      BY <1>21, ReturnCovers DEF PersistFailure, Return
    <3> QED
      BY <3>1, <3>2, StaysCovered
  <2>4. ProcessedEventsRan'
    BY <1>21, RanStays DEF PersistFailure, TypeOKEngine, QueueType
  <2> QED
    BY <2>1, <2>2, <2>3, <2>4 DEF CoverInv
<1>22. ASSUME NEW p \in Procs, Break(p)
      PROVE  CoverInv'
  <2>1. AlwaysOn'
    BY <1>22 DEF Break, CoverInv, AlwaysOn, TypeOKEngine, QueueType
  <2>2. HeldEvents'
    BY <1>22, EventStays, StartedStays
       DEF Break, FailAndReturn, Return, DropItem, DropExecution, CoverInv, HeldEvents,
           Started, Focus, Busy, TypeOKEngine, ItemType, CopyType, RowType, QueueType
  <2>3. \A o \in Procs : Covered(o)'
    <3>1. \A o \in Procs : o # p => UNCHANGED <<pc[o], kind[o], event[o], ex[o], todo[o]>>
      BY <1>22
         DEF Break, FailAndReturn, Return, DropItem, DropExecution, TypeOKEngine, ItemType,
             CopyType
    <3>2. Covered(p)'
      BY <1>22, ReturnCovers DEF Break, FailAndReturn, Return
    <3> QED
      BY <3>1, <3>2, StaysCovered
  <2>4. ProcessedEventsRan'
    BY <1>22, RanStays DEF Break, TypeOKEngine, QueueType
  <2> QED
    BY <2>1, <2>2, <2>3, <2>4 DEF CoverInv
<1>23. ASSUME NEW p \in Procs, DispatchFails(p)
      PROVE  CoverInv'
  <2>1. AlwaysOn'
    BY <1>23 DEF DispatchFails, CoverInv, AlwaysOn, TypeOKEngine, QueueType
  <2>2. HeldEvents'
    BY <1>23, EventStays, StartedStays
       DEF DispatchFails, Return, DropItem, DropExecution, CoverInv, HeldEvents,
           Started, Focus, Busy, TypeOKEngine, ItemType, CopyType, RowType, QueueType
  <2>3. \A o \in Procs : Covered(o)'
    <3>1. \A o \in Procs : o # p => UNCHANGED <<pc[o], kind[o], event[o], ex[o], todo[o]>>
      BY <1>23
         DEF DispatchFails, Return, DropItem, DropExecution, TypeOKEngine, ItemType, CopyType
    <3>2. Covered(p)'
      BY <1>23 DEF DispatchFails, DropItem, Covered, Busy, TypeOKEngine, ItemType
    <3> QED
      BY <3>1, <3>2, StaysCovered
  <2>4. ProcessedEventsRan'
    BY <1>23, RanStays DEF DispatchFails, TypeOKEngine, QueueType
  <2> QED
    BY <2>1, <2>2, <2>3, <2>4 DEF CoverInv
<1>24. ASSUME NEW p \in Procs, Crash(p)
      PROVE  CoverInv'
  <2>1. AlwaysOn'
    BY <1>24 DEF Crash, CoverInv, AlwaysOn, TypeOKEngine, QueueType
  <2>2. HeldEvents'
    BY <1>24, EventStays, StartedStays
       DEF Crash, Return, DropItem, DropExecution, CoverInv, HeldEvents, Started,
           Focus, Busy, TypeOKEngine, ItemType, CopyType, RowType, QueueType
  <2>3. \A o \in Procs : Covered(o)'
    <3>1. \A o \in Procs : o # p => UNCHANGED <<pc[o], kind[o], event[o], ex[o], todo[o]>>
      BY <1>24 DEF Crash, Return, DropItem, DropExecution, TypeOKEngine, ItemType, CopyType
    <3>2. Covered(p)'
      BY <1>24 DEF Crash, DropItem, Covered, Busy, TypeOKEngine, ItemType
    <3> QED
      BY <3>1, <3>2, StaysCovered
  <2>4. ProcessedEventsRan'
    BY <1>24, RanStays DEF Crash, TypeOKEngine, QueueType
  <2> QED
    BY <2>1, <2>2, <2>3, <2>4 DEF CoverInv
<1>25. CASE UNCHANGED varsEngine
  BY <1>25
     DEF varsEngine, CoverInv, AlwaysOn, HeldEvents, Covered, ProcessedEventsRan, InHand,
         RanFor, Started, Matching
<1> QED
  BY <1>1, <1>2, <1>3, <1>4, <1>5, <1>6, <1>7, <1>8, <1>9, <1>10, <1>11, <1>12, <1>13,
     <1>14, <1>15, <1>16, <1>17, <1>18, <1>19, <1>20, <1>21, <1>22, <1>23, <1>24, <1>25
     DEF NextEngine, Environment, Claim, Step, FaultStep

(* No trigger is lost: an event is processed only after each rule it matched *)
(* (and that nobody switches off) has an execution that was started, with    *)
(* any crashes, dispatch failures and overlapping leases (_process_event).   *)
THEOREM NoTriggerIsLost == SpecEngine => []ProcessedEventsRan
<1>1. InitEngine => TypeOKEngine /\ Focus /\ CoverInv
  BY TypeInit, CoverInit
<1>2. (TypeOKEngine /\ Focus /\ CoverInv) /\ [NextEngine]_varsEngine => (TypeOKEngine /\ Focus /\ CoverInv)'
  BY TypeStep, CoverStep
<1>3. CoverInv => ProcessedEventsRan
  BY DEF CoverInv
<1> QED
  BY <1>1, <1>2, <1>3, PTL DEF SpecEngine

-----------------------------------------------------------------------------
(* What happens once when nothing fails: no crash and no infrastructure      *)
(* failure (MaxFaults = 0), leases and delays outlast the work (~Slow), and  *)
(* no rule has the trigger type "manual", whose event a worker may claim     *)
(* while the request that queued it still works on it. Permission and        *)
(* validation failures, retries, edits and switches of rules are all there.  *)
(*                                                                           *)
(* The argument: an event has one owner, so each matched rule is taken       *)
(* once, when its execution does not exist yet; an execution has one         *)
(* holder, so its copy of the results is the row's; hence whatever ran is    *)
(* recorded, or is in the holder's hands to be recorded next.                *)

Holding(p) == pc[p] \in Busy \cup {"claimed"}
Working == {"queued", "retry_scheduled", "running", "failed", "partially_failed"}
Untouched(e) == \A r \in Rules, v \in Versions : status[<<r, v, e>>] = "none"

(* The owner of an event keeps it from being claimed; a manual run owns the *)
(* event it made.                                                           *)
OneOwner ==
    /\ \A p, q \in Procs :
         kind[p] \in {"event", "manual"} /\ kind[q] = kind[p] /\ event[q] = event[p] => p = q
    /\ \A p \in Procs :
         /\ kind[p] = "event" => ev[event[p]] \in {"processing", "processed"} /\ ~evdue[event[p]]
         /\ kind[p] = "manual" => ev[event[p]] # "none" /\ target[event[p]] # NoRule

(* No execution exists for an event before its dispatch. *)
EventsFresh ==
    /\ \A e \in Events :
         /\ ev[e] = "none" => Untouched(e) /\ target[e] = NoRule
         /\ ev[e] = "queued" /\ target[e] = NoRule => Untouched(e)
         /\ ev[e] = "processing" /\ target[e] = NoRule =>
              \E p \in Procs : kind[p] = "event" /\ event[p] = e
    /\ \A p \in Procs : pc[p] = "dispatch" /\ target[event[p]] = NoRule => Untouched(event[p])

(* ... nor for a matched rule before it is taken. *)
TodoFresh ==
    \A p \in Procs :
      /\ held[p]
      /\ todo[p] # {} => kind[p] \in {"event", "manual"}
      /\ kind[p] = "event" /\ target[event[p]] # NoRule => todo[p] = {}
      /\ \A m, n \in todo[p] : m[1] = n[1] => m = n
      /\ \A m \in todo[p] : status[<<m[1], m[2], event[p]>>] = "none"
      /\ pc[p] = "dispatch" => todo[p] = {} /\ kind[p] = "event"

(* One process holds an execution, with the row's own results. *)
OneHolder ==
    /\ \A p \in Procs : ~Holding(p) => ex[p] = NoExec
    /\ \A p, q \in Procs : Holding(p) /\ Holding(q) /\ ex[p] = ex[q] => p = q
    /\ \A p \in Procs : Holding(p) =>
         status[ex[p]] \in Working /\ ~due[ex[p]] /\ done[p] = results[ex[p]]
    /\ \A x \in Execs : due[x] => status[x] = "retry_scheduled"

(* What ran is recorded, or its holder records it next. *)
RanKnown ==
    \A x \in Execs, i \in Actions : <<x, i>> \in ran =>
      i \in results[x] \/ \E p \in Procs : pc[p] = "record" /\ ex[p] = x /\ IsFirst(p, i)

OnceInv == OneOwner /\ EventsFresh /\ TodoFresh /\ OneHolder /\ RanKnown /\ ActionsOnce
BaseInv == TypeOKEngine /\ Focus

Steady == MaxFaults = 0 /\ ~Slow /\ ManualRules = {}

-----------------------------------------------------------------------------
(* A step of the process that holds the execution x: where it takes the    *)
(* process, and all of it.                                                 *)
Moves(p) ==
    /\ \A q \in Procs \ {p} :
         /\ pc'[q] = pc[q] /\ kind'[q] = kind[q] /\ event'[q] = event[q] /\ ex'[q] = ex[q]
         /\ todo'[q] = todo[q] /\ held'[q] = held[q] /\ done'[q] = done[q]
    /\ held'[p] /\ pc'[p] # "dispatch"
    /\ \/ kind'[p] = kind[p] /\ event'[p] = event[p] /\ todo'[p] = todo[p]
       \/ kind[p] = "retry" /\ kind'[p] = "none" /\ todo'[p] = {}

Work(p, x) ==
    /\ Holding(p) /\ ex[p] = x
    /\ UNCHANGED <<ev, evdue, target, twice>>
    /\ Moves(p)
    /\ \A y \in Execs \ {x} :
         /\ status'[y] = status[y] /\ due'[y] = due[y] /\ results'[y] = results[y]
         /\ attempt'[y] = attempt[y]
         /\ \A i \in Actions : <<y, i>> \in ran' => <<y, i>> \in ran
    /\ status'[x] # "none" /\ ~due'[x] /\ results[x] \subseteq results'[x]
    /\ \/ /\ Holding(p)' /\ ex'[p] = x
          /\ status'[x] \in Working /\ done'[p] = results'[x]
       \/ ~Holding(p)' /\ ex'[p] = NoExec
    /\ \A i \in Actions : <<x, i>> \in ran' =>
         i \in results'[x] \/ (pc'[p] = "record" /\ ex'[p] = x /\ IsFirst(p, i)')

LEMMA WorkKeepsQueue ==
  ASSUME BaseInv, OnceInv, NEW p \in Procs, NEW x \in Execs, Work(p, x)
  PROVE  OneOwner' /\ EventsFresh' /\ TodoFresh'
<1>0. status[x] # "none"
  BY DEF Work, Moves, OnceInv, OneHolder, Working
<1>1. \A y \in Execs : (status'[y] = "none") <=> (status[y] = "none")
  BY <1>0 DEF Work, Moves
<1>2. \A e \in Events : Untouched(e)' <=> Untouched(e)
  BY <1>1 DEF Untouched, Execs
<1>3. ev' = ev /\ evdue' = evdue /\ target' = target
  BY DEF Work, Moves
<1>4. \A q \in Procs : kind'[q] \in {"event", "manual"} =>
        kind'[q] = kind[q] /\ event'[q] = event[q] /\ event[q] \in Events
  BY DEF Work, Moves, BaseInv, Focus
<1>5. \A q \in Procs : kind[q] = "event" => kind'[q] = "event" /\ event'[q] = event[q]
  BY DEF Work, Moves
<1>6. \A q \in Procs : pc'[q] = "dispatch" => pc[q] = "dispatch" /\ event'[q] = event[q]
                                            /\ q # p /\ event[q] \in Events
  BY DEF Work, Moves, BaseInv, Focus
<1>7. OneOwner'
  BY <1>3, <1>4 DEF OnceInv, OneOwner
<1>8. EventsFresh'
  BY <1>2, <1>3, <1>5, <1>6 DEF OnceInv, EventsFresh
<1>9. TodoFresh'
  <2> SUFFICES ASSUME NEW q \in Procs
               PROVE  /\ held'[q]
                      /\ todo'[q] # {} => kind'[q] \in {"event", "manual"}
                      /\ kind'[q] = "event" /\ target'[event'[q]] # NoRule => todo'[q] = {}
                      /\ \A m, n \in todo'[q] : m[1] = n[1] => m = n
                      /\ \A m \in todo'[q] : status'[<<m[1], m[2], event'[q]>>] = "none"
                      /\ pc'[q] = "dispatch" => todo'[q] = {} /\ kind'[q] = "event"
    BY DEF TodoFresh
  <2>1. /\ held[q]
        /\ todo[q] # {} => kind[q] \in {"event", "manual"}
        /\ kind[q] = "event" /\ target[event[q]] # NoRule => todo[q] = {}
        /\ \A m, n \in todo[q] : m[1] = n[1] => m = n
        /\ \A m \in todo[q] : status[<<m[1], m[2], event[q]>>] = "none"
        /\ pc[q] = "dispatch" => todo[q] = {} /\ kind[q] = "event"
    BY DEF OnceInv, TodoFresh
  <2>2. todo[q] \in SUBSET (Rules \X Versions \X BOOLEAN)
    BY DEF BaseInv, TypeOKEngine, ItemType
  <2>3. \A m \in todo[q] : <<m[1], m[2], event[q]>> \in Execs
    BY <2>1, <2>2 DEF Execs, BaseInv, Focus
  <2>4. CASE q # p
    BY <1>1, <1>3, <2>1, <2>3, <2>4 DEF Work, Moves
  <2>5. CASE q = p /\ kind'[p] = kind[p] /\ event'[p] = event[p] /\ todo'[p] = todo[p]
    BY <1>1, <1>3, <2>1, <2>3, <2>5 DEF Work, Moves
  <2>6. CASE q = p /\ kind'[p] = "none" /\ todo'[p] = {}
    BY <2>6 DEF Work, Moves
  <2> QED
    BY <2>4, <2>5, <2>6 DEF Work, Moves
<1> QED
  BY <1>7, <1>8, <1>9

LEMMA WorkKeepsHolders ==
  ASSUME BaseInv, OnceInv, NEW p \in Procs, NEW x \in Execs, Work(p, x)
  PROVE  OneHolder' /\ RanKnown' /\ ActionsOnce'
<1>1. \A q \in Procs \ {p} : (Holding(q)' <=> Holding(q)) /\ ex'[q] = ex[q]
                             /\ done'[q] = done[q] /\ pc'[q] = pc[q]
  BY DEF Work, Moves, Holding
<1>2. \A q \in Procs \ {p} : Holding(q) => ex[q] # x /\ ex[q] \in Execs
  BY DEF Work, Moves, OnceInv, OneHolder, BaseInv, Focus, Holding
<1>3. OneHolder'
  <2>1. \A q \in Procs : ~Holding(q)' => ex'[q] = NoExec
    BY <1>1 DEF OnceInv, OneHolder, Work
  <2>2. \A q, s \in Procs : Holding(q)' /\ Holding(s)' /\ ex'[q] = ex'[s] => q = s
    BY <1>1, <1>2 DEF OnceInv, OneHolder, Work
  <2>3. \A q \in Procs : Holding(q)' =>
          status'[ex'[q]] \in Working /\ ~due'[ex'[q]] /\ done'[q] = results'[ex'[q]]
    <3> SUFFICES ASSUME NEW q \in Procs, Holding(q)'
                 PROVE  status'[ex'[q]] \in Working /\ ~due'[ex'[q]] /\ done'[q] = results'[ex'[q]]
      OBVIOUS
    <3>1. CASE q = p
      BY <3>1 DEF Work, Moves
    <3>2. CASE q # p
      BY <1>1, <1>2, <3>2 DEF Work, Moves, OnceInv, OneHolder
    <3> QED
      BY <3>1, <3>2
  <2>4. \A y \in Execs : due'[y] => status'[y] = "retry_scheduled"
    BY DEF Work, Moves, OnceInv, OneHolder
  <2> QED
    BY <2>1, <2>2, <2>3, <2>4 DEF OneHolder
<1>4. RanKnown'
  <2> SUFFICES ASSUME NEW y \in Execs, NEW i \in Actions, <<y, i>> \in ran'
               PROVE  i \in results'[y]
                      \/ \E q \in Procs : pc'[q] = "record" /\ ex'[q] = y /\ IsFirst(q, i)'
    BY DEF RanKnown
  <2>1. CASE y = x
    BY <2>1 DEF Work, Moves
  <2>2. CASE y # x
    <3>1. <<y, i>> \in ran /\ results'[y] = results[y]
      BY <2>2 DEF Work, Moves
    <3>2. CASE i \in results[y]
      BY <3>1, <3>2
    <3>3. ASSUME NEW q \in Procs, pc[q] = "record", ex[q] = y, IsFirst(q, i)
          PROVE  pc'[q] = "record" /\ ex'[q] = y /\ IsFirst(q, i)'
      <4>1. q # p
        BY <2>2, <3>3 DEF Work, Moves
      <4> QED
        BY <1>1, <3>3, <4>1 DEF IsFirst, Pending
    <3> QED
      BY <3>1, <3>2, <3>3 DEF OnceInv, RanKnown
  <2> QED
    BY <2>1, <2>2
<1>5. ActionsOnce'
  BY DEF Work, Moves, OnceInv, ActionsOnce
<1> QED
  BY <1>3, <1>4, <1>5

(* Returning to the caller, and the failure path, as moves of a holder. *)
LEMMA ReturnMoves ==
  ASSUME BaseInv, OnceInv, NEW p \in Procs, Holding(p), Return(p, held[p])
  PROVE  Moves(p) /\ ~Holding(p)' /\ ex'[p] = NoExec
<1>0. held[p] /\ kind[p] # "none"
  BY DEF OnceInv, TodoFresh, BaseInv, Focus, Holding
<1> USE DEF BaseInv, TypeOKEngine, ItemType, CopyType
<1>1. CASE kind[p] = "retry"
  BY <1>1 DEF Return, DropItem, DropExecution, Moves, Holding, Busy
<1>2. CASE kind[p] # "retry"
  BY <1>0, <1>2 DEF Return, DropExecution, Moves, Holding, Busy
<1> QED
  BY <1>1, <1>2

LEMMA FailMoves ==
  ASSUME BaseInv, OnceInv, NEW p \in Procs, Holding(p), NEW list, FailAndReturn(p, list, held[p])
  PROVE  /\ Moves(p)
         /\ \/ ~Holding(p)' /\ ex'[p] = NoExec
            \/ pc'[p] = "persist" /\ ex' = ex /\ done'[p] = list
<1>1. CASE Return(p, held[p])
  BY <1>1, ReturnMoves
<1>2. CASE /\ pc' = [pc EXCEPT ![p] = "persist"]
           /\ done' = [done EXCEPT ![p] = list]
           /\ held' = [held EXCEPT ![p] = held[p]]
           /\ UNCHANGED <<kind, event, ex, todo, on, tries>>
  <2>1. held[p]
    BY DEF OnceInv, TodoFresh
  <2> QED
    BY <1>2, <2>1 DEF Moves, BaseInv, TypeOKEngine, ItemType, CopyType
<1> QED
  BY <1>1, <1>2 DEF FailAndReturn

(* What the holder of an execution knows. *)
LEMMA HolderKnows ==
  ASSUME BaseInv, OnceInv, NEW p \in Procs, Holding(p)
  PROVE  /\ ex[p] \in Execs
         /\ status[ex[p]] \in Working /\ ~due[ex[p]] /\ done[p] = results[ex[p]]
         /\ \A i \in Actions : <<ex[p], i>> \in ran =>
              i \in results[ex[p]] \/ (pc[p] = "record" /\ IsFirst(p, i))
         /\ held[p] /\ pc[p] # "dispatch"
<1>1. ex[p] \in Execs /\ pc[p] # "dispatch"
  BY DEF BaseInv, Focus, Holding, Busy
<1>2. status[ex[p]] \in Working /\ ~due[ex[p]] /\ done[p] = results[ex[p]] /\ held[p]
  BY DEF OnceInv, OneHolder, TodoFresh
<1>3. ASSUME NEW i \in Actions, <<ex[p], i>> \in ran, i \notin results[ex[p]]
      PROVE  pc[p] = "record" /\ IsFirst(p, i)
  <2>1. PICK q \in Procs : pc[q] = "record" /\ ex[q] = ex[p] /\ IsFirst(q, i)
    BY <1>1, <1>3 DEF OnceInv, RanKnown
  <2>2. q = p
    BY <2>1 DEF OnceInv, OneHolder, Holding, Busy
  <2> QED
    BY <2>1, <2>2
<1> QED
  BY <1>1, <1>2, <1>3

-----------------------------------------------------------------------------
(* Each step of an execution is such a step.                               *)
LEMMA BeginRetryWorks ==
  ASSUME BaseInv, OnceInv, NEW p \in Procs, BeginRetry(p)
  PROVE  Work(p, ex[p])
<1> DEFINE x == ex[p]
<1>1. pc[p] = "claimed" /\ kind[p] = "retry" /\ Holding(p)
  BY DEF BeginRetry, BaseInv, Focus, Holding
<1>2. /\ x \in Execs /\ status[x] \in Working /\ ~due[x] /\ done[p] = results[x] /\ held[p]
      /\ \A i \in Actions : <<x, i>> \in ran => i \in results[x]
  BY <1>1, HolderKnows
<1>3. /\ UNCHANGED <<ev, evdue, target, twice, ran, results, attempt>>
      /\ \/ /\ status' = [status EXCEPT ![x] = "failed"]
            /\ due' = [due EXCEPT ![x] = FALSE]
            /\ DropItem(p)
         \/ /\ pc' = [pc EXCEPT ![p] = "start"]
            /\ UNCHANGED <<status, due, kind, event, ex, todo, held, done>>
  BY DEF BeginRetry, rules, queue, effects
<1> HIDE DEF x
<1> USE DEF BaseInv, TypeOKEngine, ItemType, CopyType, RowType
<1>4. CASE /\ status' = [status EXCEPT ![x] = "failed"]
           /\ due' = [due EXCEPT ![x] = FALSE]
           /\ DropItem(p)
  <2>1. Moves(p) /\ ~Holding(p)' /\ ex'[p] = NoExec
    BY <1>1, <1>4 DEF DropItem, DropExecution, Moves, Holding, Busy
  <2> QED
    BY <1>1, <1>2, <1>3, <1>4, <2>1 DEF Work, x
<1>5. CASE /\ pc' = [pc EXCEPT ![p] = "start"]
           /\ UNCHANGED <<status, due, kind, event, ex, todo, held, done>>
  <2>1. Moves(p) /\ Holding(p)'
    BY <1>2, <1>5 DEF Moves, Holding, Busy
  <2> QED
    BY <1>1, <1>2, <1>3, <1>5, <2>1 DEF Work, x, Working
<1> QED
  BY <1>3, <1>4, <1>5

LEMMA StartWorks ==
  ASSUME BaseInv, OnceInv, NEW p \in Procs, Start(p)
  PROVE  Work(p, ex[p])
<1> DEFINE x == ex[p]
<1>1. pc[p] = "start" /\ Holding(p)
  BY DEF Start, Holding, Busy
<1>2. /\ x \in Execs /\ status[x] \in Working /\ ~due[x] /\ done[p] = results[x] /\ held[p]
      /\ \A i \in Actions : <<x, i>> \in ran => i \in results[x]
  BY <1>1, HolderKnows
<1>3. /\ UNCHANGED <<ev, evdue, target, twice, ran, results>>
      /\ status' = [status EXCEPT ![x] = "running"]
      /\ attempt' = [attempt EXCEPT ![x] = tries[p] + 1]
      /\ due' = [due EXCEPT ![x] = FALSE]
      /\ pc' = [pc EXCEPT ![p] = "check"]
      /\ UNCHANGED <<kind, event, ex, todo, held, done>>
  BY DEF Start, rules, queue, effects
<1> HIDE DEF x
<1> USE DEF BaseInv, TypeOKEngine, ItemType, CopyType, RowType
<1>4. Moves(p) /\ Holding(p)'
  BY <1>2, <1>3 DEF Moves, Holding, Busy
<1>5. status'[x] = "running" /\ ~due'[x]
  BY <1>2, <1>3
<1>6. \A y \in Execs \ {x} : status'[y] = status[y] /\ due'[y] = due[y] /\ attempt'[y] = attempt[y]
  BY <1>3
<1> QED
  BY <1>1, <1>2, <1>3, <1>4, <1>5, <1>6 DEF Work, x, Working

LEMMA SkipWorks ==
  ASSUME BaseInv, OnceInv, NEW p \in Procs, Skip(p)
  PROVE  Work(p, ex[p])
<1> DEFINE x == ex[p]
<1>1. pc[p] = "check" /\ Holding(p)
  BY DEF Skip, Holding, Busy
<1>2. /\ x \in Execs /\ ~due[x] /\ \A i \in Actions : <<x, i>> \in ran => i \in results[x]
  BY <1>1, HolderKnows
<1>3. /\ UNCHANGED <<ev, evdue, target, twice, ran, results, attempt, due>>
      /\ status' = [status EXCEPT ![x] = "skipped"]
  BY DEF Skip, rules, queue, effects
<1>4. Moves(p) /\ ~Holding(p)' /\ ex'[p] = NoExec
  BY <1>1, ReturnMoves DEF Skip
<1> HIDE DEF x
<1>5. status'[x] = "skipped" /\ \A y \in Execs \ {x} : status'[y] = status[y]
  BY <1>2, <1>3 DEF BaseInv, TypeOKEngine, RowType
<1> QED
  BY <1>1, <1>2, <1>3, <1>4, <1>5 DEF Work, x

LEMMA PassChecksWorks ==
  ASSUME BaseInv, OnceInv, NEW p \in Procs, PassChecks(p)
  PROVE  Work(p, ex[p])
<1> DEFINE x == ex[p]
<1>1. pc[p] = "check" /\ Holding(p)
  BY DEF PassChecks, Holding, Busy
<1>2. /\ x \in Execs /\ status[x] \in Working /\ ~due[x] /\ done[p] = results[x] /\ held[p]
      /\ \A i \in Actions : <<x, i>> \in ran => i \in results[x]
  BY <1>1, HolderKnows
<1>3. /\ UNCHANGED <<ev, evdue, target, twice, ran, results, status, attempt, due>>
      /\ pc' = [pc EXCEPT ![p] = "act"]
      /\ UNCHANGED <<kind, event, ex, todo, held, done>>
  BY DEF PassChecks, rules, queue, effects, rows
<1>4. Moves(p) /\ Holding(p)'
  BY <1>2, <1>3 DEF Moves, Holding, Busy, BaseInv, TypeOKEngine, ItemType
<1> QED
  BY <1>1, <1>2, <1>3, <1>4 DEF Work, Working

(* The action that runs has no recorded success, and no other process is    *)
(* about to record it: it runs for the first time.                          *)
LEMMA RunActionWorks ==
  ASSUME BaseInv, OnceInv, NEW p \in Procs, RunAction(p)
  PROVE  Work(p, ex[p])
<1> DEFINE x == ex[p]
<1>1. pc[p] = "act" /\ Holding(p)
  BY DEF RunAction, Holding, Busy
<1>2. /\ x \in Execs /\ status[x] \in Working /\ ~due[x] /\ done[p] = results[x] /\ held[p]
      /\ \A i \in Actions : <<x, i>> \in ran => i \in results[x]
  BY <1>1, HolderKnows
<1>3. PICK i \in Actions : IsFirst(p, i) /\ Effect(x, i)
  BY DEF RunAction
<1>4. /\ UNCHANGED <<ev, evdue, target, results, status, attempt, due>>
      /\ pc' = [pc EXCEPT ![p] = "record"]
      /\ UNCHANGED <<kind, event, ex, todo, held, done>>
  BY DEF RunAction, rules, queue, rows
<1>5. i \notin results[x]
  BY <1>2, <1>3 DEF IsFirst, Pending
<1>6. ran' = ran \cup {<<x, i>>} /\ twice' = twice
  BY <1>2, <1>3, <1>5 DEF Effect
<1>7. Moves(p) /\ Holding(p)' /\ pc'[p] = "record"
  BY <1>2, <1>4 DEF Moves, Holding, Busy, BaseInv, TypeOKEngine, ItemType
<1>8. IsFirst(p, i)'
  BY <1>3, <1>4 DEF IsFirst, Pending
<1> HIDE DEF x
<1>9. /\ \A y \in Execs \ {x}, j \in Actions : <<y, j>> \in ran' => <<y, j>> \in ran
      /\ \A j \in Actions : <<x, j>> \in ran' => j = i \/ <<x, j>> \in ran
  BY <1>6
<1> QED
  BY <1>1, <1>2, <1>4, <1>6, <1>7, <1>8, <1>9 DEF Work, Working, x

LEMMA RecordResultWorks ==
  ASSUME BaseInv, OnceInv, NEW p \in Procs, RecordResult(p)
  PROVE  Work(p, ex[p])
<1> DEFINE x == ex[p]
<1>1. pc[p] = "record" /\ Holding(p)
  BY DEF RecordResult, Holding, Busy
<1>2. /\ x \in Execs /\ status[x] \in Working /\ ~due[x] /\ done[p] = results[x] /\ held[p]
      /\ \A i \in Actions : <<x, i>> \in ran => i \in results[x] \/ IsFirst(p, i)
  BY <1>1, HolderKnows
<1>3. PICK i \in Actions : /\ IsFirst(p, i)
                          /\ results' = Recorded(x, done[p] \cup {i})
                          /\ done' = [done EXCEPT ![p] = @ \cup {i}]
  BY DEF RecordResult
<1>4. /\ UNCHANGED <<ev, evdue, target, status, attempt, due, ran, twice>>
      /\ pc' = [pc EXCEPT ![p] = "act"]
      /\ UNCHANGED <<kind, event, ex, todo, held>>
  BY DEF RecordResult, queue, effects
<1>5. \A j \in Actions : IsFirst(p, j) => j = i
  BY <1>3, ConstantsOK DEF IsFirst, Pending, Actions
<1> HIDE DEF x
<1> USE DEF BaseInv, TypeOKEngine, ItemType, CopyType, RowType
<1>6. /\ results'[x] = results[x] \cup {i} /\ done'[p] = results'[x]
      /\ \A y \in Execs \ {x} : results'[y] = results[y]
  BY <1>2, <1>3 DEF Recorded
<1>7. Moves(p) /\ Holding(p)' /\ ex'[p] = x
  BY <1>2, <1>3, <1>4 DEF Moves, Holding, Busy, x
<1>8. \A j \in Actions : <<x, j>> \in ran' => j \in results'[x]
  BY <1>2, <1>4, <1>5, <1>6
<1> QED
  BY <1>1, <1>2, <1>4, <1>6, <1>7, <1>8 DEF Work, x, Working

LEMMA SucceedWorks ==
  ASSUME BaseInv, OnceInv, NEW p \in Procs, Succeed(p)
  PROVE  Work(p, ex[p])
<1> DEFINE x == ex[p]
<1>1. pc[p] = "act" /\ Holding(p)
  BY DEF Succeed, Holding, Busy
<1>2. /\ x \in Execs /\ ~due[x] /\ \A i \in Actions : <<x, i>> \in ran => i \in results[x]
  BY <1>1, HolderKnows
<1>3. /\ UNCHANGED <<ev, evdue, target, twice, ran, results, attempt, due>>
      /\ status' = [status EXCEPT ![x] = "succeeded"]
  BY DEF Succeed, rules, queue, effects
<1>4. Moves(p) /\ ~Holding(p)' /\ ex'[p] = NoExec
  BY <1>1, ReturnMoves DEF Succeed
<1> HIDE DEF x
<1>5. status'[x] = "succeeded" /\ \A y \in Execs \ {x} : status'[y] = status[y]
  BY <1>2, <1>3 DEF BaseInv, TypeOKEngine, RowType
<1> QED
  BY <1>1, <1>2, <1>3, <1>4, <1>5 DEF Work, x

LEMMA FailWorks ==
  ASSUME BaseInv, OnceInv, NEW p \in Procs, Fail(p)
  PROVE  Work(p, ex[p])
<1> DEFINE x == ex[p]
           list == results'[x]
<1>1. pc[p] \in {"check", "act"} /\ Holding(p)
  BY DEF Fail, Holding, Busy
<1>2. /\ x \in Execs /\ ~due[x] /\ done[p] = results[x]
      /\ \A i \in Actions : <<x, i>> \in ran => i \in results[x]
  BY <1>1, HolderKnows
<1>3. /\ UNCHANGED <<ev, evdue, target, twice, ran, attempt>>
      /\ status' = [status EXCEPT ![x] = FailedStatus(tries[p], done[p])]
      /\ due' = [due EXCEPT ![x] = FALSE]
      /\ results' = results \/ results' = Recorded(x, done[p])
      /\ FailAndReturn(p, list, held[p])
  BY DEF Fail, queue, effects
<1>4. /\ Moves(p)
      /\ \/ ~Holding(p)' /\ ex'[p] = NoExec
         \/ pc'[p] = "persist" /\ ex' = ex /\ done'[p] = list
  <2> HIDE DEF list
  <2> QED
    BY <1>1, <1>3, FailMoves
<1>5. FailedStatus(tries[p], done[p]) \in {"retry_scheduled", "failed", "partially_failed"}
  BY DEF FailedStatus
<1> HIDE DEF x
<1> USE DEF BaseInv, TypeOKEngine, RowType
<1>6. /\ status'[x] \in {"retry_scheduled", "failed", "partially_failed"} /\ ~due'[x]
      /\ \A y \in Execs \ {x} : status'[y] = status[y] /\ due'[y] = due[y]
  BY <1>2, <1>3, <1>5
<1>7. results' = results
  BY <1>2, <1>3 DEF Recorded
<1> QED
  BY <1>1, <1>2, <1>3, <1>4, <1>6, <1>7 DEF Work, x, Working, Holding, Busy

LEMMA PersistFailureWorks ==
  ASSUME BaseInv, OnceInv, NEW p \in Procs, PersistFailure(p)
  PROVE  Work(p, ex[p])
<1> DEFINE x == ex[p]
<1>1. pc[p] = "persist" /\ Holding(p)
  BY DEF PersistFailure, Holding, Busy
<1>2. /\ x \in Execs /\ status[x] \in Working /\ ~due[x] /\ done[p] = results[x]
      /\ \A i \in Actions : <<x, i>> \in ran => i \in results[x]
  BY <1>1, HolderKnows
<1>3. /\ UNCHANGED <<ev, evdue, target, twice, ran, status, attempt, due>>
      /\ results' = Recorded(x, done[p])
  BY DEF PersistFailure, queue, effects
<1>4. Moves(p) /\ ~Holding(p)' /\ ex'[p] = NoExec
  BY <1>1, ReturnMoves DEF PersistFailure
<1> HIDE DEF x
<1>5. results' = results
  BY <1>2, <1>3 DEF Recorded, BaseInv, TypeOKEngine, RowType
<1> QED
  BY <1>1, <1>2, <1>3, <1>4, <1>5 DEF Work, x, Working

-----------------------------------------------------------------------------
(* The other steps.                                                        *)
Kept ==
    \A x \in Execs :
      /\ results[x] \subseteq results'[x]
      /\ status[x] \in {"succeeded", "skipped"} =>
           <<status[x], attempt[x], results[x]>>' = <<status[x], attempt[x], results[x]>>

LEMMA WorkKeeps ==
  ASSUME BaseInv, OnceInv, NEW p \in Procs, Work(p, ex[p])
  PROVE  OnceInv' /\ Kept
<1>1. Holding(p) /\ ex[p] \in Execs /\ status[ex[p]] \in Working
  BY HolderKnows DEF Work
<1>2. OneOwner' /\ EventsFresh' /\ TodoFresh'
  BY <1>1, WorkKeepsQueue
<1>3. OneHolder' /\ RanKnown' /\ ActionsOnce'
  BY <1>1, WorkKeepsHolders
<1>4. Kept
  BY <1>1 DEF Kept, Work, Working
<1> QED
  BY <1>2, <1>3, <1>4 DEF OnceInv

(* A step that leaves the rows alone, and every execution with its holder. *)
LEMMA QuietKeepsHolders ==
  ASSUME BaseInv, OnceInv, UNCHANGED <<rows, effects>>,
         \A q \in Procs : /\ (Holding(q)' <=> Holding(q)) /\ ex'[q] = ex[q]
                          /\ Holding(q) => pc'[q] = pc[q] /\ done'[q] = done[q]
  PROVE  OneHolder' /\ RanKnown' /\ ActionsOnce' /\ Kept
<1> USE DEF rows, effects
<1>1. OneHolder'
  BY DEF OnceInv, OneHolder
<1>2. \A q \in Procs, i \in Actions : pc[q] = "record" /\ IsFirst(q, i) =>
        pc'[q] = "record" /\ IsFirst(q, i)' /\ ex'[q] = ex[q]
  BY DEF Holding, Busy, IsFirst, Pending
<1>3. RanKnown'
  BY <1>2 DEF OnceInv, RanKnown
<1>4. ActionsOnce' /\ Kept
  BY DEF OnceInv, ActionsOnce, Kept
<1> QED
  BY <1>1, <1>3, <1>4

LEMMA RulesStep ==
  ASSUME BaseInv, OnceInv, UNCHANGED <<queue, rows, effects, local>>
  PROVE  OnceInv' /\ Kept
<1> USE DEF queue, rows, effects, local
<1>1. OneOwner' /\ EventsFresh' /\ TodoFresh'
  BY DEF OnceInv, OneOwner, EventsFresh, TodoFresh, Untouched
<1>2. OneHolder' /\ RanKnown' /\ ActionsOnce' /\ Kept
  BY QuietKeepsHolders DEF Holding
<1> QED
  BY <1>1, <1>2 DEF OnceInv

LEMMA QueueEventKeeps ==
  ASSUME BaseInv, OnceInv, NEW e \in Events, QueueEvent(e)
  PROVE  OnceInv' /\ Kept
<1>0. /\ ev[e] = "none" /\ UNCHANGED <<target, rows, effects, local>>
      /\ ev' = [ev EXCEPT ![e] = "queued"] /\ evdue' = [evdue EXCEPT ![e] = TRUE]
  BY DEF QueueEvent
<1> USE DEF rows, effects, local, BaseInv, TypeOKEngine, QueueType
<1>1. OneOwner'
  BY <1>0 DEF OnceInv, OneOwner, Focus
<1>2. EventsFresh'
  BY <1>0 DEF OnceInv, EventsFresh, Untouched
<1>3. TodoFresh'
  BY <1>0 DEF OnceInv, TodoFresh
<1>4. OneHolder' /\ RanKnown' /\ ActionsOnce' /\ Kept
  BY <1>0, QuietKeepsHolders DEF Holding
<1> QED
  BY <1>1, <1>2, <1>3, <1>4 DEF OnceInv

LEMMA EventDueKeeps ==
  ASSUME Steady, BaseInv, OnceInv, NEW e \in Events, EventDue(e)
  PROVE  OnceInv' /\ Kept
<1>0. /\ ev[e] \in {"queued", "processing"} /\ UNCHANGED <<ev, target, rows, effects, local>>
      /\ ev[e] = "processing" => \A p \in Procs : ~(kind[p] = "event" /\ event[p] = e)
      /\ evdue' = [evdue EXCEPT ![e] = TRUE]
  BY DEF EventDue, Steady
<1> USE DEF rows, effects, local, BaseInv, TypeOKEngine, QueueType
<1>1. OneOwner'
  BY <1>0 DEF OnceInv, OneOwner, Focus
<1>2. EventsFresh' /\ TodoFresh'
  BY <1>0 DEF OnceInv, EventsFresh, TodoFresh, Untouched
<1>3. OneHolder' /\ RanKnown' /\ ActionsOnce' /\ Kept
  BY <1>0, QuietKeepsHolders DEF Holding
<1> QED
  BY <1>1, <1>2, <1>3 DEF OnceInv

LEMMA RetryDueKeeps ==
  ASSUME Steady, BaseInv, OnceInv, NEW x \in Execs, RetryDue(x)
  PROVE  OnceInv' /\ Kept
<1>0. /\ status[x] = "retry_scheduled" /\ \A p \in Procs : ex[p] # x
      /\ due' = [due EXCEPT ![x] = TRUE]
      /\ UNCHANGED <<queue, status, attempt, results, effects, local>>
  BY DEF RetryDue, Steady
<1> USE DEF queue, effects, local, BaseInv, TypeOKEngine, RowType
<1>1. OneOwner' /\ EventsFresh' /\ TodoFresh'
  BY <1>0 DEF OnceInv, OneOwner, EventsFresh, TodoFresh, Untouched
<1>2. OneHolder'
  BY <1>0 DEF OnceInv, OneHolder, Holding, Focus
<1>3. RanKnown' /\ ActionsOnce' /\ Kept
  BY <1>0 DEF OnceInv, RanKnown, ActionsOnce, Kept, IsFirst, Pending
<1> QED
  BY <1>1, <1>2, <1>3 DEF OnceInv

LEMMA RetryExecutionKeeps ==
  ASSUME Steady, BaseInv, OnceInv, NEW x \in Execs, RetryExecution(x)
  PROVE  OnceInv' /\ Kept
<1>0. /\ status[x] \in {"failed", "partially_failed"} /\ \A p \in Procs : ex[p] # x
      /\ status' = [status EXCEPT ![x] = "retry_scheduled"]
      /\ due' = [due EXCEPT ![x] = TRUE]
      /\ UNCHANGED <<queue, attempt, results, effects, local>>
  BY DEF RetryExecution, Steady
<1> USE DEF queue, effects, local, BaseInv, TypeOKEngine, RowType, ItemType
<1>1. \A y \in Execs : (status'[y] = "none") <=> (status[y] = "none")
  BY <1>0
<1>2. \A e \in Events : Untouched(e)' <=> Untouched(e)
  BY <1>1 DEF Untouched, Execs
<1>3. OneOwner'
  BY <1>0 DEF OnceInv, OneOwner
<1>4. EventsFresh'
  BY <1>0, <1>2 DEF OnceInv, EventsFresh, Focus
<1>5. \A p \in Procs : \A m \in todo[p] : <<m[1], m[2], event[p]>> \in Execs
  BY DEF OnceInv, TodoFresh, Execs, Focus
<1>6. TodoFresh'
  BY <1>0, <1>1, <1>5 DEF OnceInv, TodoFresh
<1>7. OneHolder'
  BY <1>0 DEF OnceInv, OneHolder, Holding, Focus
<1>8. RanKnown' /\ ActionsOnce' /\ Kept
  BY <1>0 DEF OnceInv, RanKnown, ActionsOnce, Kept, IsFirst, Pending
<1> QED
  BY <1>3, <1>4, <1>6, <1>7, <1>8 DEF OnceInv

LEMMA ManualRunKeeps ==
  ASSUME BaseInv, OnceInv, NEW p \in Callers, NEW r \in Rules, NEW e \in Events,
         ManualRun(p, r, e)
  PROVE  OnceInv' /\ Kept
<1>0. /\ p \in Procs /\ pc[p] = "idle" /\ kind[p] = "none" /\ ev[e] = "none"
      /\ ev' = [ev EXCEPT ![e] = "queued"] /\ evdue' = [evdue EXCEPT ![e] = TRUE]
      /\ target' = [target EXCEPT ![e] = r]
      /\ pc' = [pc EXCEPT ![p] = "next"] /\ kind' = [kind EXCEPT ![p] = "manual"]
      /\ event' = [event EXCEPT ![p] = e]
      /\ todo' = [todo EXCEPT ![p] = {<<r, rver[r], ron[r]>>}]
      /\ UNCHANGED <<rows, effects, ex, held, done>>
  BY DEF ManualRun, BaseInv, Focus, Procs
<1>1. Untouched(e) /\ target[e] = NoRule /\ r # NoRule
  BY <1>0, ConstantsOK DEF OnceInv, EventsFresh
<1> USE DEF rows, effects, BaseInv, TypeOKEngine, QueueType, ItemType
<1>2. \A q \in Procs : kind[q] \in {"event", "manual"} => event[q] # e /\ event[q] \in Events
  BY <1>0 DEF OnceInv, OneOwner, Focus
<1>3. \A q \in Procs \ {p} : /\ pc'[q] = pc[q] /\ kind'[q] = kind[q] /\ event'[q] = event[q]
                              /\ todo'[q] = todo[q]
  BY <1>0
<1>4. OneOwner'
  BY <1>0, <1>1, <1>2, <1>3 DEF OnceInv, OneOwner
<1>5. EventsFresh'
  <2>1. \A q \in Procs : pc[q] = "dispatch" => kind[q] = "event"
    BY DEF OnceInv, TodoFresh
  <2>2. \A d \in Events : Untouched(d)' <=> Untouched(d)
    BY <1>0 DEF Untouched
  <2>3. \A d \in Events \ {e} : ev'[d] = ev[d] /\ target'[d] = target[d]
    BY <1>0
  <2>4. ev'[e] = "queued" /\ target'[e] = r
    BY <1>0
  <2>5. \A q \in Procs : kind[q] = "event" => kind'[q] = "event" /\ event'[q] = event[q]
    BY <1>0, <1>3
  <2>6. \A d \in Events : ev'[d] = "processing" /\ target'[d] = NoRule =>
          \E q \in Procs : kind'[q] = "event" /\ event'[q] = d
    BY <1>0, <2>3, <2>4, <2>5 DEF OnceInv, EventsFresh
  <2>7. \A d \in Events :
          /\ ev'[d] = "none" => Untouched(d)' /\ target'[d] = NoRule
          /\ ev'[d] = "queued" /\ target'[d] = NoRule => Untouched(d)'
    BY <1>1, <2>2, <2>3, <2>4 DEF OnceInv, EventsFresh
  <2>8. \A q \in Procs : pc'[q] = "dispatch" =>
          event'[q] \in Events /\ (target'[event'[q]] = NoRule => Untouched(event'[q]))
    BY <1>0, <1>2, <1>3, <2>1, <2>3 DEF OnceInv, EventsFresh
  <2> QED
    BY <2>2, <2>6, <2>7, <2>8 DEF EventsFresh
<1>6. TodoFresh'
  <2> SUFFICES ASSUME NEW q \in Procs
               PROVE  /\ held'[q]
                      /\ todo'[q] # {} => kind'[q] \in {"event", "manual"}
                      /\ kind'[q] = "event" /\ target'[event'[q]] # NoRule => todo'[q] = {}
                      /\ \A m, n \in todo'[q] : m[1] = n[1] => m = n
                      /\ \A m \in todo'[q] : status'[<<m[1], m[2], event'[q]>>] = "none"
                      /\ pc'[q] = "dispatch" => todo'[q] = {} /\ kind'[q] = "event"
    BY DEF TodoFresh
  <2>1. CASE q # p
    <3>1. kind[q] = "event" => target'[event[q]] = target[event[q]]
      BY <1>0, <1>2
    <3> QED
      BY <1>0, <1>3, <2>1, <3>1 DEF OnceInv, TodoFresh
  <2>2. CASE q = p
    <3>1. held'[p] /\ pc'[p] = "next" /\ kind'[p] = "manual" /\ event'[p] = e
          /\ todo'[p] = {<<r, rver[r], ron[r]>>}
      BY <1>0 DEF OnceInv, TodoFresh
    <3>2. status'[<<r, rver[r], e>>] = "none"
      BY <1>0, <1>1 DEF Untouched
    <3> QED
      BY <2>2, <3>1, <3>2
  <2> QED
    BY <2>1, <2>2
<1>7. OneHolder' /\ RanKnown' /\ ActionsOnce' /\ Kept
  BY <1>0, QuietKeepsHolders DEF Holding, Busy
<1> QED
  BY <1>4, <1>5, <1>6, <1>7 DEF OnceInv

LEMMA ClaimEventKeeps ==
  ASSUME BaseInv, OnceInv, NEW p \in Procs, NEW e \in Events, ClaimEvent(p, e)
  PROVE  OnceInv' /\ Kept
<1>0. /\ pc[p] = "idle" /\ kind[p] = "none" /\ ev[e] \in {"queued", "processing"} /\ evdue[e]
      /\ ev' = [ev EXCEPT ![e] = "processing"] /\ evdue' = [evdue EXCEPT ![e] = FALSE]
      /\ pc' = [pc EXCEPT ![p] = "dispatch"] /\ kind' = [kind EXCEPT ![p] = "event"]
      /\ event' = [event EXCEPT ![p] = e]
      /\ UNCHANGED <<target, rows, effects, ex, todo, held, done>>
  BY DEF ClaimEvent, Claimable, BaseInv, Focus
<1> USE DEF rows, effects, BaseInv, TypeOKEngine, QueueType, ItemType
<1>1. \A q \in Procs : kind[q] = "event" => event[q] # e
  BY <1>0 DEF OnceInv, OneOwner
<1>2. target[e] = NoRule => Untouched(e)
  BY <1>0, <1>1 DEF OnceInv, EventsFresh
<1>3. \A q \in Procs \ {p} : pc'[q] = pc[q] /\ kind'[q] = kind[q] /\ event'[q] = event[q]
  BY <1>0
<1>4. pc'[p] = "dispatch" /\ kind'[p] = "event" /\ event'[p] = e
  BY <1>0
<1>5. OneOwner'
  BY <1>0, <1>1, <1>3, <1>4 DEF OnceInv, OneOwner, Focus
<1>6. EventsFresh'
  <2>1. \A d \in Events : Untouched(d)' <=> Untouched(d)
    BY <1>0 DEF Untouched
  <2>2. \A d \in Events \ {e} : ev'[d] = ev[d]
    BY <1>0
  <2>3. ev'[e] = "processing"
    BY <1>0
  <2>4. \A q \in Procs : kind[q] = "event" => kind'[q] = "event" /\ event'[q] = event[q]
    BY <1>0, <1>3
  <2>5. \A d \in Events : ev'[d] = "processing" /\ target[d] = NoRule =>
          \E q \in Procs : kind'[q] = "event" /\ event'[q] = d
    BY <1>4, <2>2, <2>4 DEF OnceInv, EventsFresh
  <2>6. \A q \in Procs : pc'[q] = "dispatch" =>
          event'[q] \in Events /\ (target[event'[q]] = NoRule => Untouched(event'[q]))
    BY <1>2, <1>3, <1>4 DEF OnceInv, EventsFresh, Focus
  <2> QED
    BY <1>0, <2>1, <2>2, <2>3, <2>5, <2>6 DEF OnceInv, EventsFresh
<1>7. TodoFresh'
  <2>1. todo[p] = {}
    BY <1>0 DEF OnceInv, TodoFresh
  <2> QED
    BY <1>0, <1>3, <1>4, <2>1 DEF OnceInv, TodoFresh
<1>8. OneHolder' /\ RanKnown' /\ ActionsOnce' /\ Kept
  BY <1>0, QuietKeepsHolders DEF Holding, Busy
<1> QED
  BY <1>5, <1>6, <1>7, <1>8 DEF OnceInv

LEMMA DispatchKeeps ==
  ASSUME Steady, BaseInv, OnceInv, NEW p \in Procs, Dispatch(p)
  PROVE  OnceInv' /\ Kept
<1> DEFINE list == {<<r, rver[r], TRUE>> : r \in {q \in Matching(event[p]) : ron[q]}}
<1>0. /\ pc[p] = "dispatch" /\ kind[p] = "event" /\ event[p] \in Events
      /\ pc' = [pc EXCEPT ![p] = "next"] /\ todo' = [todo EXCEPT ![p] = list]
      /\ UNCHANGED <<queue, rows, effects, kind, event, ex, held, done>>
  BY DEF Dispatch, BaseInv, Focus, OnceInv, TodoFresh
<1> USE DEF queue, rows, effects, BaseInv, TypeOKEngine, QueueType, ItemType
<1>1. target[event[p]] # NoRule => list = {}
  BY DEF Matching, Steady
<1>m. \A m \in list : \E r \in Rules : m = <<r, rver[r], TRUE>>
  <2> SUFFICES ASSUME NEW r \in Matching(event[p])
               PROVE  r \in Rules
    OBVIOUS
  <2> QED
    BY <1>0, ConstantsOK DEF Matching
<1>2. \A m, n \in list : m[1] = n[1] => m = n
  <2> HIDE DEF list
  <2> SUFFICES ASSUME NEW m \in list, NEW n \in list, m[1] = n[1]
               PROVE  m = n
    OBVIOUS
  <2>1. PICK r \in Rules : m = <<r, rver[r], TRUE>>
    BY <1>m
  <2>2. PICK s \in Rules : n = <<s, rver[s], TRUE>>
    BY <1>m
  <2>3. m[1] = r /\ n[1] = s
    BY <2>1, <2>2
  <2> QED
    BY <2>1, <2>2, <2>3
<1>3. \A m \in list : status[<<m[1], m[2], event[p]>>] = "none"
  <2> SUFFICES ASSUME NEW m \in list, target[event[p]] = NoRule
               PROVE  status[<<m[1], m[2], event[p]>>] = "none"
    BY <1>1
  <2>0. PICK r \in Rules : m = <<r, rver[r], TRUE>>
    BY <1>m
  <2> HIDE DEF list
  <2>1. m[1] \in Rules /\ m[2] \in Versions
    BY <2>0
  <2>2. Untouched(event[p])
    BY <1>0 DEF OnceInv, EventsFresh
  <2> QED
    BY <2>1, <2>2 DEF Untouched
<1> HIDE DEF list
<1>4. \A q \in Procs \ {p} : pc'[q] = pc[q] /\ todo'[q] = todo[q]
  BY <1>0
<1>5. pc'[p] = "next" /\ todo'[p] = list
  BY <1>0
<1>6. OneOwner'
  BY <1>0 DEF OnceInv, OneOwner
<1>7. EventsFresh'
  BY <1>0, <1>4, <1>5 DEF OnceInv, EventsFresh, Untouched
<1>8. TodoFresh'
  BY <1>0, <1>1, <1>2, <1>3, <1>4, <1>5 DEF OnceInv, TodoFresh
<1>9. OneHolder' /\ RanKnown' /\ ActionsOnce' /\ Kept
  BY <1>0, QuietKeepsHolders DEF Holding, Busy
<1> QED
  BY <1>6, <1>7, <1>8, <1>9 DEF OnceInv

LEMMA CloseEventKeeps ==
  ASSUME BaseInv, OnceInv, NEW p \in Procs, CloseEvent(p)
  PROVE  OnceInv' /\ Kept
<1> DEFINE e == event[p]
<1>0. /\ pc[p] = "next" /\ kind[p] \in {"event", "manual"} /\ e \in Events /\ ex[p] = NoExec
      /\ ev' = [ev EXCEPT ![e] = "processed"] /\ DropItem(p)
      /\ UNCHANGED <<evdue, target, rows, effects>>
  BY DEF CloseEvent, Handled, BaseInv, Focus, OnceInv, OneHolder, Holding, Busy
<1> HIDE DEF e
<1> USE DEF rows, effects, BaseInv, TypeOKEngine, QueueType, ItemType, CopyType
<1>1. \A q \in Procs \ {p} : /\ pc'[q] = pc[q] /\ kind'[q] = kind[q] /\ event'[q] = event[q]
                              /\ ex'[q] = ex[q] /\ todo'[q] = todo[q] /\ held'[q] = held[q]
                              /\ done'[q] = done[q]
  BY <1>0 DEF DropItem, DropExecution
<1>2. /\ pc'[p] = "idle" /\ kind'[p] = "none" /\ ex'[p] = NoExec /\ todo'[p] = {} /\ held'[p]
  BY <1>0 DEF DropItem, DropExecution
<1>3. /\ ev'[e] = "processed" /\ \A d \in Events \ {e} : ev'[d] = ev[d]
      /\ evdue' = evdue /\ target' = target
  BY <1>0
<1>4. OneOwner'
  BY <1>1, <1>2, <1>3 DEF OnceInv, OneOwner, Focus
<1>5. EventsFresh'
  <2>1. \A d \in Events : Untouched(d)' <=> Untouched(d)
    BY <1>0 DEF Untouched
  <2>2. \A d \in Events \ {e}, q \in Procs : kind[q] = "event" /\ event[q] = d =>
          kind'[q] = "event" /\ event'[q] = d
    BY <1>1 DEF e
  <2>3. \A q \in Procs : pc'[q] = "dispatch" =>
          event'[q] = event[q] /\ event[q] \in Events /\ pc[q] = "dispatch"
    BY <1>1, <1>2 DEF Focus
  <2> QED
    BY <1>3, <2>1, <2>2, <2>3 DEF OnceInv, EventsFresh
<1>6. TodoFresh'
  BY <1>0, <1>1, <1>2, <1>3 DEF OnceInv, TodoFresh
<1>7. OneHolder' /\ RanKnown' /\ ActionsOnce' /\ Kept
  BY <1>0, <1>1, <1>2, QuietKeepsHolders DEF Holding, Busy
<1> QED
  BY <1>4, <1>5, <1>6, <1>7 DEF OnceInv

LEMMA ClaimRetryKeeps ==
  ASSUME BaseInv, OnceInv, NEW p \in Procs, NEW x \in Execs, ClaimRetry(p, x)
  PROVE  OnceInv' /\ Kept
<1>0. /\ pc[p] = "idle" /\ kind[p] = "none" /\ status[x] = "retry_scheduled" /\ due[x]
      /\ due' = [due EXCEPT ![x] = FALSE]
      /\ pc' = [pc EXCEPT ![p] = "claimed"] /\ kind' = [kind EXCEPT ![p] = "retry"]
      /\ ex' = [ex EXCEPT ![p] = x] /\ done' = [done EXCEPT ![p] = results[x]]
      /\ UNCHANGED <<queue, status, attempt, results, effects, event, todo, held>>
  BY DEF ClaimRetry, ReadRow, BaseInv, Focus
<1> USE DEF queue, effects, BaseInv, TypeOKEngine, RowType, ItemType, CopyType
<1>1. \A q \in Procs \ {p} : /\ pc'[q] = pc[q] /\ kind'[q] = kind[q] /\ ex'[q] = ex[q]
                              /\ done'[q] = done[q]
  BY <1>0
<1>2. pc'[p] = "claimed" /\ kind'[p] = "retry" /\ ex'[p] = x /\ done'[p] = results'[x]
  BY <1>0
<1>3. ~due'[x] /\ \A y \in Execs \ {x} : due'[y] = due[y]
  BY <1>0
<1>4. OneOwner'
  BY <1>0, <1>1, <1>2 DEF OnceInv, OneOwner
<1>5. EventsFresh'
  BY <1>0, <1>1, <1>2 DEF OnceInv, EventsFresh, Untouched
<1>6. TodoFresh'
  BY <1>0, <1>1, <1>2 DEF OnceInv, TodoFresh
<1>7. \A q \in Procs : Holding(q) => q # p /\ ex[q] # x /\ ex[q] \in Execs
  BY <1>0 DEF OnceInv, OneHolder, Holding, Busy, Focus
<1>8. \A q \in Procs \ {p} : (Holding(q)' <=> Holding(q)) /\ (Holding(p)')
  BY <1>1, <1>2 DEF Holding
<1>9. OneHolder'
  <2>1. \A q \in Procs \ {p} : ~Holding(q)' => ex'[q] = NoExec
    BY <1>1, <1>8 DEF OnceInv, OneHolder
  <2>2. \A q, s \in Procs : Holding(q)' /\ Holding(s)' /\ ex'[q] = ex'[s] => q = s
    BY <1>1, <1>2, <1>7, <1>8 DEF OnceInv, OneHolder
  <2>3. \A q \in Procs : Holding(q)' =>
          status'[ex'[q]] \in Working /\ ~due'[ex'[q]] /\ done'[q] = results'[ex'[q]]
    <3> SUFFICES ASSUME NEW q \in Procs, Holding(q)'
                 PROVE  status'[ex'[q]] \in Working /\ ~due'[ex'[q]]
                        /\ done'[q] = results'[ex'[q]]
      OBVIOUS
    <3>1. CASE q = p
      BY <1>0, <1>2, <1>3, <3>1 DEF Working
    <3>2. CASE q # p
      BY <1>0, <1>1, <1>3, <1>7, <1>8, <3>2 DEF OnceInv, OneHolder
    <3> QED
      BY <3>1, <3>2
  <2>4. \A y \in Execs : due'[y] => status'[y] = "retry_scheduled"
    BY <1>0, <1>3 DEF OnceInv, OneHolder
  <2>5. Holding(p)'
    BY <1>2 DEF Holding
  <2> QED
    BY <2>1, <2>2, <2>3, <2>4, <2>5 DEF OneHolder
<1>10. \A q \in Procs, i \in Actions : pc[q] = "record" /\ IsFirst(q, i) =>
         pc'[q] = "record" /\ ex'[q] = ex[q] /\ IsFirst(q, i)'
  BY <1>0, <1>1 DEF IsFirst, Pending
<1>11. RanKnown' /\ ActionsOnce' /\ Kept
  BY <1>0, <1>10 DEF OnceInv, RanKnown, ActionsOnce, Kept
<1> QED
  BY <1>4, <1>5, <1>6, <1>9, <1>11 DEF OnceInv

(* A matched rule is taken when its execution does not exist, and by the     *)
(* only process that has it on its list.                                     *)
LEMMA TakeRuleKeeps ==
  ASSUME BaseInv, OnceInv, NEW p \in Procs, TakeRule(p)
  PROVE  OnceInv' /\ Kept
<1>0. PICK m \in todo[p] :
        LET q == RuleAsRead(p, m)
            x == <<q[1], q[2], event[p]>>
        IN /\ todo' = [todo EXCEPT ![p] = @ \ {m}]
           /\ \/ /\ status[x] \in {"none"} \cup Retryable
                 /\ status' = [status EXCEPT ![x] = IF @ = "none" THEN "queued" ELSE @]
                 /\ pc' = [pc EXCEPT ![p] = "start"]
                 /\ on' = [on EXCEPT ![p] = q[3]]
                 /\ ReadRow(p, x)
              \/ /\ status[x] \in {"failed", "partially_failed"} /\ results[x] # Actions
                 /\ pc' = [pc EXCEPT ![p] = "persist"]
                 /\ ReadRow(p, x)
                 /\ UNCHANGED <<status, on>>
              \/ /\ status[x] \notin {"none"} \cup Retryable
                 /\ UNCHANGED <<status, pc, ex, on, tries, done>>
  BY DEF TakeRule
<1> DEFINE x == <<m[1], m[2], event[p]>>
<1>1. RuleAsRead(p, m) = m /\ status[x] = "none"
  BY DEF RuleAsRead, OnceInv, TodoFresh
<1>2. /\ pc[p] = "next" /\ kind[p] \in {"event", "manual"} /\ event[p] \in Events
      /\ UNCHANGED <<queue, attempt, results, due, effects, kind, event, held>>
  BY DEF TakeRule, BaseInv, Focus
<1>3. /\ todo' = [todo EXCEPT ![p] = @ \ {m}]
      /\ status' = [status EXCEPT ![x] = "queued"]
      /\ pc' = [pc EXCEPT ![p] = "start"]
      /\ ex' = [ex EXCEPT ![p] = x] /\ done' = [done EXCEPT ![p] = results[x]]
  BY <1>0, <1>1 DEF ReadRow, Retryable
<1>4. m \in Rules \X Versions \X BOOLEAN /\ x \in Execs
  BY <1>2 DEF BaseInv, TypeOKEngine, ItemType, Execs
<1>5. x[3] = event[p] /\ \A r \in Rules, v \in Versions, e \in Events : e # event[p] => <<r, v, e>> # x
  OBVIOUS
<1>6. \A n \in todo[p] : n # m => n[1] # m[1]
  BY DEF OnceInv, TodoFresh
<1>n. \A q \in Procs : \A n \in todo[q] :
        event[q] \in Events /\ n[1] \in Rules /\ n[2] \in Versions /\ <<n[1], n[2], event[q]>> \in Execs
  BY DEF OnceInv, TodoFresh, BaseInv, Focus, TypeOKEngine, ItemType, Execs
<1>7. \A q \in Procs \ {p} : \A n \in todo[q] : event[q] # event[p]
  <2> SUFFICES ASSUME NEW q \in Procs \ {p}, NEW n \in todo[q], event[q] = event[p]
               PROVE  FALSE
    OBVIOUS
  <2>1. kind[q] \in {"event", "manual"}
    BY DEF OnceInv, TodoFresh
  <2>2. CASE kind[q] = kind[p]
    BY <1>2, <2>1, <2>2 DEF OnceInv, OneOwner
  <2>3. CASE kind[q] = "manual" /\ kind[p] = "event"
    BY <2>3 DEF OnceInv, OneOwner, TodoFresh
  <2>4. CASE kind[q] = "event" /\ kind[p] = "manual"
    BY <2>4 DEF OnceInv, OneOwner, TodoFresh
  <2> QED
    BY <1>2, <2>1, <2>2, <2>3, <2>4
<1>8. \A q \in Procs : \A n \in todo'[q] : <<n[1], n[2], event[q]>> # x /\ n \in todo[q]
  <2> SUFFICES ASSUME NEW q \in Procs, NEW n \in todo'[q]
               PROVE  <<n[1], n[2], event[q]>> # x /\ n \in todo[q]
    OBVIOUS
  <2>1. CASE q = p
    BY <1>3, <1>6, <2>1 DEF BaseInv, TypeOKEngine, ItemType
  <2>2. CASE q # p
    BY <1>3, <1>7, <2>2 DEF BaseInv, TypeOKEngine, ItemType
  <2> QED
    BY <2>1, <2>2
<1> HIDE DEF x
<1> USE DEF queue, effects, BaseInv, TypeOKEngine, RowType, ItemType, CopyType
<1>9. \A y \in Execs \ {x} : status'[y] = status[y]
  BY <1>3
<1>10. \A q \in Procs \ {p} : pc'[q] = pc[q] /\ ex'[q] = ex[q] /\ done'[q] = done[q] /\ todo'[q] = todo[q]
  BY <1>3
<1>11. /\ pc'[p] = "start" /\ ex'[p] = x /\ done'[p] = results[x] /\ status'[x] = "queued"
       /\ todo'[p] \subseteq todo[p]
  BY <1>3, <1>4
<1>12. OneOwner'
  BY <1>2 DEF OnceInv, OneOwner
<1>13. EventsFresh'
  <2>1. \A e \in Events : e # event[p] => (Untouched(e)' <=> Untouched(e))
    <3> SUFFICES ASSUME NEW e \in Events, e # event[p], NEW r \in Rules, NEW v \in Versions
                 PROVE  status'[<<r, v, e>>] = status[<<r, v, e>>]
      BY DEF Untouched
    <3> QED
      BY <1>5, <1>9 DEF Execs
  <2>2. /\ ev[event[p]] # "none"
        /\ kind[p] = "event" => ev[event[p]] \in {"processing", "processed"}
        /\ kind[p] = "manual" => target[event[p]] # NoRule
    BY <1>2 DEF OnceInv, OneOwner
  <2>3. \A q \in Procs : pc'[q] = "dispatch" /\ target[event[q]] = NoRule =>
          pc[q] = "dispatch" /\ event[q] \in Events /\ event[q] # event[p]
    BY <1>2, <1>10, <1>11, <2>2 DEF OnceInv, OneOwner, TodoFresh, Focus
  <2> QED
    BY <1>2, <2>1, <2>2, <2>3 DEF OnceInv, EventsFresh
<1>14. TodoFresh'
  <2>1. \A q \in Procs : \A n \in todo'[q] : status'[<<n[1], n[2], event'[q]>>] = "none"
    BY <1>2, <1>8, <1>9, <1>n DEF OnceInv, TodoFresh
  <2>2. \A q \in Procs : todo'[q] \subseteq todo[q] /\ (pc'[q] = "dispatch" => pc[q] = "dispatch")
    BY <1>8, <1>10, <1>11
  <2> QED
    BY <1>2, <2>1, <2>2 DEF OnceInv, TodoFresh
<1>15. \A q \in Procs : Holding(q) => q # p /\ ex[q] # x /\ ex[q] \in Execs
  BY <1>1, <1>2 DEF OnceInv, OneHolder, Holding, Busy, Working, Focus, x
<1>16. Holding(p)' /\ \A q \in Procs \ {p} : (Holding(q)' <=> Holding(q))
  BY <1>10, <1>11 DEF Holding, Busy
<1>17. OneHolder'
  <2>1. \A q \in Procs \ {p} : ~Holding(q)' => ex'[q] = NoExec
    BY <1>10, <1>16 DEF OnceInv, OneHolder
  <2>2. \A q, s \in Procs : Holding(q)' /\ Holding(s)' /\ ex'[q] = ex'[s] => q = s
    BY <1>10, <1>11, <1>15, <1>16 DEF OnceInv, OneHolder
  <2>3. \A q \in Procs : Holding(q)' =>
          status'[ex'[q]] \in Working /\ ~due'[ex'[q]] /\ done'[q] = results'[ex'[q]]
    <3> SUFFICES ASSUME NEW q \in Procs, Holding(q)'
                 PROVE  status'[ex'[q]] \in Working /\ ~due'[ex'[q]]
                        /\ done'[q] = results'[ex'[q]]
      OBVIOUS
    <3>1. ~due[x]
      BY <1>1, <1>4 DEF OnceInv, OneHolder, x
    <3>2. CASE q = p
      BY <1>2, <1>11, <3>1, <3>2 DEF Working
    <3>3. CASE q # p
      BY <1>2, <1>9, <1>10, <1>15, <1>16, <3>3 DEF OnceInv, OneHolder
    <3> QED
      BY <3>2, <3>3
  <2>4. \A y \in Execs : due'[y] => status'[y] = "retry_scheduled"
    <3>1. ~due[x]
      BY <1>1, <1>4 DEF OnceInv, OneHolder, x
    <3> QED
      BY <1>2, <1>9, <3>1 DEF OnceInv, OneHolder
  <2> QED
    BY <1>16, <2>1, <2>2, <2>3, <2>4 DEF OneHolder
<1>18. \A q \in Procs, i \in Actions : pc[q] = "record" /\ IsFirst(q, i) =>
         pc'[q] = "record" /\ ex'[q] = ex[q] /\ IsFirst(q, i)'
  BY <1>2, <1>10 DEF IsFirst, Pending
<1>19. RanKnown' /\ ActionsOnce'
  BY <1>2, <1>18 DEF OnceInv, RanKnown, ActionsOnce
<1>20. Kept
  BY <1>1, <1>2, <1>9 DEF Kept, x
<1> QED
  BY <1>12, <1>13, <1>14, <1>17, <1>19, <1>20 DEF OnceInv

-----------------------------------------------------------------------------
(* Every step keeps the invariant.                                         *)
LEMMA OnceInit == InitEngine => OnceInv
BY ConstantsOK
   DEF InitEngine, OnceInv, OneOwner, EventsFresh, TodoFresh, OneHolder, RanKnown, ActionsOnce,
       Holding, Busy, Untouched, Execs

LEMMA OnceStep ==
  ASSUME Steady, BaseInv, OnceInv, [NextEngine]_varsEngine
  PROVE  OnceInv' /\ Kept
<1>1. ASSUME Environment
      PROVE  OnceInv' /\ Kept
  <2>1. ASSUME NEW r \in Rules, EditRule(r) \/ ToggleRule(r)
        PROVE  OnceInv' /\ Kept
    BY <2>1, RulesStep DEF EditRule, ToggleRule
  <2>2. ASSUME NEW e \in Events, QueueEvent(e) \/ EventDue(e)
        PROVE  OnceInv' /\ Kept
    BY <2>2, QueueEventKeeps, EventDueKeeps
  <2>3. ASSUME NEW x \in Execs, RetryDue(x) \/ RetryExecution(x)
        PROVE  OnceInv' /\ Kept
    BY <2>3, RetryDueKeeps, RetryExecutionKeeps
  <2>4. ASSUME NEW p \in Callers, NEW r \in Rules, NEW e \in Events, ManualRun(p, r, e)
        PROVE  OnceInv' /\ Kept
    BY <2>4, ManualRunKeeps
  <2> QED
    BY <1>1, <2>1, <2>2, <2>3, <2>4 DEF Environment
<1>2. ASSUME NEW p \in WorkerLoops, Claim(p)
      PROVE  OnceInv' /\ Kept
  BY <1>2, ClaimEventKeeps, ClaimRetryKeeps DEF Claim, Procs
<1>3. ASSUME NEW p \in Procs, Step(p)
      PROVE  OnceInv' /\ Kept
  <2>1. CASE Dispatch(p)
    BY <2>1, DispatchKeeps
  <2>2. CASE TakeRule(p)
    BY <2>2, TakeRuleKeeps
  <2>3. CASE CloseEvent(p)
    BY <2>3, CloseEventKeeps
  <2>4. CASE BeginRetry(p) \/ Start(p) \/ Skip(p) \/ PassChecks(p) \/ RunAction(p)
    BY <2>4, WorkKeeps, BeginRetryWorks, StartWorks, SkipWorks, PassChecksWorks, RunActionWorks
  <2>5. CASE RecordResult(p) \/ Succeed(p) \/ Fail(p) \/ PersistFailure(p)
    BY <2>5, WorkKeeps, RecordResultWorks, SucceedWorks, FailWorks, PersistFailureWorks
  <2> QED
    BY <1>3, <2>1, <2>2, <2>3, <2>4, <2>5 DEF Step
<1>4. ASSUME NEW p \in Procs, FaultStep(p)
      PROVE  OnceInv' /\ Kept
  <2>1. ~Fault
    BY DEF Fault, Steady, BaseInv, TypeOKEngine, QueueType
  <2> QED
    BY <1>4, <2>1 DEF FaultStep, Break, DispatchFails, Crash
<1>5. CASE UNCHANGED varsEngine
  BY <1>5, RulesStep DEF varsEngine
<1> QED
  BY <1>1, <1>2, <1>3, <1>4, <1>5 DEF NextEngine

(* No action of an execution runs twice while nothing fails, whatever        *)
(* workers, requests, rule edits, permission failures and retries do         *)
(* (execute_rule_for_event: the unique key of an execution and its recorded  *)
(* results are enough as long as every lease outlasts its work).             *)
THEOREM ActionsRunOnce ==
  ASSUME Steady
  PROVE  SpecEngine => []ActionsOnce
<1>1. InitEngine => BaseInv /\ OnceInv
  BY TypeInit, OnceInit DEF BaseInv
<1>2. BaseInv /\ OnceInv /\ [NextEngine]_varsEngine => (BaseInv /\ OnceInv)'
  BY TypeStep, OnceStep DEF BaseInv
<1>3. OnceInv => ActionsOnce
  BY DEF OnceInv
<1> QED
  BY <1>1, <1>2, <1>3, PTL DEF SpecEngine

(* A recorded success is never lost, and an execution that succeeded or was  *)
(* skipped is never written again, under the same conditions.                *)
THEOREM ResultsStay ==
  ASSUME Steady
  PROVE  SpecEngine => FinalAndRecordedStay
<1>1. InitEngine => BaseInv /\ OnceInv
  BY TypeInit, OnceInit DEF BaseInv
<1>2. BaseInv /\ OnceInv /\ [NextEngine]_varsEngine => (BaseInv /\ OnceInv)'
  BY TypeStep, OnceStep DEF BaseInv
<1>3. BaseInv /\ OnceInv /\ [NextEngine]_varsEngine =>
        \A x \in Execs :
          /\ results[x] \subseteq results'[x]
          /\ status[x] \in {"succeeded", "skipped"} =>
               <<status[x], attempt[x], results[x]>>' = <<status[x], attempt[x], results[x]>>
  BY OnceStep DEF Kept
<1> QED
  BY <1>1, <1>2, <1>3, PTL DEF SpecEngine, FinalAndRecordedStay
=============================================================================
