----------------------------- MODULE TableViews -----------------------------
(* The views of one table, its default view, and the filters, sorts and    *)
(* grouping that are stored for the table.                                 *)
(*                                                                         *)
(* A view request reads the views, inserts or deletes one, and sets the    *)
(* default view in a transaction of its own; requests overlap freely.      *)
EXTENDS Naturals, FiniteSets

CONSTANTS
    ViewIds,
    NoView,
    Items,        \* ids of filters and sorts
    Viewers,      \* requests that run at a time
    MaxViewCalls  \* bound on the requests of a history

VARIABLES
    view,         \* table_views: the name of each view, 0 where there is none
    defaultView,  \* workspace_items.default_view_id
    items,        \* table_filters and table_sorts: the stored ids
    wanted,       \* the set the last replacement or edit in sequence asked for
    viewCall,     \* how far each request is
    tangled,      \* requests overlapped, or one died half way
    viewCalls

varsViews == <<view, defaultView, items, wanted, viewCall, tangled, viewCalls>>

NoViewCall == [op |-> "none"]
Views == {v \in ViewIds : view[v] # 0}
Names == {view[v] : v \in Views}

InitViews ==
    /\ \E v \in ViewIds : view = [w \in ViewIds |-> IF w = v THEN 1 ELSE 0] /\ defaultView = v
    /\ items = {} /\ wanted = {}
    /\ viewCall = [c \in Viewers |-> NoViewCall]
    /\ tangled = FALSE /\ viewCalls = 0

BeginCall(c, call) ==
    /\ viewCall[c] = NoViewCall /\ viewCalls < MaxViewCalls
    /\ viewCalls' = viewCalls + 1
    /\ viewCall' = [viewCall EXCEPT ![c] = call]
    /\ tangled' = (tangled \/ \E d \in Viewers : viewCall[d] # NoViewCall)
    /\ UNCHANGED <<view, defaultView, items, wanted>>

(* The first name that no view read so far has (a base name, then numbers). *)
NextViewName(names) == CHOOSE n \in 1..(Cardinality(names) + 1) :
                          n \notin names /\ \A m \in 1..(n - 1) : m \in names

(* createView and copyView read the views to find a free name; a copy also *)
(* finds its source there.                                                 *)
BeginCreateView(c) == BeginCall(c, [op |-> "insert", name |-> NextViewName(Names), from |-> NoView])
BeginCopyView(c, v) ==
    /\ v \in Views
    /\ BeginCall(c, [op |-> "insert", name |-> NextViewName(Names), from |-> v])
(* deleteView counts the views. *)
BeginDeleteView(c, v) ==
    /\ Cardinality(Views) > 1
    /\ BeginCall(c, [op |-> "delete", id |-> v])

Step(c, op) == viewCall[c].op = op
GoOn(c, call) == viewCall' = [viewCall EXCEPT ![c] = call]

(* The row is inserted under a new id; a copy looks for its source again. *)
CreateView(c, v) ==
    /\ Step(c, "insert") /\ viewCall[c].from = NoView /\ view[v] = 0
    /\ view' = [view EXCEPT ![v] = viewCall[c].name]
    /\ GoOn(c, [op |-> "only", id |-> v])
    /\ UNCHANGED <<defaultView, items, wanted, tangled, viewCalls>>
CopyView(c, v) ==
    /\ Step(c, "insert") /\ viewCall[c].from # NoView /\ view[v] = 0
    /\ view' = IF viewCall[c].from \in Views THEN [view EXCEPT ![v] = viewCall[c].name] ELSE view
    /\ GoOn(c, NoViewCall)
    /\ UNCHANGED <<defaultView, items, wanted, tangled, viewCalls>>

(* A view that is the only one becomes the default. *)
DefaultOnlyView(c) ==
    /\ Step(c, "only")
    /\ defaultView' = IF Cardinality(Views) = 1 THEN viewCall[c].id ELSE defaultView
    /\ GoOn(c, NoViewCall)
    /\ UNCHANGED <<view, items, wanted, tangled, viewCalls>>

DeleteView(c) ==
    /\ Step(c, "delete")
    /\ view' = [view EXCEPT ![viewCall[c].id] = 0]
    /\ GoOn(c, IF viewCall[c].id \in Views THEN [op |-> "first"] ELSE NoViewCall)
    /\ UNCHANGED <<defaultView, items, wanted, tangled, viewCalls>>

(* After a deletion whatever view the database returns first is the        *)
(* default; a table without views keeps its old one.                       *)
DefaultFirstView(c) ==
    /\ Step(c, "first")
    /\ IF Views = {} THEN UNCHANGED defaultView ELSE \E v \in Views : defaultView' = v
    /\ GoOn(c, NoViewCall)
    /\ UNCHANGED <<view, items, wanted, tangled, viewCalls>>

(* updateFilters and updateSorts delete the rows they see and insert the   *)
(* new ones; the rows another request commits in between stay.             *)
BeginReplace(c, new) == BeginCall(c, [op |-> "replace", seen |-> items, new |-> new])
ReplaceItems(c) ==
    /\ Step(c, "replace")
    /\ items' = (items \ viewCall[c].seen) \cup viewCall[c].new
    /\ wanted' = viewCall[c].new
    /\ GoOn(c, NoViewCall)
    /\ UNCHANGED <<view, defaultView, tangled, viewCalls>>

(* One statement each: add, delete, clear. *)
EditItems(c, new, asked) ==
    /\ viewCall[c] = NoViewCall /\ viewCalls < MaxViewCalls
    /\ viewCalls' = viewCalls + 1
    /\ tangled' = (tangled \/ \E d \in Viewers : viewCall[d] # NoViewCall)
    /\ items' = new /\ wanted' = asked
    /\ UNCHANGED <<view, defaultView, viewCall>>
AddItem(c, i) == i \notin items /\ EditItems(c, items \cup {i}, wanted \cup {i})
DeleteItem(c, i) == i \in items /\ EditItems(c, items \ {i}, wanted \ {i})
ClearItems(c) == EditItems(c, {}, {})

ViewerDies(c) ==
    /\ viewCall[c] # NoViewCall
    /\ GoOn(c, NoViewCall) /\ tangled' = TRUE
    /\ UNCHANGED <<view, defaultView, items, wanted, viewCalls>>

NextViews ==
    \E c \in Viewers :
        \/ BeginCreateView(c) \/ DefaultOnlyView(c) \/ DeleteView(c) \/ DefaultFirstView(c)
        \/ ReplaceItems(c) \/ ClearItems(c) \/ ViewerDies(c)
        \/ \E v \in ViewIds : BeginCopyView(c, v) \/ BeginDeleteView(c, v)
                              \/ CreateView(c, v) \/ CopyView(c, v)
        \/ \E i \in Items : AddItem(c, i) \/ DeleteItem(c, i)
        \/ \E new \in SUBSET Items : BeginReplace(c, new)

-----------------------------------------------------------------------------
(* The variables have values of their types. *)
TypeOKViews ==
    /\ view \in [ViewIds -> 0..(Cardinality(ViewIds) + 1)]
    /\ defaultView \in ViewIds
    /\ items \subseteq Items /\ wanted \subseteq Items
    /\ viewCalls \in 0..MaxViewCalls

(* When no request overlapped another or died, then between requests the   *)
(* table has a view, the default view is one of its views, no two views    *)
(* share a name, and the stored filters are the ones last asked for        *)
(* (create_view, copy_view, delete_view, update_filters).                  *)
ViewsStayUsable ==
    ~tangled /\ (\A c \in Viewers : viewCall[c] = NoViewCall) =>
        /\ defaultView \in Views
        /\ Cardinality(Names) = Cardinality(Views)
        /\ items = wanted
=============================================================================
