--------------------------- MODULE VisualDesigns ---------------------------
(***************************************************************************)
(* Views and dashboards designed from a sentence (ai_visual_design.py): a  *)
(* preview takes the proposal of the language model, or one that the code  *)
(* derives from the words and the names of the fields, checks it against   *)
(* the fields and stores it with a fingerprint of what it was checked      *)
(* against; a later request applies it, as shown or as edited.  The plan's *)
(* row is locked meanwhile, the tables and the dashboard are not.          *)
(*                                                                         *)
(* Names, titles, layouts, orders and limits are left out; a sentence is   *)
(* the set of the words the code looks for, and a field has the roles its  *)
(* name suggests.  The lists of "in" filters are left out too.             *)
(***************************************************************************)
EXTENDS Naturals, Sequences, FiniteSets, SequencesExt

CONSTANTS
    Nil,            \* no field, no proposal
    TableOrder,     \* the tables of the workspace, in order
    Schemas,        \* field lists a table may have
    FirstSchemas,   \* the field lists of all tables at first
    FirstBoards,    \* the widgets of the dashboard at first
    Me, MemberNames,    \* who asks; the names of the workspace's members
    Requests,       \* previews a client may ask for
    Proposals,      \* what the language model may answer, or a client edit
    Workers,        \* concurrent applications
    MaxContexts, MaxFields, MaxWidgets,     \* the code's limits (8, 64, 12)
    MaxPlans, MaxApplies, MaxChanges, MaxEdits      \* bounds

Invalid == [kind |-> "invalid"]     \* AiVisualDesignError
Tables == ToSet(TableOrder)

VARIABLES
    schema,     \* the fields of every table
    perm,       \* what the user may do with every table
    board,      \* an existing dashboard: its widgets, and a stamp of its last change
    plans,      \* rows of ai_visual_design_plans
    views,      \* what the applications created, and against which fields
    work,       \* what every application has read and not yet written
    applies, changes, edits     \* how many there were

vars == <<schema, perm, board, plans, views, work, applies, changes, edits>>

-----------------------------------------------------------------------------
(* Fields                                                                  *)

Numeric == {"number", "progress", "rating"}
Categorical == {"text", "select", "multiSelect", "member", "date", "autoNumber"}
Trend == {"date", "autoNumber"} \cup Numeric
Charts == {"bar", "line", "pie", "horizontalBar", "table"}
Compare == {"gt", "gte", "lt", "lte"}
Empty == {"is_empty", "is_not_empty"}

ViewOperators(type) ==
    CASE type \in {"text", "url", "email", "phone"} -> {"contains", "equals"} \cup Empty
      [] type \in Numeric -> {"equals"} \cup Compare \cup Empty
      [] type = "formula" -> {"contains", "equals"} \cup Compare \cup Empty
      [] type \in {"select", "multiSelect", "member"} -> {"is", "is_not"} \cup Empty
      [] type = "date" -> {"is", "before", "after"} \cup Empty
      [] OTHER -> {}
BoardOperators(type) ==
    CASE type \in {"text", "url", "email", "phone", "multiSelect", "member"} -> {"eq", "neq", "contains"}
      [] type \in Numeric \cup {"autoNumber"} -> {"eq", "neq"} \cup Compare
      [] type = "select" -> {"eq", "neq"}
      [] type = "date" -> {"eq", "neq", "before", "after"}
      [] OTHER -> {}

NoField == [id |-> Nil, type |-> "none", roles |-> {}, opts |-> <<>>]
FirstIn(fields, P(_)) ==
    IF SelectSeq(fields, P) = <<>> THEN NoField ELSE Head(SelectSeq(fields, P))
FieldById(fields, id) == FirstIn(fields, LAMBDA f : f.id = id)
Ids(fields) == {fields[i].id : i \in DOMAIN fields}

\* The first field whose name suggests the role and whose type allows it.
RoleTypes ==
    [title |-> {"text"}, status |-> {"select", "text"}, owner |-> {"member"},
     priority |-> {"select", "text"}, deadline |-> {"date"}, start |-> {"date"},
     progress |-> {"progress", "number"}]
Semantic(fields, role) ==
    FirstIn(fields, LAMBDA f : role \in f.roles /\ f.type \in RoleTypes[role])
Either(f, g) == IF f # NoField THEN f ELSE g

HighOption(f) ==
    IF "high" \in ToSet(f.opts) THEN <<"high">> ELSE IF f.opts = <<>> THEN <<>> ELSE <<f.opts[1]>>
DoneOption(f) == IF "done" \in ToSet(f.opts) THEN <<"done">> ELSE <<>>

-----------------------------------------------------------------------------
(* Checking a view                                                         *)

SlotsOf(type) ==
    CASE type = "gantt" -> {"start", "end", "progress"}
      [] type = "calendar" -> {"start", "end"}
      [] type = "gallery" -> {"title", "cover"}
      [] OTHER -> {}
Required(type) ==
    CASE type = "gantt" -> {"start", "end"} [] type = "calendar" -> {"start"} [] OTHER -> {}
AllSlots == {"start", "end", "progress", "title", "cover"}
SlotTakes(slot, f) ==
    CASE slot \in {"start", "end"} -> f.type = "date"
      [] slot = "progress" -> f.type \in {"progress", "number"}
      [] OTHER -> TRUE

\* A field a design may filter, sort or group by.
Usable(fields, id) == id \in Ids(fields) /\ FieldById(fields, id).type # "relation"

ViewValueFits(f, op, v) ==
    \/ op \in Empty
    \/ CASE f.type \in {"select", "multiSelect"} -> v \in ToSet(f.opts)
         [] f.type = "date" -> v = "day"
         [] f.type \in Numeric /\ op \in Compare -> v = "num"
         [] f.type = "member" -> v \in MemberNames
         [] OTHER -> TRUE
ViewFilterFits(fields, x) ==
    /\ Usable(fields, x.field)
    /\ x.op \in ViewOperators(FieldById(fields, x.field).type)
    /\ ViewValueFits(FieldById(fields, x.field), x.op, x.value)

ViewFits(fields, d) ==
    /\ \A x \in ToSet(d.filters) : ViewFilterFits(fields, x)
    /\ \A id \in ToSet(d.sorts) : Usable(fields, id)
    /\ d.group # Nil => Usable(fields, d.group)
    /\ d.type = "board" => d.group # Nil /\ FieldById(fields, d.group).type = "select"
    /\ \A slot \in SlotsOf(d.type) :
          IF d.slots[slot] = Nil THEN slot \notin Required(d.type)
          ELSE d.slots[slot] \in Ids(fields) /\ SlotTakes(slot, FieldById(fields, d.slots[slot]))

FirstLogic(filters) == [i \in DOMAIN filters |-> IF i = 1 THEN [filters[i] EXCEPT !.logic = "where"] ELSE filters[i]]
WithoutRepeats(ids) == FoldLeft(LAMBDA done, id : IF id \in ToSet(done) THEN done ELSE Append(done, id), <<>>, ids)
KeptSlots(type, slots) == [s \in AllSlots |-> IF s \in SlotsOf(type) THEN slots[s] ELSE Nil]

\* The view as it is stored: it hides what the design does not list, and
\* nothing when the design lists nothing.
NormalizeView(ctx, d) ==
    IF \/ d.table \notin DOMAIN ctx \/ ctx[d.table].perm # "edit"
       \/ ~ViewFits(ctx[d.table].fields, d) \/ ~(ToSet(d.visible) \subseteq Ids(ctx[d.table].fields))
    THEN Invalid
    ELSE [kind |-> "view", table |-> d.table, type |-> d.type, filters |-> FirstLogic(d.filters),
          sorts |-> WithoutRepeats(d.sorts), group |-> d.group,
          hidden |-> IF d.visible = <<>> THEN {} ELSE Ids(ctx[d.table].fields) \ ToSet(d.visible),
          slots |-> KeptSlots(d.type, d.slots)]

-----------------------------------------------------------------------------
(* Checking a dashboard                                                    *)

BoardValueFits(f, op, v) ==
    CASE op \in {"before", "after"} \/ f.type = "date" -> v = "day"
      [] f.type = "select" -> v \in ToSet(f.opts)
      [] f.type \in Numeric \cup {"autoNumber"} /\ op \in Compare -> v = "num"
      [] OTHER -> TRUE
BoardFilterFits(fields, x) ==
    /\ Usable(fields, x.field)
    /\ x.op \in BoardOperators(FieldById(fields, x.field).type)
    /\ BoardValueFits(FieldById(fields, x.field), x.op, x.value)

WidgetFits(fields, w) ==
    /\ w.dim # Nil => Usable(fields, w.dim)
    /\ w.type \in Charts => w.dim # Nil
    /\ w.type = "line" => FieldById(fields, w.dim).type \in Trend
    /\ w.type = "pie" => FieldById(fields, w.dim).type \in Categorical
    /\ w.agg # "count" => /\ w.metric \in Ids(fields)
                          /\ FieldById(fields, w.metric).type \in Numeric \cup {"autoNumber"}
    /\ \A x \in ToSet(w.filters) : BoardFilterFits(fields, x)
    /\ w.type = "progress" => w.target > 0
NormalizeWidget(w) ==
    [w EXCEPT !.metric = IF w.agg = "count" THEN Nil ELSE @,
              !.by = IF w.dim = Nil THEN "value" ELSE @,
              !.target = IF w.type = "progress" THEN @ ELSE 0]

Keys(widgets) == {widgets[i].key : i \in DOMAIN widgets}
NormalizeDashboard(ctx, d) ==
    IF \/ Len(d.widgets) \notin 3..MaxWidgets \/ Cardinality(Keys(d.widgets)) # Len(d.widgets)
       \/ \E w \in ToSet(d.widgets) : w.table \notin DOMAIN ctx \/ ~WidgetFits(ctx[w.table].fields, w)
    THEN Invalid
    ELSE [kind |-> "dashboard", widgets |-> [i \in DOMAIN d.widgets |-> NormalizeWidget(d.widgets[i])]]

Normalize(ctx, d) ==
    CASE d.kind = "view" -> NormalizeView(ctx, d)
      [] d.kind = "dashboard" -> NormalizeDashboard(ctx, d)
      [] OTHER -> Invalid

\* The stored form as a proposal the client can edit and send back.
Editable(n, seen) ==
    IF n.kind = "dashboard" THEN n
    ELSE [kind |-> "view", table |-> n.table, type |-> n.type, filters |-> n.filters,
          sorts |-> n.sorts, group |-> n.group, slots |-> n.slots,
          visible |-> SelectSeq([i \in DOMAIN seen[n.table].fields |-> seen[n.table].fields[i].id],
                               LAMBDA id : id \notin n.hidden)]

-----------------------------------------------------------------------------
(* Proposals made without the language model                               *)

Filter(f, op, value) == [field |-> f.id, op |-> op, value |-> value, logic |-> "and"]
HighFilter(f) ==
    IF f = NoField THEN <<>>
    ELSE IF f.type # "select" THEN <<Filter(f, "contains", "text")>>
    ELSE [i \in DOMAIN HighOption(f) |-> Filter(f, "is", HighOption(f)[i])]
NotDone(status, op) ==
    IF status.type # "select" THEN <<>>
    ELSE [i \in DOMAIN DoneOption(status) |-> Filter(status, op, DoneOption(status)[i])]
If(c, s) == IF c THEN s ELSE <<>>

FallbackType(words) ==
    CASE "gantt" \in words -> "gantt" [] "calendar" \in words -> "calendar"
      [] "gallery" \in words -> "gallery" [] "board" \in words -> "board" [] OTHER -> "grid"
FallbackFilters(fields, words) ==
    LET deadline == Semantic(fields, "deadline")
        owner == Semantic(fields, "owner")
    IN  If("high" \in words, HighFilter(Semantic(fields, "priority")))
        \o If("overdue" \in words,
              If(deadline # NoField, <<Filter(deadline, "before", "day")>>)
              \o NotDone(Semantic(fields, "status"), "is_not"))
        \o If("mine" \in words /\ owner # NoField, <<Filter(owner, "is", Me)>>)
NamedGroup(fields, words) ==
    IF "byOwner" \in words THEN Semantic(fields, "owner")
    ELSE IF "byStatus" \in words THEN Semantic(fields, "status") ELSE NoField
BoardGroup(fields) == Either(Semantic(fields, "status"), Semantic(fields, "owner"))

FallbackView(fields, table, words) ==
    [kind |-> "view", table |-> table, type |-> FallbackType(words),
     filters |-> FallbackFilters(fields, words),
     sorts |-> LET d == Semantic(fields, "deadline") IN If(d # NoField, <<d.id>>),
     group |-> IF NamedGroup(fields, words) = NoField /\ FallbackType(words) = "board"
               THEN BoardGroup(fields).id ELSE NamedGroup(fields, words).id,
     visible |-> <<>>,
     slots |-> [start |-> Either(Semantic(fields, "start"), Semantic(fields, "deadline")).id,
                end |-> Semantic(fields, "deadline").id, progress |-> Semantic(fields, "progress").id,
                title |-> Semantic(fields, "title").id, cover |-> Nil]]

Widget(name, n, table, type, f, filters) ==
    [key |-> <<name, n, 0>>, table |-> table, type |-> type, dim |-> f.id, agg |-> "count", metric |-> Nil,
     filters |-> filters, by |-> "value", target |-> IF type = "progress" THEN 100 ELSE 0]

\* The widgets a table's fields suggest ...
Suggested(fields, table) ==
    LET status == Semantic(fields, "status")
        owner == Semantic(fields, "owner")
        deadline == Semantic(fields, "deadline")
        priority == Semantic(fields, "priority")
    IN  <<Widget("total", 0, table, "metric", NoField, <<>>)>>
        \o If(status # NoField, <<Widget("status", 0, table, "pie", status, <<>>)>>)
        \o If(owner # NoField, <<Widget("owner", 0, table, "horizontalBar", owner, <<>>)>>)
        \o If(deadline # NoField,
              <<Widget("overdue", 0, table, "metric", NoField,
                       <<Filter(deadline, "before", "day")>> \o NotDone(status, "neq"))>>)
        \o If(priority # NoField, <<Widget("priority", 0, table, "bar", priority, <<>>)>>)

\* ... and what brings them to three.
Fillers(fields, table) ==
    LET dims == SelectSeq(fields, LAMBDA f : f.type \in Categorical \ {"date"})
    IN  [i \in DOMAIN dims |-> Widget("distribution", dims[i].id, table, "bar", dims[i], <<>>)]
        \o <<Widget("records", 0, table, "metric", NoField, <<>>), Widget("progress", 0, table, "progress", NoField, <<>>)>>
DashboardBaseline(fields, table) ==
    LET ws == Suggested(fields, table)
    IN  [kind |-> "dashboard",
         widgets |-> IF Len(ws) >= 3 THEN ws ELSE ws \o SubSeq(Fillers(fields, table), 1, 3 - Len(ws))]

RefineView(d, fields, words) ==
    LET priority == Semantic(fields, "priority")
        owner == Semantic(fields, "owner")
        others == SelectSeq(d.filters, LAMBDA x : x.field # priority.id)
        group == IF "byOwner" \in words /\ owner # NoField THEN owner.id ELSE d.group
    IN  [d EXCEPT
          !.filters = IF "high" \notin words \/ priority = NoField THEN @
                      ELSE others \o If(priority.type = "select", HighFilter(priority)),
          !.type = IF "board" \in words THEN "board" ELSE @,
          !.group = IF "board" \in words /\ group = Nil THEN BoardGroup(fields).id ELSE group]

DateField(fields) ==
    Either(FirstIn(fields, LAMBDA f : f.type = "date" /\ f.roles \cap {"deadline", "start"} # {}),
           FirstIn(fields, LAMBDA f : f.type = "date"))
TrendField(fields) ==
    Either(FirstIn(fields, LAMBDA f : f.type = "date" /\ f.roles \cap {"deadline", "start"} # {}),
           FirstIn(fields, LAMBDA f : f.type \in Trend))
\* The first chart, or the first whose table has a trend, gets the type asked for.
Retyped(ws, ctx, type) ==
    LET fit == {i \in DOMAIN ws : /\ ws[i].type \in Charts /\ ws[i].table \in DOMAIN ctx
                                  /\ type = "line" => TrendField(ctx[ws[i].table].fields) # NoField}
        i == CHOOSE j \in fit : \A k \in fit : j <= k
    IN  IF fit = {} THEN ws
        ELSE [ws EXCEPT ![i] = [@ EXCEPT !.type = type,
                                         !.dim = IF type = "line" THEN TrendField(ctx[ws[i].table].fields).id ELSE @]]
Recent(w, ctx) ==
    LET f == IF w.table \in DOMAIN ctx THEN DateField(ctx[w.table].fields) ELSE NoField
    IN  IF f = NoField THEN w
        ELSE [w EXCEPT !.filters = Append(SelectSeq(@, LAMBDA x : x.field # f.id), Filter(f, "after", "day"))]
AskedType(words) ==
    CASE "line" \in words -> "line" [] "horizontalBar" \in words -> "horizontalBar"
      [] "pie" \in words -> "pie" [] "bar" \in words -> "bar" [] OTHER -> Nil
RefineDashboard(d, ctx, words) ==
    LET ws == IF AskedType(words) = Nil THEN d.widgets ELSE Retyped(d.widgets, ctx, AskedType(words))
    IN  [d EXCEPT !.widgets = IF "days" \in words THEN [i \in DOMAIN ws |-> Recent(ws[i], ctx)] ELSE ws]
Refine(d, ctx, words) ==
    IF d.kind = "dashboard" THEN RefineDashboard(d, ctx, words)
    ELSE IF d.table \in DOMAIN ctx THEN RefineView(d, ctx[d.table].fields, words) ELSE d

-----------------------------------------------------------------------------
(* Previews                                                                *)

Readable(t) == perm[t] # "none" /\ schema[t] # <<>>
Context(t) ==
    [perm |-> perm[t], fields |-> SubSeq(schema[t], 1, IF Len(schema[t]) < MaxFields THEN Len(schema[t]) ELSE MaxFields)]
Contexts(ts) == [t \in ts |-> Context(t)]

\* The table asked for, those of the dashboard, then the others.
Order(q) ==
    WithoutRepeats(If(q.table # Nil, <<q.table>>)
                   \o If(q.replace, [i \in DOMAIN board.rows |-> board.rows[i].widget.table]) \o TableOrder)
Scope(q) ==
    LET ts == SelectSeq(Order(q), Readable)
    IN  IF q.target = "view" THEN <<q.table>>
        ELSE SubSeq(ts, 1, IF Len(ts) < MaxContexts THEN Len(ts) ELSE MaxContexts)

\* Every widget of the dashboard, and when it last changed.
DashboardFingerprint == board

\* The proposal a preview starts from: the client's, or the dashboard as it is.
Current(q) ==
    IF q.current # Nil \/ ~q.replace \/ Len(board.rows) < 3 THEN q.current
    ELSE [kind |-> "dashboard", widgets |-> [i \in DOMAIN board.rows |-> [board.rows[i].widget EXCEPT !.key = <<"existing">> \o board.rows[i].id]]]

Fallback(q, ctx) ==
    IF Current(q) # Nil /\ q.instr # {} THEN Refine(Current(q), ctx, q.instr)
    ELSE IF q.target = "view" THEN FallbackView(ctx[q.table].fields, q.table, q.words)
    ELSE LET t == IF q.table \in DOMAIN ctx THEN q.table ELSE Head(Scope(q))
         IN  DashboardBaseline(ctx[t].fields, t)

\* What the preview stores: the model's proposal when it is of the kind asked
\* for and passes the checks, and else the fallback, which passes them or fails.
Proposed(q, answer, ctx) ==
    IF answer # Nil /\ answer.kind = q.target /\ Normalize(ctx, answer) # Invalid THEN Normalize(ctx, answer)
    ELSE Normalize(ctx, Fallback(q, ctx))

\* Metrics and progress bars are stored without a dimension.
Rows(widgets, stamp) ==
    [i \in DOMAIN widgets |->
       [id |-> <<stamp, i>>,
        widget |-> IF widgets[i].type \in Charts THEN widgets[i] ELSE [widgets[i] EXCEPT !.dim = Nil, !.by = "value"]]]

Init ==
    /\ schema \in FirstSchemas /\ perm = [t \in Tables |-> "edit"]
    /\ \E ws \in FirstBoards : board = [rows |-> Rows(ws, 0), stamp |-> 0]
    /\ plans = <<>> /\ views = <<>> /\ work = [w \in Workers |-> [at |-> "idle"]]
    /\ applies = 0 /\ changes = 0 /\ edits = 0

PreviewIn(q, answer, ctx) ==
    /\ Proposed(q, answer, ctx) # Invalid
    /\ plans' = Append(plans, [target |-> q.target, table |-> q.table, replace |-> q.replace,
                               seen |-> ctx, saw |-> DashboardFingerprint,
                               design |-> Proposed(q, answer, ctx), status |-> "previewed"])
Preview(q, answer) ==
    /\ Len(plans) < MaxPlans
    /\ q.table # Nil => Readable(q.table)
    /\ Scope(q) # <<>>
    /\ PreviewIn(q, answer, Contexts(ToSet(Scope(q))))
    /\ UNCHANGED <<schema, perm, board, views, work, applies, changes, edits>>

-----------------------------------------------------------------------------
(* Applications                                                            *)

\* The tables are as they were when the design was checked.
Unchanged(seen) == \A t \in DOMAIN seen : Readable(t) /\ Context(t) = seen[t]

\* What is applied: the stored design as it is, or an edited one checked again.
ToApply(p, edit) == IF edit = Nil THEN plans[p].design ELSE Normalize(plans[p].seen, edit)

SourcesReadable(n) == \A x \in ToSet(n.widgets) : perm[x.table] # "none"
MayApply(p, n) ==
    /\ n.kind = plans[p].target
    /\ n.kind = "view" => n.table = plans[p].table /\ perm[n.table] = "edit"
    /\ n.kind = "dashboard" => SourcesReadable(n)

\* The plan's row is locked until the application commits or rolls back; an
\* applied plan gives the answer it gave before.
Begin(w, p, edit) ==
    /\ work[w].at = "idle" /\ plans[p].status # "applied" /\ applies < MaxApplies
    /\ applies' = applies + 1
    /\ \A v \in Workers : work[v].at \in {"checked", "compared", "written"} => work[v].plan # p
    /\ work' = [work EXCEPT ![w] =
          IF Unchanged(plans[p].seen) /\ MayApply(p, ToApply(p, edit))
          THEN [at |-> "checked", plan |-> p, design |-> ToApply(p, edit), was |-> schema, since |-> board.stamp]
          ELSE [at |-> "failed", plan |-> p]]
    /\ UNCHANGED <<schema, perm, board, plans, views, changes, edits>>

Apply(w) == plans[work[w].plan]
Done(w) ==
    /\ plans' = [plans EXCEPT ![work[w].plan].status = "applied", ![work[w].plan].design = work[w].design]
    /\ views' = Append(views, [plan |-> work[w].plan, design |-> work[w].design, was |-> work[w].was, at |-> schema])
    /\ work' = [work EXCEPT ![w] = [at |-> "idle"]]

\* A view is inserted.
CommitView(w) ==
    /\ work[w].at = "checked" /\ Apply(w).target = "view"
    /\ Done(w)
    /\ UNCHANGED <<schema, perm, board, applies, changes, edits>>

\* A dashboard that is to be replaced is compared with the one previewed.
CompareBoard(w) ==
    /\ work[w].at = "checked" /\ Apply(w).target = "dashboard" /\ Apply(w).replace
    /\ work' = [work EXCEPT ![w] = IF DashboardFingerprint = Apply(w).saw
                                   THEN [work[w] EXCEPT !.at = "compared"]
                                   ELSE [at |-> "failed", plan |-> work[w].plan]]
    /\ UNCHANGED <<schema, perm, board, plans, views, applies, changes, edits>>

\* The widgets of then are deleted, and the new ones are checked by the
\* dashboard's own rules as they are inserted.
RuntimeAccepts(x) ==
    LET fields == schema[x.table]
    IN  /\ x.dim # Nil => x.dim \in Ids(fields)
        /\ x.agg # "count" => x.metric \in Ids(fields) /\ FieldById(fields, x.metric).type \in Numeric \cup {"autoNumber"}
        /\ \A y \in ToSet(x.filters) :
              /\ y.field \in Ids(fields)
              /\ y.op \in Compare => FieldById(fields, y.field).type \in Numeric \cup {"autoNumber"}
              /\ y.op \in {"before", "after"} => FieldById(fields, y.field).type = "date"
WriteWidgets(w) ==
    /\ \/ work[w].at = "compared"
       \/ work[w].at = "checked" /\ Apply(w).target = "dashboard" /\ ~Apply(w).replace
    /\ work' = [work EXCEPT ![w] = IF \A x \in ToSet(work[w].design.widgets) : RuntimeAccepts(x)
                                   THEN [at |-> "written", plan |-> work[w].plan, design |-> work[w].design,
                                         was |-> work[w].was, since |-> work[w].since, gone |-> ToSet(board.rows)]
                                   ELSE [at |-> "failed", plan |-> work[w].plan]]
    /\ UNCHANGED <<schema, perm, board, plans, views, applies, changes, edits>>

CommitDashboard(w) ==
    /\ work[w].at = "written"
    /\ board' = IF ~Apply(w).replace THEN board
                ELSE [rows |-> SelectSeq(board.rows, LAMBDA x : x \notin work[w].gone) \o Rows(work[w].design.widgets, board.stamp + 1),
                      stamp |-> board.stamp + 1]
    /\ Done(w)
    /\ UNCHANGED <<schema, perm, applies, changes, edits>>

\* After the rollback the failure is noted without the lock.
NoteFailure(w) ==
    /\ work[w].at = "failed"
    /\ plans' = [plans EXCEPT ![work[w].plan].status = "apply_failed"]
    /\ work' = [work EXCEPT ![w] = [at |-> "idle"]]
    /\ UNCHANGED <<schema, perm, board, views, applies, changes, edits>>

-----------------------------------------------------------------------------
(* Others change the fields, the permissions and the dashboard.            *)

ChangeFields(t, fields) ==
    /\ changes < MaxChanges /\ fields # schema[t]
    /\ schema' = [schema EXCEPT ![t] = fields] /\ changes' = changes + 1
    /\ UNCHANGED <<perm, board, plans, views, work, applies, edits>>
ChangePermission(t, level) ==
    /\ changes < MaxChanges /\ level # perm[t]
    /\ perm' = [perm EXCEPT ![t] = level] /\ changes' = changes + 1
    /\ UNCHANGED <<schema, board, plans, views, work, applies, edits>>
EditBoard(x) ==
    /\ edits < MaxEdits
    /\ board' = [rows |-> board.rows \o Rows(<<x>>, board.stamp + 1), stamp |-> board.stamp + 1] /\ edits' = edits + 1
    /\ UNCHANGED <<schema, perm, plans, views, work, applies, changes>>

Next ==
    \/ \E q \in Requests, a \in Proposals \cup {Nil} : Preview(q, a)
    \/ \E w \in Workers, p \in DOMAIN plans :
         \E e \in Proposals \cup {Nil, Editable(plans[p].design, plans[p].seen)} : Begin(w, p, e)
    \/ \E w \in Workers : CommitView(w) \/ CompareBoard(w) \/ WriteWidgets(w) \/ CommitDashboard(w) \/ NoteFailure(w)
    \/ \E t \in Tables : \/ \E s \in Schemas : ChangeFields(t, s)
                         \/ \E l \in {"none", "read", "edit"} : ChangePermission(t, l)
    \/ \E p \in Proposals : p.kind = "dashboard" /\ EditBoard(p.widgets[1])

Spec == Init /\ [][Next]_vars

-----------------------------------------------------------------------------
(* Properties                                                              *)

TypeOKDesigns ==
    /\ schema \in [Tables -> Schemas \cup {f[t] : f \in FirstSchemas, t \in Tables}]
    /\ perm \in [Tables -> {"none", "read", "edit"}]
    /\ \A i \in DOMAIN plans : /\ plans[i].status \in {"previewed", "applied", "apply_failed"}
                               /\ plans[i].target \in {"view", "dashboard"}
                               /\ DOMAIN plans[i].seen \subseteq Tables
    /\ \A i \in DOMAIN views : views[i].plan \in DOMAIN plans
    /\ \A w \in Workers : work[w].at \in {"idle", "checked", "compared", "written", "failed"}
    /\ applies \in 0..MaxApplies /\ changes \in 0..MaxChanges /\ edits \in 0..MaxEdits

\* What the client is given to edit means what was stored: sent back untouched it
\* becomes the stored design again (_normalized_to_model, _normalize_proposal).
EditingStartsFromTheDesign ==
    \A i \in DOMAIN plans :
       plans[i].design.kind # "invalid" =>
          Normalize(plans[i].seen, Editable(plans[i].design, plans[i].seen)) = plans[i].design

\* What was created refers only to fields its tables have, of the types its parts
\* need, however long ago it was previewed, unless they changed while it was being
\* applied; and it is of the kind that was asked for.
FieldsFit(s, d) ==
    IF d.kind = "view" THEN ViewFits(s[d.table], d) /\ d.hidden \subseteq Ids(s[d.table]) /\ ~(Ids(s[d.table]) \subseteq d.hidden)
    ELSE \A x \in ToSet(d.widgets) : WidgetFits(s[x.table], x)
CreatedDesignsFit ==
    \A i \in DOMAIN views :
       /\ views[i].design.kind = plans[views[i].plan].target
       /\ views[i].at = views[i].was => FieldsFit(views[i].at, views[i].design)

\* Without the language model there is always a dashboard to show, and a view,
\* unless the words ask for a chart of dates and no date field has a fitting
\* name, or for a board that is not grouped by a select field.  Asked while there
\* is no plan: plans have no part in it.
NoSuchView(fields, words) ==
    \/ FallbackType(words) = "gantt" /\ Semantic(fields, "deadline") = NoField
    \/ FallbackType(words) = "calendar"
       /\ Semantic(fields, "deadline") = NoField /\ Semantic(fields, "start") = NoField
    \/ FallbackType(words) = "board"
       /\ Either(NamedGroup(fields, words), BoardGroup(fields)).type # "select"
FallbacksServe ==
    plans = <<>> => \A q \in Requests :
       (q.instr = {} /\ q.table # Nil /\ Readable(q.table)) =>
          LET ctx == Contexts(ToSet(Scope(q)))
          IN  Normalize(ctx, Fallback(q, ctx)) = Invalid =>
                 q.target = "view" /\ (perm[q.table] # "edit" \/ NoSuchView(ctx[q.table].fields, q.words))

\* A replacement deletes no widget that the preview did not show, unless it was
\* added while the plan was being applied.
ReplacedAsShown ==
    \A w \in Workers :
       (work[w].at = "written" /\ plans[work[w].plan].replace) =>
          \A r \in work[w].gone \ ToSet(plans[work[w].plan].saw.rows) : r.id[1] > work[w].since

\* This does not hold: two replacements that overlap both pass the comparison,
\* the second deletes what the first found, and the widgets of both remain.
OneDesignOnTheBoard ==
    \A i \in DOMAIN views :
       (plans[views[i].plan].replace /\ i = Len(views) /\ edits = 0) =>
          Len(board.rows) = Len(views[i].design.widgets)
=============================================================================
