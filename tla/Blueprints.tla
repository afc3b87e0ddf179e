----------------------------- MODULE Blueprints -----------------------------
(***************************************************************************)
(* Workspace blueprints (app/services/workspace_blueprint.py): a proposal  *)
(* for a project, from the language model or the code's own baseline, is   *)
(* normalised, completed, shown and recorded as a trace; a later request   *)
(* applies a blueprint under that trace and creates its tables, fields,    *)
(* views and dashboards in one transaction.  The trace is read without a   *)
(* lock, and a failed application marks it in a transaction of its own.    *)
(*                                                                         *)
(* A key is a sequence: what its text becomes when slugged, and the numbers *)
(* appended to make it unique; "odd" keys are written with characters the  *)
(* slug replaces.  Names, colours, options and layouts are left out.       *)
(***************************************************************************)
EXTENDS Naturals, Sequences, FiniteSets, SequencesExt

CONSTANTS
    Candidates,   \* proposals the language model or a client may start from
    Edits,        \* blueprints a client may apply instead of the one shown
    Workers,      \* concurrent requests
    MaxTables, MaxFields, MaxViews, MaxDashboards,   \* the code's limits (4, 32, 8, 3)
    MaxTraces, MaxApplies                            \* bounds: previews, applications

Key(w) == [w |-> w, odd |-> FALSE]
NoKey == Key(<<>>)
Invalid == [tables |-> <<>>, dashboards |-> <<>>]    \* WorkspaceBlueprintError

VARIABLES
    traces,     \* rows of workspace_generation_traces
    projects,   \* what the applications created
    parent,     \* whether the target folder is there
    work,       \* what every worker is doing
    applies,    \* number of applications begun
    overlapped  \* traces two applications of which overlapped

vars == <<traces, projects, parent, work, applies, overlapped>>

-----------------------------------------------------------------------------
(* Normalisation                                                           *)

Slug(k) == Key(k.w)

\* A plausible mistake.
SameKey(k, used) == k

\* The key, or the key with the least number that makes it new.
Unique(k, used) ==
    IF k \notin used THEN k
    ELSE Key(Append(k.w, CHOOSE n \in 2..(Cardinality(used) + 2) :
                            /\ Key(Append(k.w, n)) \notin used
                            /\ \A m \in 2..(n - 1) : Key(Append(k.w, m)) \in used))
UniqueKeys(keys) ==
    FoldLeft(LAMBDA done, k : Append(done, Unique(Slug(k), ToSet(done))), <<>>, keys)
KeysOf(s) == [i \in DOMAIN s |-> s[i].key]
WithKeys(s, keys) == [i \in DOMAIN s |-> [s[i] EXCEPT !.key = keys[i]]]
Rekeyed(s) == WithKeys(s, UniqueKeys(KeysOf(s)))

GridView == [key |-> Key(<<"grid">>), type |-> "grid", field |-> NoKey]

\* One table: unique keys, at least one view, a relation aimed at a table (its
\* own when it names none), and views that keep only fields of the table.
RelationsAimed(fields, table) ==
    [i \in DOMAIN fields |->
       IF fields[i].type # "relation" THEN fields[i]
       ELSE [fields[i] EXCEPT !.target = IF @ = NoKey THEN table ELSE Slug(@)]]
ViewsOn(views, keys) ==
    [i \in DOMAIN views |-> [views[i] EXCEPT !.field = IF Slug(@) \in keys THEN @ ELSE NoKey]]
TableWith(t, fields) ==
    [key |-> t.key, fields |-> RelationsAimed(fields, t.key),
     views |-> ViewsOn(Rekeyed(IF t.views = <<>> THEN <<GridView>> ELSE t.views), ToSet(KeysOf(fields)))]
NormalTable(t) == TableWith(t, Rekeyed(t.fields))

\* The widgets of a dashboard that name a table of the blueprint.
NormalWidgets(d) ==
    [x \in DOMAIN d |-> [table |-> Slug(d[x].table), dim |-> Slug(d[x].dim)]]
WidgetsOn(d, keys) == NormalWidgets(SelectSeq(d, LAMBDA x : Slug(x.table) \in keys))

WithinLimits(b) ==
    /\ Len(b.tables) \in 1..MaxTables /\ Len(b.dashboards) <= MaxDashboards
    /\ \A t \in ToSet(b.tables) :
          /\ Len(t.fields) \in 1..MaxFields /\ Len(t.views) <= MaxViews
          /\ \A f \in ToSet(t.fields) : f.type # "unsupported"
RelationsEnd(tables, keys) ==
    \A t \in ToSet(tables) : \A f \in ToSet(t.fields) : f.type = "relation" => f.target \in keys

BlueprintWith(tables, keys, dashboards) ==
    IF ~RelationsEnd(tables, keys) THEN Invalid
    ELSE [tables |-> tables, dashboards |-> [i \in DOMAIN dashboards |-> WidgetsOn(dashboards[i], keys)]]
NormalTables(named) == [i \in DOMAIN named |-> NormalTable(named[i])]
NormalizeBlueprint(b) ==
    IF ~WithinLimits(b) THEN Invalid
    ELSE BlueprintWith(NormalTables(Rekeyed(b.tables)), ToSet(UniqueKeys(KeysOf(b.tables))), b.dashboards)

-----------------------------------------------------------------------------
(* The baseline every project gets: tasks with a title, a status and their *)
(* dependencies, a grid, a board by status, and one dashboard.             *)

Field(name, type, target) == [key |-> Key(<<name>>), type |-> type, target |-> target]
BaselineTable ==
    [key |-> Key(<<"tasks">>),
     fields |-> <<Field("title", "text", NoKey), Field("status", "text", NoKey),
                  Field("dependencies", "relation", Key(<<"tasks">>))>>,
     views |-> <<GridView, [key |-> Key(<<"kanban">>), type |-> "board", field |-> Key(<<"status">>)]>>]
Baseline ==
    [tables |-> <<BaselineTable>>,
     dashboards |-> << <<[table |-> Key(<<"tasks">>), dim |-> Key(<<"status">>)]>> >>]

\* The tasks table with the fields and the kinds of views it lacks; its
\* dependencies lead to itself.
TasksCompleted(tasks) ==
    [tasks EXCEPT
       !.fields = LET all == @ \o SelectSeq(BaselineTable.fields, LAMBDA f : f.key \notin ToSet(KeysOf(tasks.fields)))
                  IN  [i \in DOMAIN all |-> IF all[i].key = Key(<<"dependencies">>)
                                            THEN [all[i] EXCEPT !.target = tasks.key] ELSE all[i]],
       !.views = @ \o SelectSeq(BaselineTable.views, LAMBDA v : \A w \in ToSet(tasks.views) : w.type # v.type)]

\* The first table called tasks, or the first table.
TasksAt(tables) ==
    LET named == {i \in DOMAIN tables : tables[i].key = Key(<<"tasks">>)}
    IN  IF named = {} THEN 1 ELSE CHOOSE i \in named : \A j \in named : i <= j
Completed(n, at) ==
    [tables |-> [n.tables EXCEPT ![at] = TasksCompleted(@)],
     dashboards |-> IF n.dashboards # <<>> THEN n.dashboards
                    ELSE << <<[table |-> n.tables[at].key, dim |-> Key(<<"status">>)]>> >>]

\* The candidate with what it lacks of the baseline; the baseline itself when
\* the candidate is not a valid blueprint.
BaselineEnsured(n) ==
    NormalizeBlueprint(IF n = Invalid THEN Baseline ELSE Completed(n, TasksAt(n.tables)))
EnsureProjectBaseline(c) == BaselineEnsured(NormalizeBlueprint(c))

-----------------------------------------------------------------------------
(* Rows: tables and fields are numbered, and a key finds its number in a   *)
(* dictionary, where the last of equal keys wins.                          *)

NoId == 0
NumberOf(k, keys) ==
    LET at == {i \in DOMAIN keys : keys[i] = k}
    IN  IF at = {} THEN NoId ELSE CHOOSE i \in at : \A j \in at : j <= i

\* The configuration of a view finds its field by the key as written.
ViewConfig(v, keys) == [type |-> v.type, field |-> NumberOf(v.field, keys)]

CreateRows(b) ==
    LET tkeys == KeysOf(b.tables)
        fkeys == [i \in DOMAIN b.tables |-> KeysOf(b.tables[i].fields)]
    IN  [tables |->
           [i \in DOMAIN b.tables |->
              [id |-> NumberOf(tkeys[i], tkeys),
               fields |-> [j \in DOMAIN fkeys[i] |->
                             [id |-> NumberOf(fkeys[i][j], fkeys[i]),
                              target |-> IF b.tables[i].fields[j].type = "relation"
                                         THEN NumberOf(b.tables[i].fields[j].target, tkeys) ELSE NoId]],
               views |-> [j \in DOMAIN b.tables[i].views |-> ViewConfig(b.tables[i].views[j], fkeys[i])]]],
         widgets |->
           [d \in DOMAIN b.dashboards |->
              [x \in DOMAIN b.dashboards[d] |->
                 LET t == NumberOf(b.dashboards[d][x].table, tkeys)
                 IN  [table |-> t, dim |-> NumberOf(b.dashboards[d][x].dim, fkeys[t])]]]]

-----------------------------------------------------------------------------
(* Requests                                                                *)

Idle == [at |-> "idle"]
Init ==
    /\ traces = <<>> /\ projects = <<>> /\ parent = TRUE
    /\ work = [w \in Workers |-> Idle] /\ applies = 0 /\ overlapped = {}

\* preview_workspace_blueprint: with the model's proposal or, when it fails, the
\* client's current blueprint or the baseline; an invalid result is an error
\* and leaves no trace.
Preview(c) ==
    /\ Len(traces) < MaxTraces
    /\ \E b \in {EnsureProjectBaseline(c)} :
          traces' = IF b = Invalid THEN traces
                    ELSE Append(traces, [blueprint |-> b, status |-> "previewed", created |-> FALSE])
    /\ UNCHANGED <<projects, parent, work, applies, overlapped>>

\* Whether the trace already answers an application.
Answers(t) == t.status = "applied" /\ t.created

\* apply_workspace_blueprint up to the load of the trace; an applied trace
\* answers with what was created then.
BeginApply(w, i, b) ==
    /\ work[w] = Idle /\ applies < MaxApplies
    /\ applies' = applies + 1
    /\ work' = IF Answers(traces[i]) \/ NormalizeBlueprint(b) = Invalid THEN work
               ELSE [work EXCEPT ![w] = [at |-> "apply", trace |-> i, blueprint |-> NormalizeBlueprint(b)]]
    /\ overlapped' = IF \E v \in Workers \ {w} : work[v] # Idle /\ work[v].trace = i
                     THEN overlapped \cup {i} ELSE overlapped
    /\ UNCHANGED <<traces, projects, parent>>

\* ... and its transaction: the rows and the trace, together.
CommitApply(w) ==
    LET t == work[w]
    IN  /\ t.at = "apply" /\ parent
        /\ projects' = Append(projects, [trace |-> t.trace, blueprint |-> t.blueprint,
                                         rows |-> CreateRows(t.blueprint)])
        /\ traces' = [traces EXCEPT ![t.trace] =
                        [blueprint |-> t.blueprint, status |-> "applied", created |-> TRUE]]
        /\ work' = [work EXCEPT ![w] = Idle]
        /\ UNCHANGED <<parent, applies, overlapped>>

\* The folder is gone, or the database fails: nothing is created ...
FailApply(w) ==
    /\ work[w].at = "apply"
    /\ work' = [work EXCEPT ![w].at = "failed"]
    /\ UNCHANGED <<traces, projects, parent, applies, overlapped>>

\* ... and the trace is marked, unless that fails too.
MarkFailed(w, written) ==
    /\ work[w].at = "failed"
    /\ traces' = IF written THEN [traces EXCEPT ![work[w].trace].status = "failed"] ELSE traces
    /\ work' = [work EXCEPT ![w] = Idle]
    /\ UNCHANGED <<projects, parent, applies, overlapped>>

\* Somebody deletes the target folder.
DeleteParent ==
    /\ parent /\ parent' = FALSE
    /\ UNCHANGED <<traces, projects, work, applies, overlapped>>

Next ==
    \/ \E c \in Candidates : Preview(c)
    \/ \E w \in Workers, i \in DOMAIN traces :
         \E b \in Edits \cup {traces[i].blueprint} : BeginApply(w, i, b)
    \/ \E w \in Workers : CommitApply(w) \/ FailApply(w) \/ \E o \in BOOLEAN : MarkFailed(w, o)
    \/ DeleteParent

Spec == Init /\ [][Next]_vars

-----------------------------------------------------------------------------
(* Properties                                                              *)

TypeOKBlueprints ==
    /\ \A i \in DOMAIN traces : /\ traces[i].status \in {"previewed", "applied", "failed"}
                                /\ traces[i].created \in BOOLEAN
    /\ \A i \in DOMAIN projects : projects[i].trace \in DOMAIN traces
    /\ parent \in BOOLEAN /\ overlapped \subseteq DOMAIN traces
    /\ \A w \in Workers : work[w].at \in {"idle", "apply", "failed"}

\* What a preview shows is what applying it creates: normalising it again
\* changes nothing, and it has the baseline's tasks.  What is created has no
\* two tables, or fields of a table, with one id, a relation that leads to one
\* of its tables, and no widget without a table.
ProjectsAreWhole ==
    /\ \A i \in DOMAIN traces :
          /\ NormalizeBlueprint(traces[i].blueprint) = traces[i].blueprint
          /\ traces[i].status = "previewed" =>
               \E t \in ToSet(traces[i].blueprint.tables) :
                  {Key(<<"title">>), Key(<<"status">>), Key(<<"dependencies">>)} \subseteq ToSet(KeysOf(t.fields))
    /\ \A p \in ToSet(projects) :
          /\ \A i \in DOMAIN p.rows.tables :
                /\ p.rows.tables[i].id = i
                /\ \A j \in DOMAIN p.rows.tables[i].fields :
                      /\ p.rows.tables[i].fields[j].id = j
                      /\ p.blueprint.tables[i].fields[j].type = "relation" =>
                            p.rows.tables[i].fields[j].target \in DOMAIN p.rows.tables
          /\ \A d \in DOMAIN p.rows.widgets : \A x \in DOMAIN p.rows.widgets[d] :
                p.rows.widgets[d][x].table \in DOMAIN p.rows.tables

\* An application that is sent again, after a failure or a lost answer, creates
\* one project for its trace, as long as two did not overlap; and the trace says
\* "applied" exactly when there is one.
AppliedOnce ==
    \A i \in DOMAIN traces \ overlapped :
       /\ Cardinality({k \in DOMAIN projects : projects[k].trace = i}) <= 1
       /\ traces[i].status = "applied" <=> \E k \in DOMAIN projects : projects[k].trace = i

\* These do not hold: a large proposal becomes too large by the baseline's
\* fields and the preview fails where an invalid one falls back; and a view
\* keeps a key that is not written as its field's, and gets no field.
PreviewsGiveABlueprint == \A c \in Candidates : EnsureProjectBaseline(c) # Invalid
ViewsFindTheirFields ==
    \A p \in ToSet(projects) : \A i \in DOMAIN p.rows.tables : \A j \in DOMAIN p.rows.tables[i].views :
       p.blueprint.tables[i].views[j].field # NoKey => p.rows.tables[i].views[j].field # NoId
=============================================================================
