------------------------------- MODULE MyWork -------------------------------
(* The workbench of one user: the tasks assigned to the user in all tables *)
(* with a task profile, the due windows, the project figures and the key   *)
(* figures, each computed by SQL per table and merged in Python.           *)
(*                                                                         *)
(* Time is counted in ticks of the user's time zone, TicksPerDay a day.    *)
EXTENDS Integers, Sequences, SequencesExt, FiniteSets

CONSTANTS
    NTasks,          \* record ids 1..NTasks
    Tables,          \* the tables are numbers; a task's table is fixed
    TableOf,         \* [1..NTasks -> Tables]
    Rows,            \* the rows a task may have: due, status, mine, seen,
                     \* ptext (its priority as text) and prank (its rank)
    TicksPerDay,
    LastTick,        \* bound on time
    MaxPage          \* largest page size that is tried

VARIABLES task, now

varsWork == <<task, now>>

Absent == [status |-> "absent"]
Tasks == {t \in 1..NTasks : task[t] # Absent}

InitWork == task = [t \in 1..NTasks |-> Absent] /\ now = 0

(* Records are created, edited and deleted elsewhere; time passes. *)
SaveTask(t, row) == task[t] # row /\ task' = [task EXCEPT ![t] = row] /\ UNCHANGED now
Tick == now < LastTick /\ now' = now + 1 /\ UNCHANGED task

NextWork == Tick \/ \E t \in 1..NTasks, row \in Rows \cup {Absent} : SaveTask(t, row)

SpecWork == InitWork /\ [][NextWork]_varsWork

-----------------------------------------------------------------------------
(* Due dates: none, a day, or an instant *)

DayOf(tick) == tick \div TicksPerDay
Today == DayOf(now)
EndOfDay(day) == (day + 1) * TicksPerDay - 1

(* _parse_due: a day is due at its end. *)
DueTick(due) == IF due.kind = "date" THEN EndOfDay(due.at) ELSE due.at

Buckets == {"overdue", "today", "next24h", "next3d", "next7d"}
Days(bucket) == CASE bucket = "next24h" -> 1 [] bucket = "next3d" -> 3 [] OTHER -> 7

(* _due_window: the buckets of a task, computed from the parsed value. *)
DueWindow(due) ==
    LET at == DueTick(due)
    IN  IF due.kind = "none" THEN {}
        ELSE {b \in Buckets : CASE b = "overdue" -> at < now
                                [] b = "today" -> DayOf(at) = Today
                                [] OTHER -> now <= at /\ at <= now + Days(b) * TicksPerDay}

(* _due_bucket_condition: the same in SQL, where days are compared as text *)
(* and only whole days that end within the window are taken.               *)
MaxDate(bucket) ==
    LET end == now + Days(bucket) * TicksPerDay
    IN  IF EndOfDay(DayOf(end)) <= end THEN DayOf(end) ELSE DayOf(end) - 1
DueCondition(bucket, due) ==
    CASE due.kind = "none" -> FALSE
      [] due.kind = "date" /\ bucket = "overdue" -> due.at < Today
      [] due.kind = "date" /\ bucket = "today" -> due.at = Today
      [] due.kind = "date" /\ bucket \notin {"overdue", "today"} ->
           Today <= due.at /\ due.at <= MaxDate(bucket)
      [] due.kind = "stamp" /\ bucket = "overdue" -> due.at < now
      [] due.kind = "stamp" /\ bucket = "today" ->
           Today * TicksPerDay <= due.at /\ due.at < (Today + 1) * TicksPerDay
      [] OTHER -> now <= due.at /\ due.at <= now + Days(bucket) * TicksPerDay

-----------------------------------------------------------------------------
(* The tasks of the sections *)

Visible(t) == task[t].seen
Mine == {t \in Tasks : Visible(t) /\ task[t].mine}
Completed(t) == task[t].status = "done"
TaskStates == {"all", "in_progress", "not_started", "completed"}
InState(t, state) ==
    CASE state = "all" -> TRUE
      [] state = "completed" -> Completed(t)
      [] state = "not_started" -> task[t].status = "todo"
      [] state = "in_progress" -> ~Completed(t) /\ task[t].status # "todo"
AssignedRows(state) == {t \in Mine : InState(t, state)}
DueRows(bucket) == {t \in Mine : ~Completed(t) /\ DueCondition(bucket, task[t].due)}

(* The order of the SQL of one table: the due value as text, so that a day *)
(* comes before the instants in it; then the priority as text, descending. *)
Missing == (LastTick + 1) * (TicksPerDay + 1)
DueText(due) ==
    CASE due.kind = "none" -> Missing
      [] due.kind = "date" -> due.at * (TicksPerDay + 1)
      [] due.kind = "stamp" -> DayOf(due.at) * (TicksPerDay + 1) + 1 + (due.at % TicksPerDay)
SqlKey(t) == <<DueText(task[t].due), 0 - task[t].ptext, t>>

(* _task_sort_key: the order the user sees. *)
Bucket(t) ==
    LET due == task[t].due
    IN  CASE Completed(t) -> 5
          [] ~Completed(t) /\ due.kind = "none" -> 4
          [] ~Completed(t) /\ due.kind # "none" /\ DueTick(due) < now -> 0
          [] ~Completed(t) /\ due.kind # "none" /\ DueTick(due) >= now
                /\ DayOf(DueTick(due)) = Today -> 1
          [] ~Completed(t) /\ due.kind # "none" /\ DayOf(DueTick(due)) > Today
                /\ DueTick(due) <= now + 7 * TicksPerDay -> 2
          [] OTHER -> 3
ShownKey(t) == <<Bucket(t), IF task[t].due.kind = "none" THEN Missing ELSE DueTick(task[t].due),
                 0 - task[t].prank, TableOf[t], t>>

Less(a, b) == \E i \in DOMAIN a : a[i] < b[i] /\ \A j \in 1..(i - 1) : a[j] = b[j]
InOrder(S, key(_)) == SetToSortSeq(S, LAMBDA x, y : Less(key(x), key(y)))
Shown(S) == InOrder(S, ShownKey)

(* _fetch_assigned_rows, _fetch_due_bucket_rows: the first rows of a table. *)
Fetched(S, limit) ==
    UNION {LET rows == InOrder({x \in S : TableOf[x] = t}, SqlKey)
           IN  {rows[i] : i \in 1..(IF limit < Len(rows) THEN limit ELSE Len(rows))} : t \in Tables}

(* _tasks_section, _due_section: a page of what was fetched. *)
FetchLimit(offset, limit) == offset + limit + 1
Page(S, offset, limit) ==
    LET rows == Shown(Fetched(S, FetchLimit(offset, limit)))
    IN  SubSeq(rows, offset + 1, IF offset + limit < Len(rows) THEN offset + limit ELSE Len(rows))

(* The pages one gets by following the cursors; there is more while the    *)
(* count of the SQL is not reached.                                        *)
AllPages(S, limit) ==
    LET from[offset \in 0..Cardinality(S)] ==
          LET page == Page(S, offset, limit)
          IN  IF page = <<>> \/ offset + Len(page) >= Cardinality(S) THEN page
              ELSE page \o from[offset + Len(page)]
    IN  from[0]

(* _project_aggregate and _personal_kpi_for_context *)
Overdue(t) == ~Completed(t) /\ DueCondition("overdue", task[t].due)
ProjectOverdue(tb) == {t \in Tasks : TableOf[t] = tb /\ Visible(t) /\ Overdue(t)}
AtRisk == {t \in Mine : ~Completed(t) /\ (Overdue(t) \/ task[t].status = "blocked")}

-----------------------------------------------------------------------------
(* The variables have values of their types. *)
TypeOKWork == task \in [1..NTasks -> Rows \cup {Absent}] /\ now \in 0..LastTick

SqlAgrees(S) == \A x, y \in S : (TableOf[x] = TableOf[y]) =>
                    (Less(SqlKey(x), SqlKey(y)) <=> Less(ShownKey(x), ShownKey(y)))

(* The due windows computed in SQL hold exactly the open tasks whose       *)
(* parsed due date lies in the window, at every moment and for days as     *)
(* well as instants; the overdue tasks of the user are those the project   *)
(* figures and the risk figure count; and where the order of the SQL is    *)
(* the order shown, following the cursors shows each task once, in order.  *)
WorkbenchAgrees ==
    /\ \A b \in Buckets : DueRows(b) = {t \in Mine : ~Completed(t) /\ b \in DueWindow(task[t].due)}
    /\ DueRows("overdue") = AtRisk \cap UNION {ProjectOverdue(tb) : tb \in Tables}
    /\ \A S \in {AssignedRows(s) : s \in TaskStates} \cup {DueRows(b) : b \in Buckets} :
          SqlAgrees(S) => \A limit \in 1..MaxPage : AllPages(S, limit) = Shown(S)

(* Following the cursors of the task list shows every task once, in order. *)
TaskPagesComplete ==
    \A s \in TaskStates, limit \in 1..MaxPage : AllPages(AssignedRows(s), limit) = Shown(AssignedRows(s))
=============================================================================
