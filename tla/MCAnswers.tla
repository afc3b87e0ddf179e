----------------------------- MODULE MCAnswers -----------------------------
(***************************************************************************)
(* What the server answers, proposes and asks to confirm: record queries,  *)
(* the workbench, dashboards, search, chats, forecasts and plans.          *)
(* Init chooses a component and only that one steps: its variables are the *)
(* slots s1, s2, ... in the order of its own vars. The components of this  *)
(* run share no variable, so each is checked exactly as if alone; the      *)
(* properties say component by component what must hold.                   *)
(***************************************************************************)
EXTENDS Naturals, TLC

CONSTANTS Nil

VARIABLES
    part,   \* the component this behaviour is about
    s1, s2, s3, s4, s5, s6, s7, s8, s9, s10, s11, s12, s13, s14, s15, s16,
    s17, s18   \* its variables, in the order of its vars; "-" beyond

vars == <<part,
          s1, s2, s3, s4, s5, s6, s7, s8, s9, s10, s11, s12, s13, s14, s15,
          s16, s17, s18>>

-----------------------------------------------------------------------------
(* Queries: rows with and without values, and conditions on them. *)
QueryRow(n, s) == [n |-> n, s |-> s]
QueryRows == {QueryRow(Nil, Nil), QueryRow(0, "a"), QueryRow(1, "b"), QueryRow(1, Nil)}
Condition(field, op, value) == [field |-> field, op |-> op, value |-> value]
QueryConditions ==
    {Condition("n", "gte", 0), Condition("n", "equals", 1),
     Condition("n", "is_not", 1), Condition("s", "is_empty", Nil),
     Condition("gone", "is_empty", Nil)}

(* The workbench: due days and due times around now, in each status. *)
WorkDate(d) == [kind |-> "date", at |-> d]
WorkStamp(t) == [kind |-> "stamp", at |-> t]
WorkRow(due, status, mine) ==
    [due |-> due, status |-> status, mine |-> mine, seen |-> TRUE, ptext |-> 1, prank |-> 1]
WorkRows == {WorkRow(WorkDate(0), "doing", TRUE), WorkRow(WorkDate(1), "doing", TRUE),
             WorkRow(WorkStamp(1), "doing", TRUE), WorkRow(WorkStamp(2), "done", TRUE),
             WorkRow(WorkStamp(4), "todo", TRUE), WorkRow(WorkDate(0), "doing", FALSE),
             WorkRow([kind |-> "none", at |-> 0], "blocked", TRUE),
             [WorkRow(WorkDate(8), "doing", TRUE) EXCEPT !.ptext = 0, !.prank = 2]}

(* Search: matches of each score, title, table and owner, under policies.  *)
Match(score, title, table, mine) == [score |-> score, title |-> title, table |-> table, mine |-> mine]
Matches == {Match(s, t, 1, "no") : s \in {1, 3}, t \in {1, 2}}
   \cup {Match(s, t, 2, "member") : s \in {1, 3}, t \in {1, 2}}
   \cup {Match(1, 1, 1, "creator"), Match(3, 2, 2, "no")}
InFolder == [i \in 1..3 |-> IF i = 3 THEN 0 ELSE 3]
InCycle == [i \in 1..3 |-> IF i = 3 THEN 1 ELSE 3]
Access(parent, overrides, policy) == [parent |-> parent, overrides |-> overrides, policy |-> policy]
SearchAccesses == {Access(InFolder, <<>>, <<"creator", "member_field">>),
                   Access(InFolder, <<>>, <<"all", "creator">>),
                   Access(InFolder, [i \in {3} |-> "manage"], <<"creator", "all">>),
                   Access(InCycle, [i \in {1} |-> "manage"], <<"creator", "creator">>)}

(* Runtime: plans with and without approval, unknown skills and circles. *)
RunStep(needs, approval, skilled) ==
    [needs |-> needs, approval |-> approval, skilled |-> skilled, status |-> "pending", tries |-> 0]
RunPlan(confirm, steps) == [confirm |-> confirm, steps |-> steps]
RunPlans == {RunPlan(FALSE, <<>>),
             RunPlan(FALSE, <<RunStep({}, TRUE, TRUE)>>),
             RunPlan(TRUE, <<RunStep({}, FALSE, TRUE), RunStep({1}, TRUE, TRUE)>>),
             RunPlan(TRUE, <<RunStep({}, TRUE, FALSE)>>),
             RunPlan(FALSE, <<RunStep({2}, FALSE, TRUE), RunStep({1}, FALSE, TRUE)>>),
             RunPlan(TRUE, <<RunStep({1}, TRUE, FALSE)>>)}

(* Blueprints: tables with clashing, odd and dangling keys. *)
OneWord(n) == [w |-> <<n>>, odd |-> FALSE]
OddWord(n) == [w |-> <<n>>, odd |-> TRUE]
NoWord == [w |-> <<>>, odd |-> FALSE]
DraftField(key, type, target) == [key |-> key, type |-> type, target |-> target]
DraftView(key) == [key |-> OneWord("v"), type |-> "board", field |-> key]
DraftTable(key, fields, views) == [key |-> key, fields |-> fields, views |-> views]
DraftFields ==
    {<<DraftField(OneWord("a"), "text", NoWord), DraftField(OneWord("a"), "relation", g)>> :
        g \in {NoWord, OneWord("t"), OddWord("tasks"), OneWord("z")}}
    \cup {<<DraftField(OneWord("title"), y, NoWord)>> : y \in {"text", "unsupported"}} \cup {<<>>}
    \cup {<<DraftField(OneWord("dependencies"), "relation", OneWord("u")), DraftField(OddWord("a"), "text", NoWord)>>}
DraftTables ==
    {<<DraftTable(k, f, <<DraftView(v)>>)>> :
        k \in {OneWord("tasks"), OneWord("t")}, f \in DraftFields, v \in {OddWord("a"), OneWord("b")}}
    \cup {<<DraftTable(k1, f, <<>>),
            DraftTable(k2, <<DraftField(OneWord("x"), "relation", g)>>, <<DraftView(OneWord("x")), DraftView(OneWord("x"))>>)>> :
        k1 \in {OneWord("t"), OneWord("u")}, k2 \in {OneWord("t"), OneWord("tasks")}, f \in DraftFields,
        g \in {NoWord, [w |-> <<"t", 2>>, odd |-> FALSE]}}
Widget(table) == [table |-> OneWord(table), dim |-> OneWord("a")]
Drafts == {[tables |-> ts, dashboards |-> ds] : ts \in DraftTables, ds \in {<<>>, << <<Widget("t"), Widget("z")>> >>}}
EditedDrafts ==
    {[tables |-> <<DraftTable(OneWord("t"), f, <<DraftView(OddWord("a"))>>)>>, dashboards |-> <<>>] :
        f \in {<<DraftField(OneWord("a"), "text", NoWord), DraftField(OneWord("a"), "relation", g)>> :
                  g \in {NoWord, OneWord("z")}}}

(* Visual designs: tables with and without the fields the words ask for. *)
DesignField(id, type, role, opts) == [id |-> id, type |-> type, roles |-> {role}, opts |-> opts]
TitleField == DesignField(1, "text", "title", <<>>)
StatusField(type) == DesignField(2, type, "status", <<"todo", "done">>)
OwnerField == DesignField(3, "member", "owner", <<>>)
DeadlineField == DesignField(4, "date", "deadline", <<>>)
LinkField == DesignField(5, "relation", "none", <<>>)
EffortField == DesignField(6, "number", "progress", <<>>)
PriorityField == DesignField(7, "select", "priority", <<"low", "high">>)
DesignSchemas ==
    {<<TitleField, StatusField("select"), DeadlineField>>, <<PriorityField, StatusField("text"), OwnerField>>,
     <<LinkField>>, <<DeadlineField, LinkField, EffortField, TitleField>>}
FirstDesignSchemas == {<<s, <<DeadlineField, LinkField>> >> : s \in DesignSchemas}
DesignSlots(start, end) == [start |-> start, end |-> end, progress |-> Nil, title |-> Nil, cover |-> Nil]
DesignFilter(f, op, value) == [field |-> f, op |-> op, value |-> value, logic |-> "or"]
ProposedView(type, filters, sorts, group, visible) ==
    [kind |-> "view", table |-> 1, type |-> type, filters |-> filters, sorts |-> sorts, group |-> group,
     visible |-> visible, slots |-> DesignSlots(4, 4)]
ProposedWidget(n, table, type, dim, agg, metric) ==
    [key |-> <<"w", n, 0>>, table |-> table, type |-> type, dim |-> dim, agg |-> agg, metric |-> metric,
     filters |-> <<>>, by |-> "dimension", target |-> 1]
ProposedBoard(ws) == [kind |-> "dashboard", widgets |-> ws]
DesignProposals ==
    {ProposedView("board", <<DesignFilter(2, "is", "done"), DesignFilter(1, "contains", "text")>>, <<1, 2, 1>>, 2, <<2, 1>>),
     ProposedView("calendar", <<DesignFilter(4, "after", "day")>>, <<5>>, Nil, <<>>),
     ProposedBoard(<<ProposedWidget(1, 2, "line", 4, "count", 4), ProposedWidget(2, 1, "progress", Nil, "sum", 6),
                     ProposedWidget(3, 1, "table", 1, "count", Nil)>>)}
FirstDesignBoards == {<<>>, <<ProposedWidget(1, 2, "bar", 4, "count", Nil), ProposedWidget(2, 2, "metric", 4, "count", Nil),
                             ProposedWidget(3, 2, "bar", 5, "count", Nil)>>,
                       <<ProposedWidget(1, 2, "metric", Nil, "count", Nil), ProposedWidget(2, 2, "bar", 4, "count", Nil),
                         ProposedWidget(3, 2, "metric", Nil, "count", Nil)>>}
DesignRequest(target, table, words, replace, current, instr) ==
    [target |-> target, table |-> table, words |-> words, replace |-> replace, current |-> current, instr |-> instr]
DesignRequests ==
    {DesignRequest("view", 1, ws, FALSE, Nil, {}) :
        ws \in {{"high", "overdue", "mine", "byStatus"}, {"gantt"}, {"calendar", "mine"}, {"gallery", "byOwner"}, {"board"}}}
    \cup {DesignRequest("view", 1, {}, FALSE, ProposedView("grid", <<>>, <<>>, Nil, <<>>), {"high", "board"})}
    \cup {DesignRequest("dashboard", t, {}, FALSE, Nil, {}) : t \in {1, Nil}}
    \cup {DesignRequest("dashboard", Nil, {}, TRUE, Nil, i) : i \in {{}, {"line", "days"}, {"pie"}}}
-----------------------------------------------------------------------------

QueryOptions == <<"a", "b">>
QueryPageSizes == {2}
Query == INSTANCE RecordQuery WITH
    Null <- Nil, Rows <- QueryRows, Options <- QueryOptions,
    Conditions <- QueryConditions, MaxRows <- 3, MaxFilters <- 2,
    PageSizes <- QueryPageSizes, query <- s1, offset <- s2, fetched <- s3,
    more <- s4
BenchTables == {1, 2}
BenchTableOf == <<1, 2, 1>>
Bench == INSTANCE MyWork WITH
    NTasks <- 3, Tables <- BenchTables, TableOf <- BenchTableOf,
    Rows <- WorkRows, TicksPerDay <- 2, LastTick <- 4, MaxPage <- 2,
    task <- s1, now <- s2
DashRows == {1, 2}
DashCreatedBy == <<11, 12>>
DashUsers == {11}
DashConfigs == {{1}, {}}
DashValues == {1, 9}
Dash == INSTANCE Dashboards WITH
    Rows <- DashRows, CreatedBy <- DashCreatedBy, Users <- DashUsers,
    Nobody <- 0, Configs <- DashConfigs, Bad <- 9, Values <- DashValues,
    Ttl <- 1, MaxNow <- 3, MaxWrites <- 1, data <- s1, policy <- s2,
    perm <- s3, widget <- s4, public <- s5, publisher <- s6, publishing <- s7,
    redisUp <- s8, client <- s9, avoid <- s10, remote <- s11, local <- s12,
    now <- s13, writes <- s14, req <- s15, pending <- s16, lately <- s17,
    disturbed <- s18
FindNameKinds == {[score |-> 2, title |-> 1]}
FindTables == {1, 2}
Find == INSTANCE GlobalSearch WITH
    NHits <- 3, NNames <- 1, HitKinds <- Matches, NameKinds <- FindNameKinds,
    Accesses <- SearchAccesses, Tables <- FindTables, Limit <- 1,
    MaxScanned <- 4, MaxChanges <- 1, hits <- s1, names <- s2, parent <- s3,
    overrides <- s4, policy <- s5, cursor <- s6, pages <- s7, cut <- s8,
    changes <- s9
RuntimeChats == {"c1", "c2", "c3"}
Runtime == INSTANCE AgentRuntime WITH
    Chats <- RuntimeChats, ToolPlans <- RunPlans, StepRetries <- 1,
    MaxAnswers <- 3, machine <- s1, chat <- s2, toolPlan <- s3,
    confirms <- s4, waiting <- s5, timers <- s6, verdicts <- s7, saved <- s8,
    answers <- s9
ChatsConvs == {"v1"}
ChatsAsks == {"a"}
ChatsSkills == {"query", "create"}
ChatsGated == {"create"}
ChatsDenied == {}
ChatsModels == {"tools", "reasoner"}
Talk == INSTANCE AiChats WITH
    Convs <- ChatsConvs, Asks <- ChatsAsks, Skills <- ChatsSkills,
    Gated <- ChatsGated, Denied <- ChatsDenied, Models <- ChatsModels,
    MaxDuplicates <- 2, ToolLimit <- 2, Width <- 2, MaxTurns <- 2,
    convs <- s1, msgs <- s2, config <- s3, asks <- s4, traces <- s5,
    effects <- s6, deleting <- s7, wiped <- s8
ForecastPreds == {0, 1, 2}
ForecastAnswers == {[total |-> <<1, 2>>, parts |-> <<3, 3>>], [total |-> <<1, 1>>, parts |-> <<1, 1>>]}
ForecastTeams == {1, 3}
ForecastDays == {0, 1}
Forecast == INSTANCE WorkloadForecast WITH
    NTasks <- 3, Preds <- ForecastPreds, Answers <- ForecastAnswers,
    Attempts <- 1, Teams <- ForecastTeams, Days <- ForecastDays, needs <- s1,
    parallel <- s2, est <- s3, tried <- s4, hours <- s5, phase <- s6,
    unmet <- s7, order <- s8, longest <- s9, before <- s10, path <- s11
MembersPeople == {1, 2}
MembersHours == <<3, 5>>
MembersFit == << <<400, 500>>, <<300, 300>> >>
MembersUrgent == {1}
MembersCapacities == {4}
Members == INSTANCE MemberForecast WITH
    NTasks <- 2, People <- MembersPeople, Gone <- 9, Nobody <- 0,
    Hours <- MembersHours, Fit <- MembersFit, Urgent <- MembersUrgent,
    Capacities <- MembersCapacities, MaxChanges <- 1, owners <- s1,
    done <- s2, able <- s3, ask <- s4, todo <- s5, load <- s6, pick <- s7,
    room <- s8, base <- s9, stage <- s10, changes <- s11
StewardDue == <<"late", "soon", "none">>
StewardEffort == <<2, 0, 3>>
StewardSuggested == {1, 2}
StewardLinks == {{}, {1}, {3}}
Steward == INSTANCE ProjectSteward WITH
    NRecs <- 3, Due <- StewardDue, Effort <- StewardEffort,
    Suggested <- StewardSuggested, Limit <- 3, NFocus <- 2,
    Links <- StewardLinks, MaxEdits <- 1, rec <- s1, seen <- s2, edits <- s3,
    reading <- s4, diag <- s5, shown <- s6, plan <- s7, torn <- s8
BlueprintWorkers == {"a1", "a2"}
Blueprint == INSTANCE Blueprints WITH
    Candidates <- Drafts, Edits <- EditedDrafts, Workers <- BlueprintWorkers,
    MaxTables <- 2, MaxFields <- 5, MaxViews <- 3, MaxDashboards <- 1,
    MaxTraces <- 1, MaxApplies <- 3, traces <- s1, projects <- s2,
    parent <- s3, work <- s4, applies <- s5, overlapped <- s6
DesignTableOrder == <<1, 2>>
DesignMemberNames == {"me"}
DesignWorkers == {"a1"}
Design == INSTANCE VisualDesigns WITH
    Nil <- Nil, TableOrder <- DesignTableOrder, Schemas <- DesignSchemas,
    FirstSchemas <- FirstDesignSchemas, FirstBoards <- FirstDesignBoards,
    Me <- "me", MemberNames <- DesignMemberNames, Requests <- DesignRequests,
    Proposals <- DesignProposals, Workers <- DesignWorkers, MaxContexts <- 2,
    MaxFields <- 3, MaxWidgets <- 12, MaxPlans <- 1, MaxApplies <- 2,
    MaxChanges <- 1, MaxEdits <- 1, schema <- s1, perm <- s2, board <- s3,
    plans <- s4, views <- s5, work <- s6, applies <- s7, changes <- s8,
    edits <- s9

\* The slots from the n-th on hold nothing.
Unused(n) ==
    /\ 1 >= n => s1 = "-"
    /\ 2 >= n => s2 = "-"
    /\ 3 >= n => s3 = "-"
    /\ 4 >= n => s4 = "-"
    /\ 5 >= n => s5 = "-"
    /\ 6 >= n => s6 = "-"
    /\ 7 >= n => s7 = "-"
    /\ 8 >= n => s8 = "-"
    /\ 9 >= n => s9 = "-"
    /\ 10 >= n => s10 = "-"
    /\ 11 >= n => s11 = "-"
    /\ 12 >= n => s12 = "-"
    /\ 13 >= n => s13 = "-"
    /\ 14 >= n => s14 = "-"
    /\ 15 >= n => s15 = "-"
    /\ 16 >= n => s16 = "-"
    /\ 17 >= n => s17 = "-"
    /\ 18 >= n => s18 = "-"

Init ==
    \/ part = "query" /\ Query!InitQuery /\ Unused(5)
    \/ part = "work" /\ Bench!InitWork /\ Unused(3)
    \/ part = "dash" /\ Dash!InitDash
    \/ part = "search" /\ Find!Init /\ Unused(10)
    \/ part = "runtime" /\ Runtime!InitRuntime /\ Unused(10)
    \/ part = "chats" /\ Talk!InitChats /\ Unused(9)
    \/ part = "forecast" /\ Forecast!InitForecast /\ Unused(12)
    \/ part = "members" /\ Members!InitMembers /\ Unused(12)
    \/ part = "steward" /\ Steward!InitSteward /\ Unused(9)
    \/ part = "blueprints" /\ Blueprint!Init /\ Unused(7)
    \/ part = "designs" /\ Design!Init /\ Unused(10)

Next ==
    \/ part = "query" /\ Query!NextQuery /\ UNCHANGED <<part, s5, s6, s7, s8, s9, s10, s11, s12, s13, s14, s15, s16, s17, s18>>
    \/ part = "work" /\ Bench!NextWork /\ UNCHANGED <<part, s3, s4, s5, s6, s7, s8, s9, s10, s11, s12, s13, s14, s15, s16, s17, s18>>
    \/ part = "dash" /\ Dash!NextDash /\ UNCHANGED part
    \/ part = "search" /\ Find!Next /\ UNCHANGED <<part, s10, s11, s12, s13, s14, s15, s16, s17, s18>>
    \/ part = "runtime" /\ Runtime!NextRuntime /\ UNCHANGED <<part, s10, s11, s12, s13, s14, s15, s16, s17, s18>>
    \/ part = "chats" /\ Talk!NextChats /\ UNCHANGED <<part, s9, s10, s11, s12, s13, s14, s15, s16, s17, s18>>
    \/ part = "forecast" /\ Forecast!NextForecast /\ UNCHANGED <<part, s12, s13, s14, s15, s16, s17, s18>>
    \/ part = "members" /\ Members!NextMembers /\ UNCHANGED <<part, s12, s13, s14, s15, s16, s17, s18>>
    \/ part = "steward" /\ Steward!NextSteward /\ UNCHANGED <<part, s9, s10, s11, s12, s13, s14, s15, s16, s17, s18>>
    \/ part = "blueprints" /\ Blueprint!Next /\ UNCHANGED <<part, s7, s8, s9, s10, s11, s12, s13, s14, s15, s16, s17, s18>>
    \/ part = "designs" /\ Design!Next /\ UNCHANGED <<part, s10, s11, s12, s13, s14, s15, s16, s17, s18>>

Spec == Init /\ [][Next]_vars

(* Every component keeps its types: statuses are ones the code writes, and *)
(* rows refer to rows of the right kind.                                   *)
AnswerTypes ==
    /\ part = "work" => Bench!TypeOKWork
    /\ part = "dash" => Dash!TypeOKDash
    /\ part = "search" => Find!TypeOKSearch
    /\ part = "runtime" => Runtime!TypeOKRuntime
    /\ part = "chats" => Talk!TypeOKChats
    /\ part = "forecast" => Forecast!TypeOKForecast
    /\ part = "members" => Members!TypeOKMembers
    /\ part = "steward" => Steward!TypeOKSteward
    /\ part = "blueprints" => Blueprint!TypeOKBlueprints
    /\ part = "designs" => Design!TypeOKDesigns

(* A reader gets the rows that match and that it may see, and no others:   *)
(* the SQL, the in-memory and the paged form of a query agree              *)
(* (record_query.py), every count of the workbench is that of its list     *)
(* (my_work.py), search shows visible records in order (global_search.py), *)
(* and a cached widget shows no hidden row, nothing older than its         *)
(* lifetime, and, undisturbed, the data of now (dashboard_runtime.py,      *)
(* dashboard_cache.py).                                                    *)
ReadersGetTheirRows ==
    /\ part = "query" => Query!PagesGiveTheQuery
    /\ part = "work" => Bench!WorkbenchAgrees
    /\ part = "search" => Find!SearchesSound
    /\ part = "dash" => /\ Dash!HiddenRowsStayHidden
                        /\ Dash!AnswersAreRecent
                        /\ Dash!QuietCacheExact

(* Nothing that needs a confirmation happens without one: a confirmation   *)
(* is decided once although answers and its timeout race, one run drives   *)
(* the state machine (agent_runtime), a gated tool call waits, calls stay  *)
(* within their limits, and the answer is stored with its question         *)
(* (ai_tool_router.py, api/ai.py).                                         *)
ConfirmationsHold ==
    /\ part = "runtime" => Runtime!DecidedOnce /\ Runtime!OneRunDrives
    /\ part = "chats" => /\ Talk!ExchangesStored
                         /\ Talk!GatedCallsWait
                         /\ Talk!CallsBounded

(* What is computed for a plan is right: the critical path is a longest    *)
(* chain, scenarios are consistent and estimates settle together           *)
(* (workload_planning.py); loads add up, manual choices are kept and the   *)
(* lighter of two equal members comes first (member_assignment.py); the    *)
(* steward's conclusions are those of its reference definition             *)
(* (project_steward.py).                                                   *)
ForecastsAreRight ==
    /\ part = "forecast" => /\ Forecast!CriticalPathExact
                            /\ Forecast!ScenariosConsistent
                            /\ Forecast!EstimatesSettledTogether
    /\ part = "members" => /\ Members!LoadsAddUp
                           /\ Members!ManualChoicesKept
                           /\ Members!LighterFirst
    /\ part = "steward" => Steward!ConclusionsRight

(* What is proposed can be done, and is done as proposed: the steward      *)
(* proposes only admissible actions (project_steward.py), an applied       *)
(* blueprint is whole and applied once (workspace_blueprint.py), and a     *)
(* designed view or dashboard fits its fields, edits as it was shown, can  *)
(* be made without the model and replaces only what its preview showed     *)
(* (ai_visual_design.py).                                                  *)
PlansComeOutAsMeant ==
    /\ part = "steward" => Steward!PlansSound
    /\ part = "blueprints" => Blueprint!ProjectsAreWhole /\ Blueprint!AppliedOnce
    /\ part = "designs" => /\ Design!CreatedDesignsFit
                           /\ Design!EditingStartsFromTheDesign
                           /\ Design!FallbacksServe
                           /\ Design!ReplacedAsShown

(* A look calls the stored diagnosis fresh only when the tasks it has just *)
(* read would give the same diagnosis again, unless a task changed between *)
(* the two reads of the diagnosis (project_steward.py, get_diagnosis).     *)
FreshDiagnosesHold == [][part = "steward" => Steward!FreshDiagnosesHoldStep]_vars

=============================================================================
