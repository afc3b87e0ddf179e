--------------------------- MODULE ProjectSteward ---------------------------
(* The project steward reads the tasks a user may see, concludes from them *)
(* what is late, blocked, circular or on the critical path, and stores the *)
(* conclusions with a fingerprint of what was read. Later looks, and the   *)
(* action plans made from a diagnosis, first compare that fingerprint with *)
(* the table. An action plan turns drafts, of the model, of the fallback   *)
(* or of the user, into checked actions. (Applying them is in              *)
(* PlanBatches.)                                                           *)
EXTENDS Integers, Sequences, FiniteSets, FiniteSetsExt, SequencesExt

CONSTANTS
    NRecs,           \* tasks, in the order of their keys
    Due,             \* "late", "soon" or "none" for each task
    Effort,          \* p50 hours of each task
    Suggested,       \* tasks for which a member was recommended, at version 1
    Limit,           \* max_records
    NFocus,          \* how many suggestions are made: 3
    Links,           \* dependency cells tasks may start with
    MaxEdits

VARIABLES
    rec,             \* status, dependencies, owner and version of each task
    seen,            \* tasks the user may see
    edits,
    reading,         \* the read under way: what for, and the contents read
    diag,            \* the stored diagnosis
    shown,           \* what the last look answered
    plan,            \* the stored drafts of an action plan
    torn             \* ghost: a task changed between the two reads of the diagnosis

varsSteward == <<rec, seen, edits, reading, diag, shown, plan, torn>>

Recs == 1..NRecs
NoRead == [for |-> "nothing", tasks |-> << >>]
NoDiag == [print |-> << >>, about |-> << >>]
NoDrafts == [actions |-> << >>, rejected |-> << >>, context |-> << >>]
Nothing == [stale |-> FALSE, about |-> << >>]
Stale == [stale |-> TRUE, about |-> << >>]

InitSteward ==
    /\ rec \in [Recs -> [status : {"open"}, deps : Links, owned : {FALSE}, ver : {1}]]
    /\ seen = Recs
    /\ edits = 0
    /\ reading = NoRead /\ diag = NoDiag /\ shown = Nothing /\ plan = NoDrafts
    /\ torn = FALSE

-----------------------------------------------------------------------------
(* _scope: the first Limit visible tasks, with dependencies on them. *)
FirstOf(S) == {t \in S : Cardinality({u \in S : u <= t}) <= Limit}
Scope == [t \in FirstOf(seen) |-> rec[t]]

(* The versions are read after the contents; the fingerprint is made of    *)
(* them and of the keys of the tasks.                                      *)
FingerprintKeys == [t \in DOMAIN reading.tasks |-> 1]

Fingerprint == [t \in DOMAIN reading.tasks |-> rec[t].ver]

-----------------------------------------------------------------------------
(* _diagnose, on the tasks T that were read *)

Needs(T, t) == T[t].deps \cap DOMAIN T
Undone(T) == {t \in DOMAIN T : T[t].status # "done"}
Pending(T, t) == Needs(T, t) \cap Undone(T)
Blocked(T) == {t \in Undone(T) : T[t].status = "blocked" \/ Pending(T, t) # {}}
Late(T) == {t \in Undone(T) : Due[t] = "late"}
Soon(T) == {t \in Undone(T) : Due[t] = "soon"}

(* _topology: rounds of taking what has no unmet dependency; what is left  *)
(* is reported as circular.                                                *)
FreeOfSelf(T, done) == {t \in DOMAIN T \ done : Needs(T, t) \subseteq done}

Free(T, done) == {t \in DOMAIN T \ done : Needs(T, t) \ {t} \subseteq done}
Order(T) ==
    LET after[n \in 0..NRecs] ==
            IF n = 0 THEN << >>
            ELSE LET s == after[n - 1]
                     f == Free(T, ToSet(s))
                 IN  IF f = {} THEN s ELSE Append(s, Min(f))
    IN  after[NRecs]
Circular(T) == DOMAIN T \ ToSet(Order(T))

(* _critical_path: longest chain to each task, at least an hour each *)
Longest(T) ==
    LET order == Order(T)
        upTo[n \in 0..Len(order)] ==
            IF n = 0 THEN << >>
            ELSE LET l == upTo[n - 1]
                     t == order[n]
                     before == Needs(T, t) \cap DOMAIN l
                     most == IF before = {} THEN 0 ELSE Max({l[b] : b \in before})
                 IN  [u \in DOMAIN l \cup {t} |-> IF u = t THEN most + Max({1, Effort[t]}) ELSE l[u]]
    IN  upTo[Len(order)]
PathHours(T) == IF Circular(T) # {} \/ DOMAIN T = {} THEN 0 ELSE Max({Longest(T)[t] : t \in DOMAIN T})

(* The path is followed back from the first task of the greatest length,   *)
(* each time to the first of its longest predecessors.                     *)
Path(T) ==
    LET l == Longest(T)
        firstOfLongest(S) == CHOOSE t \in S : \A u \in S : l[u] < l[t] \/ (l[u] = l[t] /\ t <= u)
        end == Order(T)[Min({i \in DOMAIN Order(T) : l[Order(T)[i]] = PathHours(T)})]
        back[n \in 0..NRecs] ==
            IF n = 0 THEN <<end>>
            ELSE LET before == Needs(T, Head(back[n - 1])) \ {Head(back[n - 1])}
                 IN  IF before = {} THEN back[n - 1] ELSE <<firstOfLongest(before)>> \o back[n - 1]
    IN  IF PathHours(T) = 0 THEN << >> ELSE back[NRecs]

(* suggestions: the three tasks that score highest *)
Points(T, t) ==
      (IF t \in Late(T) THEN 100 ELSE 0) + (IF t \in Blocked(T) THEN 80 ELSE 0)
    + (IF t \in Soon(T) THEN 60 ELSE 0) + (IF t \in ToSet(Path(T)) THEN 40 ELSE 0)
    + (IF T[t].owned THEN 0 ELSE 20)
Focus(T) ==
    {t \in Undone(T) : Cardinality({u \in Undone(T) : Points(T, u) > Points(T, t)
                                    \/ (Points(T, u) = Points(T, t) /\ u < t)}) < NFocus}

(* Left out: hours worked beyond the estimate, tasks without movement and  *)
(* the load of owners; their inputs are covered by the fingerprint too,    *)
(* except the dates, which only time changes.                              *)
Diagnose(T) ==
    [late |-> Late(T), soon |-> Soon(T), blocked |-> Blocked(T),
     unassigned |-> {t \in Undone(T) : ~ T[t].owned},
     circular |-> Circular(T), path |-> Path(T), focus |-> Focus(T)]

(* The tasks its conclusions name as evidence (the path when it is risky). *)
Evidence(about) == about.late \cup about.soon \cup about.blocked \cup about.unassigned \cup about.circular
                   \cup ToSet(about.path) \cup about.focus

-----------------------------------------------------------------------------
BeginRead(what) ==
    /\ reading = NoRead /\ seen # {}
    /\ (what = "ask") = (diag = NoDiag)
    /\ plan = NoDrafts /\ (what = "plan" => shown = Nothing)
    /\ reading' = [for |-> what, tasks |-> Scope]
    /\ UNCHANGED <<rec, seen, edits, diag, shown, plan, torn>>

(* ask: the answer is ranked by the model or by rule and stored. *)
EndAsk ==
    /\ reading.for = "ask"
    /\ diag' = [print |-> Fingerprint, about |-> Diagnose(reading.tasks)]
    /\ torn' = (\E t \in DOMAIN reading.tasks : rec[t].ver # reading.tasks[t].ver)
    /\ reading' = NoRead
    /\ UNCHANGED <<rec, seen, edits, shown, plan>>

Fresh == Fingerprint = diag.print

(* get_diagnosis: the stored conclusions, or nothing but that they are old *)
EndLook ==
    /\ reading.for = "look"
    /\ shown' = IF Fresh THEN [stale |-> FALSE, about |-> diag.about] ELSE Stale
    /\ reading' = NoRead
    /\ UNCHANGED <<rec, seen, edits, diag, plan, torn>>

-----------------------------------------------------------------------------
(* Drafts: what is to be done to which task. *)

(* reaches: depth first; all branches share what was visited. *)
Reaches(G, start, target, visited) ==
    LET walk[t \in Recs, v \in SUBSET Recs] ==
            IF t = target THEN [found |-> TRUE, visited |-> v]
            ELSE IF t \in v \/ t \notin DOMAIN G THEN [found |-> FALSE, visited |-> v]
            ELSE FoldLeft(LAMBDA r, next : IF r.found THEN r ELSE walk[next, r.visited],
                          [found |-> FALSE, visited |-> v \cup {t}],
                          SetToSortSeq(G[t], <))
    IN  walk[start, visited]

(* _dependency_cycle, in the graph of the visible tasks with this change *)
DependencyCycle(T, t, deps) ==
    LET G == [u \in DOMAIN T |-> IF u = t THEN deps ELSE T[u].deps]
    IN  t \in deps \/ \E d \in deps : Reaches(G, d, t, {}).found

(* _normalize_action and the checks of preview: the table's records, no    *)
(* cycle, no identifier twice and no cell twice.                           *)
Cell(d) == <<d.rec, d.type>>
TargetsVisible(T, d) == d.deps \subseteq DOMAIN T
Valid(T, d) ==
    \/ d.type = "create"
    \/ /\ d.rec \in DOMAIN T
       /\ d.type = "depend" => TargetsVisible(T, d) /\ ~ DependencyCycle(T, d.rec, d.deps)
CellTaken(s, d) == d.type # "create" /\ \E i \in DOMAIN s : s[i].type # "create" /\ Cell(s[i]) = Cell(d)

Admitted(T, s, d) == Valid(T, d) /\ (\A i \in DOMAIN s : s[i].id # d.id) /\ ~ CellTaken(s, d)

(* The identifier of a refused draft is taken too when only its cell was   *)
(* the reason: it joins action_ids before the cell is checked.             *)
Normalized(T, ds) ==
    FoldLeft(LAMBDA acc, d :
        IF Admitted(T, acc.actions, d) /\ d.id \notin acc.ids
        THEN [acc EXCEPT !.actions = Append(@, d), !.ids = @ \cup {d.id}]
        ELSE [acc EXCEPT !.rejected = Append(@, d),
                         !.ids = IF Valid(T, d) THEN @ \cup {d.id} ELSE @],
        [actions |-> << >>, rejected |-> << >>, ids |-> {}], ds)

StoredPlan(T, ds) ==
    LET n == Normalized(T, ds) IN [actions |-> n.actions, rejected |-> n.rejected, context |-> T]

Draft(t, d, r, i) == [type |-> t, deps |-> d, rec |-> r, id |-> i]

(* The fallback: recommended members of tasks that did not change since,   *)
(* then a higher priority for what is at risk.                             *)
FallbackDrafts ==
    LET named == Evidence(diag.about)
        assign == {t \in Suggested \cap named : rec[t].ver = 1}
        risky == diag.about.late \cup diag.about.soon \cup diag.about.blocked
        mine(S, type) == [i \in 1..Cardinality(S) |->
                             LET t == SetToSortSeq(S, <)[i] IN Draft(type, {}, t, <<type, t>>)]
    IN  mine(assign, "assign") \o mine(risky, "priority")

(* preview, with a fresh diagnosis: generated drafts are kept as far as    *)
(* they pass ...                                                           *)
Generate(ds) ==
    /\ reading.for = "plan" /\ Fresh
    /\ plan' = StoredPlan(Scope, IF ds = << >> THEN FallbackDrafts ELSE ds)
    /\ reading' = NoRead
    /\ UNCHANGED <<rec, seen, edits, diag, shown, torn>>

(* ... the user's own only together; otherwise, and when the diagnosis is  *)
(* stale, nothing is stored.                                               *)
Propose(ds) ==
    /\ reading.for = "plan" /\ Fresh
    /\ plan' = LET p == StoredPlan(Scope, ds) IN IF p.rejected = << >> THEN p ELSE NoDrafts
    /\ reading' = NoRead
    /\ UNCHANGED <<rec, seen, edits, diag, shown, torn>>

Refuse ==
    /\ reading.for = "plan" /\ ~ Fresh
    /\ reading' = NoRead
    /\ UNCHANGED <<rec, seen, edits, diag, shown, plan, torn>>

-----------------------------------------------------------------------------
(* Other people edit tasks and change who may see them (until a plan is    *)
(* stored: what happens to it then is in PlanBatches).                     *)
Edit(t, status, deps, owned) ==
    /\ edits < MaxEdits /\ plan = NoDrafts
    /\ <<rec[t].status, rec[t].deps, rec[t].owned>> # <<status, deps, owned>>
    /\ rec' = [rec EXCEPT ![t] = [status |-> status, deps |-> deps, owned |-> owned, ver |-> @.ver + 1]]
    /\ edits' = edits + 1
    /\ UNCHANGED <<seen, reading, diag, shown, plan, torn>>

ChangeScope(S) ==
    /\ edits < MaxEdits /\ plan = NoDrafts /\ S # seen
    /\ seen' = S /\ edits' = edits + 1
    /\ UNCHANGED <<rec, reading, diag, shown, plan, torn>>

(* Inputs: one draft, or one for the first task or a new one and another,  *)
(* with an identifier of its own or not. Looks and plans are examined in   *)
(* behaviours of their own.                                                *)
DraftsOf(i) ==
    {Draft("depend", {d}, t, i) : d \in Recs, t \in Recs} \cup
    {Draft("create", {}, 0, i), Draft("assign", {}, 1, i)}
Lists == {<<d>> : d \in DraftsOf(1)} \cup
         {<<d, e>> : d \in {x \in DraftsOf(1) : x.rec \in {0, 1}}, e \in DraftsOf(1) \cup DraftsOf(2)}

NextSteward ==
    \/ \E w \in {"ask", "look", "plan"} : BeginRead(w)
    \/ EndAsk \/ EndLook \/ Refuse
    \/ \E ds \in Lists : Generate(ds) \/ Propose(ds)
    \/ Generate(<< >>)
    \/ \E t \in Recs : \/ \E s \in {"open", "blocked", "done"} : Edit(t, s, rec[t].deps, rec[t].owned)
                       \/ Edit(t, rec[t].status, {}, rec[t].owned)
                       \/ Edit(t, rec[t].status, rec[t].deps, TRUE)
    \/ ChangeScope(Recs) \/ \E t \in Recs : ChangeScope(Recs \ {t})

SpecSteward == InitSteward /\ [][NextSteward]_varsSteward

-----------------------------------------------------------------------------

TypeOKSteward ==
    /\ \A t \in Recs : rec[t].ver \in 1..(MaxEdits + 1) /\ rec[t].deps \subseteq Recs
    /\ seen \subseteq Recs /\ reading.for \in {"nothing", "ask", "look", "plan"}
    /\ diag # NoDiag => DOMAIN diag.print \subseteq Recs

(* A look that calls the diagnosis fresh shows what the tasks it has just  *)
(* read would give again (get_diagnosis compares versions, not contents),  *)
(* except where a task changed between the two reads of the diagnosis.     *)
FreshDiagnosesHoldStep ==
    (shown' # shown /\ ~ shown'.stale /\ ~ torn) =>
       shown'.about = Diagnose(reading.tasks)
FreshDiagnosesHold == [][FreshDiagnosesHoldStep]_varsSteward

(* The same without the exception: the staleReason of get_diagnosis says   *)
(* that a change of the visible data after the diagnosis makes it stale.   *)
FreshMeansCurrent ==
    [][(shown' # shown /\ ~ shown'.stale) =>
          shown'.about = Diagnose(reading.tasks)]_varsSteward

ChainsOf(T) == {s \in UNION {[1..n -> DOMAIN T] : n \in 1..Cardinality(DOMAIN T)} :
                   /\ \A i \in 1..(Len(s) - 1) : s[i] \in T[s[i + 1]].deps
                   /\ \A i, j \in DOMAIN s : s[i] = s[j] => i = j}
HoursIn(s) ==
    LET upTo[i \in 0..Len(s)] == IF i = 0 THEN 0 ELSE upTo[i - 1] + Max({1, Effort[s[i]]})
    IN  upTo[Len(s)]

(* The conclusions are the project's: a circle is reported when and only   *)
(* when there is one, every task on it is reported, and otherwise the      *)
(* path reported is a chain, and none takes longer.                        *)
ConclusionsRight ==
    reading.for = "ask" =>
        \A T \in {reading.tasks} : \A a \in {Diagnose(T)} :
           LET onCircle(S) == S # {} /\ \A t \in S : (T[t].deps \cap S) \ {t} # {}
           IN  /\ a.circular # {} <=> \E S \in SUBSET DOMAIN T : onCircle(S)
               /\ \A S \in SUBSET DOMAIN T : onCircle(S) => S \subseteq a.circular
               /\ a.circular = {} => /\ a.path \in ChainsOf(T)
                                    /\ \A s \in ChainsOf(T) : HoursIn(s) <= HoursIn(a.path)

(* A stored plan is sound: each action can be told from the others and     *)
(* has its cell for itself, a change of dependencies closes no circle      *)
(* among the tasks it was checked against, nothing that could be done was  *)
(* refused for a circle, and a draft is either an action or refused.       *)
PlansSound ==
    plan # NoDrafts =>
        LET T == plan.context
            onCircle(d) == LET G == [u \in DOMAIN T |-> [deps |-> IF u = d.rec THEN d.deps ELSE T[u].deps]]
                           IN  d.rec \in d.deps \/ \E s \in ChainsOf(G) : s[1] = d.rec /\ s[Len(s)] \in d.deps
        IN  /\ \A i, j \in DOMAIN plan.actions : i # j =>
                 /\ plan.actions[i].id # plan.actions[j].id
                 /\ plan.actions[i].type # "create" => Cell(plan.actions[i]) # Cell(plan.actions[j])
            /\ \A i \in DOMAIN plan.actions : plan.actions[i].type = "depend" => ~ onCircle(plan.actions[i])
            /\ (plan.actions = << >> /\ Len(plan.rejected) = 1 /\ plan.rejected[1].type = "depend"
                /\ {plan.rejected[1].rec} \cup plan.rejected[1].deps \subseteq DOMAIN T) => onCircle(plan.rejected[1])
=============================================================================
