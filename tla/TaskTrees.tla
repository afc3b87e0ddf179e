----------------------------- MODULE TaskTrees -----------------------------
(* From the tree of tasks a model answers with to records: the tree is cut *)
(* and renumbered, its dependencies follow the new keys and are checked    *)
(* for cycles, the plan is stored and previewed; the user edits it and     *)
(* decides for each task, and accepting writes records with their parent   *)
(* and their dependencies. (Who may accept, and once only, is in           *)
(* PlanBatches.)                                                           *)
EXTENDS Integers, Sequences, SequencesExt, FiniteSets, FiniteSetsExt

CONSTANTS
    NNodes,          \* nodes of an answer in the order they are visited, 1 the root
    RawKeys,         \* keys the model may give its nodes
    MaxDepth, MaxChildren,   \* of the request
    Old,             \* records the table already holds
    NoRecord,        \* an empty relation cell
    MaxNeeds,        \* bound on the dependencies of an answer
    Attempts         \* retry.max_attempts

VARIABLES
    raw,             \* the answer: parent and key of each node, dependencies as <<node, key>>
    tried,
    plan,            \* keys of the stored plan and its blocking dependencies <<before, after>>
    table,           \* parent and dependency cell of each record
    used,            \* record of each task: recordByNodeKey
    decided,         \* the decisions applied
    step

varsTrees == <<raw, tried, plan, table, used, decided, step>>

Nodes == 1..NNodes
Sized(S) == {x \in SUBSET S : Cardinality(x) <= MaxNeeds}
NoPlan == [keys |-> {}, edges |-> {}]
NoAnswer == [parent |-> << >>, key |-> << >>, needs |-> {}]

Answers ==
    [parent : {f \in [Nodes -> 0..NNodes] : f[1] = 0 /\ \A n \in 2..NNodes : f[n] \in 1..(n - 1)},
     key    : {f \in [Nodes -> RawKeys] : TRUE},
     needs  : Sized(Nodes \X RawKeys)]

InitTrees ==
    /\ raw \in Answers
    /\ tried = 0
    /\ plan = NoPlan
    /\ table \in [Old -> [parent : {NoRecord} \cup Old, deps : {{}, Old}]]
    /\ used = << >> /\ decided = << >>
    /\ step = "asked"

-----------------------------------------------------------------------------
(* _normalize_node: the new key of a node is the path to it; what lies too *)
(* deep or too far to the right is left out.                               *)
Index(n) == Cardinality({m \in 1..n : raw.parent[m] = raw.parent[n]})
NewKeys ==
    LET key[n \in Nodes] == IF n = 1 THEN <<1>> ELSE Append(key[raw.parent[n]], Index(n)) IN key
KeptNodes ==
    {n \in Nodes : /\ Len(NewKeys[n]) <= MaxDepth
                   /\ \A i \in 2..Len(NewKeys[n]) : NewKeys[n][i] <= MaxChildren}

(* key_map: the last visited node with this key; a key of no node stays. *)
Remapped(k) ==
    LET named == {n \in KeptNodes : raw.key[n] = k}
    IN  IF named = {} THEN k ELSE NewKeys[Max(named)]

ValidKeys == {NewKeys[n] : n \in KeptNodes}
(* _remap_node_dependencies, _derive_dependency_specs *)
Edges ==
    {e \in {<<Remapped(x[2]), NewKeys[x[1]]>> : x \in {y \in raw.needs : y[1] \in KeptNodes}} :
        e[1] \in ValidKeys /\ e[1] # e[2]}

-----------------------------------------------------------------------------
(* _assert_dependency_acyclic: depth first. s.path are the tasks that are *)
(* being visited, the outermost first.                                     *)
Successors(E, k) == {e[2] : e \in {x \in E : x[1] = k}}
EndsOf(E) == {e[1] : e \in E} \cup {e[2] : e \in E}

Visiting(path, visited, cycle) == [path |-> path, visited |-> visited, cycle |-> cycle]

VisitNext(E, s) ==
    LET open == (IF s.path = <<>> THEN {e[1] : e \in E} ELSE Successors(E, Last(s.path))) \ s.visited
        next == CHOOSE x \in open : TRUE
    IN  CASE open = {} /\ s.path = <<>> -> s
          [] open = {} /\ s.path # <<>> -> Visiting(Front(s.path), s.visited \cup {Last(s.path)}, FALSE)
          [] open # {} /\ next \in ToSet(s.path) -> Visiting(s.path, s.visited, TRUE)
          [] OTHER -> Visiting(Append(s.path, next), s.visited, FALSE)

(* A task is entered once and left once, unless a circle ends the search.  *)
VisitSteps(E) == 2 * Cardinality(EndsOf(E))
CycleDetected(E) ==
    LET state[n \in 0..VisitSteps(E)] ==
          IF n = 0 THEN Visiting(<<>>, {}, FALSE)
          ELSE IF state[n - 1].cycle THEN state[n - 1] ELSE VisitNext(E, state[n - 1])
    IN  state[VisitSteps(E)].cycle

-----------------------------------------------------------------------------
(* run: the validator wants children of the root, and not too many; a      *)
(* cycle fails the attempt, and the model is asked again.                  *)
Accepts ==
    /\ \E n \in Nodes : raw.parent[n] = 1
    /\ Cardinality({n \in Nodes : raw.parent[n] = 1}) <= MaxChildren
    /\ ~ CycleDetected(Edges)

(* _persist_plan, then the preview is marked. *)
Preview ==
    /\ step = "asked" /\ tried < Attempts
    /\ Accepts
    /\ plan' = [keys |-> ValidKeys, edges |-> Edges]
    /\ step' = "previewed" /\ tried' = tried + 1
    /\ UNCHANGED <<raw, table, used, decided>>

AttemptFails ==
    /\ step = "asked" /\ tried < Attempts
    /\ ~ Accepts
    /\ tried' = tried + 1
    /\ step' = IF tried + 1 = Attempts THEN "failed" ELSE "asked"
    /\ IF tried + 1 = Attempts THEN UNCHANGED raw ELSE \E n \in Sized(Nodes \X RawKeys) : raw' = [raw EXCEPT !.needs = n]
    /\ UNCHANGED <<plan, table, used, decided>>

-----------------------------------------------------------------------------
Prefix(k, i) == SubSeq(k, 1, i)
WithAncestors(K) == \A k \in K : \A i \in 1..(Len(k) - 1) : Prefix(k, i) \in K

(* The user leaves out tasks and draws one more dependency (one bounds   *)
(* the edits);                                                             *)
(* _validate_final_plan derives and checks them again. Only the stored     *)
(* plan is read: the answer it came from is gone.                          *)
FinalEdges(K, E) == {e \in E : e[1] \in K /\ e[2] \in K /\ e[1] # e[2]}
Tasks(K) == K \ {<<1>>}

(* record_by_key; a created record has the key of its task as its id. *)
RecordsBy(d) ==
    [k \in {x \in DOMAIN d : d[x].act # "skip"} |-> IF d[k].act = "create" THEN k ELSE d[k].rec]

(* nearest_parent_record: the nearest ancestor that became a record (the  *)
(* plan was not asked for below a task of the table).                     *)
NearestParent(k, by) ==
    LET up == {i \in 2..(Len(k) - 1) : Prefix(k, i) \in DOMAIN by}
    IN  IF up = {} THEN NoRecord ELSE by[Prefix(k, Max(up))]

Blockers(E, k, by) == {by[e[1]] : e \in {x \in E : x[2] = k /\ x[1] \in DOMAIN by}}

(* The tasks are taken depth first; of several tasks merged into one       *)
(* record the first that has something for an empty cell fills it.         *)
Before(j, k) ==
    \/ \E i \in 1..(Len(k) - 1) : j = Prefix(k, i)
    \/ \E i \in 1..Len(k) : i <= Len(j) /\ Prefix(j, i - 1) = Prefix(k, i - 1) /\ j[i] < k[i]
FirstOf(S) == CHOOSE k \in S : \A j \in S \ {k} : Before(k, j)
MergedInto(d, r) == {k \in DOMAIN d : d[k].act = "merge" /\ d[k].rec = r}
Merges(d, r) == MergedInto(d, r) # {}

MergedOver(r, d, E, by) ==
    [parent |-> NearestParent(FirstOf(MergedInto(d, r)), by), deps |-> Blockers(E, FirstOf(MergedInto(d, r)), by)]

(* A merge fills only what is empty. *)
Merged(r, d, E, by) ==
    LET above == {k \in MergedInto(d, r) : NearestParent(k, by) # NoRecord}
        waits == {k \in MergedInto(d, r) : Blockers(E, k, by) # {}}
    IN  [parent |-> IF table[r].parent = NoRecord /\ above # {} THEN NearestParent(FirstOf(above), by)
                                                               ELSE table[r].parent,
         deps   |-> IF table[r].deps = {} /\ waits # {} THEN Blockers(E, FirstOf(waits), by)
                                                        ELSE table[r].deps]

Written(d, E) ==
    LET by == RecordsBy(d)
        created == {k \in DOMAIN d : d[k].act = "create"}
    IN  [r \in Old \cup created |->
            IF r \in created THEN [parent |-> NearestParent(r, by), deps |-> Blockers(E, r, by)]
            ELSE IF Merges(d, r) THEN Merged(r, d, E, by) ELSE table[r]]

Decisions == [act : {"create", "skip"}, rec : {NoRecord}] \cup [act : {"reuse", "merge"}, rec : Old]

(* The tasks K are kept, with the dependencies E. *)
Apply(K, E) ==
    /\ step = "previewed"
    /\ K \subseteq plan.keys /\ <<1>> \in K /\ WithAncestors(K) /\ Tasks(K) # {}
    /\ \E final \in {FinalEdges(K, E)} :
         /\ ~ CycleDetected(final)
         /\ plan' = [keys |-> K, edges |-> final]
         /\ \E d \in [Tasks(K) -> Decisions] :
               /\ decided' = d
               /\ used' = RecordsBy(d)
               /\ table' = Written(d, final)
    /\ step' = "applied"
    /\ raw' = NoAnswer /\ UNCHANGED tried

NextTrees ==
    \/ Preview \/ AttemptFails
    \/ \E K \in SUBSET plan.keys :
         \E E \in {plan.edges} \cup {plan.edges \cup {e} : e \in K \X K} : Apply(K, E)

SpecTrees == InitTrees /\ [][NextTrees]_varsTrees

-----------------------------------------------------------------------------

TypeOKTrees ==
    /\ raw \in Answers \cup {NoAnswer} /\ tried \in 0..Attempts
    /\ step \in {"asked", "previewed", "applied", "failed"}
    /\ <<1>> \in plan.keys \/ plan = NoPlan

Cyclic(E) == \E S \in SUBSET EndsOf(E) : S # {} /\ \A x \in S : \E y \in S : <<x, y>> \in E

(* What the model meant is what is previewed: when its keys tell its nodes *)
(* apart, its dependencies name nodes and no node was cut off, the         *)
(* dependencies of the stored plan are exactly the ones of the answer      *)
(* under the new keys; and neither the stored nor the accepted plan ever   *)
(* has a cycle.                                                            *)
PlansKeepTheirMeaning ==
    /\ step \in {"previewed", "applied"} => ~ Cyclic(plan.edges)
    /\ (/\ step = "previewed" /\ KeptNodes = Nodes
        /\ \A m, n \in Nodes : raw.key[m] = raw.key[n] => m = n
        /\ \A x \in raw.needs : \E n \in Nodes : raw.key[n] = x[2]) =>
            plan.edges = {<<NewKeys[p[1]], NewKeys[p[2]]>> :
                            p \in {q \in Nodes \X Nodes : q[1] # q[2] /\ <<q[2], raw.key[q[1]]>> \in raw.needs}}

Created == {k \in DOMAIN decided : decided[k].act = "create"}
DependsOn(T) == {e \in (DOMAIN T) \X (DOMAIN T) : e[1] \in T[e[2]].deps}

(* The records carry the plan: a new record waits for exactly the records  *)
(* of the tasks that block it and hangs below the nearest task above it    *)
(* that became a record; a merge leaves every cell that was not empty; and *)
(* when every task got a record of its own the new dependencies are free   *)
(* of cycles as the plan is.                                               *)
RecordsCarryThePlan ==
    step = "applied" =>
        /\ \A j, k \in Created : <<j, k>> \in plan.edges <=> j \in table[k].deps
        /\ \A k \in Created : table[k].parent = NoRecord =>
             \A j \in Created : Len(j) >= Len(k) \/ Prefix(k, Len(j)) # j
        /\ \A k \in Created : table[k].parent \in Created => Prefix(k, Len(table[k].parent)) = table[k].parent
        /\ DOMAIN decided = Created => ~ Cyclic({e \in DependsOn(table) : e[1] \in Created /\ e[2] \in Created})

(* A merge never replaces a value the record had (the promise of "merge":  *)
(* only empty cells are filled).                                           *)
MergeOnlyFillsStep ==
    \A r \in Old : /\ table[r].parent # NoRecord => table'[r].parent = table[r].parent
                   /\ table[r].deps # {} => table'[r].deps = table[r].deps
MergeOnlyFills == [][MergeOnlyFillsStep]_varsTrees

(* No record comes to depend on itself, directly or through others         *)
(* (task_planning.py checks the plan for cycles before it writes).         *)
NoCircularRecords ==
    step = "applied" /\ (\A r \in Old : table[r].deps = {} \/ Merges(decided, r)) => ~ Cyclic(DependsOn(table))
=============================================================================
