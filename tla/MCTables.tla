------------------------------ MODULE MCTables -------------------------------
(***************************************************************************)
(* What people build: the workspace tree, fields and formulas, views, cards,*)
(* the skills of a workspace, the task trees that plans become, and the    *)
(* links that reset a password.                                            *)
(* Init chooses a component and only that one steps: its variables are the *)
(* slots s1, s2, ... in the order of its own vars. The components of this  *)
(* run share no variable, so each is checked exactly as if alone; the      *)
(* properties say component by component what must hold.                   *)
(***************************************************************************)
EXTENDS Naturals, Sequences, TLC

CONSTANTS a1, a2, a3, c1, w1, w2, Nil

VARIABLES
    part,   \* the component this behaviour is about
    s1, s2, s3, s4, s5, s6, s7, s8, s9   \* its variables, in the order of its vars; "-" beyond

vars == <<part,
          s1, s2, s3, s4, s5, s6, s7, s8, s9>>

Three == {a1, a2, a3}
Callers == {w1, w2}   \* users or requests that run at a time
Symmetry == Permutations(Three) \cup Permutations(Callers)

SkillList(disabled) == [ws |-> "w1", disabled |-> disabled, cat |-> "s1"]
Registration(name, ws, version, content) ==
    [name |-> name, ws |-> ws, cat |-> "s1", version |-> version, content |-> content]
Registrations == {Registration("p", "w1", "v1", "c1"), Registration("p", "w1", "v2", "c2"),
                  Registration("b", "global", "builtin", "c1"), Registration("p", "w2", "v1", "c1")}

Tree == INSTANCE Workspaces WITH
    People <- Callers, ItemIds <- Three, NoItem <- Nil, MaxGrants <- 1,
    MaxCalls <- 4, item <- s1, content <- s2, profile <- s3, role <- s4,
    grant <- s5, call <- s6, cut <- s7, contested <- s8, calls <- s9
Reset == INSTANCE PasswordReset WITH
    Links <- Three, Resetters <- Callers, ResetLimit <- 2, NoLink <- Nil,
    link <- s1, resetter <- s2, attempts <- s3, oldLinks <- s4, resetBy <- s5
Design == INSTANCE TableDesign WITH
    FieldIds <- Three, Absent <- Nil, Designers <- Callers, MaxEdits <- 4,
    field <- s1, policy <- s2, cells <- s3, edit <- s4, overlapped <- s5,
    edits <- s6
ViewsItems == {"i1", "i2"}
Views == INSTANCE TableViews WITH
    ViewIds <- Three, NoView <- Nil, Items <- ViewsItems, Viewers <- Callers,
    MaxViewCalls <- 5, view <- s1, defaultView <- s2, items <- s3,
    wanted <- s4, viewCall <- s5, tangled <- s6, viewCalls <- s7
CardsFields == {"f", "g"}
CardsValues == {"v"}
Cards == INSTANCE Boards WITH
    NCards <- 3, Fields <- CardsFields, Values <- CardsValues,
    NoValue <- "unassigned", NoField <- "no field", Keep <- "keep",
    NoCard <- Nil, Movers <- Callers, RankStep <- 2, MinGap <- 1,
    MaxSteps <- 3, config <- s1, data <- s2, live <- s3, placed <- s4,
    moving <- s5, steps <- s6
SkillsNames == {"b", "p"}
SkillsBuiltins == {"b"}
SkillsSpaces == {"w1", "w2"}
SkillsSlugs == {"s1"}
SkillsVersions == {"v1", "v2"}
SkillsContents == {"c1", "c2"}
SkillsBroken == {"c2"}
SkillsSwitches == {"active", "deprecated"}
SkillsKeys == {SkillList(FALSE), SkillList(TRUE)}
Skills == INSTANCE SkillRegistry WITH
    Names <- SkillsNames, Builtins <- SkillsBuiltins, Spaces <- SkillsSpaces,
    Slugs <- SkillsSlugs, Versions <- SkillsVersions,
    Contents <- SkillsContents, Broken <- SkillsBroken,
    Payloads <- Registrations, Switches <- SkillsSwitches, Workers <- Callers,
    Keys <- SkillsKeys, MaxWrites <- 2, entries <- s1, versions <- s2,
    categories <- s3, cache <- s4, catCache <- s5, work <- s6, writes <- s7,
    overlapped <- s8
TreesRawKeys == {<<1>>, <<1, 1>>, <<1, 2>>}
TreesOld == {c1}
Trees == INSTANCE TaskTrees WITH
    NNodes <- 3, RawKeys <- TreesRawKeys, MaxDepth <- 3, MaxChildren <- 2,
    Old <- TreesOld, NoRecord <- Nil, MaxNeeds <- 2, Attempts <- 2, raw <- s1,
    tried <- s2, plan <- s3, table <- s4, used <- s5, decided <- s6,
    step <- s7

\* A model value differs from every row, key and name of the components.
ASSUME ModelValuesDiffer ==
    /\ Nil \notin Tree!Node
    /\ Nil \notin Design!Definitions /\ Nil \notin {"ok", "#REF", "#CYCLE"}
    /\ Nil \notin 1..3
    /\ {Nil, c1} \cap Seq(Nat) = {} /\ Nil # c1

\* The slots from the n-th on hold nothing.
Unused(n) ==
    /\ 1 >= n => s1 = "-"
    /\ 2 >= n => s2 = "-"
    /\ 3 >= n => s3 = "-"
    /\ 4 >= n => s4 = "-"
    /\ 5 >= n => s5 = "-"
    /\ 6 >= n => s6 = "-"
    /\ 7 >= n => s7 = "-"
    /\ 8 >= n => s8 = "-"
    /\ 9 >= n => s9 = "-"

Init ==
    \/ part = "workspaces" /\ Tree!InitWorkspaces
    \/ part = "reset" /\ Reset!InitReset /\ Unused(6)
    \/ part = "design" /\ Design!InitDesign /\ Unused(7)
    \/ part = "views" /\ Views!InitViews /\ Unused(8)
    \/ part = "boards" /\ Cards!InitBoards /\ Unused(7)
    \/ part = "skills" /\ Skills!Init /\ Unused(9)
    \/ part = "trees" /\ Trees!InitTrees /\ Unused(8)

Next ==
    \/ part = "workspaces" /\ Tree!NextWorkspaces /\ UNCHANGED part
    \/ part = "reset" /\ Reset!NextReset /\ UNCHANGED <<part, s6, s7, s8, s9>>
    \/ part = "design" /\ Design!NextDesign /\ UNCHANGED <<part, s7, s8, s9>>
    \/ part = "views" /\ Views!NextViews /\ UNCHANGED <<part, s8, s9>>
    \/ part = "boards" /\ Cards!NextBoards /\ UNCHANGED <<part, s7, s8, s9>>
    \/ part = "skills" /\ Skills!Next /\ UNCHANGED <<part, s9>>
    \/ part = "trees" /\ Trees!NextTrees /\ UNCHANGED <<part, s8, s9>>

Spec == Init /\ [][Next]_vars

(* Every component keeps its types: statuses are ones the code writes, and *)
(* rows refer to rows of the right kind.                                   *)
TableTypes ==
    /\ part = "workspaces" => Tree!TypeOKWorkspaces
    /\ part = "reset" => Reset!TypeOKReset
    /\ part = "design" => Design!TypeOKDesign
    /\ part = "views" => Views!TypeOKViews
    /\ part = "boards" => Cards!TypeOKBoards
    /\ part = "skills" => Skills!TypeOKSkills
    /\ part = "trees" => Trees!TypeOKTrees

(* What people design survives races and requests that die half way: a     *)
(* table item has its fields, view and profile (workspace/db_ops.py); a    *)
(* formula shows an error exactly when it must, and edits in sequence keep *)
(* formulas, policies and cells consistent (db_backend.py); a table keeps  *)
(* a view and its default is one of its views (table mutations); the skill *)
(* registry, once quiet, lists and runs what its rows say                  *)
(* (skill_registry.py); and a task tree keeps its meaning when it is       *)
(* normalised and becomes records (task_planning.py).                      *)
DesignsStayWhole ==
    /\ part = "workspaces" => Tree!TablesAreWhole
    /\ part = "design" => Design!FormulaErrorsExact /\ Design!QuietEditsKeepDesign
    /\ part = "views" => Views!ViewsStayUsable
    /\ part = "skills" => Skills!QuietRegistryExact
    /\ part = "trees" => Trees!PlansKeepTheirMeaning /\ Trees!RecordsCarryThePlan

(* A change lands where it was asked for and nowhere else: a card move     *)
(* ends in its cell between its neighbours, whatever runs beside it and    *)
(* however often ranks were halved or renumbered (board.py); a password is *)
(* never changed by a link older than its last reset (auth.py); a          *)
(* registration in one workspace changes no other one's skills             *)
(* (skill_registry.py); and merging a planned task into a record fills     *)
(* only its empty cells (task_planning.py).                                *)
ChangesLandWhereAsked ==
    [][/\ part = "boards" => Cards!MovesLandInPlaceStep
       /\ part = "reset" => Reset!OldLinksAreDeadStep
       /\ part = "skills" => Skills!OthersUntouchedStep
       /\ part = "trees" => Trees!MergeOnlyFillsStep]_vars

=============================================================================
