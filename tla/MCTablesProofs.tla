--------------------------- MODULE MCTablesProofs ---------------------------
(***************************************************************************)
(* Properties of the run MCTables, proved from those of its components.     *)
(* TableProofs is about each component for all values of its constants;     *)
(* here it is instantiated with the values of the run. The lemmas before    *)
(* TablesInv only match definitions of two instances of a module.           *)
(***************************************************************************)
EXTENDS MCTables, FiniteSetTheorems, TLAPS

P == INSTANCE TableProofs WITH
    Links <- Three, Resetters <- Callers, ResetLimit <- 2, NoLink <- Nil,
    link <- s1, resetter <- s2, attempts <- s3, oldLinks <- s4, resetBy <- s5,
    People <- Callers, ItemIds <- Three, NoItem <- Nil, MaxGrants <- 1,
    MaxCalls <- 4, item <- s1, content <- s2, profile <- s3, role <- s4,
    grant <- s5, call <- s6, cut <- s7, contested <- s8, calls <- s9,
    ViewIds <- Three, NoView <- Nil, Items <- ViewsItems, Viewers <- Callers,
    MaxViewCalls <- 5, view <- s1, defaultView <- s2, items <- s3,
    wanted <- s4, viewCall <- s5, tangled <- s6, viewCalls <- s7,
    Names <- SkillsNames, Builtins <- SkillsBuiltins, Spaces <- SkillsSpaces,
    Slugs <- SkillsSlugs, Versions <- SkillsVersions,
    SkillContents <- SkillsContents, BrokenContents <- SkillsBroken,
    Payloads <- Registrations, Switches <- SkillsSwitches, Keys <- SkillsKeys,
    MaxWrites <- 2, entries <- s1, versions <- s2, categories <- s3,
    cache <- s4, catCache <- s5, work <- s6, writes <- s7, interleaved <- s8,
    FieldIds <- Three, Absent <- Nil, Designers <- Callers, MaxEdits <- 4,
    field <- s1, policy <- s2, cells <- s3, edit <- s4, overlapped <- s5,
    edits <- s6,
    NCards <- 3, Fields <- CardsFields, Values <- CardsValues,
    NoValue <- "unassigned", NoField <- "no field", Keep <- "keep",
    NoCard <- Nil, Movers <- Callers, RankStep <- 2, MinGap <- 1,
    MaxSteps <- 3, config <- s1, data <- s2, live <- s3, placed <- s4,
    moving <- s5, steps <- s6,
    NNodes <- 3, RawKeys <- TreesRawKeys, MaxDepth <- 3, MaxChildren <- 2,
    Old <- TreesOld, NoRecord <- Nil, MaxNeeds <- 2, Attempts <- 2, raw <- s1,
    tried <- s2, plan <- s3, table <- s4, used <- s5, decided <- s6,
    step <- s7

-----------------------------------------------------------------------------
LEMMA TreeStarts == Tree!InitWorkspaces => P!W!InitWorkspaces
  BY DEF Tree!NoCall, P!W!NoCall, Tree!InitWorkspaces, P!W!InitWorkspaces

LEMMA TreeSteps == Tree!NextWorkspaces => P!W!NextWorkspaces
  BY DEF Tree!Level, P!W!Level, Tree!Levels, P!W!Levels, Tree!RolePermission, P!W!RolePermission,
     Tree!PermissionAllows, P!W!PermissionAllows, Tree!Present, P!W!Present, Tree!Root, P!W!Root,
     Tree!NoCall, P!W!NoCall, Tree!Upwards, P!W!Upwards, Tree!EffectivePermission, P!W!EffectivePermission,
     Tree!May, P!W!May, Tree!Below, P!W!Below, Tree!InUse, P!W!InUse, Tree!Starts, P!W!Starts, Tree!Claim,
     P!W!Claim, Tree!FinishClaim, P!W!FinishClaim, Tree!EnsureWorkspace, P!W!EnsureWorkspace, Tree!Begin,
     P!W!Begin, Tree!BeginFolder, P!W!BeginFolder, Tree!BeginTable, P!W!BeginTable, Tree!BeginDashboard,
     P!W!BeginDashboard, Tree!BeginMove, P!W!BeginMove, Tree!BeginCopy, P!W!BeginCopy, Tree!BeginDelete,
     P!W!BeginDelete, Tree!At, P!W!At, Tree!Done, P!W!Done, Tree!Refused, P!W!Refused, Tree!Fresh,
     P!W!Fresh, Tree!Insert, P!W!Insert, Tree!Continue, P!W!Continue, Tree!CreateFolder, P!W!CreateFolder,
     Tree!CreateTable, P!W!CreateTable, Tree!CreateDashboard, P!W!CreateDashboard, Tree!CopyItem,
     P!W!CopyItem, Tree!CopyTable, P!W!CopyTable, Tree!CopyDashboard, P!W!CopyDashboard, Tree!FillTable,
     P!W!FillTable, Tree!FillDashboard, P!W!FillDashboard, Tree!InstallProfile, P!W!InstallProfile,
     Tree!MoveItem, P!W!MoveItem, Tree!ReadSubtree, P!W!ReadSubtree, Tree!Unfilled, P!W!Unfilled,
     Tree!EmptyItem, P!W!EmptyItem, Tree!EmptyTable, P!W!EmptyTable, Tree!EmptyDashboard,
     P!W!EmptyDashboard, Tree!DeleteRows, P!W!DeleteRows, Tree!DeleteProfiles, P!W!DeleteProfiles,
     Tree!BeginDrop, P!W!BeginDrop, Tree!DropRows, P!W!DropRows, Tree!BeginGrant, P!W!BeginGrant,
     Tree!SetItemPermission, P!W!SetItemPermission, Tree!RemoveItemPermission, P!W!RemoveItemPermission,
     Tree!BeginInvite, P!W!BeginInvite, Tree!InviteUser, P!W!InviteUser, Tree!BeginLeave, P!W!BeginLeave,
     Tree!LeaveWorkspace, P!W!LeaveWorkspace, Tree!Die, P!W!Die, Tree!NextWorkspaces, P!W!NextWorkspaces,
     Tree!Cardinality, P!W!Cardinality, Tree!IsFiniteSet, P!W!IsFiniteSet

LEMMA TreeTypeOKWorkspaces == P!W!TypeOKWorkspaces => Tree!TypeOKWorkspaces
  BY DEF Tree!Levels, P!W!Levels, Tree!ItemTypes, P!W!ItemTypes, Tree!Node, P!W!Node, Tree!NoCall,
     P!W!NoCall, Tree!Ops, P!W!Ops, Tree!TypeOKWorkspaces, P!W!TypeOKWorkspaces

LEMMA TreeTablesAreWhole == P!W!TablesAreWhole => Tree!TablesAreWhole
  BY DEF Tree!Present, P!W!Present, Tree!HasContent, P!W!HasContent, Tree!TablesAreWhole, P!W!TablesAreWhole

LEMMA ResetStarts == Reset!InitReset => P!InitReset
  BY DEF Reset!NoReset, P!NoReset, Reset!InitReset, P!InitReset

LEMMA ResetSteps == Reset!NextReset => P!NextReset
  BY DEF Reset!NoReset, P!NoReset, Reset!Unspent, P!Unspent, Reset!CreateResetToken, P!CreateResetToken,
     Reset!BeginInvitation, P!BeginInvitation, Reset!StageInvitationLink, P!StageInvitationLink,
     Reset!CountAttempt, P!CountAttempt, Reset!WindowEnds, P!WindowEnds, Reset!BeginReset, P!BeginReset,
     Reset!ResetPassword, P!ResetPassword, Reset!RefuseReset, P!RefuseReset, Reset!LinkExpires,
     P!LinkExpires, Reset!ResetterDies, P!ResetterDies, Reset!NextReset, P!NextReset

LEMMA ResetTypeOKReset == P!TypeOKReset => Reset!TypeOKReset
  BY DEF Reset!LinkStates, P!LinkStates, Reset!NoReset, P!NoReset, Reset!ResetRequests, P!ResetRequests,
     Reset!TypeOKReset, P!TypeOKReset

LEMMA ResetOldLinksAreDeadStep == P!OldLinksAreDeadStep => Reset!OldLinksAreDeadStep
  BY DEF Reset!OldLinksAreDeadStep, P!OldLinksAreDeadStep

LEMMA DesignStarts == Design!InitDesign => P!InitDesign
  BY DEF Design!AllRows, P!AllRows, Design!NoEdit, P!NoEdit, Design!InitDesign, P!InitDesign

LEMMA DesignSteps == Design!NextDesign => P!NextDesign
  BY DEF Design!Refs, P!Refs, Design!Plain, P!Plain, Design!Definitions, P!Definitions, Design!AllRows,
     P!AllRows, Design!Policies, P!Policies, Design!NoEdit, P!NoEdit, Design!Exists, P!Exists,
     Design!IsFormula, P!IsFormula, Design!Formulas, P!Formulas, Design!RefsOf, P!RefsOf,
     Design!Dependencies, P!Dependencies, Design!Reaches, P!Reaches, Design!ValidSchema, P!ValidSchema,
     Design!FormulaDependents, P!FormulaDependents, Design!PolicyAllows, P!PolicyAllows, Design!Begin,
     P!Begin, Design!BeginAddField, P!BeginAddField, Design!BeginUpdateField, P!BeginUpdateField,
     Design!BeginDeleteField, P!BeginDeleteField, Design!BeginSetPolicy, P!BeginSetPolicy,
     Design!BeginWriteCell, P!BeginWriteCell, Design!BeginImportCsv, P!BeginImportCsv, Design!Finish,
     P!Finish, Design!CommitAdd, P!CommitAdd, Design!MemberChangeSafe, P!MemberChangeSafe,
     Design!CommitUpdate, P!CommitUpdate, Design!CommitDelete, P!CommitDelete, Design!CommitPolicy,
     P!CommitPolicy, Design!CommitCells, P!CommitCells, Design!DesignerDies, P!DesignerDies,
     Design!NextDesign, P!NextDesign

LEMMA DesignTypeOKDesign == P!TypeOKDesign => Design!TypeOKDesign
  BY DEF Design!Refs, P!Refs, Design!Plain, P!Plain, Design!Definitions, P!Definitions, Design!AllRows,
     P!AllRows, Design!Policies, P!Policies, Design!TypeOKDesign, P!TypeOKDesign

LEMMA DesignFormulaErrorsExact == P!FormulaErrorsExact => Design!FormulaErrorsExact
  BY DEF Design!NoEdit, P!NoEdit, Design!Exists, P!Exists, Design!IsFormula, P!IsFormula, Design!Formulas,
     P!Formulas, Design!RefsOf, P!RefsOf, Design!Dependencies, P!Dependencies, Design!Reaches, P!Reaches,
     Design!HasValue, P!HasValue, Design!Ends, P!Ends, Design!Evaluate, P!Evaluate, Design!MaterializeNext,
     P!MaterializeNext, Design!EvaluationSteps, P!EvaluationSteps, Design!MaterializeRecord,
     P!MaterializeRecord, Design!Orders, P!Orders, Design!BrokenFormula, P!BrokenFormula,
     Design!FormulaErrorsExact, P!FormulaErrorsExact, Design!Cardinality, P!Cardinality, Design!Min, P!Min,
     Design!ToSet, P!ToSet, Design!Front, P!Front, Design!Last, P!Last, Design!IsFiniteSet, P!IsFiniteSet

LEMMA DesignQuietEditsKeepDesign == P!QuietEditsKeepDesign => Design!QuietEditsKeepDesign
  BY DEF Design!Exists, P!Exists, Design!IsFormula, P!IsFormula, Design!Formulas, P!Formulas,
     Design!RefsOf, P!RefsOf, Design!Dependencies, P!Dependencies, Design!Reaches, P!Reaches,
     Design!BrokenFormula, P!BrokenFormula, Design!QuietEditsKeepDesign, P!QuietEditsKeepDesign

LEMMA ViewsStarts == Views!InitViews => P!V!InitViews
  BY DEF Views!NoViewCall, P!V!NoViewCall, Views!InitViews, P!V!InitViews

LEMMA ViewsSteps == Views!NextViews => P!V!NextViews
  BY DEF Views!NoViewCall, P!V!NoViewCall, Views!Views, P!V!Views, Views!Names, P!V!Names, Views!BeginCall,
     P!V!BeginCall, Views!NextViewName, P!V!NextViewName, Views!BeginCreateView, P!V!BeginCreateView,
     Views!BeginCopyView, P!V!BeginCopyView, Views!BeginDeleteView, P!V!BeginDeleteView, Views!Step,
     P!V!Step, Views!GoOn, P!V!GoOn, Views!CreateView, P!V!CreateView, Views!CopyView, P!V!CopyView,
     Views!DefaultOnlyView, P!V!DefaultOnlyView, Views!DeleteView, P!V!DeleteView, Views!DefaultFirstView,
     P!V!DefaultFirstView, Views!BeginReplace, P!V!BeginReplace, Views!ReplaceItems, P!V!ReplaceItems,
     Views!EditItems, P!V!EditItems, Views!AddItem, P!V!AddItem, Views!DeleteItem, P!V!DeleteItem,
     Views!ClearItems, P!V!ClearItems, Views!ViewerDies, P!V!ViewerDies, Views!NextViews, P!V!NextViews,
     Views!Cardinality, P!V!Cardinality, Views!IsFiniteSet, P!V!IsFiniteSet

LEMMA ViewsTypeOKViews == P!V!TypeOKViews => Views!TypeOKViews
  BY DEF Views!TypeOKViews, P!V!TypeOKViews, Views!Cardinality, P!V!Cardinality, Views!IsFiniteSet,
     P!V!IsFiniteSet

LEMMA ViewsViewsStayUsable == P!V!ViewsStayUsable => Views!ViewsStayUsable
  BY DEF Views!NoViewCall, P!V!NoViewCall, Views!Views, P!V!Views, Views!Names, P!V!Names,
     Views!ViewsStayUsable, P!V!ViewsStayUsable, Views!Cardinality, P!V!Cardinality, Views!IsFiniteSet,
     P!V!IsFiniteSet

LEMMA CardsStarts == Cards!InitBoards => P!InitBoards
  BY DEF Cards!Cards, P!Cards, Cards!NoRow, P!NoRow, Cards!Resting, P!Resting, Cards!InitBoards,
     P!InitBoards

LEMMA CardsSteps == Cards!NextBoards => P!NextBoards
  BY DEF Cards!Cards, P!Cards, Cards!Contents, P!Contents, Cards!NoRow, P!NoRow, Cards!Resting, P!Resting,
     Cards!RankIn, P!RankIn, Cards!Rank, P!Rank, Cards!AheadIn, P!AheadIn, Cards!Ahead, P!Ahead,
     Cards!ValidBoard, P!ValidBoard, Cards!CellIn, P!CellIn, Cards!CellOf, P!CellOf, Cards!InCell,
     P!InCell, Cards!Anchors, P!Anchors, Cards!Locks, P!Locks, Cards!LockedByOthers, P!LockedByOthers,
     Cards!Locked, P!Locked, Cards!Counted, P!Counted, Cards!ConfigureBoard, P!ConfigureBoard,
     Cards!EditRecord, P!EditRecord, Cards!DeleteRecord, P!DeleteRecord, Cards!CreateRecord,
     P!CreateRecord, Cards!Crowded, P!Crowded, Cards!Rebalanced, P!Rebalanced, Cards!PlaceBetween,
     P!PlaceBetween, Cards!BeginMove, P!BeginMove, Cards!SameRows, P!SameRows, Cards!CommitMove,
     P!CommitMove, Cards!AbandonMove, P!AbandonMove, Cards!NextBoards, P!NextBoards, Cards!Cardinality,
     P!Cardinality, Cards!IsFiniteSet, P!IsFiniteSet

LEMMA CardsTypeOKBoards == P!TypeOKBoards => Cards!TypeOKBoards
  BY DEF Cards!Cards, P!Cards, Cards!Contents, P!Contents, Cards!ValidBoard, P!ValidBoard,
     Cards!TypeOKBoards, P!TypeOKBoards

LEMMA CardsMovesLandInPlaceStep == P!MovesLandInPlaceStep => Cards!MovesLandInPlaceStep
  BY DEF Cards!NoRow, P!NoRow, Cards!Resting, P!Resting, Cards!RankIn, P!RankIn, Cards!AheadIn, P!AheadIn,
     Cards!CellIn, P!CellIn, Cards!Anchors, P!Anchors, Cards!MovesLandInPlaceStep, P!MovesLandInPlaceStep

LEMMA SkillsStarts == Skills!Init => P!SR!Init
  BY DEF Skills!Global, P!SR!Global, Skills!None, P!SR!None, Skills!BuiltinVersion, P!SR!BuiltinVersion,
     Skills!BuiltinContent, P!SR!BuiltinContent, Skills!BuiltinSlug, P!SR!BuiltinSlug, Skills!Idle,
     P!SR!Idle, Skills!EntryOf, P!SR!EntryOf, Skills!BuiltinRequest, P!SR!BuiltinRequest, Skills!Init,
     P!SR!Init, Skills!Cardinality, P!SR!Cardinality, Skills!SetToSeq, P!SR!SetToSeq, Skills!IsInjective,
     P!SR!IsInjective, Skills!IsFiniteSet, P!SR!IsFiniteSet

LEMMA SkillsSteps == Skills!Next => P!SR!Next
  BY DEF Skills!Global, P!SR!Global, Skills!All, P!SR!All, Skills!NoRow, P!SR!NoRow, Skills!None,
     P!SR!None, Skills!BuiltinVersion, P!SR!BuiltinVersion, Skills!BuiltinContent, P!SR!BuiltinContent,
     Skills!BuiltinSlug, P!SR!BuiltinSlug, Skills!Idle, P!SR!Idle, Skills!EntryOf, P!SR!EntryOf,
     Skills!BuiltinRequest, P!SR!BuiltinRequest, Skills!Matching, P!SR!Matching, Skills!ChangedOnly,
     P!SR!ChangedOnly, Skills!UpsertVersion, P!SR!UpsertVersion, Skills!VisibleIn, P!SR!VisibleIn,
     Skills!Serialized, P!SR!Serialized, Skills!Manifest, P!SR!Manifest, Skills!CacheKey, P!SR!CacheKey,
     Skills!Alone, P!SR!Alone, Skills!Writing, P!SR!Writing, Skills!BeginWrite, P!SR!BeginWrite,
     Skills!BeginRegister, P!SR!BeginRegister, Skills!CommitRegister, P!SR!CommitRegister,
     Skills!SetStatus, P!SR!SetStatus, Skills!SyncBuiltins, P!SR!SyncBuiltins, Skills!Invalidated,
     P!SR!Invalidated, Skills!Invalidate, P!SR!Invalidate, Skills!BeginList, P!SR!BeginList,
     Skills!ReadEntries, P!SR!ReadEntries, Skills!StoreList, P!SR!StoreList, Skills!Expire, P!SR!Expire,
     Skills!ExpireCategories, P!SR!ExpireCategories, Skills!Next, P!SR!Next

LEMMA SkillsTypeOKSkills == P!SR!TypeOKSkills => Skills!TypeOKSkills
  BY DEF Skills!Global, P!SR!Global, Skills!None, P!SR!None, Skills!BuiltinVersion, P!SR!BuiltinVersion,
     Skills!BuiltinContent, P!SR!BuiltinContent, Skills!BuiltinSlug, P!SR!BuiltinSlug, Skills!Statuses,
     P!SR!Statuses, Skills!Rows, P!SR!Rows, Skills!TypeOKSkills, P!SR!TypeOKSkills

LEMMA SkillsQuietRegistryExact == P!SR!QuietRegistryExact => Skills!QuietRegistryExact
  BY DEF Skills!Global, P!SR!Global, Skills!All, P!SR!All, Skills!None, P!SR!None, Skills!Idle, P!SR!Idle,
     Skills!VisibleIn, P!SR!VisibleIn, Skills!Serialized, P!SR!Serialized, Skills!Manifest, P!SR!Manifest,
     Skills!QuietRegistryExact, P!SR!QuietRegistryExact

LEMMA SkillsOthersUntouchedStep == P!SR!OthersUntouchedStep => Skills!OthersUntouchedStep
  BY DEF Skills!Global, P!SR!Global, Skills!All, P!SR!All, Skills!BuiltinContent, P!SR!BuiltinContent,
     Skills!VisibleIn, P!SR!VisibleIn, Skills!Serialized, P!SR!Serialized, Skills!Manifest, P!SR!Manifest,
     Skills!Loads, P!SR!Loads, Skills!Runnable, P!SR!Runnable, Skills!OthersUntouchedStep,
     P!SR!OthersUntouchedStep

LEMMA TreesStarts == Trees!InitTrees => P!InitTrees
  BY DEF Trees!Nodes, P!Nodes, Trees!Sized, P!Sized, Trees!NoPlan, P!NoPlan, Trees!Answers, P!Answers,
     Trees!InitTrees, P!InitTrees, Trees!Cardinality, P!Cardinality, Trees!IsFiniteSet, P!IsFiniteSet

LEMMA TreesSteps == Trees!NextTrees => P!NextTrees
  BY DEF Trees!Nodes, P!Nodes, Trees!Sized, P!Sized, Trees!NoAnswer, P!NoAnswer, Trees!Index, P!Index,
     Trees!NewKeys, P!NewKeys, Trees!KeptNodes, P!KeptNodes, Trees!Remapped, P!Remapped, Trees!ValidKeys,
     P!ValidKeys, Trees!Edges, P!Edges, Trees!Successors, P!Successors, Trees!EndsOf, P!EndsOf,
     Trees!Visiting, P!Visiting, Trees!VisitNext, P!VisitNext, Trees!VisitSteps, P!VisitSteps,
     Trees!CycleDetected, P!CycleDetected, Trees!Accepts, P!Accepts, Trees!Preview, P!Preview,
     Trees!AttemptFails, P!AttemptFails, Trees!Prefix, P!Prefix, Trees!WithAncestors, P!WithAncestors,
     Trees!FinalEdges, P!FinalEdges, Trees!Tasks, P!Tasks, Trees!RecordsBy, P!RecordsBy,
     Trees!NearestParent, P!NearestParent, Trees!Blockers, P!Blockers, Trees!Before, P!Before,
     Trees!FirstOf, P!FirstOf, Trees!MergedInto, P!MergedInto, Trees!Merges, P!Merges, Trees!Merged,
     P!Merged, Trees!Written, P!Written, Trees!Decisions, P!Decisions, Trees!Apply, P!Apply,
     Trees!NextTrees, P!NextTrees, Trees!Cardinality, P!Cardinality, Trees!Max, P!Max, Trees!ToSet,
     P!ToSet, Trees!Front, P!Front, Trees!Last, P!Last, Trees!IsFiniteSet, P!IsFiniteSet

LEMMA TreesTypeOKTrees == P!TypeOKTrees => Trees!TypeOKTrees
  BY DEF Trees!Nodes, P!Nodes, Trees!Sized, P!Sized, Trees!NoPlan, P!NoPlan, Trees!NoAnswer, P!NoAnswer,
     Trees!Answers, P!Answers, Trees!TypeOKTrees, P!TypeOKTrees, Trees!Cardinality, P!Cardinality,
     Trees!IsFiniteSet, P!IsFiniteSet

LEMMA TreesPlansKeepTheirMeaning == P!PlansKeepTheirMeaning => Trees!PlansKeepTheirMeaning
  BY DEF Trees!Nodes, P!Nodes, Trees!Index, P!Index, Trees!NewKeys, P!NewKeys, Trees!KeptNodes,
     P!KeptNodes, Trees!EndsOf, P!EndsOf, Trees!Cyclic, P!Cyclic, Trees!PlansKeepTheirMeaning,
     P!PlansKeepTheirMeaning, Trees!Cardinality, P!Cardinality, Trees!IsFiniteSet, P!IsFiniteSet

LEMMA TreesRecordsCarryThePlan == P!RecordsCarryThePlan => Trees!RecordsCarryThePlan
  BY DEF Trees!EndsOf, P!EndsOf, Trees!Prefix, P!Prefix, Trees!Cyclic, P!Cyclic, Trees!Created, P!Created,
     Trees!DependsOn, P!DependsOn, Trees!RecordsCarryThePlan, P!RecordsCarryThePlan

LEMMA TreesMergeOnlyFillsStep == P!MergeOnlyFillsStep => Trees!MergeOnlyFillsStep
  BY DEF Trees!MergeOnlyFillsStep, P!MergeOnlyFillsStep

-----------------------------------------------------------------------------
(* The values of the run are ones the theorems are about.                    *)

LEMMA ThreeIsFinite == IsFiniteSet(Three)
<1>1. IsFiniteSet({a1}) /\ IsFiniteSet({a2}) /\ IsFiniteSet({a3})
  BY FS_Singleton
<1>2. IsFiniteSet({a1} \cup ({a2} \cup {a3}))
  BY <1>1, FS_Union
<1>3. Three = {a1} \cup ({a2} \cup {a3})
  BY DEF Three
<1> QED
  BY <1>2, <1>3

LEMMA TreeFits == P!EmptyIsNoNode /\ 4 \in Nat
<1>1. Nil \notin Tree!Node
  BY ModelValuesDiffer
<1> QED
  BY <1>1 DEF P!EmptyIsNoNode, Tree!Node, P!W!Node, Tree!ItemTypes, P!W!ItemTypes

LEMMA ResetFits == P!LimitIsNat
BY DEF P!LimitIsNat

LEMMA DesignFits == P!FieldConstants
<1>1. Nil \notin Design!Definitions /\ Nil \notin {"ok", "#REF", "#CYCLE"}
  BY ModelValuesDiffer
<1>2. Design!Definitions = P!Definitions
  BY DEF Design!Definitions, P!Definitions, Design!Plain, P!Plain, Design!Refs, P!Refs
<1>3. P!IsFiniteSet(Three)
  BY ThreeIsFinite DEF P!IsFiniteSet, IsFiniteSet
<1> QED
  BY <1>1, <1>2, <1>3 DEF P!FieldConstants

LEMMA ViewsFit == P!ViewConstants
BY ThreeIsFinite DEF P!ViewConstants, P!IsFiniteSet, IsFiniteSet

LEMMA CardsFit == P!BoardConstants
<1>1. Nil \notin 1..3
  BY ModelValuesDiffer
<1> QED
  BY <1>1 DEF P!BoardConstants, P!Cards, P!Contents, CardsFields, CardsValues

LEMMA SkillsFit == P!SkillConstants
<1>1. IsFiniteSet(SkillsBuiltins) /\ SkillsBuiltins \subseteq SkillsNames
  BY FS_Singleton DEF SkillsBuiltins, SkillsNames
<1>2. P!IsFiniteSet(SkillsBuiltins)
  BY <1>1 DEF P!IsFiniteSet, IsFiniteSet
<1>3. Registrations \subseteq [name : SkillsNames, ws : SkillsSpaces \cup {"global"},
                               cat : SkillsSlugs \cup {"general"},
                               version : SkillsVersions \cup {"builtin"}, content : SkillsContents]
  BY DEF Registrations, Registration, SkillsNames, SkillsSpaces, SkillsSlugs, SkillsVersions, SkillsContents
<1>4. SkillsSwitches \subseteq P!SR!Statuses
  BY DEF SkillsSwitches, P!SR!Statuses
<1> QED
  BY <1>1, <1>2, <1>3, <1>4 DEF P!SkillConstants, P!SR!Global, P!SR!BuiltinSlug, P!SR!BuiltinVersion

LEMMA TreesFit == P!TreeConstants
<1>1. {Nil, c1} \cap Seq(Nat) = {} /\ Nil # c1
  BY ModelValuesDiffer
<1>2. Nil \notin {c1} \cup Seq(Nat) /\ {c1} \cap Seq(Nat) = {}
  BY <1>1
<1> QED
  BY <1>2 DEF P!TreeConstants, TreesOld

(* The component that steps keeps its invariant; of the others nothing is    *)
(* needed.                                                                  *)
TablesInv ==
    /\ part = "workspaces" => P!WorkInv /\ s9 \in 0..4
    /\ part = "reset" => P!ResetInv
    /\ part = "design" => P!DesignInv
    /\ part = "views" => P!ViewInv /\ P!ViewBounds
    /\ part = "boards" => P!BoardsInv
    /\ part = "skills" => P!SkillInv /\ P!SkillLists
    /\ part = "trees" => P!TreesInv

LEMMA TablesInit == Init => TablesInv
<1> SUFFICES ASSUME Init PROVE TablesInv
  OBVIOUS
<1>1. ASSUME part = "workspaces" PROVE P!WorkInv /\ s9 \in 0..4
  <2>1. Tree!InitWorkspaces
    BY <1>1 DEF Init
  <2>2. s9 = 0
    BY <2>1 DEF Tree!InitWorkspaces
  <2> QED
    BY <2>1, <2>2, TreeStarts, P!WorkInit
<1>2. ASSUME part = "reset" PROVE P!ResetInv
  <2>1. Reset!InitReset
    BY <1>2 DEF Init
  <2> QED
    BY <2>1, ResetStarts, ResetFits, P!ResetInit
<1>3. ASSUME part = "design" PROVE P!DesignInv
  <2>1. Design!InitDesign
    BY <1>3 DEF Init
  <2> QED
    BY <2>1, DesignStarts, DesignFits, P!DesignInit
<1>4. ASSUME part = "views" PROVE P!ViewInv /\ P!ViewBounds
  <2>1. Views!InitViews
    BY <1>4 DEF Init
  <2> QED
    BY <2>1, ViewsStarts, ViewsFit, P!ViewInit, P!ViewBoundsInit
<1>5. ASSUME part = "boards" PROVE P!BoardsInv
  <2>1. Cards!InitBoards
    BY <1>5 DEF Init
  <2> QED
    BY <2>1, CardsStarts, CardsFit, P!BoardsInit
<1>6. ASSUME part = "skills" PROVE P!SkillInv /\ P!SkillLists
  <2>1. Skills!Init
    BY <1>6 DEF Init
  <2> QED
    BY <2>1, SkillsStarts, SkillsFit, P!SkillInit, P!SkillListsInit
<1>7. ASSUME part = "trees" PROVE P!TreesInv
  <2>1. Trees!InitTrees
    BY <1>7 DEF Init
  <2> QED
    BY <2>1, TreesStarts, TreesFit, P!TreesInit
<1> QED
  BY <1>1, <1>2, <1>3, <1>4, <1>5, <1>6, <1>7 DEF TablesInv

(* A step is one of the component, or leaves its variables alone. *)
LEMMA OneComponentSteps ==
  ASSUME [Next]_vars
  PROVE  /\ part' = part
         /\ part = "workspaces" => [P!W!NextWorkspaces]_(P!W!varsWorkspaces)
         /\ part = "reset" => [P!NextReset]_(P!varsReset)
         /\ part = "design" => [P!NextDesign]_(P!varsDesign)
         /\ part = "views" => [P!V!NextViews]_(P!V!varsViews)
         /\ part = "boards" => [P!NextBoards]_(P!varsBoards)
         /\ part = "skills" => [P!SR!Next]_(P!SR!vars)
         /\ part = "trees" => [P!NextTrees]_(P!varsTrees)
<1>1. CASE Next
  <2>1. part' = part
    BY <1>1 DEF Next
  <2>2. /\ part = "workspaces" => Tree!NextWorkspaces
        /\ part = "reset" => Reset!NextReset
        /\ part = "design" => Design!NextDesign
        /\ part = "views" => Views!NextViews
        /\ part = "boards" => Cards!NextBoards
        /\ part = "skills" => Skills!Next
        /\ part = "trees" => Trees!NextTrees
    BY <1>1 DEF Next
  <2> QED
    BY <2>1, <2>2, TreeSteps, ResetSteps, DesignSteps, ViewsSteps, CardsSteps, SkillsSteps, TreesSteps
<1>2. CASE UNCHANGED vars
  BY <1>2 DEF vars, P!W!varsWorkspaces, P!varsReset, P!varsDesign, P!V!varsViews, P!varsBoards, P!SR!vars,
     P!varsTrees
<1> QED
  BY <1>1, <1>2

LEMMA TablesStep ==
  ASSUME TablesInv, [Next]_vars
  PROVE  TablesInv'
<1>1. part' = part
  BY OneComponentSteps
<1>2. ASSUME part = "workspaces" PROVE P!WorkInv' /\ s9' \in 0..4
  BY <1>2, TreeFits, OneComponentSteps, P!WorkStep, P!CallsAreCounted DEF TablesInv
<1>3. ASSUME part = "reset" PROVE P!ResetInv'
  BY <1>3, ResetFits, OneComponentSteps, P!ResetStep DEF TablesInv
<1>4. ASSUME part = "design" PROVE P!DesignInv'
  BY <1>4, DesignFits, OneComponentSteps, P!DesignStep DEF TablesInv
<1>5. ASSUME part = "views" PROVE P!ViewInv' /\ P!ViewBounds'
  BY <1>5, ViewsFit, OneComponentSteps, P!ViewStep, P!ViewBoundsStep DEF TablesInv
<1>6. ASSUME part = "boards" PROVE P!BoardsInv'
  BY <1>6, CardsFit, OneComponentSteps, P!BoardsSteps DEF TablesInv
<1>7. ASSUME part = "skills" PROVE P!SkillInv' /\ P!SkillLists'
  BY <1>7, SkillsFit, OneComponentSteps, P!SkillStep, P!SkillListsStep DEF TablesInv
<1>8. ASSUME part = "trees" PROVE P!TreesInv'
  BY <1>8, TreesFit, OneComponentSteps, P!TreesStep DEF TablesInv
<1> QED
  BY <1>1, <1>2, <1>3, <1>4, <1>5, <1>6, <1>7, <1>8 DEF TablesInv

LEMMA TablesTyped == TablesInv => TableTypes
<1> SUFFICES ASSUME TablesInv PROVE TableTypes
  OBVIOUS
<1>1. ASSUME part = "workspaces" PROVE Tree!TypeOKWorkspaces
  BY <1>1, P!WorkTyped, TreeTypeOKWorkspaces DEF TablesInv
<1>2. ASSUME part = "reset" PROVE Reset!TypeOKReset
  BY <1>2, ResetTypeOKReset DEF TablesInv, P!ResetInv
<1>3. ASSUME part = "design" PROVE Design!TypeOKDesign
  BY <1>3, DesignFits, P!DesignSafe, DesignTypeOKDesign DEF TablesInv
<1>4. ASSUME part = "views" PROVE Views!TypeOKViews
  BY <1>4, ViewsFit, P!ViewsTyped, ViewsTypeOKViews DEF TablesInv
<1>5. ASSUME part = "boards" PROVE Cards!TypeOKBoards
  BY <1>5, CardsFit, P!BoardsTyped, CardsTypeOKBoards DEF TablesInv
<1>6. ASSUME part = "skills" PROVE Skills!TypeOKSkills
  BY <1>6, P!SkillsTyped, SkillsTypeOKSkills DEF TablesInv
<1>7. ASSUME part = "trees" PROVE Trees!TypeOKTrees
  BY <1>7, TreesFit, P!TreesSafe, TreesTypeOKTrees DEF TablesInv
<1> QED
  BY <1>1, <1>2, <1>3, <1>4, <1>5, <1>6, <1>7 DEF TableTypes

LEMMA TablesSafe == TablesInv => DesignsStayWhole
<1> SUFFICES ASSUME TablesInv PROVE DesignsStayWhole
  OBVIOUS
<1>1. ASSUME part = "workspaces" PROVE Tree!TablesAreWhole
  BY <1>1, P!WorkSafe, TreeTablesAreWhole DEF TablesInv
<1>2. ASSUME part = "design" PROVE Design!FormulaErrorsExact /\ Design!QuietEditsKeepDesign
  <2>1. P!FormulaErrorsExact /\ P!QuietEditsKeepDesign
    BY <1>2, DesignFits, P!ErrorsSafe, P!DesignSafe DEF TablesInv
  <2> QED
    BY <2>1, DesignFormulaErrorsExact, DesignQuietEditsKeepDesign
<1>3. ASSUME part = "views" PROVE Views!ViewsStayUsable
  BY <1>3, P!ViewSafe, ViewsViewsStayUsable DEF TablesInv
<1>4. ASSUME part = "skills" PROVE Skills!QuietRegistryExact
  BY <1>4, P!SkillSafe, SkillsQuietRegistryExact DEF TablesInv
<1>5. ASSUME part = "trees" PROVE Trees!PlansKeepTheirMeaning /\ Trees!RecordsCarryThePlan
  BY <1>5, TreesFit, P!TreesSafe, TreesPlansKeepTheirMeaning, TreesRecordsCarryThePlan DEF TablesInv
<1> QED
  BY <1>1, <1>2, <1>3, <1>4, <1>5 DEF DesignsStayWhole

(* The components keep their types, in the composition that the run explores *)
(* and for any number of its steps.                                          *)
THEOREM TablesKeepTheirTypes == Spec => []TableTypes
<1>1. TablesInv /\ [Next]_vars => TablesInv'
  BY TablesStep
<1> QED
  BY TablesInit, <1>1, TablesTyped, PTL DEF Spec

(* What people design stays whole: the tree and what it holds, formulas,     *)
(* views, skills and planned trees, in the composition that the run explores *)
(* (workspace/db_ops.py, smart_table_store/db_backend.py, formula_engine.py, *)
(* skill_registry.py, task_planning.py).                                     *)
THEOREM DesignsAlwaysStayWhole == Spec => []DesignsStayWhole
<1>1. TablesInv /\ [Next]_vars => TablesInv'
  BY TablesStep
<1> QED
  BY TablesInit, <1>1, TablesSafe, PTL DEF Spec

(* Changes land where they were asked for and nowhere else: cards, passwords,*)
(* registrations and merged plans, in the composition that the run explores  *)
(* (board.py, auth.py, skill_registry.py, task_planning.py).                 *)
THEOREM ChangesAlwaysLand == Spec => ChangesLandWhereAsked
<1> DEFINE Lands == /\ part = "boards" => Cards!MovesLandInPlaceStep
                    /\ part = "reset" => Reset!OldLinksAreDeadStep
                    /\ part = "skills" => Skills!OthersUntouchedStep
                    /\ part = "trees" => Trees!MergeOnlyFillsStep
<1>1. TablesInv /\ [Next]_vars => TablesInv'
  BY TablesStep
<1>2. TablesInv /\ Next => Lands
  <2> SUFFICES ASSUME TablesInv, Next PROVE Lands
    OBVIOUS
  <2>1. ASSUME part = "boards" PROVE Cards!MovesLandInPlaceStep
    BY <2>1, CardsFit, OneComponentSteps, P!MoveLands, CardsMovesLandInPlaceStep DEF TablesInv
  <2>2. ASSUME part = "reset" PROVE Reset!OldLinksAreDeadStep
    BY <2>2, ResetFits, OneComponentSteps, P!ResetStep, ResetOldLinksAreDeadStep DEF TablesInv
  <2>3. ASSUME part = "skills" PROVE Skills!OthersUntouchedStep
    BY <2>3, SkillsFit, OneComponentSteps, P!OthersStep, SkillsOthersUntouchedStep DEF TablesInv
  <2>4. ASSUME part = "trees" PROVE Trees!MergeOnlyFillsStep
    <3>1. P!NextTrees
      BY <2>4, TreesSteps DEF Next
    <3> QED
      BY <2>4, <3>1, TreesFit, P!TreesStep, TreesMergeOnlyFillsStep DEF TablesInv
  <2> QED
    BY <2>1, <2>2, <2>3, <2>4
<1>3. ChangesLandWhereAsked <=> [][Lands]_vars
  BY DEF ChangesLandWhereAsked
<1> HIDE DEF Lands
<1>4. TablesInv /\ [Next]_vars => [Lands]_vars
  BY <1>2
<1> QED
  BY TablesInit, <1>1, <1>3, <1>4, PTL DEF Spec
=============================================================================
