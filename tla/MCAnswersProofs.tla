--------------------------- MODULE MCAnswersProofs --------------------------
(***************************************************************************)
(* Properties of the run MCAnswers, proved from those of its components.    *)
(* AnswerProofs is about each component for all values of its constants;    *)
(* here it is instantiated with the values of the run. The lemmas before    *)
(* AnswersInv only match definitions of two instances of a module.          *)
(***************************************************************************)
EXTENDS MCAnswers, FiniteSetTheorems, TLAPS

P == INSTANCE AnswerProofs WITH
    Chats <- RuntimeChats, ToolPlans <- RunPlans, StepRetries <- 1,
    MaxAnswers <- 3, machine <- s1, chat <- s2, toolPlan <- s3,
    confirms <- s4, waiting <- s5, timers <- s6, verdicts <- s7, saved <- s8,
    answers <- s9,
    Rows <- DashRows, CreatedBy <- DashCreatedBy, Users <- DashUsers,
    Nobody <- 0, Configs <- DashConfigs, Bad <- 9, Values <- DashValues,
    Ttl <- 1, MaxNow <- 3, MaxWrites <- 1, data <- s1, policy <- s2,
    perm <- s3, widget <- s4, public <- s5, publisher <- s6, publishing <- s7,
    redisUp <- s8, client <- s9, avoid <- s10, remote <- s11, local <- s12,
    now <- s13, writes <- s14, req <- s15, pending <- s16, lately <- s17,
    disturbed <- s18,
    Convs <- ChatsConvs, Asks <- ChatsAsks, Skills <- ChatsSkills,
    Gated <- ChatsGated, Denied <- ChatsDenied, Models <- ChatsModels,
    MaxDuplicates <- 2, ToolLimit <- 2, Width <- 2, MaxTurns <- 2,
    convs <- s1, msgs <- s2, config <- s3, asks <- s4, traces <- s5,
    effects <- s6, deleting <- s7, wiped <- s8,
    NRecs <- 3, Due <- StewardDue, Effort <- StewardEffort,
    Suggested <- StewardSuggested, Limit <- 3, NFocus <- 2,
    Links <- StewardLinks, MaxEdits <- 1, rec <- s1, seen <- s2, edits <- s3,
    reading <- s4, diag <- s5, shown <- s6, plan <- s7, torn <- s8,
    NTasks <- 3, Preds <- ForecastPreds, Answers <- ForecastAnswers,
    Attempts <- 1, Teams <- ForecastTeams, Days <- ForecastDays, needs <- s1,
    parallel <- s2, est <- s3, tried <- s4, hours <- s5, phase <- s6,
    unmet <- s7, order <- s8, longest <- s9, before <- s10, path <- s11,
    MTasks <- 2, People <- MembersPeople, Gone <- 9, NoMember <- 0,
    Hours <- MembersHours, Fit <- MembersFit, Urgent <- MembersUrgent,
    Capacities <- MembersCapacities, MaxChanges <- 1, owners <- s1,
    done <- s2, able <- s3, ask <- s4, todo <- s5, load <- s6, pick <- s7,
    room <- s8, base <- s9, stage <- s10, changes <- s11

-----------------------------------------------------------------------------
LEMMA RuntimeStarts == Runtime!InitRuntime => P!InitRuntime
  BY DEF Runtime!NoPlan, P!NoPlan, Runtime!InitRuntime, P!InitRuntime

LEMMA RuntimeSteps == Runtime!NextRuntime => P!NextRuntime
  BY DEF Runtime!Over, P!Over, Runtime!Arcs, P!Arcs, Runtime!Can, P!Can, Runtime!After, P!After,
     Runtime!ConfirmsUnchanged, P!ConfirmsUnchanged, Runtime!Failed, P!Failed, Runtime!Start,
     P!Start, Runtime!Batch, P!Batch, Runtime!Ordered, P!Ordered, Runtime!Previews, P!Previews,
     Runtime!NeedsPreview, P!NeedsPreview, Runtime!BeginExecute, P!BeginExecute,
     Runtime!CreateConfirm, P!CreateConfirm, Runtime!PlanArrives, P!PlanArrives, Runtime!PlanFails,
     P!PlanFails, Runtime!AnswerChat, P!AnswerChat, Runtime!ExecuteStep, P!ExecuteStep,
     Runtime!ExecuteBatch, P!ExecuteBatch, Runtime!Resolve, P!Resolve, Runtime!Resume, P!Resume,
     Runtime!Confirm, P!Confirm, Runtime!Timeout, P!Timeout, Runtime!Settled, P!Settled,
     Runtime!NextRuntime, P!NextRuntime, Runtime!Cardinality, P!Cardinality, Runtime!IsFiniteSet,
     P!IsFiniteSet, Runtime!varsRuntime, P!varsRuntime

LEMMA ConfirmsOnce == P!DecidedOnce => Runtime!DecidedOnce
  BY DEF Runtime!DecidedOnce, P!DecidedOnce, Runtime!Cardinality, P!Cardinality,
     Runtime!IsFiniteSet, P!IsFiniteSet

LEMMA RunDrivesAlone == P!OneRunDrives => Runtime!OneRunDrives
  BY DEF Runtime!OneRunDrives, P!OneRunDrives, Runtime!Cardinality, P!Cardinality,
     Runtime!IsFiniteSet, P!IsFiniteSet

LEMMA ChatsStart == Talk!InitChats => P!H!InitChats
  BY DEF Talk!None, P!H!None, Talk!NewAsk, P!H!NewAsk, Talk!InitChats, P!H!InitChats

LEMMA ChatsStep == Talk!NextChats => P!H!NextChats
  BY DEF Talk!None, P!H!None, Talk!Modes, P!H!Modes, Talk!Row, P!H!Row, Talk!To, P!H!To,
     Talk!RouterIdle, P!H!RouterIdle, Talk!EditsIdle, P!H!EditsIdle, Talk!FreeConv, P!H!FreeConv,
     Talk!Create, P!H!Create, Talk!Found, P!H!Found, Talk!CreateConversation,
     P!H!CreateConversation, Talk!Open, P!H!Open, Talk!AcceptsAgent, P!H!AcceptsAgent,
     Talk!OpenAgent, P!H!OpenAgent, Talk!Ask, P!H!Ask, Talk!Candidates, P!H!Candidates, Talk!Route,
     P!H!Route, Talk!Count, P!H!Count, Talk!Admits, P!H!Admits, Talk!BeginTurn, P!H!BeginTurn,
     Talk!StateOf, P!H!StateOf, Talk!EndCall, P!H!EndCall, Talk!StatusOf, P!H!StatusOf,
     Talk!RunEnds, P!H!RunEnds, Talk!FallsBack, P!H!FallsBack, Talk!RunFails, P!H!RunFails,
     Talk!Analyse, P!H!Analyse, Talk!Persists, P!H!Persists, Talk!Finish, P!H!Finish,
     Talk!BeginDelete, P!H!BeginDelete, Talk!CommitDelete, P!H!CommitDelete, Talk!ChangeConfig,
     P!H!ChangeConfig, Talk!Turns, P!H!Turns, Talk!NextChats, P!H!NextChats, Talk!Cardinality,
     P!H!Cardinality, Talk!IsFiniteSet, P!H!IsFiniteSet

LEMMA ExchangesKept == P!H!ExchangesStored => Talk!ExchangesStored
  BY DEF Talk!Row, P!H!Row, Talk!ExchangesStored, P!H!ExchangesStored, Talk!Cardinality,
     P!H!Cardinality, Talk!IsFiniteSet, P!H!IsFiniteSet

LEMMA GatesHold == P!H!GatedCallsWait => Talk!GatedCallsWait
  BY DEF Talk!None, P!H!None, Talk!GatedCallsWait, P!H!GatedCallsWait, Talk!Cardinality,
     P!H!Cardinality, Talk!IsFiniteSet, P!H!IsFiniteSet

LEMMA LimitsHold == P!H!CallsBounded => Talk!CallsBounded
  BY DEF Talk!Count, P!H!Count, Talk!CallsBounded, P!H!CallsBounded, Talk!Cardinality,
     P!H!Cardinality, Talk!IsFiniteSet, P!H!IsFiniteSet

LEMMA StewardStarts == Steward!InitSteward => P!PS!InitSteward
  BY DEF Steward!Recs, P!PS!Recs, Steward!NoRead, P!PS!NoRead, Steward!NoDiag, P!PS!NoDiag,
     Steward!NoDrafts, P!PS!NoDrafts, Steward!Nothing, P!PS!Nothing, Steward!InitSteward,
     P!PS!InitSteward

LEMMA SameLate ==
  ASSUME NEW T
  PROVE  Steward!Late(T) = P!PS!Late(T)
  BY DEF Steward!Undone, P!PS!Undone, Steward!Late, P!PS!Late

LEMMA SameSoon ==
  ASSUME NEW T
  PROVE  Steward!Soon(T) = P!PS!Soon(T)
  BY DEF Steward!Undone, P!PS!Undone, Steward!Soon, P!PS!Soon

LEMMA SameBlocked ==
  ASSUME NEW T
  PROVE  Steward!Blocked(T) = P!PS!Blocked(T)
  BY DEF Steward!Needs, P!PS!Needs, Steward!Undone, P!PS!Undone, Steward!Pending, P!PS!Pending,
     Steward!Blocked, P!PS!Blocked

LEMMA SameUndone ==
  ASSUME NEW T
  PROVE  Steward!Undone(T) = P!PS!Undone(T)
  BY DEF Steward!Undone, P!PS!Undone

LEMMA SameCircular ==
  ASSUME NEW T
  PROVE  Steward!Circular(T) = P!PS!Circular(T)
  BY DEF Steward!Needs, P!PS!Needs, Steward!Free, P!PS!Free, Steward!Order, P!PS!Order,
     Steward!Circular, P!PS!Circular, Steward!Min, P!PS!Min, Steward!ToSet, P!PS!ToSet

LEMMA SamePath ==
  ASSUME NEW T
  PROVE  Steward!Path(T) = P!PS!Path(T)
  BY DEF Steward!Needs, P!PS!Needs, Steward!Free, P!PS!Free, Steward!Order, P!PS!Order,
     Steward!Circular, P!PS!Circular, Steward!Longest, P!PS!Longest, Steward!PathHours,
     P!PS!PathHours, Steward!Path, P!PS!Path, Steward!Min, P!PS!Min, Steward!ToSet, P!PS!ToSet,
     Steward!Max, P!PS!Max

LEMMA SamePoints ==
  ASSUME NEW T, NEW t
  PROVE  Steward!Points(T, t) = P!PS!Points(T, t)
  BY DEF Steward!Needs, P!PS!Needs, Steward!Undone, P!PS!Undone, Steward!Pending, P!PS!Pending,
     Steward!Blocked, P!PS!Blocked, Steward!Late, P!PS!Late, Steward!Soon, P!PS!Soon, Steward!Free,
     P!PS!Free, Steward!Order, P!PS!Order, Steward!Circular, P!PS!Circular, Steward!Longest,
     P!PS!Longest, Steward!PathHours, P!PS!PathHours, Steward!Path, P!PS!Path, Steward!Points,
     P!PS!Points, Steward!Min, P!PS!Min, Steward!ToSet, P!PS!ToSet, Steward!Max, P!PS!Max

LEMMA SameCount == \A A : Steward!Cardinality(A) = P!PS!Cardinality(A)
  BY DEF Steward!Cardinality, P!PS!Cardinality, Steward!IsFiniteSet, P!PS!IsFiniteSet

LEMMA SameFocus ==
  ASSUME NEW T
  PROVE  Steward!Focus(T) = P!PS!Focus(T)
<1>1. Steward!Undone(T) = P!PS!Undone(T) /\ \A t : Steward!Points(T, t) = P!PS!Points(T, t)
  BY SameUndone, SamePoints
<1> DEFINE over(t) == {u \in P!PS!Undone(T) : P!PS!Points(T, u) > P!PS!Points(T, t)
                         \/ (P!PS!Points(T, u) = P!PS!Points(T, t) /\ u < t)}
<1>2. ASSUME NEW t
      PROVE  over(t) = {u \in Steward!Undone(T) : Steward!Points(T, u) > Steward!Points(T, t)
                          \/ (Steward!Points(T, u) = Steward!Points(T, t) /\ u < t)}
  BY <1>1
<1>3. P!PS!Focus(T) = {t \in P!PS!Undone(T) : P!PS!Cardinality(over(t)) < 2}
  BY DEF P!PS!Focus
<1>4. Steward!Focus(T) = {t \in Steward!Undone(T) : Steward!Cardinality(over(t)) < 2}
  BY <1>2 DEF Steward!Focus
<1> HIDE DEF over
<1> QED
  BY <1>1, <1>3, <1>4, SameCount

(* The diagnosis of both is the same function of the tasks. *)
LEMMA SameDiagnosis ==
  ASSUME NEW T
  PROVE  Steward!Diagnose(T) = P!PS!Diagnose(T)
  BY SameLate, SameSoon, SameBlocked, SameUndone, SameCircular, SamePath, SameFocus
     DEF Steward!Diagnose, P!PS!Diagnose

LEMMA SameBeginRead ==
  ASSUME NEW what
  PROVE  Steward!BeginRead(what) => P!PS!BeginRead(what)
  BY DEF Steward!NoRead, P!PS!NoRead, Steward!NoDiag, P!PS!NoDiag, Steward!NoDrafts, P!PS!NoDrafts,
     Steward!Nothing, P!PS!Nothing, Steward!FirstOf, P!PS!FirstOf, Steward!Scope, P!PS!Scope,
     Steward!BeginRead, P!PS!BeginRead, Steward!Cardinality, P!PS!Cardinality, Steward!IsFiniteSet,
     P!PS!IsFiniteSet

LEMMA SameEndLook == Steward!EndLook => P!PS!EndLook
  BY DEF Steward!NoRead, P!PS!NoRead, Steward!Stale, P!PS!Stale, Steward!Fingerprint,
     P!PS!Fingerprint, Steward!Fresh, P!PS!Fresh, Steward!EndLook, P!PS!EndLook

LEMMA SameRefuse == Steward!Refuse => P!PS!Refuse
  BY DEF Steward!NoRead, P!PS!NoRead, Steward!Fingerprint, P!PS!Fingerprint, Steward!Fresh,
     P!PS!Fresh, Steward!Refuse, P!PS!Refuse

LEMMA SameEdit ==
  ASSUME NEW t, NEW status, NEW deps, NEW owned
  PROVE  Steward!Edit(t, status, deps, owned) => P!PS!Edit(t, status, deps, owned)
  BY DEF Steward!NoDrafts, P!PS!NoDrafts, Steward!Edit, P!PS!Edit

LEMMA SameChangeScope ==
  ASSUME NEW R
  PROVE  Steward!ChangeScope(R) => P!PS!ChangeScope(R)
  BY DEF Steward!NoDrafts, P!PS!NoDrafts, Steward!ChangeScope, P!PS!ChangeScope

LEMMA SameNormalized ==
  ASSUME NEW T, NEW ds
  PROVE  Steward!Normalized(T, ds) = P!PS!Normalized(T, ds)
  BY DEF Steward!Recs, P!PS!Recs, Steward!Reaches, P!PS!Reaches, Steward!DependencyCycle,
     P!PS!DependencyCycle, Steward!Cell, P!PS!Cell, Steward!TargetsVisible, P!PS!TargetsVisible,
     Steward!Valid, P!PS!Valid, Steward!CellTaken, P!PS!CellTaken, Steward!Admitted, P!PS!Admitted,
     Steward!Normalized, P!PS!Normalized, Steward!Cardinality, P!PS!Cardinality,
     Steward!IsFiniteSet, P!PS!IsFiniteSet, Steward!Max, P!PS!Max, Steward!Min, P!PS!Min,
     Steward!SetToSortSeq, P!PS!SetToSortSeq, Steward!SetToSeq, P!PS!SetToSeq, Steward!FoldLeft,
     P!PS!FoldLeft, Steward!MapThenFoldSet, P!PS!MapThenFoldSet, Steward!IsInjective,
     P!PS!IsInjective, Steward!ToSet, P!PS!ToSet

LEMMA SameFallbackDrafts == Steward!FallbackDrafts = P!PS!FallbackDrafts
  BY DEF Steward!Evidence, P!PS!Evidence, Steward!Draft, P!PS!Draft, Steward!FallbackDrafts,
     P!PS!FallbackDrafts, Steward!Cardinality, P!PS!Cardinality, Steward!IsFiniteSet,
     P!PS!IsFiniteSet, Steward!Max, P!PS!Max, Steward!Min, P!PS!Min, Steward!SetToSortSeq,
     P!PS!SetToSortSeq, Steward!SetToSeq, P!PS!SetToSeq, Steward!FoldLeft, P!PS!FoldLeft,
     Steward!MapThenFoldSet, P!PS!MapThenFoldSet, Steward!IsInjective, P!PS!IsInjective,
     Steward!ToSet, P!PS!ToSet

LEMMA SameEndAsk == Steward!EndAsk => P!PS!EndAsk
  BY SameDiagnosis DEF Steward!EndAsk, P!PS!EndAsk, Steward!Fingerprint, P!PS!Fingerprint,
     Steward!NoRead, P!PS!NoRead

LEMMA SameScope == Steward!Scope = P!PS!Scope /\ (Steward!Fresh <=> P!PS!Fresh)
  BY DEF Steward!Scope, P!PS!Scope, Steward!FirstOf, P!PS!FirstOf, Steward!Cardinality, P!PS!Cardinality,
     Steward!IsFiniteSet, P!PS!IsFiniteSet, Steward!Fresh, P!PS!Fresh, Steward!Fingerprint, P!PS!Fingerprint

LEMMA SamePlan ==
  ASSUME NEW T, NEW ds
  PROVE  Steward!StoredPlan(T, ds) = P!PS!StoredPlan(T, ds)
  BY SameNormalized DEF Steward!StoredPlan, P!PS!StoredPlan

LEMMA SameEnds == Steward!NoRead = P!PS!NoRead /\ Steward!NoDrafts = P!PS!NoDrafts
  BY DEF Steward!NoRead, P!PS!NoRead, Steward!NoDrafts, P!PS!NoDrafts

LEMMA SameGenerate ==
  ASSUME NEW ds
  PROVE  Steward!Generate(ds) => P!PS!Generate(ds)
  BY SameEnds, SameScope, SamePlan, SameFallbackDrafts DEF Steward!Generate, P!PS!Generate

LEMMA SamePropose ==
  ASSUME NEW ds
  PROVE  Steward!Propose(ds) => P!PS!Propose(ds)
  BY SameEnds, SameScope, SamePlan DEF Steward!Propose, P!PS!Propose

LEMMA StewardSteps == Steward!NextSteward => P!PS!NextSteward
<1>1. Steward!Recs = P!PS!Recs /\ Steward!Lists = P!PS!Lists
  BY DEF Steward!Recs, P!PS!Recs, Steward!Lists, P!PS!Lists, Steward!DraftsOf, P!PS!DraftsOf,
     Steward!Draft, P!PS!Draft
<1> QED
  BY <1>1, SameBeginRead, SameEndAsk, SameEndLook, SameRefuse, SameGenerate, SamePropose, SameEdit,
     SameChangeScope
     DEF Steward!NextSteward, P!PS!NextSteward

LEMMA FreshStays == P!PS!FreshDiagnosesHoldStep => Steward!FreshDiagnosesHoldStep
  BY SameDiagnosis DEF Steward!FreshDiagnosesHoldStep, P!PS!FreshDiagnosesHoldStep

LEMMA ForecastStarts == Forecast!InitForecast => P!F!InitForecast
  BY DEF Forecast!InitForecast, P!F!InitForecast, Forecast!Selected, P!F!Selected

LEMMA ForecastSteps == Forecast!NextForecast => P!F!NextForecast
  BY DEF Forecast!NextForecast, P!F!NextForecast, Forecast!Ended, P!F!Ended, Forecast!varsForecast,
     P!F!varsForecast, Forecast!MayEstimate, P!F!MayEstimate, Forecast!Selected, P!F!Selected,
     Forecast!StoreBatch, P!F!StoreBatch, Forecast!TracePath, P!F!TracePath, Forecast!LastOf,
     P!F!LastOf, Forecast!Measured, P!F!Measured, Forecast!Measure, P!F!Measure, Forecast!Best,
     P!F!Best, Forecast!NeededBy, P!F!NeededBy, Forecast!OrderFound, P!F!OrderFound, Forecast!Ready,
     P!F!Ready, Forecast!Ordered, P!F!Ordered, Forecast!CycleFound, P!F!CycleFound, Forecast!Cancelled,
     P!F!Cancelled, Forecast!Pop, P!F!Pop, Forecast!Released, P!F!Released, Forecast!Min, P!F!Min,
     Forecast!Collect, P!F!Collect, Forecast!Cardinality, P!F!Cardinality, Forecast!IsFiniteSet,
     P!F!IsFiniteSet, Forecast!Estimate, P!F!Estimate, Forecast!AlgorithmIdle, P!F!AlgorithmIdle,
     Forecast!Normalized, P!F!Normalized, Forecast!Max, P!F!Max, Forecast!Persisted, P!F!Persisted,
     Forecast!Valid, P!F!Valid, Forecast!EstimateFails, P!F!EstimateFails

LEMMA ExactPath == P!F!CriticalPathExact => Forecast!CriticalPathExact
  BY DEF Forecast!CriticalPathExact, P!F!CriticalPathExact, Forecast!Cyclic, P!F!Cyclic,
     Forecast!NeededBy, P!F!NeededBy, Forecast!Selected, P!F!Selected, Forecast!Critical, P!F!Critical,
     Forecast!LastOf, P!F!LastOf, Forecast!LengthOf, P!F!LengthOf, Forecast!MapThenSumSet,
     P!F!MapThenSumSet, Forecast!MapThenFoldSet, P!F!MapThenFoldSet, Forecast!Chains, P!F!Chains,
     Forecast!Simple, P!F!Simple, Forecast!Cardinality, P!F!Cardinality, Forecast!IsFiniteSet,
     P!F!IsFiniteSet, Forecast!Max, P!F!Max

LEMMA SameCalendar == \A k, m, n : Forecast!Calendar(k, m, n) = P!F!Calendar(k, m, n)
  BY DEF Forecast!Calendar, P!F!Calendar, Forecast!Streams, P!F!Streams, Forecast!LeastOf, P!F!LeastOf,
     Forecast!Min, P!F!Min, Forecast!Max, P!F!Max, Forecast!Capacity, P!F!Capacity, Forecast!Total,
     P!F!Total, Forecast!Selected, P!F!Selected, Forecast!MapThenSumSet, P!F!MapThenSumSet,
     Forecast!MapThenFoldSet, P!F!MapThenFoldSet, Forecast!Rounded, P!F!Rounded, Forecast!Critical,
     P!F!Critical, Forecast!LastOf, P!F!LastOf

LEMMA SameStreams == \A m, n : Forecast!WhatIfStreams(m, n) = P!F!WhatIfStreams(m, n)
  BY DEF Forecast!WhatIfStreams, P!F!WhatIfStreams, Forecast!LeastOf, P!F!LeastOf, Forecast!Min,
     P!F!Min, Forecast!Max, P!F!Max

LEMMA SameDays == \A n : Forecast!InDays(n) = P!F!InDays(n)
  BY DEF Forecast!InDays, P!F!InDays, Forecast!Rounded, P!F!Rounded

LEMMA SameRisk == \A d, m, n : Forecast!Risk(d, m, n) = P!F!Risk(d, m, n)
  BY SameCalendar, SameDays DEF Forecast!Risk, P!F!Risk

LEMMA ConsistentScenarios == P!F!ScenariosConsistent => Forecast!ScenariosConsistent
  BY SameCalendar, SameStreams, SameRisk DEF Forecast!ScenariosConsistent, P!F!ScenariosConsistent

LEMMA SettledEstimates == P!F!EstimatesSettledTogether => Forecast!EstimatesSettledTogether
  BY DEF Forecast!EstimatesSettledTogether, P!F!EstimatesSettledTogether, Forecast!Selected,
     P!F!Selected

LEMMA MembersStart == Members!InitMembers => P!M!InitMembers
  BY DEF Members!InitMembers, P!M!InitMembers, Members!AllTasks, P!M!AllTasks, Members!NoRequest,
     P!M!NoRequest

LEMMA MemberPreview == \A r : Members!Preview(r) => P!M!Preview(r)
  BY DEF Members!Preview, P!M!Preview, Members!StartPlanning, P!M!StartPlanning, Members!AllTasks,
     P!M!AllTasks, Members!CurrentLoad, P!M!CurrentLoad, Members!HoursOf, P!M!HoursOf,
     Members!MapThenSumSet, P!M!MapThenSumSet, Members!MapThenFoldSet, P!M!MapThenFoldSet,
     Members!Acceptable, P!M!Acceptable

LEMMA MemberWhatIf == \A u, c : Members!WhatIf(u, c) => P!M!WhatIf(u, c)
  BY DEF Members!WhatIf, P!M!WhatIf, Members!StartPlanning, P!M!StartPlanning, Members!AllTasks,
     P!M!AllTasks, Members!CurrentLoad, P!M!CurrentLoad, Members!HoursOf, P!M!HoursOf,
     Members!MapThenSumSet, P!M!MapThenSumSet, Members!MapThenFoldSet, P!M!MapThenFoldSet,
     Members!Acceptable, P!M!Acceptable

LEMMA MemberRefuse == Members!Refuse => P!M!Refuse
  BY DEF Members!Refuse, P!M!Refuse, Members!Settle, P!M!Settle, Members!AllTasks, P!M!AllTasks,
     Members!Current, P!M!Current, Members!Min, P!M!Min, Members!Locked, P!M!Locked, Members!Kept,
     P!M!Kept, Members!Planning, P!M!Planning

LEMMA MemberSkipDone == Members!SkipDone => P!M!SkipDone
  BY DEF Members!SkipDone, P!M!SkipDone, Members!Continue, P!M!Continue, Members!Current, P!M!Current,
     Members!Min, P!M!Min, Members!MayPlan, P!M!MayPlan, Members!Locked, P!M!Locked, Members!Kept,
     P!M!Kept, Members!Planning, P!M!Planning

LEMMA MemberKeepAssignee == Members!KeepAssignee => P!M!KeepAssignee
  BY DEF Members!KeepAssignee, P!M!KeepAssignee, Members!Continue, P!M!Continue, Members!Current,
     P!M!Current, Members!Min, P!M!Min, Members!Kept, P!M!Kept, Members!MayPlan, P!M!MayPlan,
     Members!Locked, P!M!Locked, Members!Planning, P!M!Planning

LEMMA MemberApplyLock == Members!ApplyLock => P!M!ApplyLock
  BY DEF Members!ApplyLock, P!M!ApplyLock, Members!Continue, P!M!Continue, Members!Current, P!M!Current,
     Members!Min, P!M!Min, Members!Released, P!M!Released, Members!Max, P!M!Max, Members!Locked,
     P!M!Locked, Members!Assign, P!M!Assign, Members!Kept, P!M!Kept, Members!MayPlan, P!M!MayPlan,
     Members!Planning, P!M!Planning

LEMMA SameReleased == \A t : Members!Released(t) = P!M!Released(t)
  BY DEF Members!Released, P!M!Released, Members!Max, P!M!Max

LEMMA SameAssign == \A t, u, l : Members!Assign(t, u, l) <=> P!M!Assign(t, u, l)
  BY DEF Members!Assign, P!M!Assign

LEMMA SameContinue == (Members!Continue <=> P!M!Continue) /\ Members!Current = P!M!Current
  BY DEF Members!Continue, P!M!Continue, Members!Current, P!M!Current, Members!Min, P!M!Min

LEMMA SameMayPlan == Members!MayPlan <=> P!M!MayPlan
  BY DEF Members!MayPlan, P!M!MayPlan, Members!Current, P!M!Current, Members!Min, P!M!Min,
     Members!Locked, P!M!Locked, Members!Kept, P!M!Kept, Members!Planning, P!M!Planning

(* The member that scores best, in both. *)
Top(t, l) == CHOOSE u \in s3 : \A w \in s3 \ {u} : Members!Better(t, l, u, w)
TopOfTheorem(t, l) == CHOOSE u \in s3 : \A w \in s3 \ {u} : P!M!Better(t, l, u, w)

LEMMA SameTop == \A t, l : Top(t, l) = TopOfTheorem(t, l)
  BY DEF Top, TopOfTheorem, Members!Better, P!M!Better, Members!Score, P!M!Score, Members!Min, P!M!Min,
     Members!Max, P!M!Max

LEMMA MemberRecommend == Members!Recommend => P!M!Recommend
<1> SUFFICES ASSUME Members!Recommend PROVE P!M!Recommend
  OBVIOUS
<1> DEFINE t == Members!Current
           l == Members!Released(t)
           x == Top(t, l)
<1>1. /\ Members!MayPlan /\ t \notin s2 /\ ~ Members!Kept(t) /\ Members!Locked(t) = 0
      /\ Members!Assign(t, x, l) /\ Members!Continue
  BY DEF Members!Recommend, Top
<1>2. t = P!M!Current /\ l = P!M!Released(t)
  BY SameContinue, SameReleased
<1>3. x = TopOfTheorem(t, l)
  BY SameTop
<1> HIDE DEF t, l, x
<1>4. /\ P!M!MayPlan /\ t \notin s2 /\ ~ P!M!Kept(t) /\ P!M!Locked(t) = 0
      /\ P!M!Assign(t, x, l) /\ P!M!Continue
  BY <1>1, SameMayPlan, SameAssign, SameContinue
     DEF Members!Kept, P!M!Kept, Members!Locked, P!M!Locked
<1> QED
  BY <1>2, <1>3, <1>4 DEF P!M!Recommend, TopOfTheorem

LEMMA MemberPlanned == Members!Planned => P!M!Planned
  BY DEF Members!Planned, P!M!Planned, Members!Settle, P!M!Settle, Members!AllTasks, P!M!AllTasks

LEMMA MemberCompared == Members!Compared => P!M!Compared
  BY DEF Members!Compared, P!M!Compared, Members!Settle, P!M!Settle, Members!AllTasks, P!M!AllTasks

LEMMA MemberReassigned == Members!Reassigned => P!M!Reassigned
  BY DEF Members!Reassigned, P!M!Reassigned, Members!Others, P!M!Others, Members!AllTasks, P!M!AllTasks

LEMMA MemberFinished == Members!Finished => P!M!Finished
  BY DEF Members!Finished, P!M!Finished, Members!Others, P!M!Others, Members!AllTasks, P!M!AllTasks

LEMMA MemberLeft == Members!Left => P!M!Left
  BY DEF Members!Left, P!M!Left, Members!Others, P!M!Others

LEMMA SameRequests == Members!Requests = P!M!Requests
  BY DEF Members!Requests, P!M!Requests, Members!Min, P!M!Min, Members!AllTasks, P!M!AllTasks

LEMMA MembersSteps == Members!NextMembers => P!M!NextMembers
  BY SameRequests, MemberPreview, MemberWhatIf, MemberRefuse, MemberSkipDone, MemberKeepAssignee,
     MemberApplyLock, MemberRecommend, MemberPlanned, MemberCompared, MemberReassigned,
     MemberFinished, MemberLeft DEF Members!NextMembers, P!M!NextMembers

LEMMA SameLoads == P!M!LoadsAddUp => Members!LoadsAddUp
  BY DEF Members!LoadsAddUp, P!M!LoadsAddUp, Members!After, P!M!After, Members!AllTasks, P!M!AllTasks,
     Members!HoursOf, P!M!HoursOf, Members!MapThenSumSet, P!M!MapThenSumSet, Members!MapThenFoldSet,
     P!M!MapThenFoldSet

LEMMA SameChoices == P!M!ManualChoicesKept => Members!ManualChoicesKept
  BY DEF Members!ManualChoicesKept, P!M!ManualChoicesKept, Members!AllTasks, P!M!AllTasks

LEMMA SameOrderOfMembers == P!M!LighterFirst => Members!LighterFirst
  BY DEF Members!LighterFirst, P!M!LighterFirst, Members!AllTasks, P!M!AllTasks

LEMMA SameChains == \A T : Steward!ChainsOf(T) = P!PS!ChainsOf(T)
  BY DEF Steward!ChainsOf, P!PS!ChainsOf, Steward!Cardinality, P!PS!Cardinality, Steward!IsFiniteSet,
     P!PS!IsFiniteSet

LEMMA SameHours == \A s : Steward!HoursIn(s) = P!PS!HoursIn(s)
  BY DEF Steward!HoursIn, P!PS!HoursIn, Steward!Max, P!PS!Max

LEMMA SameConclusions == P!PS!ConclusionsRight => Steward!ConclusionsRight
  BY SameDiagnosis, SameChains, SameHours DEF Steward!ConclusionsRight, P!PS!ConclusionsRight

-----------------------------------------------------------------------------
(* The values of the run are ones the theorems are about.                    *)
LEMMA CallsFit == P!CallsAreCounted
BY DEF P!CallsAreCounted, P!H!None, ChatsConvs, ChatsSkills

LEMMA TasksFit == P!TasksAreGiven /\ P!ScenariosAreGiven
BY DEF P!TasksAreGiven, P!ScenariosAreGiven, ForecastAnswers, ForecastTeams, ForecastDays

LEMMA MembersFitIn == P!MembersAreGiven
<1>1. IsFiniteSet({1, 2})
  <2>1. IsFiniteSet({1} \cup {2}) /\ {1, 2} = {1} \cup {2}
    BY FS_Singleton, FS_AddElement
  <2> QED
    BY <2>1
<1>2. P!IsFiniteSet({1, 2})
  BY <1>1 DEF IsFiniteSet, P!IsFiniteSet
<1>3. MembersHours \in [1..2 -> Nat] /\ MembersFit \in [1..2 -> [MembersPeople -> Int]]
  BY DEF MembersHours, MembersFit, MembersPeople
<1> QED
  BY <1>2, <1>3 DEF P!MembersAreGiven, P!M!AllTasks, MembersPeople, MembersCapacities

LEMMA StewardFits == P!StewardIsGiven
<1>1. StewardEffort \in [1..3 -> Int]
  BY DEF StewardEffort
<1> QED
  BY <1>1 DEF P!StewardIsGiven, P!PS!Recs

(* The component that steps keeps its invariant; of the others nothing is    *)
(* needed.                                                                  *)
AnswersInv ==
    /\ part = "runtime" => P!RuntimeInv
    /\ part = "chats" => P!ChatInv
    /\ part = "steward" => P!StewardInv /\ P!ReadInv
    /\ part = "forecast" => P!ForecastInv
    /\ part = "members" => P!MembersInv

LEMMA AnswersInit == Init => AnswersInv
<1> SUFFICES ASSUME Init PROVE AnswersInv
  OBVIOUS
<1>1. ASSUME part = "runtime" PROVE P!RuntimeInv
  <2>1. Runtime!InitRuntime
    BY <1>1 DEF Init
  <2> QED
    BY <2>1, RuntimeStarts, P!RuntimeInit
<1>2. ASSUME part = "chats" PROVE P!ChatInv
  <2>1. Talk!InitChats
    BY <1>2 DEF Init
  <2> QED
    BY <2>1, CallsFit, ChatsStart, P!ChatInit
<1>3. ASSUME part = "steward" PROVE P!StewardInv /\ P!ReadInv
  <2>1. Steward!InitSteward
    BY <1>3 DEF Init
  <2>2. P!ReadInv
    BY <2>1 DEF P!ReadInv, Steward!InitSteward, Steward!NoRead
  <2> QED
    BY <2>1, <2>2, StewardStarts, P!StewardInit
<1>4. ASSUME part = "forecast" PROVE P!ForecastInv
  <2>1. Forecast!InitForecast
    BY <1>4 DEF Init
  <2> QED
    BY <2>1, TasksFit, ForecastStarts, P!ForecastInit
<1>5. ASSUME part = "members" PROVE P!MembersInv
  <2>1. Members!InitMembers
    BY <1>5 DEF Init
  <2> QED
    BY <2>1, MembersFitIn, MembersStart, P!MembersInit
<1> QED
  BY <1>1, <1>2, <1>3, <1>4, <1>5 DEF AnswersInv

(* A step is one of the component, or leaves its variables alone. *)
LEMMA OneComponentSteps ==
  ASSUME [Next]_vars
  PROVE  /\ part' = part
         /\ part = "runtime" => [P!NextRuntime]_(P!varsRuntime)
         /\ part = "chats" => [P!H!NextChats]_(P!H!varsChats)
         /\ part = "steward" => [P!PS!NextSteward]_(P!PS!varsSteward)
         /\ part = "forecast" => [P!F!NextForecast]_(P!F!varsForecast)
         /\ part = "members" => [P!M!NextMembers]_(P!M!varsMembers)
<1>1. CASE Next
  <2>1. part' = part
    BY <1>1 DEF Next
  <2>2. /\ part = "runtime" => Runtime!NextRuntime
        /\ part = "chats" => Talk!NextChats
        /\ part = "steward" => Steward!NextSteward
        /\ part = "forecast" => Forecast!NextForecast
        /\ part = "members" => Members!NextMembers
    BY <1>1 DEF Next
  <2> QED
    BY <2>1, <2>2, RuntimeSteps, ChatsStep, StewardSteps, ForecastSteps, MembersSteps
<1>2. CASE UNCHANGED vars
  BY <1>2 DEF vars, P!varsRuntime, P!H!varsChats, P!PS!varsSteward, P!F!varsForecast, P!M!varsMembers
<1> QED
  BY <1>1, <1>2

LEMMA AnswersStep ==
  ASSUME AnswersInv, [Next]_vars
  PROVE  AnswersInv' /\ (part = "steward" => Steward!FreshDiagnosesHoldStep)
<1>1. part' = part
  BY OneComponentSteps
<1>2. ASSUME part = "runtime" PROVE P!RuntimeInv'
  BY <1>2, OneComponentSteps, P!RuntimeStep DEF AnswersInv
<1>3. ASSUME part = "chats" PROVE P!ChatInv'
  BY <1>3, CallsFit, OneComponentSteps, P!ChatStep DEF AnswersInv
<1>4. ASSUME part = "steward" PROVE P!StewardInv' /\ P!ReadInv' /\ Steward!FreshDiagnosesHoldStep
  <2>1. P!StewardInv /\ P!ReadInv /\ [P!PS!NextSteward]_(P!PS!varsSteward)
    BY <1>4, OneComponentSteps DEF AnswersInv
  <2> QED
    BY <2>1, StewardFits, P!StewardStep, P!ReadStep, FreshStays
<1>5. ASSUME part = "forecast" PROVE P!ForecastInv'
  BY <1>5, TasksFit, OneComponentSteps, P!ForecastStep DEF AnswersInv
<1>6. ASSUME part = "members" PROVE P!MembersInv'
  BY <1>6, MembersFitIn, OneComponentSteps, P!MembersStep DEF AnswersInv
<1> QED
  BY <1>1, <1>2, <1>3, <1>4, <1>5, <1>6 DEF AnswersInv

LEMMA AnswersSafe == AnswersInv => ConfirmationsHold
<1> SUFFICES ASSUME AnswersInv PROVE ConfirmationsHold
  OBVIOUS
<1>1. ASSUME part = "runtime" PROVE Runtime!DecidedOnce /\ Runtime!OneRunDrives
  BY <1>1, P!RuntimeSafe, ConfirmsOnce, RunDrivesAlone DEF AnswersInv
<1>2. ASSUME part = "chats" PROVE Talk!ExchangesStored /\ Talk!GatedCallsWait /\ Talk!CallsBounded
  BY <1>2, CallsFit, P!ChatSafe, ExchangesKept, GatesHold, LimitsHold DEF AnswersInv
<1> QED
  BY <1>1, <1>2 DEF ConfirmationsHold

(* Nothing that needs a confirmation happens without one, in the             *)
(* composition that the run explores: confirmations of the runtime are       *)
(* decided once, by one run, and gated tool calls of a chat wait.            *)
THEOREM ConfirmationsAlwaysHold == Spec => []ConfirmationsHold
<1>1. Init => AnswersInv
  BY AnswersInit
<1>2. AnswersInv /\ [Next]_vars => AnswersInv'
  BY AnswersStep
<1>3. AnswersInv => ConfirmationsHold
  BY AnswersSafe
<1> QED
  BY <1>1, <1>2, <1>3, PTL DEF Spec

(* A look that calls the steward's diagnosis fresh shows what the tasks it   *)
(* has read would give again, in the composition that the run explores.      *)
THEOREM FreshAnswersAreRight == Spec => FreshDiagnosesHold
<1> DEFINE Right == part = "steward" => Steward!FreshDiagnosesHoldStep
<1>1. Init => AnswersInv
  BY AnswersInit
<1>2. AnswersInv /\ [Next]_vars => AnswersInv' /\ [Right]_vars
  BY AnswersStep
<1>3. FreshDiagnosesHold <=> [][Right]_vars
  BY DEF FreshDiagnosesHold
<1> HIDE DEF Right
<1> QED
  BY <1>1, <1>2, <1>3, PTL DEF Spec

LEMMA ForecastsSafe == AnswersInv => ForecastsAreRight
<1> SUFFICES ASSUME AnswersInv PROVE ForecastsAreRight
  OBVIOUS
<1>1. ASSUME part = "forecast"
      PROVE  Forecast!CriticalPathExact /\ Forecast!ScenariosConsistent /\ Forecast!EstimatesSettledTogether
  <2>1. P!F!CriticalPathExact /\ P!F!ScenariosConsistent /\ P!F!EstimatesSettledTogether
    BY <1>1, TasksFit, P!ForecastIsExact, P!ScenariosAgree DEF AnswersInv
  <2> QED
    BY <2>1, ExactPath, ConsistentScenarios, SettledEstimates
<1>2. ASSUME part = "members"
      PROVE  Members!LoadsAddUp /\ Members!ManualChoicesKept /\ Members!LighterFirst
  <2>1. P!M!LoadsAddUp /\ P!M!ManualChoicesKept /\ P!M!LighterFirst
    BY <1>2, MembersFitIn, P!MembersAreRight DEF AnswersInv
  <2> QED
    BY <2>1, SameLoads, SameChoices, SameOrderOfMembers
<1>3. ASSUME part = "steward" PROVE Steward!ConclusionsRight
  BY <1>3, StewardFits, P!ReadsConclude, SameConclusions DEF AnswersInv
<1> QED
  BY <1>1, <1>2, <1>3 DEF ForecastsAreRight

(* What is computed from the tasks is right, in the composition that the run *)
(* explores: a stored forecast has the longest chain of the project and      *)
(* consistent scenarios (workload_planning.py), the projected loads of       *)
(* members are those they would carry and no manual choice is overruled      *)
(* (member_assignment.py), and a diagnosis reports the circles and the path  *)
(* there are (project_steward.py).                                          *)
THEOREM ForecastsAlwaysRight == Spec => []ForecastsAreRight
<1>1. Init => AnswersInv
  BY AnswersInit
<1>2. AnswersInv /\ [Next]_vars => AnswersInv'
  BY AnswersStep
<1>3. AnswersInv => ForecastsAreRight
  BY ForecastsSafe
<1> QED
  BY <1>1, <1>2, <1>3, PTL DEF Spec
=============================================================================
