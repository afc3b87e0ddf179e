-------------------------- MODULE MCTeamworkProofs --------------------------
(***************************************************************************)
(* The properties of the run MCTeamwork, proved from those of its           *)
(* components. TeamworkProofs is about each component for all values of its *)
(* constants; here it is instantiated with the values of the run, and what  *)
(* the run says of a component is what TeamworkProofs says of it: the        *)
(* lemmas in between only match definitions of two instances of a module.   *)
(***************************************************************************)
EXTENDS MCTeamwork, FiniteSetTheorems, TLAPS

P == INSTANCE TeamworkProofs WITH
    CommentIds <- Three, CommentedRecords <- Two, Authors <- ThreadsAuthors,
    NoComment <- Nil, ClientKeys <- ThreadsClientKeys, NoKey <- "no key",
    Writers <- Callers, MaxLog <- 3, ActivityBatch <- 2, ActivityCap <- 3,
    comment <- s1, told <- s2, activity <- s3, writing <- s4,
    ItemIds <- Two, Sources <- InboxSources, Contents <- InboxContents,
    Tables <- InboxTables, NoTable <- Nil, ClipKeys <- InboxClipKeys,
    MaxRequests <- 5, item <- s1, task <- s2,
    receipt <- s3, work <- s4, overwritten <- s5, requests <- s6,
    Users <- Callers, Nobody <- Nil, MaxChanges <- 3, RepairBatch <- 1,
    ScanWindow <- 1, MaxConnects <- 1, changes <- s1, note <- s2,
    stream <- s3, woken <- s4, connects <- s5,
    Targets <- Three, VisitTimes <- RecentsTimes, Visitors <- Callers,
    Retention <- 1, MaxVisits <- 3, visited <- s1, access <- s2,
    visiting <- s3, visits <- s4,
    ChainPlans <- Chains, TasksPerStep <- 2, MaxTries <- 2,
    chainRequest <- s1, chainPlan <- s2, chainRun <- s3, chainStep <- s4,
    chainAt <- s5, chainPos <- s6, chainTry <- s7, chainDone <- s8,
    chainRows <- s9, chainReported <- s10,
    Rules <- TriggersRules, Records <- TriggersRecords, Workers <- Callers,
    Requests <- TriggersRequests, Offset <- 1, Interval <- 1,
    ScanInterval <- 1, Window <- 1, MaxTime <- 2, MaxItems <- 2,
    MaxVersion <- 2, clock <- s1, rule <- s2, due <- s3, items <- s4,
    made <- s5, events <- s6, scan <- s7, reading <- s8, edit <- s9

LEMMA NoticesStarts == Notices!InitStream => P!N!InitStream
  BY DEF Notices!Offline, P!N!Offline, Notices!InitStream, P!N!InitStream

LEMMA NoticesSteps == Notices!NextStream => P!N!NextStream
  BY DEF Notices!Offline, P!N!Offline, Notices!Applied, P!N!Applied, Notices!Rank, P!N!Rank,
     Notices!Tells, P!N!Tells, Notices!WakeListeners, P!N!WakeListeners, Notices!Disturb,
     P!N!Disturb, Notices!WriteRecord, P!N!WriteRecord, Notices!UndoChange, P!N!UndoChange,
     Notices!StageNotification, P!N!StageNotification, Notices!Connect, P!N!Connect,
     Notices!LastPage, P!N!LastPage, Notices!NextOffset, P!N!NextOffset, Notices!PageFrom,
     P!N!PageFrom, Notices!RepairPage, P!N!RepairPage, Notices!Recent, P!N!Recent,
     Notices!SyncTable, P!N!SyncTable, Notices!SyncOnConnect, P!N!SyncOnConnect, Notices!Subscribe,
     P!N!Subscribe, Notices!HearTable, P!N!HearTable, Notices!Disconnect, P!N!Disconnect,
     Notices!MarkRead, P!N!MarkRead, Notices!MarkAllRead, P!N!MarkAllRead, Notices!NextStream,
     P!N!NextStream, Notices!Cardinality, P!N!Cardinality, Notices!IsFiniteSet, P!N!IsFiniteSet

LEMMA ThreadsStarts == Threads!InitComments => P!C!InitComments
  BY DEF Threads!Free, P!C!Free, Threads!IdleWriter, P!C!IdleWriter, Threads!InitComments,
     P!C!InitComments

LEMMA ThreadsSteps == Threads!NextComments => P!C!NextComments
  BY DEF Threads!IdleWriter, P!C!IdleWriter, Threads!Used, P!C!Used, Threads!Live, P!C!Live,
     Threads!KeyUsed, P!C!KeyUsed, Threads!ChangeRecord, P!C!ChangeRecord, Threads!BeginWriting,
     P!C!BeginWriting, Threads!ParentAllowed, P!C!ParentAllowed, Threads!BeginCreate,
     P!C!BeginCreate, Threads!BeginUpdate, P!C!BeginUpdate, Threads!BeginDelete, P!C!BeginDelete,
     Threads!Log, P!C!Log, Threads!Ends, P!C!Ends, Threads!MentionNotices, P!C!MentionNotices,
     Threads!ReplyNotices, P!C!ReplyNotices, Threads!InsertComment, P!C!InsertComment,
     Threads!Added, P!C!Added, Threads!SaveUpdate, P!C!SaveUpdate, Threads!SaveDelete,
     P!C!SaveDelete, Threads!GiveUp, P!C!GiveUp, Threads!NextComments, P!C!NextComments

LEMMA RecentsStarts == Recents!InitRecent => P!R!InitRecent
  BY DEF Recents!NotVisiting, P!R!NotVisiting, Recents!InitRecent, P!R!InitRecent

LEMMA RecentsSteps == Recents!NextRecent => P!R!NextRecent
  BY DEF Recents!NotVisiting, P!R!NotVisiting, Recents!ChangeAccess, P!R!ChangeAccess,
     Recents!NewTime, P!R!NewTime, Recents!Prunes, P!R!Prunes, Recents!BeginVisits,
     P!R!BeginVisits, Recents!UpsertTarget, P!R!UpsertTarget, Recents!ImportTargets,
     P!R!ImportTargets, Recents!CommitVisits, P!R!CommitVisits, Recents!FailVisits, P!R!FailVisits,
     Recents!RemoveVisit, P!R!RemoveVisit, Recents!NextRecent, P!R!NextRecent, Recents!Cardinality,
     P!R!Cardinality, Recents!IsFiniteSet, P!R!IsFiniteSet

LEMMA InboxStarts == Inbox!InitInbox => P!I!InitInbox
  BY DEF Inbox!NoItem, P!I!NoItem, Inbox!NoReceipt, P!I!NoReceipt, Inbox!Waiting, P!I!Waiting,
     Inbox!InitInbox, P!I!InitInbox

LEMMA InboxSteps == Inbox!NextInbox => P!I!NextInbox
  BY DEF Inbox!NoItem, P!I!NoItem, Inbox!NoReceipt, P!I!NoReceipt, Inbox!Waiting, P!I!Waiting,
     Inbox!Items, P!I!Items, Inbox!ItemOf, P!I!ItemOf, Inbox!Starts, P!I!Starts, Inbox!Ends,
     P!I!Ends, Inbox!LockedItems, P!I!LockedItems, Inbox!NewTask, P!I!NewTask, Inbox!BeginIngest,
     P!I!BeginIngest, Inbox!Ingested, P!I!Ingested, Inbox!CommitIngest, P!I!CommitIngest,
     Inbox!BeginPreview, P!I!BeginPreview, Inbox!CommitPreview, P!I!CommitPreview,
     Inbox!BeginConvert, P!I!BeginConvert, Inbox!CommitConvert, P!I!CommitConvert,
     Inbox!BeginUpdateStatus, P!I!BeginUpdateStatus, Inbox!CommitUpdateStatus,
     P!I!CommitUpdateStatus, Inbox!BeginClip, P!I!BeginClip, Inbox!CommitClip, P!I!CommitClip,
     Inbox!FailRequest, P!I!FailRequest, Inbox!MutableStatuses, P!I!MutableStatuses,
     Inbox!NextInbox, P!I!NextInbox, Inbox!Cardinality, P!I!Cardinality, Inbox!IsFiniteSet,
     P!I!IsFiniteSet

LEMMA ChainStarts == Chain!InitChain => P!T!InitChain
  BY DEF Chain!Requests, P!T!Requests, Chain!InitChain, P!T!InitChain

LEMMA ChainSteps == Chain!NextChain => P!T!NextChain
  BY DEF Chain!Steps, P!T!Steps, Chain!Current, P!T!Current, Chain!FallbackPlan, P!T!FallbackPlan,
     Chain!CreateRun, P!T!CreateRun, Chain!PlanChain, P!T!PlanChain, Chain!SyncStepRows,
     P!T!SyncStepRows, Chain!DependencyReady, P!T!DependencyReady, Chain!UnresolvedDeps,
     P!T!UnresolvedDeps, Chain!SkipStep, P!T!SkipStep, Chain!StartStep, P!T!StartStep,
     Chain!FailStep, P!T!FailStep, Chain!SkillNotFound, P!T!SkillNotFound, Chain!SideEffect,
     P!T!SideEffect, Chain!NeedsConfirmation, P!T!NeedsConfirmation, Chain!AwaitConfirmation,
     P!T!AwaitConfirmation, Chain!RowsToWrite, P!T!RowsToWrite, Chain!RowsOfTry, P!T!RowsOfTry,
     Chain!WriteRow, P!T!WriteRow, Chain!ShouldRetry, P!T!ShouldRetry, Chain!SkillFails,
     P!T!SkillFails, Chain!StepTimesOut, P!T!StepTimesOut, Chain!CompleteStep, P!T!CompleteStep,
     Chain!LoopEnds, P!T!LoopEnds, Chain!RollbackWanted, P!T!RollbackWanted, Chain!BeginRollback,
     P!T!BeginRollback, Chain!NextToUndo, P!T!NextToUndo, Chain!WithoutUndone, P!T!WithoutUndone,
     Chain!UndoOutcomes, P!T!UndoOutcomes, Chain!RollbackStep, P!T!RollbackStep, Chain!AllUndone,
     P!T!AllUndone, Chain!FinalStatus, P!T!FinalStatus, Chain!FinishRun, P!T!FinishRun,
     Chain!ChainDies, P!T!ChainDies, Chain!NextChain, P!T!NextChain, Chain!Cardinality,
     P!T!Cardinality, Chain!IsFiniteSet, P!T!IsFiniteSet, Chain!Last, P!T!Last, Chain!Front,
     P!T!Front

LEMMA TriggersStarts == Triggers!InitSources => P!InitSources
  BY DEF Triggers!NoTime, P!NoTime, Triggers!NoScan, P!NoScan, Triggers!NoEdit, P!NoEdit,
     Triggers!NoRule, P!NoRule, Triggers!InitSources, P!InitSources

LEMMA TriggersSteps == Triggers!NextSources => P!NextSources
  BY DEF Triggers!NoTime, P!NoTime, Triggers!NoScan, P!NoScan, Triggers!NoEdit, P!NoEdit,
     Triggers!NoRule, P!NoRule, Triggers!Locked, P!Locked, Triggers!Tick, P!Tick,
     Triggers!WriteRecord, P!WriteRecord, Triggers!DeleteRecord, P!DeleteRecord, Triggers!Schedule,
     P!Schedule, Triggers!CreateRule, P!CreateRule, Triggers!BeginEditRule, P!BeginEditRule,
     Triggers!WriteChanged, P!WriteChanged, Triggers!Edited, P!Edited, Triggers!SaveEditRule,
     P!SaveEditRule, Triggers!DueRules, P!DueRules, Triggers!BeginScan, P!BeginScan,
     Triggers!EventId, P!EventId, Triggers!EventOf, P!EventOf, Triggers!Reminds, P!Reminds,
     Triggers!ScanEvents, P!ScanEvents, Triggers!AdvanceNextRun, P!AdvanceNextRun,
     Triggers!CommitScan, P!CommitScan, Triggers!Unmade, P!Unmade, Triggers!ReadWindow,
     P!ReadWindow, Triggers!BeginMaterialize, P!BeginMaterialize, Triggers!Queued, P!Queued,
     Triggers!CommitMaterialize, P!CommitMaterialize, Triggers!StopWorker, P!StopWorker,
     Triggers!NextSources, P!NextSources, Triggers!Cardinality, P!Cardinality

LEMMA ThreadsSound == P!C!ThreadsAreSound => Threads!ThreadsAreSound
BY DEF Threads!Used, P!C!Used, Threads!ThreadsAreSound, P!C!ThreadsAreSound

LEMMA InboxCaptures == P!I!CapturedOnce => Inbox!CapturedOnce
BY DEF Inbox!NoItem, P!I!NoItem, Inbox!Items, P!I!Items, Inbox!ItemOf, P!I!ItemOf,
       Inbox!CapturedOnce, P!I!CapturedOnce, Inbox!Cardinality, P!I!Cardinality, Inbox!IsFiniteSet,
       P!I!IsFiniteSet

LEMMA TriggersOnce == P!AnnouncedOnce => Triggers!AnnouncedOnce
BY DEF Triggers!NoTime, P!NoTime, Triggers!NoRule, P!NoRule, Triggers!AnnouncedOnce,
       P!AnnouncedOnce, Triggers!Cardinality, P!Cardinality

LEMMA ChainStands == P!T!CompletedStandOnCompleted => Chain!CompletedStandOnCompleted
BY DEF Chain!Steps, P!T!Steps, Chain!CompletedStandOnCompleted, P!T!CompletedStandOnCompleted,
       Chain!Cardinality, P!T!Cardinality, Chain!IsFiniteSet, P!T!IsFiniteSet, Chain!Last,
       P!T!Last, Chain!Front, P!T!Front

LEMMA ChainTells == P!T!RunStatusTellsTheSteps => Chain!RunStatusTellsTheSteps
BY DEF Chain!Steps, P!T!Steps, Chain!RunStatusTellsTheSteps, P!T!RunStatusTellsTheSteps,
       Chain!Cardinality, P!T!Cardinality, Chain!IsFiniteSet, P!T!IsFiniteSet, Chain!Last,
       P!T!Last, Chain!Front, P!T!Front

LEMMA NotesForward == P!NotesForward => Notices!NotesOnlyMoveForwardStep
BY DEF Notices!Tells, P!N!Tells, Notices!NotesOnlyMoveForwardStep, P!N!NotesOnlyMoveForwardStep,
       Notices!Cardinality, P!N!Cardinality, Notices!IsFiniteSet, P!N!IsFiniteSet, P!NotesForward

LEMMA DeletedStay == P!C!DeletedForGoodStep => Threads!DeletedForGoodStep
BY DEF Threads!Used, P!C!Used, Threads!DeletedForGoodStep, P!C!DeletedForGoodStep

LEMMA OffSilent == P!OffRulesSilentStep => Triggers!OffRulesSilentStep
BY DEF Triggers!OffRulesSilentStep, P!OffRulesSilentStep, Triggers!Cardinality, P!Cardinality

LEMMA NoticesTypes == P!N!TypeOKStream => Notices!TypeOKStream
BY DEF Notices!TypeOKStream, P!N!TypeOKStream, Notices!Cardinality, P!N!Cardinality,
       Notices!IsFiniteSet, P!N!IsFiniteSet

LEMMA ThreadsTypes == P!C!TypeOKComments => Threads!TypeOKComments
BY DEF Threads!TypeOKComments, P!C!TypeOKComments

LEMMA RecentsTypes == P!R!TypeOKRecent => Recents!TypeOKRecent
BY DEF Recents!TypeOKRecent, P!R!TypeOKRecent, Recents!Cardinality, P!R!Cardinality,
       Recents!IsFiniteSet, P!R!IsFiniteSet

LEMMA InboxTypes == P!I!TypeOKInbox => Inbox!TypeOKInbox
BY DEF Inbox!MutableStatuses, P!I!MutableStatuses, Inbox!TypeOKInbox, P!I!TypeOKInbox,
       Inbox!Cardinality, P!I!Cardinality, Inbox!IsFiniteSet, P!I!IsFiniteSet

LEMMA ChainTypes == P!T!TypeOKChain => Chain!TypeOKChain
BY DEF Chain!StepStates, P!T!StepStates, Chain!RunStates, P!T!RunStates, Chain!Requests,
       P!T!Requests, Chain!Steps, P!T!Steps, Chain!TypeOKChain, P!T!TypeOKChain, Chain!Cardinality,
       P!T!Cardinality, Chain!IsFiniteSet, P!T!IsFiniteSet, Chain!Last, P!T!Last, Chain!Front,
       P!T!Front, Chain!ToSet, P!T!ToSet

LEMMA RepairMisses == P!N!RepairMissesNothing => Notices!RepairMissesNothing
BY DEF Notices!Tells, P!N!Tells, Notices!RepairMissesNothing, P!N!RepairMissesNothing,
       Notices!Cardinality, P!N!Cardinality, Notices!IsFiniteSet, P!N!IsFiniteSet

LEMMA PagesAreWhole == P!C!ActivityPagesComplete => Threads!ActivityPagesComplete
BY DEF Threads!IdleWriter, P!C!IdleWriter, Threads!Newest, P!C!Newest, Threads!ShownAt,
       P!C!ShownAt, Threads!Shown, P!C!Shown, Threads!PageFull, P!C!PageFull, Threads!Stop,
       P!C!Stop, Threads!HasMore, P!C!HasMore, Threads!AllPages, P!C!AllPages,
       Threads!ListRecordActivity, P!C!ListRecordActivity, Threads!ActivitySection,
       P!C!ActivitySection, Threads!OnceInOrder, P!C!OnceInOrder, Threads!ActivityPagesComplete,
       P!C!ActivityPagesComplete, Threads!Reverse, P!C!Reverse, Threads!ToSet, P!C!ToSet,
       Threads!Cardinality, P!C!Cardinality, Threads!IsFiniteSet, P!C!IsFiniteSet

LEMMA RecentsStayBounded == P!R!RecentsBounded => Recents!RecentsBounded
BY DEF Recents!Stored, P!R!Stored, Recents!RecentsBounded, P!R!RecentsBounded, Recents!Cardinality,
       P!R!Cardinality, Recents!IsFiniteSet, P!R!IsFiniteSet

LEMMA TriggersTypes == P!TypeOKSources => Triggers!TypeOKSources
BY DEF Triggers!NoTime, P!NoTime, Triggers!TypeOKSources, P!TypeOKSources, Triggers!Cardinality,
       P!Cardinality

-----------------------------------------------------------------------------
(* The values of the constants are ones the theorems are about: the keys of  *)
(* the clipper are not ids of items, the plans are lists, and the callers    *)
(* and the targets are finitely many.                                       *)

NamesDiffer == "k" \notin Two

LEMMA ValuesFit ==
  ASSUME NamesDiffer
  PROVE  /\ P!Times /\ P!VersionsStart /\ P!KeysAreNoItems /\ P!PagesAreCounted /\ P!VisitsAreTimed
         /\ P!ChainsAreLists
<1>1. P!Times /\ P!VersionsStart /\ P!PagesAreCounted
  BY DEF P!Times, P!VersionsStart, P!PagesAreCounted
<1>2. P!KeysAreNoItems
  BY DEF NamesDiffer, P!KeysAreNoItems, InboxClipKeys
<1>3. IsFiniteSet(Callers) /\ IsFiniteSet(Three)
  <2>1. Callers = {w1} \cup {w2} /\ Three = {a1} \cup {a2} \cup {a3}
    BY DEF Callers, Three
  <2> QED
    BY <2>1, FS_Singleton, FS_Union
<1>4. P!VisitsAreTimed
  <2>1. \A S : P!IsFiniteSet(S) <=> IsFiniteSet(S)
    BY DEF P!IsFiniteSet, IsFiniteSet
  <2> QED
    BY <1>3, <2>1 DEF P!VisitsAreTimed, RecentsTimes
<1>5. P!ChainsAreLists
  <2>1. \A p \in Chains : DOMAIN p = 1..2 \/ DOMAIN p = 1..3
    BY DEF Chains
  <2>2. \A p \in Chains : \E n \in Nat : DOMAIN p = 1..n
    <3>1. 2 \in Nat /\ 3 \in Nat
      OBVIOUS
    <3> QED
      BY <2>1, <3>1, Zenon
  <2> QED
    BY <2>2 DEF P!ChainsAreLists
<1> QED
  BY <1>1, <1>2, <1>4, <1>5

(* The component that steps keeps its invariant. *)
TeamworkInv ==
    /\ part \in {"notices", "comments", "recents", "inbox", "chain", "triggers"}
    /\ part = "notices" => P!NoteInv
    /\ part = "comments" => P!CommentsInv /\ P!NoticesTyped /\ P!ActivityListed
    /\ part = "recents" => P!VisitInv
    /\ part = "inbox" => P!InboxInv /\ P!TasksPlaced
    /\ part = "chain" => P!ChainInv
    /\ part = "triggers" => P!SourcesInv /\ P!SourcesTyped

LEMMA TeamworkInit == NamesDiffer /\ Init => TeamworkInv
<1> SUFFICES ASSUME NamesDiffer, Init PROVE TeamworkInv
  OBVIOUS
<1>1. CASE part = "notices" /\ Notices!InitStream
  BY <1>1, ValuesFit, NoticesStarts, P!NoteInit DEF TeamworkInv
<1>2. CASE part = "comments" /\ Threads!InitComments
  BY <1>2, ThreadsStarts, P!CommentsInit, P!CommentsListedInit DEF TeamworkInv
<1>3. CASE part = "recents" /\ Recents!InitRecent
  BY <1>3, ValuesFit, RecentsStarts, P!VisitInit DEF TeamworkInv
<1>4. CASE part = "inbox" /\ Inbox!InitInbox
  BY <1>4, InboxStarts, P!InboxInit DEF TeamworkInv, P!TasksPlaced, P!I!InitInbox
<1>5. CASE part = "chain" /\ Chain!InitChain
  BY <1>5, ValuesFit, ChainStarts, P!ChainInit DEF TeamworkInv
<1>6. CASE part = "triggers" /\ Triggers!InitSources
  BY <1>6, ValuesFit, TriggersStarts, P!SourcesInit, P!SourcesTypedInit DEF TeamworkInv
<1> QED
  BY <1>1, <1>2, <1>3, <1>4, <1>5, <1>6 DEF Init

(* A step is one of the component, or leaves its variables alone. *)
LEMMA OneComponentSteps ==
  ASSUME [Next]_vars
  PROVE  /\ part' = part
         /\ part = "notices" => [P!N!NextStream]_(P!N!varsStream)
         /\ part = "comments" => [P!C!NextComments]_(P!C!varsComments)
         /\ part = "recents" => [P!R!NextRecent]_(P!R!varsRecent)
         /\ part = "inbox" => [P!I!NextInbox]_(P!I!varsInbox)
         /\ part = "chain" => [P!T!NextChain]_(P!T!varsChain)
         /\ part = "triggers" => [P!NextSources]_(P!varsSources)
<1>1. CASE Next
  BY <1>1, NoticesSteps, ThreadsSteps, RecentsSteps, InboxSteps, ChainSteps, TriggersSteps DEF Next
<1>2. CASE UNCHANGED vars
  BY <1>2 DEF vars, P!N!varsStream, P!C!varsComments, P!R!varsRecent, P!I!varsInbox,
     P!T!varsChain, P!varsSources
<1> QED
  BY <1>1, <1>2

LEMMA TeamworkStep ==
  ASSUME NamesDiffer, TeamworkInv, [Next]_vars
  PROVE  /\ TeamworkInv'
         /\ part = "notices" => Notices!NotesOnlyMoveForwardStep
         /\ part = "comments" => Threads!DeletedForGoodStep
         /\ part = "triggers" => Triggers!OffRulesSilentStep
<1>1. part' = part
  BY OneComponentSteps
<1>2. ASSUME part = "notices" PROVE P!NoteInv' /\ Notices!NotesOnlyMoveForwardStep
  BY <1>2, ValuesFit, OneComponentSteps, P!NoteStep, NotesForward DEF TeamworkInv
<1>3. ASSUME part = "comments" PROVE /\ P!CommentsInv' /\ P!NoticesTyped' /\ P!ActivityListed'
                                           /\ Threads!DeletedForGoodStep
  BY <1>3, OneComponentSteps, P!CommentsStep, P!NoticesKept, P!ActivityKept, DeletedStay DEF TeamworkInv
<1>4. ASSUME part = "recents" PROVE P!VisitInv'
  BY <1>4, ValuesFit, OneComponentSteps, P!VisitStep DEF TeamworkInv
<1>5. ASSUME part = "inbox" PROVE P!InboxInv' /\ P!TasksPlaced'
  BY <1>5, ValuesFit, OneComponentSteps, P!InboxStep, P!TasksStayPlaced DEF TeamworkInv
<1>6. ASSUME part = "chain" PROVE P!ChainInv'
  BY <1>6, ValuesFit, OneComponentSteps, P!ChainNext DEF TeamworkInv
<1>7. ASSUME part = "triggers"
      PROVE  P!SourcesInv' /\ P!SourcesTyped' /\ Triggers!OffRulesSilentStep
  BY <1>7, ValuesFit, OneComponentSteps, P!SourcesStep, P!SourcesTypedStep, OffSilent DEF TeamworkInv
<1> QED
  BY <1>1, <1>2, <1>3, <1>4, <1>5, <1>6, <1>7 DEF TeamworkInv

(* The invariants of the run, of what each component promises. *)
LEMMA TeamworkSafe ==
  ASSUME NamesDiffer, TeamworkInv
  PROVE  OnceEach /\ ChainsTellTheTruth /\ BatchesMissNothing /\ TeamworkTypes
<1>1. OnceEach
  BY ValuesFit, P!InboxCaptures, P!SourcesSafe, ThreadsSound, InboxCaptures, TriggersOnce
     DEF TeamworkInv, P!CommentsInv, OnceEach
<1>2. ChainsTellTheTruth
  BY P!ChainSafe, ChainStands, ChainTells DEF TeamworkInv, ChainsTellTheTruth
<1>3. TeamworkTypes
  <2>1. part = "notices" => Notices!TypeOKStream
    BY ValuesFit, P!NoteSafe, NoticesTypes DEF TeamworkInv
  <2>2. part = "comments" => Threads!TypeOKComments
    BY P!CommentTypes, ThreadsTypes DEF TeamworkInv
  <2>3. part = "recents" => Recents!TypeOKRecent
    BY ValuesFit, P!VisitSafe, RecentsTypes DEF TeamworkInv
  <2>4. part = "inbox" => Inbox!TypeOKInbox
    BY P!InboxTyped, InboxTypes DEF TeamworkInv
  <2>5. part = "chain" => Chain!TypeOKChain
    BY P!ChainTyped, ChainTypes DEF TeamworkInv
  <2>6. part = "triggers" => Triggers!TypeOKSources
    BY P!SourcesTypedSafe, TriggersTypes DEF TeamworkInv
  <2> QED
    BY <2>1, <2>2, <2>3, <2>4, <2>5, <2>6 DEF TeamworkTypes
<1>4. BatchesMissNothing
  <2>1. part = "notices" => Notices!RepairMissesNothing
    BY ValuesFit, P!NoteSafe, RepairMisses DEF TeamworkInv
  <2>2. part = "comments" => Threads!ActivityPagesComplete
    BY P!PagesComplete, PagesAreWhole DEF TeamworkInv
  <2>3. part = "recents" => Recents!RecentsBounded
    BY ValuesFit, P!VisitSafe, RecentsStayBounded DEF TeamworkInv
  <2> QED
    BY <2>1, <2>2, <2>3 DEF BatchesMissNothing
<1> QED
  BY <1>1, <1>2, <1>3, <1>4

(* Whatever requests overlap, stop or are repeated, every part of the run    *)
(* keeps its rows, requests and reads in their types (notifications,        *)
(* comments, recent targets, inbox, tool chains, automation sources).       *)
THEOREM ValuesKeepTheirTypes == NamesDiffer /\ Spec => []TeamworkTypes
<1> SUFFICES ASSUME NamesDiffer PROVE Spec => []TeamworkTypes
  OBVIOUS
<1>1. Init => TeamworkInv
  BY TeamworkInit
<1>2. TeamworkInv /\ [Next]_vars => TeamworkInv'
  BY TeamworkStep
<1>3. TeamworkInv => TeamworkTypes
  BY TeamworkSafe
<1> QED
  BY <1>1, <1>2, <1>3, PTL DEF Spec

(* What is asked for once happens once: comments, captured sources and the   *)
(* events of schedules and reminders, in the composition that the run        *)
(* explores.                                                                *)
THEOREM AskedOnceHappensOnce == NamesDiffer /\ Spec => []OnceEach
<1> SUFFICES ASSUME NamesDiffer PROVE Spec => []OnceEach
  OBVIOUS
<1>1. Init => TeamworkInv
  BY TeamworkInit
<1>2. TeamworkInv /\ [Next]_vars => TeamworkInv'
  BY TeamworkStep
<1>3. TeamworkInv => OnceEach
  BY TeamworkSafe
<1> QED
  BY <1>1, <1>2, <1>3, PTL DEF Spec

(* Readers that work in batches miss nothing: the repair of a notification   *)
(* stream, the pages of an activity list and the stored recent targets, in  *)
(* the composition that the run explores.                                   *)
THEOREM BatchesReadEverything == NamesDiffer /\ Spec => []BatchesMissNothing
<1> SUFFICES ASSUME NamesDiffer PROVE Spec => []BatchesMissNothing
  OBVIOUS
<1>1. Init => TeamworkInv
  BY TeamworkInit
<1>2. TeamworkInv /\ [Next]_vars => TeamworkInv'
  BY TeamworkStep
<1>3. TeamworkInv => BatchesMissNothing
  BY TeamworkSafe
<1> QED
  BY <1>1, <1>2, <1>3, PTL DEF Spec

(* A tool chain reports what happened to its steps and rows, in the          *)
(* composition that the run explores.                                       *)
THEOREM ToolChainsTellTheTruth == NamesDiffer /\ Spec => []ChainsTellTheTruth
<1> SUFFICES ASSUME NamesDiffer PROVE Spec => []ChainsTellTheTruth
  OBVIOUS
<1>1. Init => TeamworkInv
  BY TeamworkInit
<1>2. TeamworkInv /\ [Next]_vars => TeamworkInv'
  BY TeamworkStep
<1>3. TeamworkInv => ChainsTellTheTruth
  BY TeamworkSafe
<1> QED
  BY <1>1, <1>2, <1>3, PTL DEF Spec

(* What is over stays over: read notifications, deleted comments and rules   *)
(* that are off, in the composition that the run explores.                  *)
THEOREM WhatIsOverStaysOver == NamesDiffer /\ Spec => NothingComesBack
<1> SUFFICES ASSUME NamesDiffer PROVE Spec => NothingComesBack
  OBVIOUS
<1> DEFINE Forward == /\ part = "notices" => Notices!NotesOnlyMoveForwardStep
                      /\ part = "comments" => Threads!DeletedForGoodStep
                      /\ part = "triggers" => Triggers!OffRulesSilentStep
<1>1. Init => TeamworkInv
  BY TeamworkInit
<1>2. TeamworkInv /\ [Next]_vars => TeamworkInv' /\ [Forward]_vars
  BY TeamworkStep
<1>3. NothingComesBack <=> [][Forward]_vars
  BY DEF NothingComesBack
<1> HIDE DEF Forward
<1> QED
  BY <1>1, <1>2, <1>3, PTL DEF Spec
=============================================================================
