----------------------------- MODULE MCTeamwork ------------------------------
(***************************************************************************)
(* What people and workers do at the same time: notifications, comments,   *)
(* recent targets, captured sources, tool chains and automation triggers.  *)
(* Init chooses a component and only that one steps: its variables are the *)
(* slots s1, s2, ... in the order of its own vars. The components of this  *)
(* run share no variable, so each is checked exactly as if alone; the      *)
(* properties say component by component what must hold.                   *)
(***************************************************************************)
EXTENDS Naturals, TLC

CONSTANTS a1, a2, a3, b1, b2, c1, c2, w1, w2, Nil

VARIABLES
    part,   \* the component this behaviour is about
    s1, s2, s3, s4, s5, s6, s7, s8, s9, s10   \* its variables, in the order of its vars; "-" beyond

vars == <<part,
          s1, s2, s3, s4, s5, s6, s7, s8, s9, s10>>

Three == {a1, a2, a3}
Two == {b1, b2}
Callers == {w1, w2}   \* users, requests or workers that run at a time
Symmetry == Permutations(Three) \cup Permutations(Two) \cup Permutations(Callers)

ChainStep(skill, deps, undo) == [skill |-> skill, deps |-> deps, undo |-> undo]
Chains == [1..2 -> {ChainStep(s, d, "skill") : s \in {"read", "tasks", "record", "missing"},
                                               d \in {{}, {1}, {2}, {9}}}]
   \cup [1..3 -> {ChainStep("tasks", d, u) : d \in {{}, {1}}, u \in {"none", "skill"}}]

Notices == INSTANCE NotificationStream WITH
    Users <- Callers, Nobody <- Nil, MaxChanges <- 3, RepairBatch <- 1,
    ScanWindow <- 1, MaxConnects <- 1, changes <- s1, note <- s2,
    stream <- s3, woken <- s4, connects <- s5
ThreadsAuthors == {c1}
ThreadsClientKeys == {"k"}
Threads == INSTANCE Comments WITH
    CommentIds <- Three, Records <- Two, Authors <- ThreadsAuthors,
    NoComment <- Nil, ClientKeys <- ThreadsClientKeys, NoKey <- "no key",
    Writers <- Callers, MaxLog <- 3, ActivityBatch <- 2, ActivityCap <- 3,
    comment <- s1, told <- s2, activity <- s3, writing <- s4
RecentsTimes == {1, 2}
Recents == INSTANCE RecentTargets WITH
    Targets <- Three, Times <- RecentsTimes, Visitors <- Callers,
    Retention <- 1, MaxVisits <- 3, visited <- s1, access <- s2,
    visiting <- s3, visits <- s4
InboxSources == {"s1", "s2"}
InboxContents == {"c"}
InboxTables == {"t1", "t2"}
InboxClipKeys == {"k"}
Inbox == INSTANCE SourceInbox WITH
    ItemIds <- Two, Sources <- InboxSources, Contents <- InboxContents,
    Tables <- InboxTables, NoTable <- Nil, ClipKeys <- InboxClipKeys,
    Workers <- Callers, MaxRequests <- 5, item <- s1, task <- s2,
    receipt <- s3, work <- s4, overwritten <- s5, requests <- s6
Chain == INSTANCE ToolChain WITH
    ChainPlans <- Chains, TasksPerStep <- 2, MaxTries <- 2,
    chainRequest <- s1, chainPlan <- s2, chainRun <- s3, chainStep <- s4,
    chainAt <- s5, chainPos <- s6, chainTry <- s7, chainDone <- s8,
    chainRows <- s9, chainReported <- s10
TriggersRules == {c1}
TriggersRecords == {c2}
TriggersRequests == {"q"}
Triggers == INSTANCE AutomationSources WITH
    Rules <- TriggersRules, Records <- TriggersRecords, Workers <- Callers,
    Requests <- TriggersRequests, Offset <- 1, Interval <- 1,
    ScanInterval <- 1, Window <- 1, MaxTime <- 2, MaxItems <- 2,
    MaxVersion <- 2, clock <- s1, rule <- s2, due <- s3, items <- s4,
    made <- s5, events <- s6, scan <- s7, reading <- s8, edit <- s9

\* The slots from the n-th on hold nothing.
Unused(n) ==
    /\ 1 >= n => s1 = "-"
    /\ 2 >= n => s2 = "-"
    /\ 3 >= n => s3 = "-"
    /\ 4 >= n => s4 = "-"
    /\ 5 >= n => s5 = "-"
    /\ 6 >= n => s6 = "-"
    /\ 7 >= n => s7 = "-"
    /\ 8 >= n => s8 = "-"
    /\ 9 >= n => s9 = "-"
    /\ 10 >= n => s10 = "-"

Init ==
    \/ part = "notices" /\ Notices!InitStream /\ Unused(6)
    \/ part = "comments" /\ Threads!InitComments /\ Unused(5)
    \/ part = "recents" /\ Recents!InitRecent /\ Unused(5)
    \/ part = "inbox" /\ Inbox!InitInbox /\ Unused(7)
    \/ part = "chain" /\ Chain!InitChain
    \/ part = "triggers" /\ Triggers!InitSources /\ Unused(10)

Next ==
    \/ part = "notices" /\ Notices!NextStream /\ UNCHANGED <<part, s6, s7, s8, s9, s10>>
    \/ part = "comments" /\ Threads!NextComments /\ UNCHANGED <<part, s5, s6, s7, s8, s9, s10>>
    \/ part = "recents" /\ Recents!NextRecent /\ UNCHANGED <<part, s5, s6, s7, s8, s9, s10>>
    \/ part = "inbox" /\ Inbox!NextInbox /\ UNCHANGED <<part, s7, s8, s9, s10>>
    \/ part = "chain" /\ Chain!NextChain /\ UNCHANGED part
    \/ part = "triggers" /\ Triggers!NextSources /\ UNCHANGED <<part, s10>>

Spec == Init /\ [][Next]_vars

(* Every component keeps its types: statuses are ones the code writes, and *)
(* rows refer to rows of the right kind.                                   *)
TeamworkTypes ==
    /\ part = "notices" => Notices!TypeOKStream
    /\ part = "comments" => Threads!TypeOKComments
    /\ part = "recents" => Recents!TypeOKRecent
    /\ part = "inbox" => Inbox!TypeOKInbox
    /\ part = "chain" => Chain!TypeOKChain
    /\ part = "triggers" => Triggers!TypeOKSources

(* What is asked for once happens once, however requests are repeated and  *)
(* overlap: a comment per client key, in a sound thread (comments.py); a   *)
(* record per capture and per clip (source_inbox.py, clipper.py); an event *)
(* per slot of a schedule, per reminder and per change (scheduler.py,      *)
(* events.py).                                                             *)
OnceEach ==
    /\ part = "comments" => Threads!ThreadsAreSound
    /\ part = "inbox" => Inbox!CapturedOnce
    /\ part = "triggers" => Triggers!AnnouncedOnce

(* Readers that work in batches miss nothing: the repair of a stream has   *)
(* told of each assignment it passed (assignment_repair.py), the pages of  *)
(* an activity list are the activity (activity.py), and the stored recent  *)
(* targets stay within their retention (my_work.py).                       *)
BatchesMissNothing ==
    /\ part = "notices" => Notices!RepairMissesNothing
    /\ part = "comments" => Threads!ActivityPagesComplete
    /\ part = "recents" => Recents!RecentsBounded

(* A tool chain reports what happened: a completed step stands on          *)
(* completed steps, and the status of the run agrees with its steps and    *)
(* with the rows a rollback leaves (tool_chain.py).                        *)
ChainsTellTheTruth ==
    part = "chain" => Chain!CompletedStandOnCompleted /\ Chain!RunStatusTellsTheSteps

(* What is over stays over: a notification that was read is not unread     *)
(* again (notifications.py), a deleted comment stays deleted although an   *)
(* edit that read it before is written after (comments.py), and a rule     *)
(* that is off makes no event however that overlaps a scan (scheduler.py). *)
NothingComesBack ==
    [][/\ part = "notices" => Notices!NotesOnlyMoveForwardStep
       /\ part = "comments" => Threads!DeletedForGoodStep
       /\ part = "triggers" => Triggers!OffRulesSilentStep]_vars

=============================================================================
