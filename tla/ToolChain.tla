----------------------------- MODULE ToolChain -----------------------------
(* The tool chain runtime: a request is planned into a sequence of skill   *)
(* calls, the calls run one after another through the tool executor (which *)
(* retries) and the skill runtime (which asks for confirmation), and when  *)
(* a call fails the completed ones are rolled back in reverse order.       *)
(*                                                                         *)
(* A step of a plan is a record of its skill, the steps it depends on and  *)
(* its rollback strategy.  Four skills stand for all: "read" changes       *)
(* nothing, "tasks" (qtable.task.records.create) writes TasksPerStep rows  *)
(* one by one and reports them, "record" (qtable.record.create) writes one *)
(* row, "missing" is a name the registry does not know.                    *)
EXTENDS Integers, Sequences, SequencesExt, FiniteSets

CONSTANTS
    ChainPlans,     \* the plans a caller or the planning model may give
    TasksPerStep,   \* rows one "tasks" step writes
    MaxTries        \* attempts of the tool executor (retry.max_attempts)

VARIABLES
    chainRequest,   \* the flags of the request
    chainPlan,      \* the plan, a sequence of steps
    chainRun,       \* status of the ToolChainRun row
    chainStep,      \* status of each ToolChainStepRun row
    chainAt,        \* where the handler is
    chainPos,       \* the step the loop is at
    chainTry,       \* the attempt of that step
    chainDone,      \* completed_steps, in the order they completed
    chainRows,      \* rows of the table, as <<step, attempt, number>>
    chainReported   \* the rows each step's output reports

varsChain == <<chainRequest, chainPlan, chainRun, chainStep, chainAt, chainPos,
               chainTry, chainDone, chainRows, chainReported>>

Skills == {"read", "tasks", "record", "missing"}
StepStates == {"pending", "running", "completed", "failed", "skipped",
               "waiting_confirmation", "rolled_back"}
RunStates == {"none", "planning", "running", "waiting_confirmation", "completed",
              "failed", "rolling_back", "rolled_back"}

(* The flags of a ToolChainRequest that control the run. *)
Requests == [confirmed: BOOLEAN, dryRun: BOOLEAN, rollback: BOOLEAN]

Steps == DOMAIN chainPlan
Current == chainPlan[chainPos]

(* The chain the service plans by itself: analyse, describe the table and  *)
(* write the tasks, each step naming the ones before it.                   *)
FallbackPlan ==
    << [skill |-> "read", deps |-> {}, undo |-> "none"],
       [skill |-> "read", deps |-> {1}, undo |-> "none"],
       [skill |-> "tasks", deps |-> {1, 2}, undo |-> "none"] >>

InitChain ==
    /\ chainRequest \in Requests
    /\ chainPlan = <<>>
    /\ chainRun = "none" /\ chainAt = "start" /\ chainPos = 1 /\ chainTry = 1
    /\ chainStep = <<>> /\ chainReported = <<>>
    /\ chainDone = <<>> /\ chainRows = {}

(* The run row is committed before the plan is made. *)
CreateRun ==
    /\ chainAt = "start"
    /\ chainAt' = "planning" /\ chainRun' = "planning"
    /\ UNCHANGED <<chainRequest, chainPlan, chainStep, chainPos, chainTry,
                   chainDone, chainRows, chainReported>>

(* A plan given with the request, the model's plan, or the fallback when   *)
(* the model cannot be reached, fails, or plans nothing.                   *)
PlanChain ==
    /\ chainAt = "planning"
    /\ \E p \in ChainPlans \cup {FallbackPlan} : chainPlan' = p
    /\ chainRun' = "running" /\ chainAt' = "planned"
    /\ UNCHANGED <<chainRequest, chainStep, chainPos, chainTry, chainDone,
                   chainRows, chainReported>>

(* One row per step, all pending. *)
SyncStepRows ==
    /\ chainAt = "planned"
    /\ chainStep' = [s \in Steps |-> "pending"]
    /\ chainReported' = [s \in Steps |-> {}]
    /\ chainAt' = "loop"
    /\ UNCHANGED <<chainRequest, chainPlan, chainRun, chainPos, chainTry, chainDone,
                   chainRows>>

(* A name in dependsOn that is no step of the plan never is ready. (The    *)
(* weaker variant only notices failures.)                                  *)
DependencyNotFailed(d) == d \in Steps => chainStep[d] # "failed"
DependencyReady(d) == d \in Steps /\ chainStep[d] \in {"completed", "rolled_back"}
UnresolvedDeps == {d \in Current.deps : ~DependencyReady(d)}

SkipStep ==
    /\ chainAt = "loop" /\ chainPos \in Steps
    /\ UnresolvedDeps # {}
    /\ chainStep' = [chainStep EXCEPT ![chainPos] = "skipped"]
    /\ chainPos' = chainPos + 1
    /\ UNCHANGED <<chainRequest, chainPlan, chainRun, chainAt, chainTry, chainDone,
                   chainRows, chainReported>>

StartStep ==
    /\ chainAt = "loop" /\ chainPos \in Steps
    /\ UnresolvedDeps = {}
    /\ chainStep' = [chainStep EXCEPT ![chainPos] = "running"]
    /\ chainAt' = "execute" /\ chainTry' = 1
    /\ UNCHANGED <<chainRequest, chainPlan, chainRun, chainPos, chainDone, chainRows,
                   chainReported>>

(* A failure ends the loop: the step and the run are failed together. *)
FailStep ==
    /\ chainStep' = [chainStep EXCEPT ![chainPos] = "failed"]
    /\ chainRun' = "failed" /\ chainAt' = "ended"
    /\ UNCHANGED <<chainRequest, chainPlan, chainPos, chainTry, chainDone, chainRows,
                   chainReported>>

SkillNotFound ==
    /\ chainAt = "execute" /\ Current.skill = "missing"
    /\ FailStep

(* The skill runtime asks before a write that is neither confirmed nor a   *)
(* dry run; a skill without side effects never asks.                       *)
SideEffect(step) == step.skill \in {"tasks", "record"}
NeedsConfirmation(step) ==
    SideEffect(step) /\ ~chainRequest.confirmed /\ ~chainRequest.dryRun

AwaitConfirmation ==
    /\ chainAt = "execute" /\ NeedsConfirmation(Current)
    /\ chainStep' = [chainStep EXCEPT ![chainPos] = "waiting_confirmation"]
    /\ chainRun' = "waiting_confirmation" /\ chainAt' = "ended"
    /\ UNCHANGED <<chainRequest, chainPlan, chainPos, chainTry, chainDone, chainRows,
                   chainReported>>

(* The task handler writes when the request is confirmed, a dry run or     *)
(* not; the record handler never writes in a dry run.                      *)
RowsToWrite(step) ==
    CASE step.skill = "tasks"  -> IF chainRequest.confirmed THEN TasksPerStep ELSE 0
      [] step.skill = "record" -> IF chainRequest.dryRun THEN 0 ELSE 1
      [] OTHER                 -> 0

RowsOfTry == {r \in chainRows : r[1] = chainPos /\ r[2] = chainTry}

(* Each row is created and committed on its own. *)
WriteRow ==
    /\ chainAt = "execute" /\ Current.skill # "missing" /\ ~NeedsConfirmation(Current)
    /\ Cardinality(RowsOfTry) < RowsToWrite(Current)
    /\ chainRows' = chainRows \cup {<<chainPos, chainTry, Cardinality(RowsOfTry) + 1>>}
    /\ UNCHANGED <<chainRequest, chainPlan, chainRun, chainStep, chainAt, chainPos,
                   chainTry, chainDone, chainReported>>

RetryOnceMore(code) == chainTry <= MaxTries /\ code \in {"INVALID_INPUT", "EXECUTION_FAILED"}

(* Only errors of the input or the execution are retried.  A failed        *)
(* response carries no metadata, so the guard against repeating confirmed  *)
(* writes, which reads it, never applies.                                  *)
ShouldRetry(code) ==
    /\ chainTry < MaxTries
    /\ code \in {"INVALID_INPUT", "EXECUTION_FAILED"}

SkillFails ==
    /\ chainAt = "execute" /\ Current.skill # "missing" /\ ~NeedsConfirmation(Current)
    /\ \E code \in {"FORBIDDEN", "EXECUTION_FAILED"} :
         \/ /\ ShouldRetry(code)
            /\ chainTry' = chainTry + 1
            /\ UNCHANGED <<chainRequest, chainPlan, chainRun, chainStep, chainAt,
                           chainPos, chainDone, chainRows, chainReported>>
         \/ /\ ~ShouldRetry(code)
            /\ code = "FORBIDDEN" => RowsOfTry = {}    \* authorised before it runs
            /\ FailStep

(* wait_for cancels the handler: what it wrote stays written. *)
StepTimesOut ==
    /\ chainAt = "execute" /\ Current.skill # "missing" /\ ~NeedsConfirmation(Current)
    /\ FailStep

CompleteStep ==
    /\ chainAt = "execute" /\ Current.skill # "missing" /\ ~NeedsConfirmation(Current)
    /\ Cardinality(RowsOfTry) = RowsToWrite(Current)
    /\ chainStep' = [chainStep EXCEPT ![chainPos] = "completed"]
    /\ chainReported' = [chainReported EXCEPT ![chainPos] = RowsOfTry]
    /\ chainDone' = Append(chainDone, chainPos)
    /\ chainAt' = "loop" /\ chainPos' = chainPos + 1
    /\ UNCHANGED <<chainRequest, chainPlan, chainRun, chainTry, chainRows>>

(* The loop is through every step, skipped ones included. *)
LoopEnds ==
    /\ chainAt = "loop" /\ chainPos \notin Steps
    /\ chainAt' = "ended"
    /\ UNCHANGED <<chainRequest, chainPlan, chainRun, chainStep, chainPos, chainTry,
                   chainDone, chainRows, chainReported>>

RollbackWanted == chainRun = "failed" /\ chainDone # <<>> /\ chainRequest.rollback

BeginRollback ==
    /\ chainAt = "ended" /\ RollbackWanted
    /\ chainRun' = "rolling_back" /\ chainAt' = "rollback"
    /\ UNCHANGED <<chainRequest, chainPlan, chainStep, chainPos, chainTry, chainDone,
                   chainRows, chainReported>>

NextToUndo == Last(chainDone)
WithoutUndone == IF NextToUndo = Last(chainDone) THEN Front(chainDone) ELSE Tail(chainDone)

(* What undoing a step can do.  "tasks" rows are deleted by default, one   *)
(* by one, and a deletion that fails is passed over; a rollback skill may  *)
(* fail; every other step is skipped.  Only a failed rollback skill counts *)
(* as a failure.                                                           *)
UndoOutcomes(s) ==
    LET step == chainPlan[s]
        kind == IF step.undo = "none" /\ step.skill = "tasks" THEN "delete" ELSE step.undo
    IN  CASE kind = "delete" -> {[ok |-> TRUE, gone |-> g] : g \in SUBSET chainReported[s]}
          [] kind = "skill"  -> {[ok |-> b, gone |-> {}] : b \in BOOLEAN}
          [] OTHER           -> {[ok |-> TRUE, gone |-> {}]}

RollbackStep ==
    /\ chainAt = "rollback" /\ chainDone # <<>>
    /\ \E u \in UndoOutcomes(NextToUndo) :
         /\ chainStep' = [chainStep EXCEPT ![NextToUndo] = IF u.ok THEN "rolled_back" ELSE "failed"]
         /\ chainRows' = chainRows \ u.gone
    /\ chainDone' = WithoutUndone
    /\ UNCHANGED <<chainRequest, chainPlan, chainRun, chainAt, chainPos, chainTry,
                   chainReported>>

(* A failed undo of any completed step makes the run failed. *)
AllUndone == \A s \in Steps : s < chainPos => chainStep[s] # "failed"

(* The verdict of the rollback, or of the loop; the last commit of a run. *)
FinalStatus ==
    CASE chainAt = "rollback" -> IF AllUndone THEN "rolled_back" ELSE "failed"
      [] chainRun = "running" -> "completed"
      [] OTHER                -> chainRun

FinishRun ==
    /\ \/ chainAt = "ended" /\ ~RollbackWanted
       \/ chainAt = "rollback" /\ chainDone = <<>>
    /\ chainRun' = FinalStatus
    /\ chainAt' = "finished"
    /\ UNCHANGED <<chainRequest, chainPlan, chainStep, chainPos, chainTry, chainDone,
                   chainRows, chainReported>>

(* The process stops anywhere; no code takes the run up again. *)
ChainDies ==
    /\ chainAt \notin {"start", "finished", "dead"}
    /\ chainAt' = "dead"
    /\ UNCHANGED <<chainRequest, chainPlan, chainRun, chainStep, chainPos, chainTry,
                   chainDone, chainRows, chainReported>>

NextChain ==
    \/ CreateRun \/ PlanChain \/ SyncStepRows
    \/ SkipStep \/ StartStep \/ SkillNotFound \/ AwaitConfirmation
    \/ WriteRow \/ SkillFails \/ StepTimesOut \/ CompleteStep \/ LoopEnds
    \/ BeginRollback \/ RollbackStep \/ FinishRun \/ ChainDies

----------------------------------------------------------------------------
(* Every variable has a value of its type; used by the run's type check.   *)
TypeOKChain ==
    /\ chainRequest \in Requests
    /\ chainRun \in RunStates
    /\ DOMAIN chainStep \subseteq Steps /\ \A s \in DOMAIN chainStep : chainStep[s] \in StepStates
    /\ chainPos \in Nat /\ chainTry \in 1..MaxTries
    /\ ToSet(chainDone) \subseteq Steps

(* At no moment, also half way through a rollback or after the process has *)
(* died, does a completed step stand on a step that is not completed: a    *)
(* step runs after all it depends on, and is undone before any of it (the  *)
(* loop and _perform_rollback in tool_chain.py).                           *)
CompletedStandOnCompleted ==
    \A s \in DOMAIN chainStep :
        chainStep[s] = "completed" =>
            \A d \in chainPlan[s].deps : d \in Steps /\ chainStep[d] = "completed"

(* The final status of a run tells what became of its steps and of what    *)
(* they wrote: completed leaves only completed and skipped steps, rolled   *)
(* back leaves no completed one, waiting names the step that waits, and an *)
(* unconfirmed run, whatever became of it, has written nothing.            *)
RunStatusTellsTheSteps ==
    /\ ~chainRequest.confirmed => chainRows = {}
    /\ chainAt = "finished" =>
         /\ chainRun = "completed" =>
              \A s \in Steps : chainStep[s] \in {"completed", "skipped"}
         /\ chainRun = "rolled_back" =>
              /\ \A s \in Steps : chainStep[s] # "completed"
              /\ \E s \in Steps : chainStep[s] = "failed"
         /\ chainRun = "waiting_confirmation" <=>
              \E s \in Steps : chainStep[s] = "waiting_confirmation"
         /\ chainRun = "failed" => \E s \in Steps : chainStep[s] = "failed"

(* The adapter documentation promises that a confirmed write that is not   *)
(* idempotent is not tried again: the rows of a step come from one attempt. *)
ConfirmedWritesTriedOnce ==
    \A r1, r2 \in chainRows : r1[1] = r2[1] => r1[2] = r2[2]
=============================================================================
